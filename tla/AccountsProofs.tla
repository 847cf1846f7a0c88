--------------------------- MODULE AccountsProofs ---------------------------
(***************************************************************************)
(* Proofs about accounts, invites and the purge, for every number of       *)
(* users, processes and invites and every cap.                             *)
(***************************************************************************)
EXTENDS AccountsProperties, FiniteSetTheorems, TLAPS

-----------------------------------------------------------------------------
(* A process whose handler moves on is still in the middle of a handler;   *)
(* idle, one that lists workspaces and one that invites are handlers.      *)
LEMMA HandlerUpdate ==
    /\ Idle \in Handler
    /\ \A o \in Users : [Idle EXCEPT !.pc = "invite", !.org = {o}] \in Handler
    /\ \A S \in SUBSET Users : [Idle EXCEPT !.pc = "check", !.todo = S] \in Handler
    /\ \A p \in Procs, new \in Handler :
          SetProc(p, new) /\ proc \in [Procs -> Handler] => proc' \in [Procs -> Handler]
BY DEF Idle, Handler, SetProc

(* Every handler keeps the shape of the tables and of the processes.       *)
LEMMA TypeInductive ==
    /\ Init => TypeOK
    /\ TypeOK /\ [Next]_vars => TypeOK'
<1>1. Init => TypeOK
  BY DEF Init, TypeOK, OrgStatus, NoInvite, InviteRow, Handler, Idle
<1>2. ASSUME TypeOK, [Next]_vars PROVE TypeOK'
  <2>1. ASSUME NEW p \in Procs, NEW u \in Users, CreateGuest(p, u) PROVE TypeOK'
    BY <1>2, <2>1 DEF CreateGuest, Provision, TypeOK, OrgStatus, GuestOrg
  <2>2. ASSUME NEW p \in Procs, NEW u \in Users, FreshAccount(p, u) PROVE TypeOK'
    BY <1>2, <2>2 DEF FreshAccount, Provision, TypeOK, OrgStatus
  <2>3. ASSUME NEW p \in Procs, NEW u \in Users, SignupStart(p, u) PROVE TypeOK'
    BY <1>2, <2>3 DEF SignupStart, TypeOK
  <2>4. ASSUME NEW p \in Procs, NEW u \in Users, SignupUpgrade(p, u) PROVE TypeOK'
    BY <1>2, <2>4 DEF SignupUpgrade, SignupEnds, TypeOK
  <2>5. ASSUME NEW p \in Procs, NEW u \in Users, NEW v \in Users, SignupFresh(p, u, v)
        PROVE  TypeOK'
    BY <1>2, <2>5 DEF SignupFresh, SignupEnds, Provision, TypeOK, OrgStatus
  <2>6. ASSUME NEW p \in Procs, NEW u \in Users, NEW o \in Users, Upload(p, u, o)
        PROVE  TypeOK'
    BY <1>2, <2>6 DEF Upload, TypeOK
  <2>7. ASSUME NEW p \in Procs, NEW u \in Users, NEW o \in Users, InviteRead(p, u, o)
        PROVE  TypeOK'
    BY <1>2, <2>7, HandlerUpdate DEF InviteRead, TypeOK
  <2>8. ASSUME NEW p \in Procs, NEW t \in Tokens, InviteWrite(p, t) PROVE TypeOK'
    <3>1. proc[p] \in Handler
      BY <1>2 DEF TypeOK
    <3>2. [org |-> proc[p].org, open |-> TRUE, takers |-> {}] \in InviteRow
      BY <3>1 DEF InviteRow, Handler
    <3>3. invites' \in [Tokens -> InviteRow]
      BY <1>2, <2>8, <3>2 DEF InviteWrite, TypeOK
    <3> QED
      BY <1>2, <2>8, <3>3, HandlerUpdate DEF InviteWrite, TypeOK
  <2>9. ASSUME NEW p \in Procs, NEW u \in Users, NEW t \in Tokens, AcceptRead(p, u, t)
        PROVE  TypeOK'
    <3>1. invites[t].org \in SUBSET Users
      BY <1>2 DEF TypeOK, InviteRow
    <3>2. [Idle EXCEPT !.pc = "accept", !.user = {u}, !.org = invites[t].org, !.token = {t}]
             \in Handler
      BY <3>1 DEF Idle, Handler
    <3> QED
      BY <1>2, <2>9, <3>2, HandlerUpdate DEF AcceptRead, TypeOK
  <2>10. ASSUME NEW p \in Procs, AcceptWrite(p) PROVE TypeOK'
    <3>1. PICK u \in proc[p].user, o \in proc[p].org, t \in proc[p].token :
             \/ /\ members' = [members EXCEPT ![o] = @ \cup {u}]
                /\ invites' = [invites EXCEPT ![t].takers = @ \cup {u}]
             \/ UNCHANGED <<members, invites>>
      BY <2>10 DEF AcceptWrite
    <3>2. u \in Users /\ t \in Tokens
      BY <1>2 DEF TypeOK, Handler
    <3>3. members' \in [Users -> SUBSET Users]
      BY <1>2, <3>1, <3>2 DEF TypeOK
    <3>4. invites' \in [Tokens -> InviteRow]
      BY <1>2, <3>1, <3>2 DEF TypeOK, InviteRow
    <3> QED
      BY <1>2, <2>10, <3>3, <3>4, HandlerUpdate DEF AcceptWrite, TypeOK
  <2>11. ASSUME NEW p \in Procs, CleanupList(p) PROVE TypeOK'
    BY <1>2, <2>11, HandlerUpdate DEF CleanupList, TypeOK
  <2>12. ASSUME NEW p \in Procs, CleanupCheck(p) PROVE TypeOK'
    <3>1. PICK o \in proc[p].todo :
             \/ SetProc(p, [proc[p] EXCEPT !.todo = @ \ {o}])
             \/ SetProc(p, [proc[p] EXCEPT !.pc = "files", !.todo = @ \ {o}, !.org = {o},
                                           !.user = members[o]])
      BY <2>12 DEF CleanupCheck
    <3>2. proc[p] \in Handler /\ o \in Users /\ members[o] \in SUBSET Users
      BY <1>2 DEF TypeOK, Handler
    <3>3. /\ [proc[p] EXCEPT !.todo = @ \ {o}] \in Handler
          /\ [proc[p] EXCEPT !.pc = "files", !.todo = @ \ {o}, !.org = {o},
                             !.user = members[o]] \in Handler
      BY <3>2 DEF Handler
    <3>4. proc' \in [Procs -> Handler]
      BY <1>2, <3>1, <3>3, HandlerUpdate DEF TypeOK
    <3> QED
      BY <1>2, <2>12, <3>4 DEF CleanupCheck, TypeOK
  <2>13. ASSUME NEW p \in Procs, CleanupFiles(p) PROVE TypeOK'
    <3>1. [proc[p] EXCEPT !.pc = "delete"] \in Handler
      BY <1>2 DEF TypeOK, Handler
    <3> QED
      BY <1>2, <2>13, <3>1, HandlerUpdate DEF CleanupFiles, TypeOK
  <2>14. ASSUME NEW p \in Procs, CleanupDelete(p) PROVE TypeOK'
    <3>1. orgs' \in [Users -> OrgStatus]
      BY <1>2, <2>14 DEF CleanupDelete, TypeOK, OrgStatus
    <3>2. /\ users' \in [Users -> {"none", "guest", "account", "gone"}]
          /\ members' \in [Users -> SUBSET Users]
      BY <1>2, <2>14 DEF CleanupDelete, TypeOK
    <3>3. invites' \in [Tokens -> InviteRow]
      <4>1. \A t \in Tokens : /\ invites[t] \in InviteRow
                              /\ [invites[t] EXCEPT !.open = FALSE] \in InviteRow
        BY <1>2 DEF TypeOK, InviteRow
      <4> QED
        BY <2>14, <4>1 DEF CleanupDelete
    <3>4. [proc[p] EXCEPT !.pc = "check", !.org = {}, !.user = {}] \in Handler
      BY <1>2 DEF TypeOK, Handler
    <3> QED
      BY <1>2, <2>14, <3>1, <3>2, <3>3, <3>4, HandlerUpdate DEF CleanupDelete, TypeOK
  <2>15. ASSUME NEW p \in Procs, CleanupFails(p) \/ CleanupEnds(p) \/ Crash(p) PROVE TypeOK'
    <3>1. [proc[p] EXCEPT !.pc = "check", !.org = {}, !.user = {}] \in Handler
      BY <1>2 DEF TypeOK, Handler
    <3> QED
      BY <1>2, <2>15, <3>1, HandlerUpdate DEF CleanupFails, CleanupEnds, Crash, TypeOK
  <2>16. ASSUME NEW u \in Users, SignupFails(u) \/ Ages(u) PROVE TypeOK'
    BY <1>2, <2>16 DEF SignupFails, Ages, TypeOK, OrgStatus, GuestOrg
  <2>17. ASSUME NEW t \in Tokens, InviteExpires(t) PROVE TypeOK'
    BY <1>2, <2>17 DEF InviteExpires, TypeOK, InviteRow
  <2>18. CASE UNCHANGED vars
    BY <1>2, <2>18 DEF vars, TypeOK
  <2> QED
    BY <1>2, <2>1, <2>2, <2>3, <2>4, <2>5, <2>6, <2>7, <2>8, <2>9, <2>10, <2>11, <2>12,
       <2>13, <2>14, <2>15, <2>16, <2>17, <2>18
       DEF Next, Session, Invite, Cleanup
<1> QED
  BY <1>1, <1>2

(* The tables, the sign-ups under way and the handlers always have their   *)
(* shape.                                                                  *)
THEOREM AccountsTypeCorrect == Spec => []TypeOK
BY TypeInductive, PTL DEF Spec

-----------------------------------------------------------------------------
(* The cap on members.  Who has read that a workspace has room is sure to  *)
(* join it, so it counts as a member already: the process that reads next  *)
(* may read the old number, but it is a process of its own.                *)

Accepting(o) == {p \in Procs : At(p, "accept") /\ o \in proc[p].org}

Room(o) ==
    /\ IsFiniteSet(members[o])
    /\ Cardinality(members[o]) + Cardinality(Accepting(o)) < MaxMembers + Cardinality(Procs)

\* An invite, and the handler that creates one, is for one workspace.
OneOrg ==
    /\ \A t \in Tokens : \A a, b \in invites[t].org : a = b
    /\ \A p \in Procs : At(p, "invite") => \A a, b \in proc[p].org : a = b

MInv == TypeOK /\ OneOrg /\ \A o \in Users : Room(o)

(* The processes that are about to join a workspace can be counted.        *)
LEMMA AcceptingFinite ==
    ASSUME NEW o
    PROVE  /\ IsFiniteSet(Procs) /\ Cardinality(Procs) \in Nat
           /\ IsFiniteSet(Accepting(o)) /\ Cardinality(Accepting(o)) \in Nat
           /\ Cardinality(Accepting(o)) <= Cardinality(Procs)
           /\ \A p \in Procs : p \notin Accepting(o) =>
                 Cardinality(Accepting(o)) < Cardinality(Procs)
<1>1. IsFiniteSet(Procs) /\ Cardinality(Procs) \in Nat
  BY AccountsAssumption, FS_CardinalityType
<1>2. Accepting(o) \in SUBSET Procs
  BY DEF Accepting
<1>3. /\ IsFiniteSet(Accepting(o))
      /\ Cardinality(Accepting(o)) <= Cardinality(Procs)
      /\ Cardinality(Procs) = Cardinality(Accepting(o)) => Procs = Accepting(o)
  BY <1>1, <1>2, FS_Subset
<1>4. Cardinality(Accepting(o)) \in Nat
  BY <1>3, FS_CardinalityType
<1> QED
  BY <1>1, <1>3, <1>4

(* A step that lets nobody in and starts no accept leaves the room.        *)
LEMMA RoomKept ==
    ASSUME NEW o \in Users, Room(o), members'[o] \subseteq members[o],
           Accepting(o)' \subseteq Accepting(o)
    PROVE  Room(o)'
<1>1. IsFiniteSet(members'[o]) /\ Cardinality(members'[o]) <= Cardinality(members[o])
  BY FS_Subset DEF Room
<1>2. IsFiniteSet(Accepting(o)')
      /\ Cardinality(Accepting(o)') <= Cardinality(Accepting(o))
  BY AcceptingFinite, FS_Subset
<1>3. /\ Cardinality(members[o]) \in Nat /\ Cardinality(members'[o]) \in Nat
      /\ Cardinality(Accepting(o)) \in Nat /\ Cardinality(Accepting(o)') \in Nat
      /\ Cardinality(Procs) \in Nat
  BY <1>1, <1>2, AcceptingFinite, FS_CardinalityType DEF Room
<1> QED
  BY <1>1, <1>2, <1>3, AccountsAssumption DEF Room

(* A workspace that is provisioned has its owner as its only member, and   *)
(* the process that provisions it is not about to join it.                 *)
LEMMA RoomAtFirst ==
    ASSUME NEW o \in Users, NEW u, NEW p \in Procs, members'[o] = {u},
           p \notin Accepting(o), Accepting(o)' = Accepting(o)
    PROVE  Room(o)'
<1>1. IsFiniteSet(members'[o]) /\ Cardinality(members'[o]) = 1
  BY FS_Singleton
<1>2. /\ Cardinality(Accepting(o)) < Cardinality(Procs)
      /\ Cardinality(Accepting(o)) \in Nat /\ Cardinality(Procs) \in Nat
  BY AcceptingFinite
<1> QED
  BY <1>1, <1>2, AccountsAssumption DEF Room

(* A handler that moves on to anything but an accept joins no workspace.   *)
LEMMA MovesOn ==
    ASSUME TypeOK, NEW p \in Procs, NEW new, SetProc(p, new), new.pc # "accept", NEW o
    PROVE  Accepting(o)' \subseteq Accepting(o)
BY DEF TypeOK, SetProc, Accepting, At

(* A purge that moves on neither invites nor joins, nor does a crash.      *)
LEMMA CleanupMoves ==
    ASSUME TypeOK, NEW p \in Procs,
           \/ CleanupList(p) \/ CleanupCheck(p) \/ CleanupFiles(p) \/ CleanupDelete(p)
           \/ CleanupFails(p) \/ CleanupEnds(p) \/ Crash(p)
    PROVE  \E new : SetProc(p, new) /\ new.pc \in {"idle", "check", "files", "delete"}
<1>1. proc[p] \in Handler
  BY DEF TypeOK
<1>2. CASE CleanupList(p) \/ CleanupEnds(p) \/ Crash(p)
  <2>1. /\ Idle.pc = "idle"
        /\ \A S : [Idle EXCEPT !.pc = "check", !.todo = S].pc = "check"
    BY DEF Idle
  <2> QED
    BY <1>2, <2>1 DEF CleanupList, CleanupEnds, Crash
<1>3. CASE CleanupCheck(p)
  <2>1. \A o : /\ [proc[p] EXCEPT !.todo = @ \ {o}].pc = "check"
              /\ [proc[p] EXCEPT !.pc = "files", !.todo = @ \ {o}, !.org = {o},
                                 !.user = members[o]].pc = "files"
    BY <1>1, <1>3 DEF CleanupCheck, At, Handler
  <2> QED
    BY <1>3, <2>1 DEF CleanupCheck
<1>4. CASE CleanupFiles(p)
  <2>1. [proc[p] EXCEPT !.pc = "delete"].pc = "delete"
    BY <1>1 DEF Handler
  <2> QED
    BY <1>4, <2>1 DEF CleanupFiles
<1>5. CASE CleanupDelete(p) \/ CleanupFails(p)
  <2>1. [proc[p] EXCEPT !.pc = "check", !.org = {}, !.user = {}].pc = "check"
    BY <1>1 DEF Handler
  <2> QED
    BY <1>5, <2>1 DEF CleanupDelete, CleanupFails
<1> QED
  BY <1>2, <1>3, <1>4, <1>5

(* An invite stays an invite to the one workspace it was created for.      *)
LEMMA OneOrgInductive ==
    ASSUME TypeOK, OneOrg, [Next]_vars
    PROVE  OneOrg'
<1>1. ASSUME NEW p \in Procs, NEW u \in Users,
             \/ CreateGuest(p, u) \/ FreshAccount(p, u) \/ SignupStart(p, u)
             \/ SignupUpgrade(p, u) \/ \E v \in Users : SignupFresh(p, u, v)
             \/ \E o \in Users : Upload(p, u, o)
      PROVE  OneOrg'
  BY <1>1 DEF CreateGuest, FreshAccount, SignupStart, SignupUpgrade, SignupFresh, Upload,
              OneOrg, At
<1>2. ASSUME NEW p \in Procs, NEW u \in Users, NEW o \in Users, InviteRead(p, u, o)
      PROVE  OneOrg'
  BY <1>2 DEF InviteRead, OneOrg, At, SetProc, Idle, TypeOK
<1>3. ASSUME NEW p \in Procs, NEW t \in Tokens, InviteWrite(p, t) PROVE OneOrg'
  <2>1. \A a, b \in proc[p].org : a = b
    BY <1>3 DEF InviteWrite, OneOrg
  <2>2. \A s \in Tokens : invites'[s].org \in {invites[s].org, proc[p].org}
    BY <1>3 DEF InviteWrite, TypeOK
  <2>3. proc' = [proc EXCEPT ![p] = Idle]
    BY <1>3 DEF InviteWrite, SetProc
  <2> QED
    BY <2>1, <2>2, <2>3 DEF OneOrg, At, Idle, TypeOK
<1>4. ASSUME NEW p \in Procs, NEW u \in Users, NEW t \in Tokens, AcceptRead(p, u, t)
      PROVE  OneOrg'
  BY <1>4 DEF AcceptRead, OneOrg, At, SetProc, Idle, TypeOK
<1>5. ASSUME NEW p \in Procs, AcceptWrite(p) PROVE OneOrg'
  <2>1. \A t \in Tokens : invites'[t].org = invites[t].org
    BY <1>5 DEF AcceptWrite, TypeOK, InviteRow
  <2> QED
    BY <1>5, <2>1 DEF AcceptWrite, OneOrg, At, SetProc, Idle, TypeOK
<1>6. ASSUME NEW p \in Procs, CleanupDelete(p) PROVE OneOrg'
  <2>1. \A t \in Tokens : invites'[t].org = invites[t].org
    BY <1>6 DEF CleanupDelete, TypeOK, InviteRow
  <2>2. \A q \in Procs : At(q, "invite")' => proc'[q] = proc[q]
    BY <1>6 DEF CleanupDelete, At, SetProc, TypeOK, Handler
  <2> QED
    BY <2>1, <2>2 DEF OneOrg, At
<1>7. ASSUME NEW p \in Procs,
             \/ CleanupList(p) \/ CleanupCheck(p) \/ CleanupFiles(p)
             \/ CleanupFails(p) \/ CleanupEnds(p) \/ Crash(p)
      PROVE  OneOrg'
  <2>1. invites' = invites
    BY <1>7 DEF CleanupList, CleanupCheck, CleanupFiles, CleanupFails, CleanupEnds, Crash
  <2>2. PICK new : SetProc(p, new) /\ new.pc \in {"idle", "check", "files", "delete"}
    BY <1>7, CleanupMoves
  <2>3. \A q \in Procs : At(q, "invite")' => proc'[q] = proc[q]
    BY <2>2 DEF At, SetProc, TypeOK
  <2> QED
    BY <2>1, <2>3 DEF OneOrg, At
<1>8. ASSUME NEW u \in Users, SignupFails(u) \/ Ages(u) PROVE OneOrg'
  BY <1>8 DEF SignupFails, Ages, OneOrg, At
<1>9. ASSUME NEW t \in Tokens, InviteExpires(t) PROVE OneOrg'
  <2>1. \A s \in Tokens : invites'[s].org = invites[s].org
    BY <1>9 DEF InviteExpires, TypeOK, InviteRow
  <2> QED
    BY <1>9, <2>1 DEF InviteExpires, OneOrg, At
<1>10. CASE UNCHANGED vars
  BY <1>10 DEF vars, OneOrg, At
<1> QED
  BY <1>1, <1>2, <1>3, <1>4, <1>5, <1>6, <1>7, <1>8, <1>9, <1>10
     DEF Next, Session, Invite, Cleanup

(* Every step leaves the room of every workspace.                          *)
LEMMA RoomInductive ==
    ASSUME MInv, [Next]_vars, NEW o \in Users
    PROVE  Room(o)'
<1>1. TypeOK /\ OneOrg /\ Room(o)
  BY DEF MInv
<1>2. CASE members' = members /\ proc' = proc
  <2>1. Accepting(o)' = Accepting(o)
    BY <1>2 DEF Accepting, At
  <2> QED
    BY <1>1, <1>2, <2>1, RoomKept
<1>3. ASSUME NEW p \in Procs, NEW u \in Users, Provision(u, orgs'[u]),
             At(p, "idle"), proc' = proc
      PROVE  Room(o)'
  <2>1. p \notin Accepting(o) /\ Accepting(o)' = Accepting(o)
    BY <1>3 DEF Accepting, At
  <2>2. members'[o] = {u} \/ members'[o] = members[o]
    BY <1>1, <1>3 DEF Provision, TypeOK
  <2> QED
    BY <1>1, <2>1, <2>2, RoomAtFirst, RoomKept
<1>4. ASSUME NEW p \in Procs, NEW u \in Users,
             \/ CreateGuest(p, u) \/ FreshAccount(p, u)
             \/ \E v \in Users : SignupFresh(p, v, u)
      PROVE  Room(o)'
  <2>1. Provision(u, orgs'[u]) /\ At(p, "idle") /\ proc' = proc
    BY <1>1, <1>4 DEF CreateGuest, FreshAccount, SignupFresh, Provision, TypeOK
  <2> QED
    BY <1>3, <2>1
<1>5. ASSUME NEW p \in Procs, NEW new, SetProc(p, new), new.pc # "accept", members' = members
      PROVE  Room(o)'
  BY <1>1, <1>5, MovesOn, RoomKept
<1>6. ASSUME NEW p \in Procs, NEW u \in Users, NEW t \in Tokens, AcceptRead(p, u, t)
      PROVE  Room(o)'
  <2>1. /\ At(p, "idle") /\ members' = members
        /\ proc' = [proc EXCEPT ![p] = [Idle EXCEPT !.pc = "accept", !.user = {u},
                                        !.org = invites[t].org, !.token = {t}]]
    BY <1>6 DEF AcceptRead, SetProc
  <2>2. CASE o \in invites[t].org
    <3>1. Cardinality(members[o]) < MaxMembers
      BY <1>1, <1>6, <2>2 DEF AcceptRead, OneOrg
    <3>2. /\ IsFiniteSet(Accepting(o)') /\ Cardinality(Accepting(o)') \in Nat
          /\ Cardinality(Accepting(o)') <= Cardinality(Procs)
          /\ Cardinality(Procs) \in Nat
      <4>1. Accepting(o)' \in SUBSET Procs
        BY DEF Accepting
      <4> QED
        BY <4>1, AcceptingFinite, FS_Subset, FS_CardinalityType
    <3>3. Cardinality(members[o]) \in Nat
      BY <1>1, FS_CardinalityType DEF Room
    <3> QED
      BY <1>1, <2>1, <3>1, <3>2, <3>3, AccountsAssumption DEF Room
  <2>3. CASE o \notin invites[t].org
    <3>1. Accepting(o)' \subseteq Accepting(o)
      BY <1>1, <2>1, <2>3 DEF Accepting, At, Idle, TypeOK
    <3> QED
      BY <1>1, <2>1, <3>1, RoomKept
  <2> QED
    BY <2>2, <2>3
<1>7. ASSUME NEW p \in Procs, AcceptWrite(p) PROVE Room(o)'
  <2>1. SetProc(p, Idle) /\ Accepting(o)' \subseteq Accepting(o) \ {p}
    BY <1>1, <1>7 DEF AcceptWrite, SetProc, Accepting, At, Idle, TypeOK
  <2>2. PICK u \in proc[p].user, w \in proc[p].org :
           \/ members' = [members EXCEPT ![w] = @ \cup {u}]
           \/ members' = members
    BY <1>7 DEF AcceptWrite
  <2>3. CASE members'[o] = members[o]
    BY <1>1, <2>1, <2>3, RoomKept
  <2>4. CASE members'[o] # members[o]
    <3>1. w = o /\ members'[o] = members[o] \cup {u}
      BY <1>1, <2>2, <2>4 DEF TypeOK
    <3>2. p \in Accepting(o)
      BY <1>7, <3>1 DEF AcceptWrite, Accepting
    <3>3. /\ IsFiniteSet(members'[o])
          /\ Cardinality(members'[o]) <= Cardinality(members[o]) + 1
          /\ Cardinality(members[o]) \in Nat /\ Cardinality(members'[o]) \in Nat
      <4>1. IsFiniteSet(members[o])
        BY <1>1 DEF Room
      <4>2. /\ IsFiniteSet(members[o] \cup {u})
            /\ Cardinality(members[o] \cup {u}) =
                  IF u \in members[o] THEN Cardinality(members[o])
                                     ELSE Cardinality(members[o]) + 1
        BY <4>1, FS_AddElement
      <4>3. Cardinality(members[o]) \in Nat /\ Cardinality(members'[o]) \in Nat
        BY <3>1, <4>1, <4>2, FS_CardinalityType
      <4> QED
        BY <3>1, <4>2, <4>3
    <3>4. /\ IsFiniteSet(Accepting(o) \ {p})
          /\ Cardinality(Accepting(o) \ {p}) = Cardinality(Accepting(o)) - 1
      BY <3>2, AcceptingFinite, FS_RemoveElement
    <3>5. /\ IsFiniteSet(Accepting(o)')
          /\ Cardinality(Accepting(o)') <= Cardinality(Accepting(o) \ {p})
      BY <2>1, <3>4, FS_Subset
    <3>6. /\ Cardinality(Accepting(o)') \in Nat /\ Cardinality(Accepting(o)) \in Nat
          /\ Cardinality(Procs) \in Nat
      BY <3>5, AcceptingFinite, FS_CardinalityType
    <3> QED
      BY <1>1, <3>3, <3>4, <3>5, <3>6, AccountsAssumption DEF Room
  <2> QED
    BY <2>3, <2>4
<1>8. ASSUME NEW p \in Procs, CleanupDelete(p) PROVE Room(o)'
  <2>1. members'[o] \subseteq members[o]
    BY <1>8 DEF CleanupDelete
  <2>2. Accepting(o)' \subseteq Accepting(o)
    BY <1>1, <1>8 DEF CleanupDelete, SetProc, Accepting, At, TypeOK, Handler
  <2> QED
    BY <1>1, <2>1, <2>2, RoomKept
<1>9. ASSUME NEW p \in Procs,
             \/ \E u, w \in Users : InviteRead(p, u, w)
             \/ \E t \in Tokens : InviteWrite(p, t)
      PROVE  Room(o)'
  <2>1. \A w : /\ Idle.pc = "idle"
              /\ [Idle EXCEPT !.pc = "invite", !.org = {w}].pc = "invite"
    BY DEF Idle
  <2>2. members' = members /\ \E new : SetProc(p, new) /\ new.pc # "accept"
    BY <1>9, <2>1 DEF InviteRead, InviteWrite
  <2> QED
    BY <1>5, <2>2
<1>10. ASSUME NEW p \in Procs,
              \/ CleanupList(p) \/ CleanupCheck(p) \/ CleanupFiles(p)
              \/ CleanupFails(p) \/ CleanupEnds(p) \/ Crash(p)
       PROVE  Room(o)'
  <2>1. members' = members
    BY <1>10 DEF CleanupList, CleanupCheck, CleanupFiles, CleanupFails, CleanupEnds, Crash
  <2>2. PICK new : SetProc(p, new) /\ new.pc \in {"idle", "check", "files", "delete"}
    BY <1>1, <1>10, CleanupMoves
  <2> QED
    BY <1>5, <2>1, <2>2
<1>11. ASSUME NEW p \in Procs, NEW u \in Users,
              \/ SignupStart(p, u) \/ SignupUpgrade(p, u)
              \/ \E w \in Users : Upload(p, u, w)
       PROVE  Room(o)'
  BY <1>2, <1>11 DEF SignupStart, SignupUpgrade, Upload
<1>12. ASSUME NEW u \in Users, SignupFails(u) \/ Ages(u) PROVE Room(o)'
  BY <1>2, <1>12 DEF SignupFails, Ages
<1>13. ASSUME NEW t \in Tokens, InviteExpires(t) PROVE Room(o)'
  BY <1>2, <1>13 DEF InviteExpires
<1>14. CASE UNCHANGED vars
  BY <1>2, <1>14 DEF vars
<1> QED
  BY <1>4, <1>6, <1>7, <1>8, <1>9, <1>10, <1>11, <1>12, <1>13, <1>14
     DEF Next, Session, Invite, Cleanup

(* MInv is inductive.                                                      *)
LEMMA MInvInductive ==
    /\ Init => MInv
    /\ MInv /\ [Next]_vars => MInv'
<1>1. ASSUME Init PROVE MInv
  <2>1. TypeOK
    BY <1>1, TypeInductive
  <2>2. OneOrg
    BY <1>1 DEF Init, OneOrg, NoInvite, Idle, At
  <2>3. ASSUME NEW o \in Users PROVE Room(o)
    <3>1. members[o] = {} /\ Accepting(o) = {}
      BY <1>1 DEF Init, Accepting, At, Idle
    <3> QED
      BY <3>1, FS_EmptySet, AcceptingFinite, AccountsAssumption DEF Room
  <2> QED
    BY <2>1, <2>2, <2>3 DEF MInv
<1>2. ASSUME MInv, [Next]_vars PROVE MInv'
  BY <1>2, TypeInductive, OneOrgInductive, RoomInductive DEF MInv
<1> QED
  BY <1>1, <1>2

(* However accept_invite() is interleaved, a workspace has fewer members   *)
(* than the cap plus one for each worker process: with one process the cap *)
(* holds.                                                                  *)
THEOREM MembersBoundedCorrect == Spec => []MembersBounded
<1>1. MInv => MembersBounded
  <2> SUFFICES ASSUME MInv, NEW o \in Users
               PROVE  Cardinality(members[o]) < MaxMembers + Cardinality(Procs)
    BY DEF MembersBounded
  <2>1. /\ Cardinality(members[o]) \in Nat /\ Cardinality(Accepting(o)) \in Nat
        /\ Cardinality(Procs) \in Nat
    BY AcceptingFinite, FS_CardinalityType DEF MInv, Room
  <2> QED
    BY <2>1, AccountsAssumption DEF MInv, Room
<1> QED
  BY <1>1, MInvInductive, PTL DEF Spec

-----------------------------------------------------------------------------
(* Guests and the purge: nobody who is signed in loses anything to it, and *)
(* it takes what it is to take.                                            *)
(*                                                                         *)
(* The invariant.  A purge reads the members of a workspace, removes its   *)
(* files and deletes it in three steps, so it needs that none of what it   *)
(* has read can change: no guest of an old workspace signs up, and nobody  *)
(* joins a workspace that has guests only.                                 *)

\* A member is alive, and a guest a member of its own workspace only; a guest
\* who signs up has not got an old one; a workspace that is gone is empty.
PlaceOf(u) ==
    /\ users[u] = "none" => orgs[u] = "none"
    /\ ~OrgExists(u) => members[u] = {}
    /\ u \in signing /\ users[u] = "guest" => orgs[u] \in {"new", "lapsed"}
    /\ \A o \in Users : u \in members[o] => users[u] = "account" \/ (users[u] = "guest" /\ o = u)
    /\ orgs[u] = "gone" => <<u, "deal">> \notin files
    /\ orgs[u] = "gone" => \A t \in Tokens : invites[t].org = {u} => ~invites[t].open

Inviting(p) == proc[p].pc \in {"invite", "accept"}

\* Only accounts invite, and they stay.
IsShared(o) ==
    (\E t \in Tokens : o \in invites[t].org) \/ (\E p \in Procs : Inviting(p) /\ o \in proc[p].org)

SharedByAccount(o) ==
    IsShared(o) => orgs[o] = "gone" \/ \E u \in members[o] : users[u] = "account"

Lost(o) == orgs[o] \in {"old", "gone"}

\* What a handler has read still holds.
Purging(p) ==
    /\ \A o \in proc[p].org :
          /\ Lost(o) /\ \A u \in members[o] : users[u] = "guest"
          /\ proc[p].pc = "delete" => <<o, "deal">> \notin files
    /\ \A u \in proc[p].user : u \in proc[p].org /\ users[u] \in {"guest", "gone"}

Handling(p) ==
    /\ proc[p].pc = "accept" => \A u \in proc[p].user : users[u] = "account"
    /\ proc[p].pc \in {"check", "files", "delete"} => \A o \in proc[p].todo : Lost(o)
    /\ proc[p].pc \in {"files", "delete"} => Purging(p)

GInv ==
    /\ TypeOK
    /\ \A u \in Users : PlaceOf(u)
    /\ \A o \in Users : SharedByAccount(o)
    /\ \A p \in Procs : Handling(p)
-----------------------------------------------------------------------------
(* Nobody joins, enters or is upgraded into what is lost, and whoever is   *)
(* taken by a purge was a guest of what is lost.                           *)
LEMMA PlaceInductive ==
    ASSUME GInv, [Next]_vars, NEW x \in Users
    PROVE  PlaceOf(x)'
<1>0. TypeOK /\ PlaceOf(x) /\ \A u \in Users : PlaceOf(u)
  BY DEF GInv
<1> USE DEF TypeOK, PlaceOf, OrgExists, OrgStatus, GuestOrg
<1>1. ASSUME NEW p \in Procs, NEW u \in Users, CreateGuest(p, u) PROVE PlaceOf(x)'
  BY <1>0, <1>1 DEF CreateGuest, Provision
<1>2. ASSUME NEW p \in Procs, NEW u \in Users, FreshAccount(p, u) PROVE PlaceOf(x)'
  BY <1>0, <1>2 DEF FreshAccount, Provision
<1>3. ASSUME NEW p \in Procs, NEW u \in Users, SignupStart(p, u) PROVE PlaceOf(x)'
  BY <1>0, <1>3 DEF SignupStart, SignedIn
<1>4. ASSUME NEW p \in Procs, NEW u \in Users, SignupUpgrade(p, u) PROVE PlaceOf(x)'
  BY <1>0, <1>4 DEF SignupUpgrade, SignupEnds
<1>5. ASSUME NEW p \in Procs, NEW u \in Users, NEW v \in Users, SignupFresh(p, u, v)
      PROVE  PlaceOf(x)'
  BY <1>0, <1>5 DEF SignupFresh, SignupEnds, Provision
<1>6. ASSUME NEW p \in Procs, NEW u \in Users, NEW o \in Users, Upload(p, u, o)
      PROVE  PlaceOf(x)'
  BY <1>0, <1>6 DEF Upload, SignedIn
<1>7. ASSUME NEW p \in Procs, NEW t \in Tokens, InviteWrite(p, t) PROVE PlaceOf(x)'
  <2>1. UNCHANGED <<users, orgs, members, files, signing>>
    BY <1>7 DEF InviteWrite
  <2>2. \A s \in Tokens : \/ invites'[s] = invites[s]
                          \/ invites'[s].org = proc[p].org /\ \A o \in proc[p].org : OrgExists(o)
    BY <1>0, <1>7 DEF InviteWrite
  <2> QED
    BY <1>0, <2>1, <2>2
<1>8. ASSUME NEW p \in Procs, AcceptWrite(p) PROVE PlaceOf(x)'
  <2>1. PICK u \in proc[p].user, o \in proc[p].org, t \in proc[p].token :
           \/ /\ OrgExists(o)
              /\ members' = [members EXCEPT ![o] = @ \cup {u}]
              /\ invites' = [invites EXCEPT ![t].takers = @ \cup {u}]
           \/ UNCHANGED <<members, invites>>
    BY <1>8 DEF AcceptWrite
  <2>2. users[u] = "account" /\ u \in Users /\ o \in Users
    BY <1>8 DEF AcceptWrite, At, GInv, Handling, Handler
  <2>3. \A s \in Tokens : /\ invites'[s].org = invites[s].org
                          /\ invites'[s].open = invites[s].open
    BY <1>0, <2>1 DEF InviteRow
  <2>4. UNCHANGED <<users, orgs, files, signing>>
    BY <1>8 DEF AcceptWrite
  <2> QED
    BY <1>0, <2>1, <2>2, <2>3, <2>4
<1>9. ASSUME NEW p \in Procs, CleanupDelete(p) PROVE PlaceOf(x)'
  <2>1. Purging(p) /\ proc[p].pc = "delete" /\ proc[p] \in Handler
    BY <1>9 DEF CleanupDelete, At, GInv, Handling
  <2>2. PICK o \in proc[p].org :
           /\ orgs' = [orgs EXCEPT ![o] = "gone"]
           /\ users' = [u \in Users |-> IF u \in proc[p].user THEN "gone" ELSE users[u]]
           /\ members' = [y \in Users |-> IF y = o THEN {} ELSE members[y] \ proc[p].user]
           /\ invites' = [t \in Tokens |-> IF invites[t].org = {o}
                                           THEN [invites[t] EXCEPT !.open = FALSE]
                                           ELSE invites[t]]
    BY <1>9 DEF CleanupDelete
  <2>3. o \in Users /\ Lost(o) /\ <<o, "deal">> \notin files /\ UNCHANGED <<files, signing>>
    BY <1>9, <2>1 DEF CleanupDelete, Purging, Handler
  <2>4. \A u \in proc[p].user : users[u] \in {"guest", "gone"}
    BY <2>1 DEF Purging
  <2>5. \A t \in Tokens : /\ invites'[t].org = invites[t].org
                          /\ invites'[t].open => invites[t].open /\ invites[t].org # {o}
    BY <1>0, <2>2 DEF InviteRow
  <2>6. users'[x] = "none" => orgs'[x] = "none"
    BY <1>0, <2>2, <2>3 DEF Lost
  <2>7. ~OrgExists(x)' => members'[x] = {}
    BY <1>0, <2>2, <2>3
  <2>8. x \in signing' /\ users'[x] = "guest" => orgs'[x] \in {"new", "lapsed"}
    BY <1>0, <2>2, <2>3 DEF Lost
  <2>9. \A y \in Users : x \in members'[y] =>
           users'[x] = "account" \/ (users'[x] = "guest" /\ y = x)
    <3> SUFFICES ASSUME NEW y \in Users, x \in members'[y]
                 PROVE  users'[x] = "account" \/ (users'[x] = "guest" /\ y = x)
      OBVIOUS
    <3>1. x \in members[y] /\ x \notin proc[p].user
      BY <2>1, <2>2 DEF Purging
    <3>2. users'[x] = users[x]
      BY <2>2, <3>1
    <3> QED
      BY <1>0, <3>1, <3>2
  <2>10. orgs'[x] = "gone" =>
            <<x, "deal">> \notin files' /\ \A t \in Tokens : invites'[t].org = {x} => ~invites'[t].open
    BY <1>0, <2>2, <2>3, <2>5
  <2> QED
    BY <2>6, <2>7, <2>8, <2>9, <2>10
<1>10. ASSUME NEW p \in Procs,
              \/ \E u, o \in Users : InviteRead(p, u, o)
              \/ \E u \in Users, t \in Tokens : AcceptRead(p, u, t)
              \/ CleanupList(p) \/ CleanupCheck(p) \/ CleanupFiles(p)
              \/ CleanupFails(p) \/ CleanupEnds(p) \/ Crash(p)
       PROVE  PlaceOf(x)'
  <2>1. UNCHANGED <<users, orgs, members, signing, invites>> /\ files' \subseteq files
    BY <1>10 DEF InviteRead, AcceptRead, CleanupList, CleanupCheck, CleanupFiles, CleanupFails,
                 CleanupEnds, Crash
  <2>2. PlaceOf(x)
    BY <1>0
  <2> QED
    BY <2>1, <2>2, SMTT(30)
<1>11. ASSUME NEW u \in Users, SignupFails(u) \/ Ages(u) PROVE PlaceOf(x)'
  BY <1>0, <1>11 DEF SignupFails, Ages
<1>12. ASSUME NEW t \in Tokens, InviteExpires(t) PROVE PlaceOf(x)'
  <2>1. \A s \in Tokens : /\ invites'[s].org = invites[s].org
                          /\ invites'[s].open => invites[s].open
    BY <1>0, <1>12 DEF InviteExpires, InviteRow
  <2> QED
    BY <1>0, <1>12, <2>1 DEF InviteExpires
<1>13. CASE UNCHANGED vars
  BY <1>0, <1>13 DEF vars
<1> QED
  BY <1>1, <1>2, <1>3, <1>4, <1>5, <1>6, <1>7, <1>8, <1>9, <1>10, <1>11, <1>12, <1>13
     DEF Next, Session, Invite, Cleanup

-----------------------------------------------------------------------------
(* A workspace that is shared keeps an account, until it is gone.          *)

LEMMA SharedKept ==
    ASSUME NEW o \in Users, SharedByAccount(o),
           orgs[o] = "gone" => orgs'[o] = "gone",
           \/ orgs'[o] = "gone"
           \/ \A u \in members[o] : users[u] = "account" => u \in members'[o] /\ users'[u] = "account",
           \A t \in Tokens : o \in invites'[t].org => IsShared(o),
           \A p \in Procs : Inviting(p)' /\ o \in proc'[p].org => IsShared(o)
    PROVE  SharedByAccount(o)'
BY DEF SharedByAccount, IsShared, Inviting

(* No step takes the account from a shared workspace, and only accounts    *)
(* start to share one.                                                     *)
LEMMA SharedInductive ==
    ASSUME GInv, [Next]_vars, NEW x \in Users
    PROVE  SharedByAccount(x)'
<1>0. TypeOK /\ PlaceOf(x) /\ SharedByAccount(x) /\ \A u \in Users : PlaceOf(u)
  BY DEF GInv
<1>1. ASSUME invites' = invites, proc' = proc,
             orgs[x] = "gone" => orgs'[x] = "gone",
             \A u \in members[x] : users[u] = "account" => u \in members'[x] /\ users'[u] = "account"
      PROVE  SharedByAccount(x)'
  BY <1>0, <1>1, SharedKept DEF IsShared, Inviting
<1>2. ASSUME NEW p \in Procs, NEW u \in Users, NEW v \in Users,
             \/ CreateGuest(p, u) \/ FreshAccount(p, u) \/ SignupStart(p, u)
             \/ SignupUpgrade(p, u) \/ SignupFresh(p, u, v) \/ Upload(p, u, v)
      PROVE  SharedByAccount(x)'
  <2>1. UNCHANGED <<orgs, members>> \/ \E w \in Users, st \in {"new", "account"} :
        users[w] = "none" /\ Provision(w, st)
    BY <1>2 DEF CreateGuest, FreshAccount, SignupStart, SignupUpgrade, SignupFresh, Upload
  <2>2. \A w \in Users : users[w] = "account" => users'[w] = "account"
    BY <1>0, <1>2 DEF CreateGuest, FreshAccount, SignupStart, SignupUpgrade, SignupFresh, Upload,
                     TypeOK
  <2>3. \A w \in Users : users[w] = "none" => orgs[w] = "none" /\ members[w] = {}
    BY <1>0 DEF PlaceOf, OrgExists
  <2>4. orgs[x] = "gone" => orgs'[x] = "gone"
    BY <1>0, <2>1, <2>3 DEF Provision, TypeOK
  <2>5. \A w \in members[x] : w \in members'[x] /\ w \in Users
    BY <1>0, <2>1, <2>3 DEF Provision, TypeOK
  <2>6. UNCHANGED <<invites, proc>>
    BY <1>2 DEF CreateGuest, FreshAccount, SignupStart, SignupUpgrade, SignupFresh, Upload
  <2> QED
    BY <1>1, <2>2, <2>4, <2>5, <2>6
<1>3. ASSUME NEW p \in Procs, NEW u \in Users, NEW o \in Users, InviteRead(p, u, o)
      PROVE  SharedByAccount(x)'
  <2>1. UNCHANGED <<users, orgs, members, invites>> /\ u \in members[o] /\ users[u] = "account"
    BY <1>3 DEF InviteRead, SignedIn
  <2>2. \A q \in Procs : proc'[q] = proc[q] \/ proc'[q].org = {o}
    BY <1>0, <1>3 DEF InviteRead, SetProc, TypeOK, Idle
  <2>3. CASE x = o
    BY <2>1, <2>3 DEF SharedByAccount
  <2>4. CASE x # o
    BY <1>0, <2>1, <2>2, <2>4, SharedKept DEF IsShared, Inviting
  <2> QED
    BY <2>3, <2>4
<1>4. ASSUME NEW p \in Procs, NEW t \in Tokens, InviteWrite(p, t) PROVE SharedByAccount(x)'
  <2>1. UNCHANGED <<users, orgs, members>> /\ Inviting(p)
    BY <1>4 DEF InviteWrite, Inviting, At
  <2>2. \A s \in Tokens : invites'[s].org \in {invites[s].org, proc[p].org}
    BY <1>0, <1>4 DEF InviteWrite, TypeOK
  <2>3. \A q \in Procs : proc'[q] = proc[q] \/ proc'[q].org = {}
    BY <1>0, <1>4 DEF InviteWrite, SetProc, TypeOK, Idle
  <2> QED
    BY <1>0, <2>1, <2>2, <2>3, SharedKept DEF IsShared, Inviting
<1>5. ASSUME NEW p \in Procs, NEW u \in Users, NEW t \in Tokens, AcceptRead(p, u, t)
      PROVE  SharedByAccount(x)'
  <2>1. UNCHANGED <<users, orgs, members, invites>>
    BY <1>5 DEF AcceptRead
  <2>2. \A q \in Procs : proc'[q] = proc[q] \/ proc'[q].org = invites[t].org
    BY <1>0, <1>5 DEF AcceptRead, SetProc, TypeOK, Idle
  <2> QED
    BY <1>0, <2>1, <2>2, SharedKept DEF IsShared, Inviting
<1>6. ASSUME NEW p \in Procs, AcceptWrite(p) PROVE SharedByAccount(x)'
  <2>1. UNCHANGED <<users, orgs>>
    BY <1>6 DEF AcceptWrite
  <2>2. members[x] \subseteq members'[x]
    BY <1>0, <1>6 DEF AcceptWrite, TypeOK
  <2>3. \A s \in Tokens : invites'[s].org = invites[s].org
    BY <1>0, <1>6 DEF AcceptWrite, TypeOK, InviteRow
  <2>4. \A q \in Procs : proc'[q] = proc[q] \/ proc'[q].org = {}
    BY <1>0, <1>6 DEF AcceptWrite, SetProc, TypeOK, Idle
  <2> QED
    BY <1>0, <2>1, <2>2, <2>3, <2>4, SharedKept DEF IsShared, Inviting
<1>7. ASSUME NEW p \in Procs,
             \/ CleanupList(p) \/ CleanupCheck(p) \/ CleanupFiles(p) \/ CleanupDelete(p)
             \/ CleanupFails(p) \/ CleanupEnds(p) \/ Crash(p)
      PROVE  SharedByAccount(x)'
  <2>1. PICK new : SetProc(p, new) /\ new.pc \in {"idle", "check", "files", "delete"}
    BY <1>0, <1>7, CleanupMoves
  <2>2. \A q \in Procs : Inviting(q)' => Inviting(q) /\ proc'[q].org = proc[q].org
    BY <1>0, <2>1 DEF SetProc, Inviting, TypeOK
  <2>3. \A s \in Tokens : invites'[s].org = invites[s].org
    <3>1. CASE CleanupDelete(p)
      BY <1>0, <3>1 DEF CleanupDelete, TypeOK, InviteRow
    <3>2. CASE ~CleanupDelete(p)
      BY <1>7, <3>2 DEF CleanupList, CleanupCheck, CleanupFiles, CleanupFails, CleanupEnds, Crash
    <3> QED
      BY <3>1, <3>2
  <2>4. CASE CleanupDelete(p)
    <3>1. PICK o \in proc[p].org :
             /\ orgs' = [orgs EXCEPT ![o] = "gone"]
             /\ users' = [u \in Users |-> IF u \in proc[p].user THEN "gone" ELSE users[u]]
             /\ members' = [y \in Users |-> IF y = o THEN {} ELSE members[y] \ proc[p].user]
      BY <2>4 DEF CleanupDelete
    <3>2. \A u \in proc[p].user : users[u] # "account"
      BY <2>4 DEF CleanupDelete, At, GInv, Handling, Purging
    <3>3. orgs[x] = "gone" => orgs'[x] = "gone"
      BY <1>0, <3>1 DEF TypeOK
    <3>4. \/ orgs'[x] = "gone"
          \/ \A u \in members[x] :
                users[u] = "account" => u \in members'[x] /\ users'[u] = "account"
      BY <1>0, <3>1, <3>2 DEF TypeOK
    <3> QED
      BY <1>0, <2>2, <2>3, <3>3, <3>4, SharedKept DEF IsShared, Inviting
  <2>5. CASE ~CleanupDelete(p)
    <3>1. UNCHANGED <<users, orgs, members>>
      BY <1>7, <2>5 DEF CleanupList, CleanupCheck, CleanupFiles, CleanupFails, CleanupEnds, Crash
    <3> QED
      BY <1>0, <2>2, <2>3, <3>1, SharedKept DEF IsShared, Inviting
  <2> QED
    BY <2>4, <2>5
<1>8. ASSUME NEW u \in Users, SignupFails(u) \/ Ages(u) PROVE SharedByAccount(x)'
  <2>1. UNCHANGED <<users, members, invites, proc>>
    BY <1>8 DEF SignupFails, Ages
  <2>2. orgs[x] = "gone" => orgs'[x] = "gone"
    BY <1>0, <1>8 DEF SignupFails, Ages, TypeOK
  <2> QED
    BY <1>1, <2>1, <2>2
<1>9. ASSUME NEW t \in Tokens, InviteExpires(t) PROVE SharedByAccount(x)'
  <2>1. UNCHANGED <<users, orgs, members, proc>>
    BY <1>9 DEF InviteExpires
  <2>2. \A s \in Tokens : invites'[s].org = invites[s].org
    BY <1>0, <1>9 DEF InviteExpires, TypeOK, InviteRow
  <2> QED
    BY <1>0, <2>1, <2>2, SharedKept DEF IsShared, Inviting
<1>10. CASE UNCHANGED vars
  BY <1>1, <1>10 DEF vars
<1> QED
  BY <1>2, <1>3, <1>4, <1>5, <1>6, <1>7, <1>8, <1>9, <1>10 DEF Next, Session, Invite, Cleanup

-----------------------------------------------------------------------------
(* What a purge has read holds until it acts on it.                        *)

\* What a step must respect: accounts stay accounts, what is lost stays lost,
\* and so do the guests that are in it; it gets neither members nor files of deals.
RespectsPurge ==
    /\ \A u \in Users : users[u] = "account" => users'[u] = "account"
    /\ \A o \in Users : Lost(o) => Lost(o)'
    /\ \A u \in Users : Lost(u) /\ users[u] \in {"guest", "gone"} => users'[u] \in {"guest", "gone"}
    /\ \A o \in Users : Lost(o) /\ (\A u \in members[o] : users[u] = "guest") =>
          /\ \A u \in members'[o] : users'[u] = "guest"
          /\ <<o, "deal">> \in files' => <<o, "deal">> \in files

(* A workspace that is lost and has no account gets none.                  *)
LEMMA PurgeRespected ==
    ASSUME GInv, [Next]_vars
    PROVE  RespectsPurge
<1>0. TypeOK /\ \A u \in Users : PlaceOf(u)
  BY DEF GInv
<1> USE DEF RespectsPurge, Lost
<1>1. ASSUME NEW u \in Users, NEW st \in {"guest", "account"}, NEW org \in {"new", "account"},
             users[u] = "none", users' = [users EXCEPT ![u] = st], Provision(u, org),
             files' = files
      PROVE  RespectsPurge
  <2>1. orgs[u] = "none" /\ \A o \in Users : u \notin members[o]
    BY <1>0, <1>1 DEF PlaceOf
  <2> QED
    BY <1>0, <1>1, <2>1 DEF Provision, TypeOK
<1>2. ASSUME NEW p \in Procs, NEW u \in Users, NEW v \in Users,
             CreateGuest(p, u) \/ FreshAccount(p, u) \/ SignupFresh(p, v, u)
      PROVE  RespectsPurge
  BY <1>1, <1>2 DEF CreateGuest, FreshAccount, SignupFresh
<1>3. ASSUME NEW p \in Procs, NEW u \in Users, SignupUpgrade(p, u) PROVE RespectsPurge
  <2>1. ~Lost(u) /\ \A o \in Users : u \in members[o] => o = u
    BY <1>0, <1>3 DEF PlaceOf, SignupUpgrade
  <2> QED
    BY <1>0, <1>3, <2>1 DEF SignupUpgrade, TypeOK
<1>4. ASSUME NEW p \in Procs, NEW u \in Users, NEW o \in Users, Upload(p, u, o)
      PROVE  RespectsPurge
  <2>1. ~Lost(o) \/ \E w \in members[o] : users[w] # "guest"
    BY <1>0, <1>4 DEF PlaceOf, Upload, SignedIn
  <2> QED
    BY <1>0, <1>4, <2>1 DEF Upload, TypeOK
<1>5. ASSUME NEW p \in Procs, AcceptWrite(p) PROVE RespectsPurge
  <2>1. PICK u \in proc[p].user, o \in proc[p].org :
           \/ OrgExists(o) /\ members' = [members EXCEPT ![o] = @ \cup {u}]
           \/ UNCHANGED members
    BY <1>5 DEF AcceptWrite
  <2>2. o \in Users
    BY <1>0 DEF TypeOK, Handler
  <2>3. IsShared(o)
    BY <1>5 DEF AcceptWrite, At, IsShared, Inviting
  <2>4. OrgExists(o) => \E w \in members[o] : users[w] # "guest"
    BY <2>2, <2>3 DEF GInv, SharedByAccount, OrgExists
  <2>5. UNCHANGED <<users, orgs, files>>
    BY <1>5 DEF AcceptWrite
  <2> QED
    BY <1>0, <2>1, <2>2, <2>4, <2>5 DEF TypeOK
<1>6. ASSUME NEW p \in Procs, CleanupDelete(p) PROVE RespectsPurge
  <2>1. PICK o \in proc[p].org :
           /\ orgs' = [orgs EXCEPT ![o] = "gone"]
           /\ users' = [u \in Users |-> IF u \in proc[p].user THEN "gone" ELSE users[u]]
           /\ members' = [y \in Users |-> IF y = o THEN {} ELSE members[y] \ proc[p].user]
    BY <1>6 DEF CleanupDelete
  <2>2. \A u \in proc[p].user : users[u] # "account"
    BY <1>6 DEF CleanupDelete, At, GInv, Handling, Purging
  <2>3. UNCHANGED files
    BY <1>6 DEF CleanupDelete
  <2> QED
    BY <1>0, <2>1, <2>2, <2>3 DEF TypeOK
<1>7. ASSUME NEW u \in Users, SignupFails(u) \/ Ages(u) PROVE RespectsPurge
  <2>1. UNCHANGED <<users, members, files>>
    BY <1>7 DEF SignupFails, Ages
  <2>2. \A o \in Users : Lost(o) => Lost(o)'
    BY <1>0, <1>7 DEF SignupFails, Ages, TypeOK
  <2> QED
    BY <2>1, <2>2
<1>8. ASSUME UNCHANGED <<users, orgs, members>>, files' \subseteq files PROVE RespectsPurge
  <2>1. \A o \in Users : Lost(o) => Lost(o)'
    BY <1>8, SMTT(30)
  <2> QED
    BY <1>8, <2>1
<1>9. ASSUME NEW p \in Procs,
             \/ \E u \in Users : SignupStart(p, u)
             \/ \E u, o \in Users : InviteRead(p, u, o)
             \/ \E u \in Users, t \in Tokens : AcceptRead(p, u, t)
             \/ \E t \in Tokens : InviteWrite(p, t) \/ InviteExpires(t)
             \/ CleanupList(p) \/ CleanupCheck(p) \/ CleanupFiles(p)
             \/ CleanupFails(p) \/ CleanupEnds(p) \/ Crash(p)
      PROVE  RespectsPurge
  BY <1>8, <1>9 DEF SignupStart, InviteRead, AcceptRead, InviteWrite, InviteExpires, CleanupList,
                    CleanupCheck, CleanupFiles, CleanupFails, CleanupEnds, Crash
<1>10. ASSUME NEW t \in Tokens, InviteExpires(t) PROVE RespectsPurge
  BY <1>8, <1>10 DEF InviteExpires
<1>11. CASE UNCHANGED vars
  BY <1>8, <1>11 DEF vars
<1> QED
  BY <1>2, <1>3, <1>4, <1>5, <1>6, <1>7, <1>9, <1>10, <1>11 DEF Next, Session, Invite, Cleanup

(* So a handler that does not move keeps what it has read ...              *)
LEMMA HandlingKept ==
    ASSUME TypeOK, RespectsPurge, NEW q \in Procs, Handling(q), proc'[q] = proc[q]
    PROVE  Handling(q)'
<1>1. proc[q].todo \subseteq Users /\ proc[q].org \subseteq Users /\ proc[q].user \subseteq Users
  BY DEF TypeOK, Handler
<1>2. ASSUME Purging(q) PROVE Purging(q)'
  BY <1>1, <1>2 DEF Purging, RespectsPurge
<1> QED
  BY <1>1, <1>2 DEF Handling, RespectsPurge

(* Where a handler moves to.                                               *)
LEMMA MovesTo ==
    ASSUME TypeOK, NEW p \in Procs, NEW new, SetProc(p, new)
    PROVE  proc'[p] = new
BY DEF SetProc, TypeOK

(* ... and one that moves has read what holds.                             *)
LEMMA HandlingInductive ==
    ASSUME GInv, [Next]_vars, NEW q \in Procs
    PROVE  Handling(q)'
<1>0. /\ TypeOK /\ RespectsPurge /\ Handling(q) /\ proc[q] \in Handler
      /\ \A u \in Users : PlaceOf(u)
  BY PurgeRespected DEF GInv, TypeOK
<1>1. CASE proc'[q] = proc[q]
  BY <1>0, <1>1, HandlingKept
<1>2. ASSUME proc'[q].pc \in {"idle", "invite"} PROVE Handling(q)'
  BY <1>2 DEF Handling
<1>3. CASE \/ \E u, o \in Users : InviteRead(q, u, o)
           \/ \E t \in Tokens : InviteWrite(q, t)
           \/ AcceptWrite(q) \/ CleanupEnds(q) \/ Crash(q)
  <2>1. \/ SetProc(q, Idle)
        \/ \E o \in Users : SetProc(q, [Idle EXCEPT !.pc = "invite", !.org = {o}])
    BY <1>3 DEF InviteRead, InviteWrite, AcceptWrite, CleanupEnds, Crash
  <2>2. CASE SetProc(q, Idle)
    BY <1>0, <1>2, <2>2, MovesTo DEF Idle
  <2>3. ASSUME NEW o \in Users, SetProc(q, [Idle EXCEPT !.pc = "invite", !.org = {o}])
        PROVE  Handling(q)'
    BY <1>0, <1>2, <2>3, MovesTo DEF Idle
  <2> QED
    BY <2>1, <2>2, <2>3
<1>4. ASSUME NEW u \in Users, NEW t \in Tokens, AcceptRead(q, u, t) PROVE Handling(q)'
  <2>1. users' = users /\ users[u] = "account"
    BY <1>4 DEF AcceptRead
  <2>2. proc'[q].pc = "accept" /\ proc'[q].user = {u}
    BY <1>0, <1>4 DEF AcceptRead, SetProc, TypeOK, Idle
  <2> QED
    BY <2>1, <2>2 DEF Handling
<1>5. CASE CleanupList(q)
  <2>1. proc'[q].pc = "check" /\ proc'[q].todo = {o \in Users : orgs[o] = "old"}
    BY <1>0, <1>5 DEF CleanupList, SetProc, TypeOK, Idle
  <2>2. UNCHANGED orgs
    BY <1>5 DEF CleanupList
  <2> QED
    BY <2>1, <2>2 DEF Handling, Lost
<1>6. CASE CleanupCheck(q)
  <2>1. proc[q].pc = "check" /\ UNCHANGED <<users, orgs, members, files>>
    BY <1>6 DEF CleanupCheck, At
  <2>2. PICK o \in proc[q].todo :
           IF \E u \in members[o] : users[u] # "guest"
           THEN SetProc(q, [proc[q] EXCEPT !.todo = @ \ {o}])
           ELSE SetProc(q, [proc[q] EXCEPT !.pc = "files", !.todo = @ \ {o}, !.org = {o},
                                           !.user = members[o]])
    BY <1>6 DEF CleanupCheck
  <2>3. o \in Users /\ Lost(o) /\ proc'[q].todo = proc[q].todo \ {o}
    <3>1. \/ proc'[q] = [proc[q] EXCEPT !.todo = @ \ {o}]
          \/ proc'[q] = [proc[q] EXCEPT !.pc = "files", !.todo = @ \ {o}, !.org = {o},
                                       !.user = members[o]]
      BY <1>0, <2>2, MovesTo
    <3>2. proc'[q].todo = proc[q].todo \ {o}
      BY <1>0, <3>1 DEF Handler
    <3> QED
      BY <1>0, <2>1, <3>2 DEF Handling, Handler
  <2>4. \A x \in proc'[q].todo : Lost(x)'
    BY <1>0, <2>1, <2>3 DEF Handling, Lost
  <2>5. CASE \E u \in members[o] : users[u] # "guest"
    <3>1. proc'[q].pc = "check"
      <4>1. proc'[q] = [proc[q] EXCEPT !.todo = @ \ {o}]
        BY <1>0, <2>2, <2>5, MovesTo
      <4> QED
        BY <1>0, <2>1, <4>1 DEF Handler
    <3> QED
      BY <2>4, <3>1 DEF Handling
  <2>6. CASE ~\E u \in members[o] : users[u] # "guest"
    <3>1. proc'[q].pc = "files" /\ proc'[q].org = {o} /\ proc'[q].user = members[o]
      <4>1. proc'[q] = [proc[q] EXCEPT !.pc = "files", !.todo = @ \ {o}, !.org = {o},
                                       !.user = members[o]]
        BY <1>0, <2>2, <2>6, MovesTo
      <4> QED
        BY <1>0, <4>1 DEF Handler
    <3>2. \A u \in members[o] : u = o
      BY <1>0, <2>3, <2>6 DEF PlaceOf, TypeOK
    <3>3. Purging(q)'
      BY <2>1, <2>3, <2>6, <3>1, <3>2 DEF Purging, Lost
    <3> QED
      BY <2>4, <3>1, <3>3 DEF Handling
  <2> QED
    BY <2>5, <2>6
<1>7. CASE CleanupFiles(q)
  <2>1. proc[q].pc = "files" /\ UNCHANGED <<users, orgs, members>> 
         /\ files' = files \ (proc[q].org \X {"deal"})
    BY <1>7 DEF CleanupFiles, At
  <2>2. /\ proc'[q].pc = "delete" /\ proc'[q].org = proc[q].org
        /\ proc'[q].user = proc[q].user /\ proc'[q].todo = proc[q].todo
    BY <1>0, <1>7 DEF CleanupFiles, SetProc, TypeOK, Handler
  <2> QED
    BY <1>0, <2>1, <2>2 DEF Handling, Purging, Lost
<1>8. CASE CleanupDelete(q) \/ CleanupFails(q)
  <2>1. /\ proc'[q].pc = "check" /\ proc'[q].todo = proc[q].todo
        /\ proc[q].pc \in {"files", "delete"}
    <3>1. /\ SetProc(q, [proc[q] EXCEPT !.pc = "check", !.org = {}, !.user = {}])
          /\ proc[q].pc \in {"files", "delete"}
      BY <1>8 DEF CleanupDelete, CleanupFails, At
    <3>2. proc'[q] = [proc[q] EXCEPT !.pc = "check", !.org = {}, !.user = {}]
      BY <1>0, <3>1, MovesTo
    <3> QED
      BY <1>0, <3>1, <3>2 DEF Handler
  <2>2. proc[q].todo \subseteq Users
    BY <1>0 DEF Handler
  <2> QED
    BY <1>0, <2>1, <2>2 DEF Handling, RespectsPurge
<1>9. ASSUME NEW p \in Procs, NEW u \in Users,
             \/ CreateGuest(p, u) \/ FreshAccount(p, u) \/ SignupStart(p, u)
             \/ SignupUpgrade(p, u) \/ (\E v \in Users : SignupFresh(p, u, v))
             \/ (\E o \in Users : Upload(p, u, o)) \/ SignupFails(u) \/ Ages(u)
             \/ (\E t \in Tokens : InviteExpires(t)) \/ UNCHANGED vars
      PROVE  Handling(q)'
  BY <1>1, <1>9 DEF CreateGuest, FreshAccount, SignupStart, SignupUpgrade, SignupFresh, Upload,
                    SignupFails, Ages, InviteExpires, vars
<1>10. ASSUME NEW p \in Procs, p # q, \E new : SetProc(p, new) PROVE Handling(q)'
  BY <1>0, <1>1, <1>10 DEF SetProc, TypeOK
<1>11. ASSUME NEW p \in Procs,
              \/ \E u, o \in Users : InviteRead(p, u, o)
              \/ \E t \in Tokens : InviteWrite(p, t)
              \/ \E u \in Users, t \in Tokens : AcceptRead(p, u, t)
              \/ AcceptWrite(p) \/ CleanupList(p) \/ CleanupCheck(p) \/ CleanupFiles(p)
              \/ CleanupDelete(p) \/ CleanupFails(p) \/ CleanupEnds(p) \/ Crash(p)
       PROVE  Handling(q)'
  <2>1. \E new : SetProc(p, new)
    BY <1>11 DEF InviteRead, InviteWrite, AcceptRead, AcceptWrite, CleanupList, CleanupCheck,
                 CleanupFiles, CleanupDelete, CleanupFails, CleanupEnds, Crash
  <2>2. CASE p = q
    BY <1>3, <1>4, <1>5, <1>6, <1>7, <1>8, <1>11, <2>2
  <2>3. CASE p # q
    BY <1>10, <2>1, <2>3
  <2> QED
    BY <2>2, <2>3, SMTT(30)
<1>12. ASSUME NEW t \in Tokens, InviteExpires(t) \/ UNCHANGED vars PROVE Handling(q)'
  BY <1>1, <1>12 DEF InviteExpires, vars
<1>13. CASE UNCHANGED vars
  BY <1>1, <1>13 DEF vars
<1> QED
  BY <1>9, <1>11, <1>12, <1>13 DEF Next, Session, Invite, Cleanup

-----------------------------------------------------------------------------
(* The invariant holds, and with it what is promised.                      *)
LEMMA GInvInductive ==
    /\ Init => GInv
    /\ GInv /\ [Next]_vars => GInv'
<1>1. Init => GInv
  <2> SUFFICES ASSUME Init PROVE GInv
    OBVIOUS
  <2>1. TypeOK
    BY TypeInductive
  <2>2. \A u \in Users : PlaceOf(u)
    BY DEF Init, PlaceOf, OrgExists
  <2>3. \A o \in Users : SharedByAccount(o)
    BY DEF Init, SharedByAccount, IsShared, Inviting, NoInvite, Idle
  <2>4. \A p \in Procs : Handling(p)
    BY DEF Init, Handling, Idle
  <2> QED
    BY <2>1, <2>2, <2>3, <2>4 DEF GInv
<1>2. ASSUME GInv, [Next]_vars PROVE GInv'
  <2>1. TypeOK'
    BY <1>2, TypeInductive DEF GInv
  <2> QED
    BY <1>2, <2>1, PlaceInductive, SharedInductive, HandlingInductive DEF GInv
<1> QED
  BY <1>1, <1>2

(* A purged workspace has no file of its deals, no member and no open      *)
(* invite: the files were removed before it was deleted, and nobody could  *)
(* upload to it in between.  (Its knowledge files stay.)                   *)
THEOREM PurgeTakesDealsCorrect == Spec => []PurgeTakesDeals
<1>1. GInv => PurgeTakesDeals
  BY DEF GInv, PlaceOf, PurgeTakesDeals, OrgExists
<1> QED
  BY <1>1, GInvInductive, PTL DEF Spec

(* Who is signed in to a workspace is not a guest of a lost one, so no     *)
(* purge has it in hand.                                                   *)
LEMMA NotPurged ==
    ASSUME GInv, NEW u \in Users, NEW o \in Users, SignedIn(u, o), NEW p \in Procs,
           proc[p].pc \in {"files", "delete"}
    PROVE  u \notin proc[p].user /\ o \notin proc[p].org
<1>1. Purging(p) /\ PlaceOf(u)
  BY DEF GInv, Handling
<1>2. u \in members[o] /\ (users[u] = "account" \/ (users[u] = "guest" /\ orgs[u] = "new" /\ o = u))
  BY <1>1 DEF SignedIn, PlaceOf
<1> QED
  BY <1>1, <1>2 DEF Purging, Lost

\* What WorkIsKept asks of a step.
WorkStays ==
    \A u, o \in Users : SignedIn(u, o) =>
        /\ users'[u] \in {"guest", "account"} /\ u \in members'[o] /\ OrgExists(o)'
        /\ \A k \in FileKinds : <<o, k>> \in files => <<o, k>> \in files'

(* Nobody who is signed in loses a workspace or its files.                 *)
LEMMA WorkIsKeptStep == GInv /\ [Next]_vars => WorkStays
<1> SUFFICES ASSUME GInv, [Next]_vars, NEW u \in Users, NEW o \in Users, SignedIn(u, o)
             PROVE  /\ users'[u] \in {"guest", "account"} /\ u \in members'[o] /\ OrgExists(o)'
                    /\ \A k \in FileKinds : <<o, k>> \in files => <<o, k>> \in files'
  BY DEF WorkStays
<1> DEFINE Kept == /\ users'[u] \in {"guest", "account"} /\ u \in members'[o] /\ OrgExists(o)'
                   /\ \A k \in FileKinds : <<o, k>> \in files => <<o, k>> \in files'
<1>0. /\ TypeOK /\ users[u] \in {"guest", "account"} /\ u \in members[o] /\ OrgExists(o)
      /\ \A w \in Users : PlaceOf(w)
  BY DEF GInv, SignedIn, PlaceOf
<1>1. ASSUME NEW w \in Users, NEW st \in {"guest", "account"}, NEW org \in {"new", "account"},
             users[w] = "none", users' = [users EXCEPT ![w] = st], Provision(w, org),
             files' = files
      PROVE  Kept
  <2>1. u # w /\ o # w
    BY <1>0, <1>1 DEF PlaceOf, OrgExists
  <2> QED
    BY <1>0, <1>1, <2>1 DEF Provision, TypeOK, OrgExists
<1>2. ASSUME NEW p \in Procs, NEW w \in Users, NEW v \in Users,
             SignupFresh(p, v, w)
      PROVE  Kept
  BY <1>1, <1>2 DEF SignupFresh
<1>3. ASSUME NEW p \in Procs, NEW w \in Users,
             \/ CreateGuest(p, w) \/ FreshAccount(p, w) \/ SignupStart(p, w)
             \/ SignupUpgrade(p, w) \/ (\E v \in Users : SignupFresh(p, w, v))
             \/ (\E v \in Users : Upload(p, w, v))
      PROVE  Kept
  <2>1. CASE CreateGuest(p, w) \/ FreshAccount(p, w)
    BY <1>1, <2>1 DEF CreateGuest, FreshAccount
  <2>2. CASE SignupStart(p, w) \/ SignupUpgrade(p, w) \/ \E v \in Users : Upload(p, w, v)
    BY <1>0, <2>2 DEF SignupStart, SignupUpgrade, Upload, TypeOK, OrgExists
  <2> QED
    BY <1>2, <1>3, <2>1, <2>2
<1>4. ASSUME NEW w \in Users, SignupFails(w) \/ Ages(w) PROVE Kept
  BY <1>0, <1>4 DEF SignupFails, Ages, TypeOK, OrgExists
<1>5. ASSUME UNCHANGED <<users, orgs, members, files>> PROVE Kept
  BY <1>0, <1>5 DEF OrgExists
<1>6. ASSUME NEW p \in Procs, AcceptWrite(p) PROVE Kept
  <2>1. members[o] \subseteq members'[o]
    BY <1>0, <1>6 DEF AcceptWrite, TypeOK
  <2>2. UNCHANGED <<users, orgs, files>>
    BY <1>6 DEF AcceptWrite
  <2> QED
    BY <1>0, <2>1, <2>2 DEF OrgExists
<1>7. ASSUME NEW p \in Procs, CleanupFiles(p) PROVE Kept
  <2>1. o \notin proc[p].org
    BY <1>7, NotPurged DEF CleanupFiles, At
  <2> QED
    BY <1>0, <1>7, <2>1 DEF CleanupFiles, OrgExists
<1>8. ASSUME NEW p \in Procs, CleanupDelete(p) PROVE Kept
  <2>1. u \notin proc[p].user /\ o \notin proc[p].org
    BY <1>8, NotPurged DEF CleanupDelete, At
  <2> QED
    BY <1>0, <1>8, <2>1 DEF CleanupDelete, OrgExists, TypeOK
<1>9. ASSUME NEW p \in Procs,
             \/ \E w, v \in Users : InviteRead(p, w, v)
             \/ \E w \in Users, t \in Tokens : AcceptRead(p, w, t)
             \/ \E t \in Tokens : InviteWrite(p, t)
             \/ CleanupList(p) \/ CleanupCheck(p) \/ CleanupFails(p) \/ CleanupEnds(p)
             \/ Crash(p)
      PROVE  Kept
  BY <1>5, <1>9 DEF InviteRead, AcceptRead, InviteWrite, CleanupList, CleanupCheck, CleanupFails,
                    CleanupEnds, Crash
<1>10. ASSUME NEW t \in Tokens, InviteExpires(t) PROVE Kept
  BY <1>5, <1>10 DEF InviteExpires
<1>11. CASE UNCHANGED vars
  BY <1>5, <1>11 DEF vars
<1> QED
  BY <1>3, <1>4, <1>6, <1>7, <1>8, <1>9, <1>10, <1>11 DEF Next, Session, Invite, Cleanup

(* Who is signed in, as a guest or with the account the guest became,      *)
(* keeps the workspace and its files, whatever a purge has read.           *)
THEOREM WorkIsKeptCorrect == Spec => WorkIsKept
<1>1. GInv /\ [Next]_vars =>
        [\A u, o \in Users : SignedIn(u, o) =>
            /\ users'[u] \in {"guest", "account"} /\ u \in members'[o] /\ OrgExists(o)'
            /\ \A k \in FileKinds : <<o, k>> \in files => <<o, k>> \in files']_vars
  BY WorkIsKeptStep DEF WorkStays
<1> QED
  BY <1>1, GInvInductive, PTL DEF Spec, WorkIsKept

=============================================================================
