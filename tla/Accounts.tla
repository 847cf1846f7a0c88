------------------------------ MODULE Accounts ------------------------------
(***************************************************************************)
(* Guests, accounts and their workspaces: sign-up, shared invites and the  *)
(* purge of old guests (src/app/routers/auth.py, google_auth.py, cron.py,  *)
(* src/app/provisioning.py, src/app/deps.py).                              *)
(*                                                                         *)
(* A handler keeps its process from its first statement to its last, but   *)
(* the statements of two processes interleave: the transactions run at     *)
(* read committed.  So a handler that reads, decides and writes takes one  *)
(* step to read and one to write, and its process does nothing in between. *)
(*                                                                         *)
(* A user owns at most one workspace, which is named after its owner here. *)
(* E-mail addresses are left out: a sign-up whose address is taken changes *)
(* nothing.                                                                *)
(***************************************************************************)
EXTENDS Naturals, FiniteSets

CONSTANTS
    Users,       \* the ids new_user_id() draws
    Procs,       \* worker processes
    Tokens,      \* bound: the invites ever created
    MaxMembers   \* _MAX_MEMBERS (2 in the code)

ASSUME AccountsAssumption ==
    /\ IsFiniteSet(Procs) /\ Procs # {}
    /\ MaxMembers \in Nat \ {0}

VARIABLES
    users,     \* the users table
    orgs,      \* the workspaces, by owner; a guest's with its age
    members,   \* team_members: the members of each workspace
    files,     \* which workspaces have files: of their deals, of their knowledge
    signing,   \* guests whose sign-up is under way
    invites,   \* the invites by token; takers: who has joined with it
    proc       \* the handler each process is in the middle of

vars == <<users, orgs, members, files, signing, invites, proc>>

-----------------------------------------------------------------------------
\* A guest's token is valid for a day (auth_token_ttl_seconds): its workspace
\* is "new".  It may be purged after two (_RETENTION_HOURS): "old".
GuestOrg == {"new", "lapsed", "old"}

OrgStatus == GuestOrg \cup {"none", "account", "gone"}

NoInvite == [org |-> {}, open |-> FALSE, takers |-> {}]

Idle == [pc |-> "idle", user |-> {}, org |-> {}, token |-> {}, todo |-> {}]

At(p, pc) == proc[p].pc = pc

SetProc(p, new) == proc' = [proc EXCEPT ![p] = new]

\* The files of a deal lie under the deal's id, knowledge under the workspace's.
FileKinds == {"deal", "knowledge"}

OrgExists(o) == orgs[o] \notin {"none", "gone"}

\* require_guest() finds a membership for the user of a valid token, any one
\* of them.
SignedIn(u, o) ==
    /\ users[u] = "account" \/ (users[u] = "guest" /\ orgs[u] = "new")
    /\ u \in members[o]

\* provision_workspace()
Provision(u, status) ==
    /\ orgs' = [orgs EXCEPT ![u] = status]
    /\ members' = [members EXCEPT ![u] = {u}]

Init ==
    /\ users = [u \in Users |-> "none"]
    /\ orgs = [u \in Users |-> "none"]
    /\ members = [u \in Users |-> {}]
    /\ files = {}
    /\ signing = {}
    /\ invites = [t \in Tokens |-> NoInvite]
    /\ proc = [p \in Procs |-> Idle]

-----------------------------------------------------------------------------
(* Sessions. *)

CreateGuest(p, u) ==
    /\ At(p, "idle") /\ users[u] = "none"
    /\ users' = [users EXCEPT ![u] = "guest"]
    /\ Provision(u, "new")
    /\ UNCHANGED <<files, signing, invites, proc>>

\* _fresh_account(): a sign-up, by password or Google, without a guest to
\* upgrade.
FreshAccount(p, u) ==
    /\ At(p, "idle") /\ users[u] = "none"
    /\ users' = [users EXCEPT ![u] = "account"]
    /\ Provision(u, "account")
    /\ UNCHANGED <<files, signing, invites, proc>>

\* optional_guest() has found a guest; then Google is asked.
SignupStart(p, u) ==
    /\ At(p, "idle") /\ users[u] = "guest" /\ u \notin signing
    /\ \E o \in Users : SignedIn(u, o)
    /\ signing' = signing \cup {u}
    /\ UNCHANGED <<users, orgs, members, files, invites, proc>>

\* One of the sign-ups of a guest ends; it may have tried twice.
SignupEnds(u) == signing' \in {signing, signing \ {u}}

\* signup(), _resolve_google_user(): the guest is upgraded in place ...
SignupUpgrade(p, u) ==
    /\ At(p, "idle") /\ u \in signing /\ users[u] = "guest"
    /\ users' = [users EXCEPT ![u] = "account"]
    /\ SignupEnds(u)
    /\ UNCHANGED <<orgs, members, files, invites, proc>>

\* ... or gets a fresh account when it is no guest any more.
SignupFresh(p, u, v) ==
    /\ At(p, "idle") /\ u \in signing /\ users[u] # "guest"
    /\ users[v] = "none"
    /\ users' = [users EXCEPT ![v] = "account"]
    /\ Provision(v, "account")
    /\ SignupEnds(u)
    /\ UNCHANGED <<files, invites, proc>>

\* The address is taken, Google refuses, or the process dies.
SignupFails(u) ==
    /\ u \in signing
    /\ signing' = signing \ {u}
    /\ UNCHANGED <<users, orgs, members, files, invites, proc>>

\* Mutated form: the file's path lacks the directory of the deal or workspace.
UploadUnfiled(p, u, o) ==
    /\ At(p, "idle") /\ SignedIn(u, o)
    /\ \E k \in FileKinds : files' = files \cup {<<k>>}
    /\ UNCHANGED <<users, orgs, members, signing, invites, proc>>

\* documents_upload(), upload_knowledge(): a file is saved, its row inserted.
Upload(p, u, o) ==
    /\ At(p, "idle") /\ SignedIn(u, o)
    /\ \E k \in FileKinds : files' = files \cup {<<o, k>>}
    /\ UNCHANGED <<users, orgs, members, signing, invites, proc>>

\* Mutated form: the request to Google has no timeout, a sign-up takes a day.
AgesDuringSignup(o) ==
    /\ \/ orgs[o] = "new" /\ orgs' = [orgs EXCEPT ![o] = "lapsed"]
       \/ orgs[o] = "lapsed" /\ orgs' = [orgs EXCEPT ![o] = "old"]
    /\ UNCHANGED <<users, members, files, signing, invites, proc>>

\* A day passes for a guest's workspace; no sign-up takes a day.
Ages(o) ==
    /\ \/ orgs[o] = "new" /\ orgs' = [orgs EXCEPT ![o] = "lapsed"]
       \/ orgs[o] = "lapsed" /\ o \notin signing /\ orgs' = [orgs EXCEPT ![o] = "old"]
    /\ UNCHANGED <<users, members, files, signing, invites, proc>>

-----------------------------------------------------------------------------
(* Invites. *)

\* create_invite(): a workspace that has room and no open invite ...
InviteRead(p, u, o) ==
    /\ At(p, "idle")
    /\ users[u] = "account" /\ SignedIn(u, o)
    /\ Cardinality(members[o]) < MaxMembers
    /\ \A t \in Tokens : invites[t].org = {o} => ~invites[t].open \/ invites[t].takers # {}
    /\ \E t \in Tokens : invites[t] = NoInvite
    /\ SetProc(p, [Idle EXCEPT !.pc = "invite", !.org = {o}])
    /\ UNCHANGED <<users, orgs, members, files, signing, invites>>

\* ... gets one.  The foreign key refuses it when the workspace is gone.
InviteWrite(p, t) ==
    /\ At(p, "invite") /\ invites[t] = NoInvite
    /\ invites' = IF \A o \in proc[p].org : OrgExists(o)
                  THEN [invites EXCEPT ![t] = [org |-> proc[p].org, open |-> TRUE, takers |-> {}]]
                  ELSE invites
    /\ SetProc(p, Idle)
    /\ UNCHANGED <<users, orgs, members, files, signing>>

\* expires_at has passed.
InviteExpires(t) ==
    /\ invites[t].open
    /\ invites' = [invites EXCEPT ![t].open = FALSE]
    /\ UNCHANGED <<users, orgs, members, files, signing, proc>>

\* Mutated form: without "this shared workspace is full".
AcceptReadUncapped(p, u, t) ==
    /\ At(p, "idle")
    /\ users[u] = "account" /\ \E o \in Users : SignedIn(u, o)
    /\ invites[t].open /\ invites[t].takers = {}
    /\ \E o \in invites[t].org : u \notin members[o]
    /\ SetProc(p, [Idle EXCEPT !.pc = "accept", !.user = {u}, !.org = invites[t].org,
                               !.token = {t}])
    /\ UNCHANGED <<users, orgs, members, files, signing, invites>>

\* accept_invite(): the invite is open and unused, the workspace has room ...
AcceptRead(p, u, t) ==
    /\ At(p, "idle")
    /\ users[u] = "account" /\ \E o \in Users : SignedIn(u, o)
    /\ invites[t].open /\ invites[t].takers = {}
    /\ \E o \in invites[t].org : u \notin members[o] /\ Cardinality(members[o]) < MaxMembers
    /\ SetProc(p, [Idle EXCEPT !.pc = "accept", !.user = {u}, !.org = invites[t].org,
                               !.token = {t}])
    /\ UNCHANGED <<users, orgs, members, files, signing, invites>>

\* ... and the caller joins it, unless the workspace is gone or the caller has
\* joined meanwhile: then a constraint refuses the insert.
AcceptWrite(p) ==
    /\ At(p, "accept")
    /\ \E u \in proc[p].user, o \in proc[p].org, t \in proc[p].token :
          IF OrgExists(o) /\ u \notin members[o]
          THEN /\ members' = [members EXCEPT ![o] = @ \cup {u}]
               /\ invites' = [invites EXCEPT ![t].takers = @ \cup {u}]
          ELSE UNCHANGED <<members, invites>>
    /\ SetProc(p, Idle)
    /\ UNCHANGED <<users, orgs, files, signing>>

-----------------------------------------------------------------------------
(* _run_cleanup(). *)

\* The workspaces that were created for a guest and are past the retention
\* window, upgraded or not.
CleanupList(p) ==
    /\ At(p, "idle")
    /\ LET listed == {o \in Users : orgs[o] = "old"}
       IN  listed # {} /\ SetProc(p, [Idle EXCEPT !.pc = "check", !.todo = listed])
    /\ UNCHANGED <<users, orgs, members, files, signing, invites>>

\* The next one is skipped when a member is no guest any more.
CleanupCheck(p) ==
    /\ At(p, "check")
    /\ \E o \in proc[p].todo :
          IF \E u \in members[o] : users[u] # "guest"
          THEN SetProc(p, [proc[p] EXCEPT !.todo = @ \ {o}])
          ELSE SetProc(p, [proc[p] EXCEPT !.pc = "files", !.todo = @ \ {o}, !.org = {o},
                                          !.user = members[o]])
    /\ UNCHANGED <<users, orgs, members, files, signing, invites>>

\* Mutated form: a workspace without a directory on this host is passed over.
CleanupFilesSkipped(p) ==
    /\ At(p, "files")
    /\ SetProc(p, [proc[p] EXCEPT !.pc = "delete"])
    /\ UNCHANGED <<users, orgs, members, files, signing, invites>>

\* The directories of the deals go first, the knowledge files stay ...
CleanupFiles(p) ==
    /\ At(p, "files")
    /\ files' = files \ (proc[p].org \X {"deal"})
    /\ SetProc(p, [proc[p] EXCEPT !.pc = "delete"])
    /\ UNCHANGED <<users, orgs, members, signing, invites>>

\* ... then one transaction deletes the workspace, with its members and its
\* invites, and the users that were its members.  (They are guests: no invite
\* of another workspace refers to them and refuses it.)
CleanupDelete(p) ==
    /\ At(p, "delete")
    /\ \E o \in proc[p].org :
          /\ orgs' = [orgs EXCEPT ![o] = "gone"]
          /\ users' = [u \in Users |-> IF u \in proc[p].user THEN "gone" ELSE users[u]]
          /\ members' = [x \in Users |-> IF x = o THEN {} ELSE members[x] \ proc[p].user]
          /\ invites' = [t \in Tokens |-> IF invites[t].org = {o}
                                          THEN [invites[t] EXCEPT !.open = FALSE]
                                          ELSE invites[t]]
    /\ SetProc(p, [proc[p] EXCEPT !.pc = "check", !.org = {}, !.user = {}])
    /\ UNCHANGED <<files, signing>>

\* An error is noted, and the next workspace is looked at.
CleanupFails(p) ==
    /\ proc[p].pc \in {"files", "delete"}
    /\ SetProc(p, [proc[p] EXCEPT !.pc = "check", !.org = {}, !.user = {}])
    /\ UNCHANGED <<users, orgs, members, files, signing, invites>>

CleanupEnds(p) ==
    /\ At(p, "check") /\ proc[p].todo = {}
    /\ SetProc(p, Idle)
    /\ UNCHANGED <<users, orgs, members, files, signing, invites>>

\* The process dies, or the database refuses: what is not committed is undone.
Crash(p) ==
    /\ ~At(p, "idle")
    /\ SetProc(p, Idle)
    /\ UNCHANGED <<users, orgs, members, files, signing, invites>>

-----------------------------------------------------------------------------
Session ==
    \E p \in Procs, u \in Users :
        \/ CreateGuest(p, u) \/ FreshAccount(p, u)
        \/ SignupStart(p, u) \/ SignupUpgrade(p, u)
        \/ \E v \in Users : SignupFresh(p, u, v)
        \/ \E o \in Users : Upload(p, u, o)

Invite ==
    \E p \in Procs :
        \/ \E u, o \in Users : InviteRead(p, u, o)
        \/ \E t \in Tokens : InviteWrite(p, t)
        \/ \E u \in Users, t \in Tokens : AcceptRead(p, u, t)
        \/ AcceptWrite(p)

Cleanup ==
    \E p \in Procs :
        \/ CleanupList(p) \/ CleanupCheck(p) \/ CleanupFiles(p)
        \/ CleanupDelete(p) \/ CleanupFails(p) \/ CleanupEnds(p)

Next ==
    \/ Session \/ Invite \/ Cleanup
    \/ \E u \in Users : SignupFails(u) \/ Ages(u)
    \/ \E t \in Tokens : InviteExpires(t)
    \/ \E p \in Procs : Crash(p)

Spec == Init /\ [][Next]_vars

=============================================================================
