------------------------- MODULE AccountsProperties -------------------------
(***************************************************************************)
(* What accounts, invites and the purge of Accounts.tla promise.           *)
(***************************************************************************)
EXTENDS Accounts

Handler ==
    [pc : {"idle", "invite", "accept", "check", "files", "delete"},
     user : SUBSET Users, org : SUBSET Users, token : SUBSET Tokens, todo : SUBSET Users]

InviteRow == [org : SUBSET Users, open : BOOLEAN, takers : SUBSET Users]

(* Every variable keeps its shape: the tables, the sign-ups under way and  *)
(* the handlers.                                                           *)
TypeOK ==
    /\ users \in [Users -> {"none", "guest", "account", "gone"}]
    /\ orgs \in [Users -> OrgStatus]
    /\ members \in [Users -> SUBSET Users]
    /\ files \subseteq Users \X FileKinds
    /\ signing \subseteq Users
    /\ invites \in [Tokens -> InviteRow]
    /\ proc \in [Procs -> Handler]

(* "Same user id, same org, same uploaded work" (auth.py:91-94): who is    *)
(* signed in to a workspace, as a guest or with an account, keeps it and   *)
(* its files.  A purge reads in one transaction that a workspace has       *)
(* guests only and deletes it in another; only the day between the end of  *)
(* a guest's token and the end of the retention window keeps a sign-up     *)
(* from falling in between.  The property follows signup(); three module   *)
(* comments say the opposite of the upgrade and are out of date: "a        *)
(* guest's in-progress work does NOT carry over" (auth.py:10-12), "there   *)
(* is no guest-to-account carryover" (google_auth.py:15-18) and "No such   *)
(* upgrade path exists yet" (cron.py:3-7).                                 *)
WorkIsKept ==
    [][\A u, o \in Users : SignedIn(u, o) =>
          /\ users'[u] \in {"guest", "account"} /\ u \in members'[o] /\ OrgExists(o)'
          /\ \A k \in FileKinds : <<o, k>> \in files => <<o, k>> \in files']_vars

(* The part of a purge that _run_cleanup() sees to itself: a purged        *)
(* workspace leaves no file of its deals, no member and no open invite     *)
(* behind, although the files are removed outside the transaction that     *)
(* deletes the workspace and either may fail (cron.py:56-73).  Knowledge   *)
(* files are no part of this: they lie under the organisation's id and     *)
(* stay (knowledge.py:102), although "Guest data is never kept"            *)
(* (auth.py:9).                                                            *)
PurgeTakesDeals ==
    \A o \in Users : orgs[o] = "gone" =>
        /\ <<o, "deal">> \notin files /\ members[o] = {}
        /\ \A t \in Tokens : invites[t].org = {o} => ~invites[t].open

(* accept_invite() may let in more than the two members of the cap, as it  *)
(* counts before it inserts, but no more than one for each other worker    *)
(* process.                                                                *)
MembersBounded ==
    \A o \in Users : Cardinality(members[o]) < MaxMembers + Cardinality(Procs)

(* accept_invite() "enforces the 2-member cap" (auth.py:245-246).          *)
MembersCapped ==
    \A o \in Users : Cardinality(members[o]) <= MaxMembers

=============================================================================
