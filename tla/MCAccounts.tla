----------------------------- MODULE MCAccounts -----------------------------
(***************************************************************************)
(* Small instances of the accounts for TLC.                                *)
(***************************************************************************)
EXTENDS AccountsProperties, TLC

CONSTANTS u1, u2, u3, u4, t1, t2

\* Users, processes and invites are interchangeable; u4 and t2 are named
\* below, by what comes last.
Interchangeable == Permutations(Users \ {u4}) \cup Permutations(Procs)

\* u4 is the last user born, t2 the last invite created.
InOrder ==
    /\ users[u4] # "none" => \A u \in Users : users[u] # "none"
    /\ invites[t2] # NoInvite => invites[t1] # NoInvite

\* Bound: four users and two invites when there never is a guest, else three
\* users and one invite.
AccountsOnly == \A u \in Users : users[u] # "guest" /\ orgs[u] \notin GuestOrg

FewUsers == users[u4] = "none" /\ invites[t2] = NoInvite

\* Bound: one workspace has files, of one kind.  No action reads "files" and
\* each property looks at one pair of workspace and kind, so a behaviour with
\* more files breaks a property only if one of these does.
FewFiles == Cardinality(files) <= 1

Bounded == InOrder /\ FewFiles /\ (AccountsOnly \/ FewUsers)
=============================================================================
