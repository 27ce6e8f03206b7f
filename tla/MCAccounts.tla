---------------------------- MODULE MCAccounts ----------------------------
(* Accounts with ids as model values; ids of one kind are interchangeable.   *)
(* The history variable overlapped tells whether two requests have been under *)
(* way at once: some properties hold only as long as that has not happened.  *)
EXTENDS Accounts, TLC

VARIABLE overlapped

Symmetry == Permutations(UserIds) \cup Permutations(SessionIds)
              \cup Permutations(ResetIds) \cup Permutations(Requests)
              \cup Permutations(Passwords)

AdminOrMesse == {{"Admin"}, {"Messe"}}

Busy == {r \in Requests : req[r] # Idle}

MCInit == Init /\ overlapped = FALSE

MCNext == Next /\ overlapped' = (overlapped \/ Cardinality(Busy') > 1)

MCSpec == MCInit /\ [][MCNext]_<<vars, overlapped>>

----------------------------------------------------------------------------
\* Handled one at a time, a reset link that has set a password sets no other
\* (auth.go:640, auth_test.go: TestPasswordResetChangesPasswordOnce).
ResetLinkWorksOnceInTurn == [][~overlapped' => UsedLinksSetNothing]_vars
=============================================================================
