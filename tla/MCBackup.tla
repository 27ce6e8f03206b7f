----------------------------- MODULE MCBackup -----------------------------
(* Backup with small sets of ids and files.  The history variable            *)
(* overlapped tells whether two requests have been under way at once: what a *)
(* restore brings back is certain only as long as that has not happened.     *)
EXTENDS Backup

VARIABLE overlapped

Busy == {r \in Requests : req[r] # Idle}

\* Creating and deleting a vehicle is one step of a request that is idle before and after.
Overlaps == Cardinality(Busy') > 1 \/ (Busy # {} /\ req' = req)

MCInit == Init /\ overlapped = FALSE

MCNext == Next /\ overlapped' = (overlapped \/ Overlaps)

MCSpec == MCInit /\ [][MCNext]_<<vars, overlapped>> /\ \A r \in Requests : WF_vars(Continue(r))

----------------------------------------------------------------------------
\* Handled one at a time, a restore that reports success has brought back what the backup
\* holds and nothing else, whatever became of attempts before it and wherever the process
\* stopped (backup.go:162, 195).
RestoreBringsBackInTurn == [][~overlapped' => RestoreBringsBack]_vars
=============================================================================
