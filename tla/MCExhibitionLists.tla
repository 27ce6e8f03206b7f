------------------------- MODULE MCExhibitionLists -------------------------
(* A bounded instance of ExhibitionLists with two history variables: whether *)
(* two requests have overlapped, and the lists with a lock change whose      *)
(* audit entry is missing.                                                   *)
EXTENDS ExhibitionLists, TLC

VARIABLES overlapped, missed

MCSymmetry == Permutations(Requests) \cup Permutations(ListIds)
                                     \cup Permutations(EntryIds)
\* A sort order below zero makes the next one fall back to 10; 0 asks for it.
MCOrders == {-20, 0}

Busy == {r \in Requests : req[r] # Idle}

\* A lock request that has written the lock and not yet audited it.
Auditing(q) == q.pc \in {"readback", "audit"}
Unaudited(rs) == {req[r].list : r \in {s \in rs : Auditing(req[s])}}

MCInit == Init /\ overlapped = FALSE /\ missed = {}

MCNext ==
    /\ \/ Restart /\ missed' = missed \cup Unaudited(Requests)
       \/ \E r \in Requests :
            \/ (ListStep(r) \/ EntryStep(r)) /\ missed' = missed
            \/ StatementFails(r) /\ missed' = missed \cup Unaudited({r})
            \/ AuditLock(r) /\ missed' = missed \ {req[r].list}
    /\ overlapped' = (overlapped \/ Cardinality(Busy') > 1)

MCSpec == MCInit /\ [][MCNext]_<<vars, overlapped, missed>>

----------------------------------------------------------------------------
\* Handled one at a time, requests leave the audit log of a list with its lock state as
\* the last lock event, unless the last change of the lock was cut off between the UPDATE
\* and the audit entry: by a stop of the process, by the closing Get (exhibition.go:175)
\* or by the insert of the entry (api/exhibition.go:146).  An entry written later makes up
\* for the one that is missing.
AuditMatchesLock ==
    ~overlapped /\ Busy = {} =>
       \A l \in DOMAIN lists \ missed : lists[l].locked <=> audited[l] = "locked"
=============================================================================
