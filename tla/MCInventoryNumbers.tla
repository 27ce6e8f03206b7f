------------------------ MODULE MCInventoryNumbers ------------------------
(* InventoryNumbers with small inputs.  The history variable overlapped tells *)
(* whether a second request has come while an update was under way: the       *)
(* history of the numbers is right only as long as that has not happened.     *)
EXTENDS InventoryNumbers, TLC

VARIABLE overlapped

Symmetry == Permutations(VehicleIds) \cup Permutations(Requests)

\* Edits to just below a change of length, back to the start, and to a scheme that
\* is out of use.
Edits == {[prefix |-> "Fahrzeug", next |-> 9, padding |-> 1, active |-> TRUE],
          [prefix |-> "Fahrzeug", next |-> 1, padding |-> 6, active |-> TRUE],
          [prefix |-> "Lokomotive", next |-> 9, padding |-> 2, active |-> FALSE]}

Typed == {Format("Fahrzeug", 1, 6), Format("Fahrzeug", 10, 1)}

Busy == {r \in Requests : req[r] # Idle}

MCInit == Init /\ overlapped = FALSE

MCNext == Next /\ overlapped' = (overlapped \/ Cardinality(Busy') > 1)

MCSpec == MCInit /\ [][MCNext]_<<vars, overlapped>>

----------------------------------------------------------------------------
\* Handled one at a time, updates leave the history of a vehicle at the number it has, each
\* row starting from the number the vehicle had (vehicles.go:396, vehicles_test.go:
\* TestUpdateVehicleRecordsInventoryNumberHistory).
HistoryFollowsInTurn ==
    /\ [](~overlapped => HistoryEndsWithNumber)
    /\ [][~overlapped' => HistoryContinues]_vars
=============================================================================
