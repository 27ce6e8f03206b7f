------------------------- MODULE MCVehicleGallery -------------------------
(* VehicleGallery with small sets of ids.  The history variable overlapped    *)
(* tells whether two requests have been under way at once: some properties    *)
(* hold only as long as that has not happened.                                *)
EXTENDS VehicleGallery, TLC

VARIABLE overlapped

Symmetry == Permutations(VehicleIds) \cup Permutations(ImageIds)
              \cup Permutations(MaintenanceIds) \cup Permutations(Files)
              \cup Permutations(Requests) \cup Permutations(Forms)

Busy == {r \in Requests : req[r] # Idle}

MCInit == Init /\ overlapped = FALSE

MCNext == Next /\ overlapped' = (overlapped \/ Cardinality(Busy') > 1)

MCSpec == MCInit /\ [][MCNext]_<<vars, overlapped>>

----------------------------------------------------------------------------
\* Handled one at a time, uploads, deletes and saved forms leave a vehicle that has
\* images one primary image (vehicles.go:877, 958, 2086).
OnePrimaryInTurn == ~overlapped => OnePrimary

\* Handled one at a time, deletes of images spare those that a maintenance entry is
\* documented with: the link has to be removed first (vehicles.go:939).
LinkedImagesStayInTurn == [][~overlapped' => DeletesUnlinked]_vars
=============================================================================
