----------------------------- MODULE NumberBook -----------------------------
(***************************************************************************)
(* What inventory numbers promise, without schemes, requests or draws: a   *)
(* book in which every vehicle stands with one number, no number stands    *)
(* twice, and a number issued by the program is a new one, too, if its     *)
(* vehicle has been struck out since.                                      *)
(***************************************************************************)
CONSTANTS VehicleIds, Numbers

VARIABLES book,     \* the vehicles with their numbers
          struck,   \* the vehicles that were struck out
          issued    \* the numbers issued since the book was last reopened
bookVars == <<book, struck, issued>>

Init == book = [v \in {} |-> {}] /\ struck = {} /\ issued = {}

\* The line of v is written or written over, with a number that stands nowhere else.
Write(v) ==
    /\ DOMAIN book' = DOMAIN book \cup {v}
    /\ book'[v] \in Numbers
    /\ \A w \in DOMAIN book \ {v} : book'[w] = book[w] /\ book[w] # book'[v]
    /\ UNCHANGED struck

New(v) == v \notin DOMAIN book \cup struck

\* With a number of the user's, or of schemes that print each other's numbers.
Enter(v) == New(v) /\ Write(v) /\ UNCHANGED issued

Issue(v) == New(v) /\ Write(v) /\ book'[v] \notin issued /\ issued' = issued \cup {book'[v]}

Change(v) == v \in DOMAIN book /\ Write(v) /\ UNCHANGED issued

Strike(v) ==
    /\ v \in DOMAIN book
    /\ book' = [w \in DOMAIN book \ {v} |-> book[w]]
    /\ struck' = struck \cup {v}
    /\ UNCHANGED issued

\* An admin changes a scheme.
Reopen == issued' = {} /\ UNCHANGED <<book, struck>>

Next == Reopen \/ \E v \in VehicleIds : Enter(v) \/ Issue(v) \/ Change(v) \/ Strike(v)

Spec == Init /\ [][Next]_bookVars
=============================================================================
