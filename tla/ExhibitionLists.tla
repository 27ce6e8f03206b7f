-------------------------- MODULE ExhibitionLists --------------------------
(***************************************************************************)
(* Exhibition lists and their entries, as ExhibitionService keeps them     *)
(* (backend/internal/application/exhibition.go) and the handlers audit     *)
(* them (backend/internal/api/exhibition.go).                              *)
(*                                                                         *)
(* No operation runs in a transaction: each is a sequence of statements,   *)
(* and what one statement read (the lock of the list, the largest sort     *)
(* order, the existence of the list) may be out of date when the next one  *)
(* runs.  A request is a record of what it still has to do and of what it  *)
(* has read.  Entries refer to their list, but the parameter that is to    *)
(* switch the references on (sqlite.go:27) is none the driver knows: they  *)
(* are not enforced, and nothing cascades.                                 *)
(***************************************************************************)
EXTENDS Integers, FiniteSets

CONSTANTS ListIds, EntryIds,    \* ids that randomID may return
          Requests,             \* HTTP requests being served
          Titles,               \* designation and date of a list
          GivenOrders           \* sort orders clients send; 0 asks for the next one

ASSUME RequestsAssumption == IsFiniteSet(Requests)
ASSUME GivenOrdersAssumption == GivenOrders \subseteq Int

VARIABLES lists,        \* exhibition_lists: id -> [locked, title]
          entries,      \* exhibition_entries: id -> [list, order]
          spent,        \* ids that were given out, by randomID's promise never again
          req,          \* what each request is doing
          audited       \* last lock event of a list in audit_logs
vars == <<lists, entries, spent, req, audited>>

NoList == "no list"
NoEntry == "no entry"

Idle == [op |-> "none", pc |-> "idle", list |-> NoList, entry |-> NoEntry,
         order |-> 0, lock |-> FALSE, early |-> FALSE]

Creations == {"create", "append"}     \* with a sort order given, or the next one
EntryOps == Creations \cup {"update", "delete"}
Ops == EntryOps \cup {"none", "lock", "rename"}
PCs == {"idle", "order", "entry", "write", "readback", "audit"}

EntriesOf(l) == {e \in DOMAIN entries : entries[e].list = l}
OrdersOf(l) == {entries[e].order : e \in EntriesOf(l)}

RequestStates == [op : Ops, pc : PCs, list : ListIds \cup {NoList},
                  entry : EntryIds \cup {NoEntry}, order : Int,
                  lock : BOOLEAN, early : BOOLEAN]

TypeOK ==
    /\ DOMAIN lists \subseteq ListIds
    /\ \A l \in DOMAIN lists : lists[l] \in [locked : BOOLEAN, title : Titles]
    /\ DOMAIN entries \subseteq EntryIds
    /\ \A e \in DOMAIN entries : entries[e] \in [list : ListIds, order : Int]
    /\ DOMAIN lists \cup DOMAIN entries \subseteq spent
    /\ spent \subseteq ListIds \cup EntryIds
    /\ req \in [Requests -> RequestStates]
    /\ \A r \in Requests : req[r].pc # "idle" => req[r].list \in ListIds
    /\ audited \in [ListIds -> {"none", "locked", "unlocked"}]

NoRows == [id \in {} |-> {}]     \* an empty table

Init ==
    /\ lists = NoRows
    /\ entries = NoRows
    /\ spent = {}
    /\ req = [r \in Requests |-> Idle]
    /\ audited = [l \in ListIds |-> "none"]

----------------------------------------------------------------------------
(* Requests about a list.                                                  *)

\* A table as a function from ids to rows: insert a row, delete rows.
With(f, id, row) == [x \in DOMAIN f \cup {id} |-> IF x = id THEN row ELSE f[x]]
Without(f, ids) == [x \in DOMAIN f \ ids |-> f[x]]

CreateList(r, l, title) ==
    /\ req[r] = Idle
    /\ l \notin spent
    /\ lists' = With(lists, l, [locked |-> FALSE, title |-> title])
    /\ spent' = spent \cup {l}
    /\ UNCHANGED <<entries, req, audited>>

\* History: requests that have found a list open which is then locked or deleted.
Overtaken(l) == [r \in Requests |->
    IF req[r].list = l /\ req[r].op \in EntryOps
    THEN [req[r] EXCEPT !.early = TRUE] ELSE req[r]]

\* One DELETE, of the list only: its entries stay.
DeleteList(r, l) ==
    /\ req[r] = Idle
    /\ l \in DOMAIN lists
    /\ lists' = Without(lists, {l})
    /\ req' = Overtaken(l)
    /\ UNCHANGED <<entries, spent, audited>>

\* Update and SetLocked start by looking the list up ...
BeginUpdateList(r, l) ==
    /\ req[r] = Idle
    /\ l \in DOMAIN lists
    /\ req' = [req EXCEPT ![r] = [Idle EXCEPT !.op = "rename", !.pc = "write",
                                              !.list = l]]
    /\ UNCHANGED <<lists, entries, spent, audited>>

BeginSetLocked(r, l, locked) ==
    /\ req[r] = Idle
    /\ l \in DOMAIN lists
    /\ req' = [req EXCEPT ![r] = [Idle EXCEPT !.op = "lock", !.pc = "write",
                                              !.list = l, !.lock = locked]]
    /\ UNCHANGED <<lists, entries, spent, audited>>

\* ... and go on with an UPDATE of their own columns, which hits nothing when the
\* list is gone.
\* fault: the row is replaced by the form's fields, the lock falls back to open
UpdateListUnlocks(r, title) ==
    /\ req[r].op = "rename" /\ req[r].pc = "write"
    /\ lists' = [l \in DOMAIN lists |->
                   IF l = req[r].list THEN [locked |-> FALSE, title |-> title]
                                      ELSE lists[l]]
    /\ req' = [req EXCEPT ![r] = Idle]
    /\ UNCHANGED <<entries, spent, audited>>

UpdateList(r, title) ==
    /\ req[r].op = "rename" /\ req[r].pc = "write"
    /\ lists' = [l \in DOMAIN lists |->
                   IF l = req[r].list THEN [lists[l] EXCEPT !.title = title]
                                      ELSE lists[l]]
    /\ req' = [req EXCEPT ![r] = Idle]
    /\ UNCHANGED <<entries, spent, audited>>

SetLocked(r) ==
    LET l == req[r].list IN
    /\ req[r].op = "lock" /\ req[r].pc = "write"
    /\ lists' = [k \in DOMAIN lists |->
                   IF k = l THEN [lists[k] EXCEPT !.locked = req[r].lock]
                            ELSE lists[k]]
    /\ req' = [(IF req[r].lock THEN Overtaken(l) ELSE req)
                  EXCEPT ![r].pc = "readback"]
    /\ UNCHANGED <<entries, spent, audited>>

\* The handler audits what the closing Get returned, not what was asked for.
ReadBackLock(r) ==
    /\ req[r].pc = "readback"
    /\ IF req[r].list \in DOMAIN lists
       THEN req' = [req EXCEPT ![r].pc = "audit",
                               ![r].lock = lists[req[r].list].locked]
       ELSE req' = [req EXCEPT ![r] = Idle]
    /\ UNCHANGED <<lists, entries, spent, audited>>

\* fault: unlocking is not audited
AuditLockOnly(r) ==
    /\ req[r].pc = "audit"
    /\ audited' = IF req[r].lock THEN [audited EXCEPT ![req[r].list] = "locked"]
                                 ELSE audited
    /\ req' = [req EXCEPT ![r] = Idle]
    /\ UNCHANGED <<lists, entries, spent>>

AuditLock(r) ==
    /\ req[r].pc = "audit"
    /\ audited' = [audited EXCEPT ![req[r].list] =
                      IF req[r].lock THEN "locked" ELSE "unlocked"]
    /\ req' = [req EXCEPT ![r] = Idle]
    /\ UNCHANGED <<lists, entries, spent>>

----------------------------------------------------------------------------
(* Requests about an entry.                                                *)

\* fault: a list that is not found counts as open
NotLocked(l) == l \in DOMAIN lists => ~lists[l].locked

\* fault: the lock is not looked at
Found(l) == l \in DOMAIN lists

\* getList and the lock check that CreateEntry, UpdateEntry and DeleteEntry share.
Unlocked(l) == l \in DOMAIN lists /\ ~lists[l].locked

BeginCreateEntry(r, l, order) ==
    /\ req[r] = Idle
    /\ Unlocked(l)
    /\ req' = [req EXCEPT ![r] =
                 IF order = 0
                 THEN [Idle EXCEPT !.op = "append", !.pc = "order", !.list = l]
                 ELSE [Idle EXCEPT !.op = "create", !.pc = "write", !.list = l,
                                   !.order = order]]
    /\ UNCHANGED <<lists, entries, spent, audited>>

\* MAX(sort_order), 0 for an empty list, as the set of that one value.
LastSortOrder(l) ==
    IF OrdersOf(l) = {} THEN {0}
    ELSE {o \in OrdersOf(l) : \A p \in OrdersOf(l) : p <= o}

\* COALESCE(MAX(sort_order), 0) + 10, or 10 when that is not positive.
NextEntrySortOrder(l) ==
    {IF last + 10 > 0 THEN last + 10 ELSE 10 : last \in LastSortOrder(l)}

\* When the read fails the order is 10 as well.
ReadSortOrder(r) ==
    /\ req[r].pc = "order"
    /\ \E next \in NextEntrySortOrder(req[r].list) \cup {10} :
          req' = [req EXCEPT ![r].pc = "write", ![r].order = next]
    /\ UNCHANGED <<lists, entries, spent, audited>>

\* The list is not looked up again.
InsertEntry(r, e) ==
    /\ req[r].op \in Creations /\ req[r].pc = "write"
    /\ e \notin spent
    /\ entries' = With(entries, e, [list |-> req[r].list, order |-> req[r].order])
    /\ spent' = spent \cup {e}
    /\ req' = [req EXCEPT ![r] = Idle]
    /\ UNCHANGED <<lists, audited>>

BeginUpdateEntry(r, l, e, order) ==
    /\ req[r] = Idle
    /\ Unlocked(l)
    /\ req' = [req EXCEPT ![r] =
                 [Idle EXCEPT !.op = "update", !.pc = "entry", !.list = l,
                              !.entry = e, !.order = order]]
    /\ UNCHANGED <<lists, entries, spent, audited>>

LookUpEntry(r) ==
    /\ req[r].pc = "entry"
    /\ req' = [req EXCEPT ![r] =
                 IF req[r].entry \in EntriesOf(req[r].list)
                 THEN [req[r] EXCEPT !.pc = "write"] ELSE Idle]
    /\ UNCHANGED <<lists, entries, spent, audited>>

\* UPDATE ... WHERE id=? AND list_id=?
UpdateEntry(r) ==
    /\ req[r].op = "update" /\ req[r].pc = "write"
    /\ entries' = [e \in DOMAIN entries |->
                     IF e = req[r].entry /\ e \in EntriesOf(req[r].list)
                     THEN [entries[e] EXCEPT !.order = req[r].order]
                     ELSE entries[e]]
    /\ req' = [req EXCEPT ![r] = Idle]
    /\ UNCHANGED <<lists, spent, audited>>

BeginDeleteEntry(r, l, e) ==
    /\ req[r] = Idle
    /\ Unlocked(l)
    /\ req' = [req EXCEPT ![r] = [Idle EXCEPT !.op = "delete", !.pc = "write",
                                              !.list = l, !.entry = e]]
    /\ UNCHANGED <<lists, entries, spent, audited>>

DeleteEntry(r) ==
    /\ req[r].op = "delete" /\ req[r].pc = "write"
    /\ entries' = Without(entries, {req[r].entry} \cap EntriesOf(req[r].list))
    /\ req' = [req EXCEPT ![r] = Idle]
    /\ UNCHANGED <<lists, spent, audited>>

----------------------------------------------------------------------------
\* A statement fails, by the database or because the client is gone, and the request
\* ends where it is.  A lock that is written then stays without its audit entry: when the
\* closing Get fails the handler does not get to it, and recordAudit only logs an error.
StatementFails(r) ==
    /\ req[r].pc \in {"write", "entry", "readback", "audit"}
    /\ req' = [req EXCEPT ![r] = Idle]
    /\ UNCHANGED <<lists, entries, spent, audited>>

\* The process stops and starts again: the tables stay, the requests do not.
Restart ==
    /\ req' = [r \in Requests |-> Idle]
    /\ UNCHANGED <<lists, entries, spent, audited>>

ListStep(r) ==
    \/ \E l \in ListIds, title \in Titles : CreateList(r, l, title)
    \/ \E l \in ListIds : DeleteList(r, l) \/ BeginUpdateList(r, l)
    \/ \E l \in ListIds, locked \in BOOLEAN : BeginSetLocked(r, l, locked)
    \/ \E title \in Titles : UpdateList(r, title)
    \/ SetLocked(r) \/ ReadBackLock(r)

EntryStep(r) ==
    \/ \E l \in ListIds, order \in GivenOrders : BeginCreateEntry(r, l, order)
    \/ \E l \in ListIds, e \in EntryIds, order \in GivenOrders :
          BeginUpdateEntry(r, l, e, order)
    \/ \E l \in ListIds, e \in EntryIds : BeginDeleteEntry(r, l, e)
    \/ \E e \in EntryIds : InsertEntry(r, e)
    \/ ReadSortOrder(r) \/ LookUpEntry(r)
    \/ UpdateEntry(r) \/ DeleteEntry(r)

Next ==
    \/ Restart
    \/ \E r \in Requests : ListStep(r) \/ AuditLock(r) \/ EntryStep(r) \/ StatementFails(r)

Spec == Init /\ [][Next]_vars

----------------------------------------------------------------------------
(* Properties.                                                             *)

Changed(l) ==
    \/ EntriesOf(l) # EntriesOf(l)'
    \/ \E e \in EntriesOf(l) : entries[e] # entries'[e]

\* ErrExhibitionLocked promises that the entries of a locked list are not written, but the
\* lock is read in one statement and the entry written in a later one (exhibition.go:225).
\* What the code does ensure: the only requests that still touch the entries of a
\* locked list had passed the lock check before the lock was set, so that once
\* they are through the list stays as it is until it is unlocked.
OnlyOvertakenWritesAfterLock ==
    [][\A l \in DOMAIN lists \cap DOMAIN lists' :
          lists[l].locked /\ Changed(l) =>
             \E r \in Requests : req[r].early /\ req[r].list = l /\ req'[r] = Idle]_vars

\* The lock of a list is set and cleared by SetLocked requests for it alone, also
\* when other requests that read the list before write it afterwards.
LockChangedBySetLocked ==
    [][\A l \in DOMAIN lists \cap DOMAIN lists' :
          lists[l].locked # lists'[l].locked =>
             \E r \in Requests : req[r].op = "lock" /\ req[r].list = l
                                 /\ req[r].lock = lists'[l].locked]_vars

\* DeleteList leaves the entries of the list behind, and the check for the list and the
\* write of the entry are two statements (exhibition.go:221, 238).  What the code does
\* ensure: after the deletion those entries are only changed, and others only added to
\* them, by requests that had found the list before, so that once these are through the
\* rows that are left stay as they are for good.
OnlyOvertakenWritesAfterDelete ==
    [][\A l \in (ListIds \cap spent) \ DOMAIN lists :
          Changed(l) =>
             \E r \in Requests : req[r].early /\ req[r].list = l /\ req'[r] = Idle]_vars
=============================================================================
