----------------------- MODULE ExhibitionListsProofs -----------------------
(* What ExhibitionLists keeps true for every number of lists, entries and    *)
(* requests.                                                                 *)
EXTENDS MCExhibitionLists, FiniteSetTheorems, TLAPS

(* The next sort order is a number.                                          *)
LEMMA NextOrderIsInt ==
  ASSUME NEW l, TypeOK PROVE NextEntrySortOrder(l) \subseteq Int
<1>1. OrdersOf(l) \subseteq Int
  BY DEF TypeOK, OrdersOf, EntriesOf
<1>2. LastSortOrder(l) \subseteq Int
  BY <1>1 DEF LastSortOrder
<1> QED
  BY <1>2 DEF NextEntrySortOrder

(* A step that moves one request leaves all requests well-formed ...         *)
LEMMA RequestMoves ==
  ASSUME TypeOK, NEW r \in Requests, NEW q \in RequestStates,
         q.pc # "idle" => q.list \in ListIds, req' = [req EXCEPT ![r] = q]
  PROVE  /\ req' \in [Requests -> RequestStates]
         /\ \A s \in Requests : req'[s].pc # "idle" => req'[s].list \in ListIds
<1>1. req' \in [Requests -> RequestStates]
  BY DEF TypeOK
<1>2. ASSUME NEW s \in Requests, req'[s].pc # "idle" PROVE req'[s].list \in ListIds
  <2>1. CASE s = r
    BY <1>2, <2>1 DEF TypeOK
  <2>2. CASE s # r
    BY <1>2, <2>2 DEF TypeOK
  <2> QED
    BY <2>1, <2>2
<1> QED
  BY <1>1, <1>2

(* ... and when it leaves the tables alone, everything.                      *)
LEMMA OnlyRequestMoves ==
  ASSUME TypeOK, NEW r \in Requests, NEW q \in RequestStates,
         q.pc # "idle" => q.list \in ListIds, req' = [req EXCEPT ![r] = q],
         UNCHANGED <<lists, entries, spent, audited>>
  PROVE  TypeOK'
BY RequestMoves DEF TypeOK

(* Marking requests as overtaken changes nothing else of them.               *)
LEMMA OvertakenMarks ==
  ASSUME TypeOK, NEW l, NEW s \in Requests
  PROVE  /\ Overtaken(l)[s] \in RequestStates
         /\ Overtaken(l)[s].op = req[s].op /\ Overtaken(l)[s].pc = req[s].pc
         /\ Overtaken(l)[s].list = req[s].list /\ Overtaken(l)[s].lock = req[s].lock
         /\ req[s].list # l \/ req[s].op \notin EntryOps => Overtaken(l)[s] = req[s]
         /\ req[s].list = l /\ req[s].op \in EntryOps => Overtaken(l)[s].early
<1>1. req[s] \in RequestStates
  BY DEF TypeOK
<1>2. CASE req[s].list = l /\ req[s].op \in EntryOps
  <2>1. Overtaken(l)[s] = [req[s] EXCEPT !.early = TRUE]
    BY <1>2 DEF Overtaken
  <2> QED
    BY <1>1, <1>2, <2>1 DEF RequestStates
<1>3. CASE ~(req[s].list = l /\ req[s].op \in EntryOps)
  BY <1>1, <1>3 DEF Overtaken
<1> QED
  BY <1>2, <1>3

(* The tables and the requests keep their shape.                             *)
THEOREM TypeCorrect == Spec => []TypeOK
<1>1. Init => TypeOK
  BY DEF Init, TypeOK, NoRows, Idle, RequestStates, Ops, EntryOps, Creations, PCs
<1>2. TypeOK /\ [Next]_vars => TypeOK'
  <2> SUFFICES ASSUME TypeOK, [Next]_vars PROVE TypeOK'
    OBVIOUS
  <2> USE DEF Ops, EntryOps, Creations, PCs, RequestStates
  <2>1. CASE Restart
    BY <2>1 DEF Restart, TypeOK, Idle
  <2>2. ASSUME NEW r \in Requests, ListStep(r) PROVE TypeOK'
    <3>1. ASSUME NEW l \in ListIds, NEW title \in Titles, CreateList(r, l, title)
          PROVE  TypeOK'
      BY <3>1 DEF CreateList, TypeOK, With
    <3>2. ASSUME NEW l \in ListIds, DeleteList(r, l) PROVE TypeOK'
      <4>1. /\ req' \in [Requests -> RequestStates]
            /\ \A s \in Requests : req'[s].pc # "idle" => req'[s].list \in ListIds
        BY <3>2, OvertakenMarks DEF DeleteList, Overtaken, TypeOK
      <4> HIDE DEF RequestStates
      <4> QED
        BY <3>2, <4>1 DEF DeleteList, TypeOK, Without
    <3>3. ASSUME NEW l \in ListIds, BeginUpdateList(r, l) PROVE TypeOK'
      BY <3>3 DEF BeginUpdateList, TypeOK, Idle
    <3>4. ASSUME NEW l \in ListIds, NEW b \in BOOLEAN, BeginSetLocked(r, l, b)
          PROVE  TypeOK'
      BY <3>4 DEF BeginSetLocked, TypeOK, Idle
    <3>5. ASSUME NEW title \in Titles, UpdateList(r, title) PROVE TypeOK'
      BY <3>5 DEF UpdateList, TypeOK, Idle
    <3>6. CASE SetLocked(r)
      <4>1. req[r].list \in ListIds /\ req[r].lock \in BOOLEAN
        BY <3>6 DEF SetLocked, TypeOK
      <4> DEFINE mid == IF req[r].lock THEN Overtaken(req[r].list) ELSE req
      <4>2. ASSUME NEW s \in Requests
            PROVE  /\ mid[s] \in RequestStates
                   /\ mid[s].pc = req[s].pc /\ mid[s].list = req[s].list
        BY DEF TypeOK, Overtaken
      <4>3. req' = [s \in Requests |-> IF s = r THEN [mid[s] EXCEPT !.pc = "readback"]
                                                ELSE mid[s]]
        BY <3>6 DEF SetLocked, Overtaken, TypeOK
      <4>4. [mid[r] EXCEPT !.pc = "readback"] \in RequestStates
            /\ [mid[r] EXCEPT !.pc = "readback"].list = mid[r].list
        BY <4>2
      <4>5. ASSUME NEW s \in Requests
            PROVE  req'[s] \in RequestStates /\ req'[s].list = req[s].list
        BY <4>2, <4>3, <4>4
      <4>6. ASSUME NEW s \in Requests, req'[s].pc # "idle"
            PROVE  req'[s].list \in ListIds
        BY <4>1, <4>2, <4>3, <4>5, <4>6 DEF TypeOK
      <4>7. \A l \in DOMAIN lists' : lists'[l] \in [locked : BOOLEAN, title : Titles]
        BY <3>6, <4>1 DEF SetLocked, TypeOK
      <4> QED
        BY <3>6, <4>3, <4>5, <4>6, <4>7 DEF SetLocked, TypeOK
    <3>7. CASE ReadBackLock(r)
      <4>1. CASE req[r].list \in DOMAIN lists
        <5>1. lists[req[r].list].locked \in BOOLEAN
          BY <4>1 DEF TypeOK
        <5> DEFINE q == [req[r] EXCEPT !.pc = "audit",
                                       !.lock = lists[req[r].list].locked]
        <5>0. req[r] \in RequestStates /\ req[r].list \in ListIds
          BY <3>7 DEF ReadBackLock, TypeOK
        <5>2. q \in RequestStates /\ q.list = req[r].list
          BY <5>0, <5>1
        <5>3. req' = [req EXCEPT ![r] = q]
          BY <3>7, <4>1 DEF ReadBackLock
        <5>4. UNCHANGED <<lists, entries, spent, audited>>
          BY <3>7 DEF ReadBackLock
        <5> HIDE DEF q, RequestStates
        <5> QED
          BY <5>0, <5>2, <5>3, <5>4, OnlyRequestMoves
      <4>2. CASE req[r].list \notin DOMAIN lists
        <5>1. Idle \in RequestStates /\ Idle.pc = "idle"
          BY DEF Idle
        <5>2. /\ req' = [req EXCEPT ![r] = Idle]
              /\ UNCHANGED <<lists, entries, spent, audited>>
          BY <3>7, <4>2 DEF ReadBackLock
        <5> HIDE DEF RequestStates
        <5> QED
          BY <5>1, <5>2, OnlyRequestMoves
      <4> QED
        BY <4>1, <4>2
    <3> QED
      BY <2>2, <3>1, <3>2, <3>3, <3>4, <3>5, <3>6, <3>7 DEF ListStep
  <2>3. ASSUME NEW r \in Requests, EntryStep(r) PROVE TypeOK'
    <3>1. ASSUME NEW l \in ListIds, NEW o \in GivenOrders, BeginCreateEntry(r, l, o)
          PROVE  TypeOK'
      BY <3>1, GivenOrdersAssumption DEF BeginCreateEntry, TypeOK, Idle
    <3>2. ASSUME NEW l \in ListIds, NEW e \in EntryIds, NEW o \in GivenOrders,
                 BeginUpdateEntry(r, l, e, o)
          PROVE  TypeOK'
      BY <3>2, GivenOrdersAssumption DEF BeginUpdateEntry, TypeOK, Idle
    <3>3. ASSUME NEW l \in ListIds, NEW e \in EntryIds, BeginDeleteEntry(r, l, e)
          PROVE  TypeOK'
      BY <3>3 DEF BeginDeleteEntry, TypeOK, Idle
    <3>4. ASSUME NEW e \in EntryIds, InsertEntry(r, e) PROVE TypeOK'
      BY <3>4 DEF InsertEntry, TypeOK, With, Idle
    <3>5. CASE ReadSortOrder(r)
      <4>1. PICK next \in Int :
               req' = [req EXCEPT ![r].pc = "write", ![r].order = next]
        <5>1. NextEntrySortOrder(req[r].list) \cup {10} \subseteq Int
          BY NextOrderIsInt
        <5> QED
          BY <3>5, <5>1 DEF ReadSortOrder
      <4> DEFINE q == [req[r] EXCEPT !.pc = "write", !.order = next]
      <4>0. req[r] \in RequestStates /\ req[r].list \in ListIds
        BY <3>5 DEF ReadSortOrder, TypeOK
      <4>2. q \in RequestStates /\ q.list = req[r].list
        BY <4>0
      <4>3. req' = [req EXCEPT ![r] = q]
        BY <4>1
      <4>4. UNCHANGED <<lists, entries, spent, audited>>
        BY <3>5 DEF ReadSortOrder
      <4> HIDE DEF q, RequestStates
      <4> QED
        BY <4>0, <4>2, <4>3, <4>4, OnlyRequestMoves
    <3>7. CASE LookUpEntry(r)
      BY <3>7 DEF LookUpEntry, TypeOK, Idle
    <3>8. CASE UpdateEntry(r)
      BY <3>8 DEF UpdateEntry, TypeOK, Idle
    <3>9. CASE DeleteEntry(r)
      BY <3>9 DEF DeleteEntry, TypeOK, Idle, Without
    <3> QED
      BY <2>3, <3>1, <3>2, <3>3, <3>4, <3>5, <3>7, <3>8, <3>9 DEF EntryStep
  <2>4. CASE UNCHANGED vars
    BY <2>4 DEF vars, TypeOK
  <2>5. ASSUME NEW r \in Requests, AuditLock(r) PROVE TypeOK'
    BY <2>5 DEF AuditLock, TypeOK, Idle
  <2>6. ASSUME NEW r \in Requests, StatementFails(r) PROVE TypeOK'
    BY <2>6 DEF StatementFails, TypeOK, Idle
  <2> QED
    BY <2>1, <2>2, <2>3, <2>4, <2>5, <2>6 DEF Next
<1> QED
  BY <1>1, <1>2, PTL DEF Spec
----------------------------------------------------------------------------
(* A request that is about to write entries of a list that is locked or gone *)
(* has been overtaken by the lock or by the deletion.                        *)
LockRespected ==
  \A r \in Requests :
     req[r].op \in EntryOps => Unlocked(req[r].list) \/ req[r].early

(* When a request changes nothing but itself, and either is still the        *)
(* request it was or has no list to write to, LockRespected is kept.         *)
LEMMA SameRequestRespects ==
  ASSUME TypeOK, LockRespected, NEW r \in Requests, NEW q,
         req' = [req EXCEPT ![r] = q], lists' = lists,
         \/ q.op \notin EntryOps
         \/ q.op = req[r].op /\ q.list = req[r].list /\ q.early = req[r].early
         \/ Unlocked(q.list)
  PROVE  LockRespected'
<1> SUFFICES ASSUME NEW s \in Requests, req'[s].op \in EntryOps
             PROVE  \/ req'[s].list \in DOMAIN lists' /\ ~lists'[req'[s].list].locked
                    \/ req'[s].early
  BY DEF LockRespected, Unlocked
<1>1. CASE s = r
  <2>1. req'[s] = q
    BY <1>1 DEF TypeOK
  <2> QED
    BY <1>1, <2>1 DEF LockRespected, Unlocked
<1>2. CASE s # r
  <2>1. req'[s] = req[s]
    BY <1>2 DEF TypeOK
  <2> QED
    BY <2>1 DEF LockRespected, Unlocked
<1> QED
  BY <1>1, <1>2

(* The same when the requests stay and no open list is locked or deleted.    *)
LEMMA NoNewLockRespects ==
  ASSUME TypeOK, LockRespected, NEW r \in Requests,
         req' = req \/ req' = [req EXCEPT ![r] = Idle],
         \A l : Unlocked(l) => Unlocked(l)'
  PROVE  LockRespected'
<1> SUFFICES ASSUME NEW s \in Requests, req'[s].op \in EntryOps
             PROVE  \/ req'[s].list \in DOMAIN lists' /\ ~lists'[req'[s].list].locked
                    \/ req'[s].early
  BY DEF LockRespected, Unlocked
<1>1. req'[s] = req[s] \/ req'[s] = Idle
  BY DEF TypeOK
<1>2. Idle.op \notin EntryOps
  BY DEF Idle, EntryOps, Creations
<1> QED
  BY <1>1, <1>2 DEF LockRespected, Unlocked

(* LockRespected is inductive given the types.                               *)
LEMMA LockStep == TypeOK /\ LockRespected /\ [Next]_vars => LockRespected'
<1> SUFFICES ASSUME TypeOK, LockRespected, [Next]_vars PROVE LockRespected'
  OBVIOUS
<1>0. Idle.op \notin EntryOps
  BY DEF Idle, EntryOps, Creations
<1>1. CASE Restart
  BY <1>0, <1>1 DEF Restart, LockRespected
<1>2. ASSUME NEW r \in Requests, ListStep(r) PROVE LockRespected'
  <2>1. ASSUME NEW l \in ListIds, NEW title \in Titles, CreateList(r, l, title)
        PROVE  LockRespected'
    <3>1. \A k : Unlocked(k) => Unlocked(k)'
      BY <2>1 DEF CreateList, With, Unlocked, TypeOK
    <3> QED
      BY <2>1, <3>1, NoNewLockRespects DEF CreateList
  <2>2. ASSUME NEW l \in ListIds, DeleteList(r, l) PROVE LockRespected'
    <3> SUFFICES ASSUME NEW s \in Requests, req'[s].op \in EntryOps
                 PROVE  \/ req'[s].list \in DOMAIN lists' /\ ~lists'[req'[s].list].locked
                    \/ req'[s].early
      BY DEF LockRespected, Unlocked
    <3>1. req'[s] = Overtaken(l)[s]
      BY <2>2 DEF DeleteList
    <3>2. CASE req[s].list = l
      BY <3>1, <3>2, OvertakenMarks
    <3>3. CASE req[s].list # l
      <4>1. req'[s] = req[s]
        BY <3>1, <3>3, OvertakenMarks
      <4> QED
        BY <2>2, <3>3, <4>1 DEF DeleteList, Without, LockRespected, Unlocked
    <3> QED
      BY <3>2, <3>3
  <2>3. ASSUME NEW l \in ListIds, BeginUpdateList(r, l) PROVE LockRespected'
    BY <2>3, SameRequestRespects DEF BeginUpdateList, Idle, EntryOps, Creations
  <2>4. ASSUME NEW l \in ListIds, NEW b \in BOOLEAN, BeginSetLocked(r, l, b)
        PROVE  LockRespected'
    BY <2>4, SameRequestRespects DEF BeginSetLocked, Idle, EntryOps, Creations
  <2>5. ASSUME NEW title \in Titles, UpdateList(r, title) PROVE LockRespected'
    <3>1. \A k : Unlocked(k) => Unlocked(k)'
      BY <2>5 DEF UpdateList, TypeOK, Unlocked
    <3> QED
      BY <2>5, <3>1, NoNewLockRespects DEF UpdateList
  <2>6. CASE SetLocked(r)
    <3> SUFFICES ASSUME NEW s \in Requests, req'[s].op \in EntryOps
                 PROVE  \/ req'[s].list \in DOMAIN lists' /\ ~lists'[req'[s].list].locked
                    \/ req'[s].early
      BY DEF LockRespected, Unlocked
    <3>1. s # r
      BY <2>6, OvertakenMarks DEF SetLocked, Overtaken, TypeOK, EntryOps, Creations
    <3>2. CASE req[r].lock /\ req[s].list = req[r].list
      <4>1. req'[s] = Overtaken(req[r].list)[s]
        BY <2>6, <3>1, <3>2 DEF SetLocked, Overtaken, TypeOK
      <4> QED
        BY <3>2, <4>1, OvertakenMarks
    <3>3. CASE ~req[r].lock
      <4>1. req'[s] = req[s]
        BY <2>6, <3>1, <3>3 DEF SetLocked, TypeOK
      <4> QED
        BY <2>6, <3>3, <4>1 DEF SetLocked, LockRespected, Unlocked, TypeOK
    <3>4. CASE req[s].list # req[r].list
      <4>1. req'[s] = req[s]
        BY <2>6, <3>1, <3>4, OvertakenMarks DEF SetLocked, Overtaken, TypeOK
      <4> QED
        BY <2>6, <3>4, <4>1 DEF SetLocked, LockRespected, Unlocked, TypeOK
    <3> QED
      BY <3>2, <3>3, <3>4
  <2>7. CASE ReadBackLock(r)
    <3>1. CASE req[r].list \in DOMAIN lists
      <4> DEFINE q == [req[r] EXCEPT !.pc = "audit",
                                     !.lock = lists[req[r].list].locked]
      <4>1. q.op = req[r].op /\ q.list = req[r].list /\ q.early = req[r].early
        BY DEF TypeOK, RequestStates
      <4>2. req' = [req EXCEPT ![r] = q] /\ lists' = lists
        BY <2>7, <3>1 DEF ReadBackLock
      <4> HIDE DEF q
      <4> QED
        BY <4>1, <4>2, SameRequestRespects
    <3>2. CASE req[r].list \notin DOMAIN lists
      BY <1>0, <2>7, <3>2, SameRequestRespects DEF ReadBackLock
    <3> QED
      BY <3>1, <3>2
  <2> QED
    BY <1>2, <2>1, <2>2, <2>3, <2>4, <2>5, <2>6, <2>7 DEF ListStep
<1>3. ASSUME NEW r \in Requests, EntryStep(r) PROVE LockRespected'
  <2>1. ASSUME NEW l \in ListIds, NEW o \in GivenOrders, BeginCreateEntry(r, l, o)
        PROVE  LockRespected'
    <3> DEFINE q == IF o = 0
                    THEN [Idle EXCEPT !.op = "append", !.pc = "order", !.list = l]
                    ELSE [Idle EXCEPT !.op = "create", !.pc = "write", !.list = l,
                                      !.order = o]
    <3>1. q.list = l
      BY DEF Idle
    <3>2. req' = [req EXCEPT ![r] = q] /\ lists' = lists /\ Unlocked(l)
      BY <2>1 DEF BeginCreateEntry
    <3> HIDE DEF q
    <3> QED
      BY <3>1, <3>2, SameRequestRespects
  <2>2. ASSUME NEW l \in ListIds, NEW e \in EntryIds, NEW o \in GivenOrders,
               BeginUpdateEntry(r, l, e, o)
        PROVE  LockRespected'
    BY <2>2, SameRequestRespects DEF BeginUpdateEntry, Idle
  <2>3. ASSUME NEW l \in ListIds, NEW e \in EntryIds, BeginDeleteEntry(r, l, e)
        PROVE  LockRespected'
    BY <2>3, SameRequestRespects DEF BeginDeleteEntry, Idle
  <2>4. ASSUME NEW e \in EntryIds, InsertEntry(r, e) PROVE LockRespected'
    BY <1>0, <2>4, SameRequestRespects DEF InsertEntry
  <2>5. CASE ReadSortOrder(r)
    <3>1. PICK next : req' = [req EXCEPT ![r].pc = "write", ![r].order = next]
      BY <2>5 DEF ReadSortOrder
    <3> DEFINE q == [req[r] EXCEPT !.pc = "write", !.order = next]
    <3>2. q.op = req[r].op /\ q.list = req[r].list /\ q.early = req[r].early
      BY DEF TypeOK, RequestStates
    <3>3. req' = [req EXCEPT ![r] = q] /\ lists' = lists
      BY <2>5, <3>1 DEF ReadSortOrder
    <3> HIDE DEF q
    <3> QED
      BY <3>2, <3>3, SameRequestRespects
  <2>6. CASE LookUpEntry(r)
    <3>1. [req[r] EXCEPT !.pc = "write"].op = req[r].op
          /\ [req[r] EXCEPT !.pc = "write"].list = req[r].list
          /\ [req[r] EXCEPT !.pc = "write"].early = req[r].early
      BY DEF TypeOK, RequestStates
    <3>2. PICK q \in {[req[r] EXCEPT !.pc = "write"], Idle} :
             req' = [req EXCEPT ![r] = q]
      BY <2>6 DEF LookUpEntry
    <3>3. lists' = lists
      BY <2>6 DEF LookUpEntry
    <3> QED
      BY <1>0, <3>1, <3>2, <3>3, SameRequestRespects
  <2>7. CASE UpdateEntry(r) \/ DeleteEntry(r)
    BY <1>0, <2>7, SameRequestRespects DEF UpdateEntry, DeleteEntry
  <2> QED
    BY <1>3, <2>1, <2>2, <2>3, <2>4, <2>5, <2>6, <2>7 DEF EntryStep
<1>4. CASE UNCHANGED vars
  BY <1>4 DEF vars, LockRespected, Unlocked
<1>5. ASSUME NEW r \in Requests, AuditLock(r) \/ StatementFails(r) PROVE LockRespected'
  BY <1>0, <1>5, SameRequestRespects DEF AuditLock, StatementFails
<1> QED
  BY <1>1, <1>2, <1>3, <1>4, <1>5 DEF Next

(* The invariant holds in every reachable state.                             *)
LEMMA LockInvariant == Spec => []LockRespected
<1>1. Init => LockRespected
  BY DEF Init, LockRespected, Idle, EntryOps, Creations
<1> QED
  BY <1>1, LockStep, TypeCorrect, PTL DEF Spec

(* Whoever changes the entries of a list that is locked or gone had found it *)
(* open before.                                                              *)
LEMMA OnlyOvertakenWrites ==
  ASSUME TypeOK, LockRespected, [Next]_vars, NEW l, ~Unlocked(l), Changed(l)
  PROVE  \E r \in Requests : req[r].early /\ req[r].list = l /\ req'[r] = Idle
<1>1. entries' = entries => FALSE
  BY DEF Changed, EntriesOf
<1>2. ASSUME NEW r \in Requests, req[r].op \in EntryOps, req[r].list = l,
             req' = [req EXCEPT ![r] = Idle]
      PROVE  req[r].early /\ req[r].list = l /\ req'[r] = Idle
  BY <1>2 DEF LockRespected, TypeOK
<1>3. CASE Restart \/ UNCHANGED vars
  BY <1>1, <1>3 DEF Restart, vars
<1>4. ASSUME NEW r \in Requests, ListStep(r) \/ AuditLock(r) \/ StatementFails(r) PROVE FALSE
  BY <1>1, <1>4 DEF ListStep, CreateList, DeleteList, BeginUpdateList, BeginSetLocked,
     UpdateList, SetLocked, ReadBackLock, AuditLock, StatementFails
<1>5. ASSUME NEW r \in Requests, EntryStep(r)
      PROVE  req[r].early /\ req[r].list = l /\ req'[r] = Idle
  <2>1. ASSUME NEW e \in EntryIds, InsertEntry(r, e)
        PROVE  req[r].early /\ req[r].list = l /\ req'[r] = Idle
    <3>1. CASE req[r].list = l
      BY <1>2, <2>1, <3>1 DEF InsertEntry, EntryOps
    <3>2. CASE req[r].list # l
      <4>0. e \notin DOMAIN entries
        BY <2>1 DEF InsertEntry, TypeOK
      <4>1. EntriesOf(l)' = EntriesOf(l)
        BY <2>1, <3>2, <4>0 DEF InsertEntry, With, EntriesOf
      <4>2. \A f \in EntriesOf(l) : entries'[f] = entries[f]
        BY <2>1, <3>2, <4>0 DEF InsertEntry, With, EntriesOf
      <4> QED
        BY <4>1, <4>2 DEF Changed
    <3> QED
      BY <3>1, <3>2
  <2>2. CASE UpdateEntry(r)
    <3>1. CASE req[r].list = l
      BY <1>2, <2>2, <3>1 DEF UpdateEntry, EntryOps
    <3>2. CASE req[r].list # l
      <4>1. EntriesOf(l)' = EntriesOf(l)
        BY <2>2, <3>2 DEF UpdateEntry, EntriesOf, TypeOK
      <4>2. \A e \in EntriesOf(l) : entries'[e] = entries[e]
        BY <2>2, <3>2 DEF UpdateEntry, EntriesOf
      <4> QED
        BY <4>1, <4>2 DEF Changed
    <3> QED
      BY <3>1, <3>2
  <2>3. CASE DeleteEntry(r)
    <3>1. CASE req[r].list = l
      BY <1>2, <2>3, <3>1 DEF DeleteEntry, EntryOps
    <3>2. CASE req[r].list # l
      <4>1. EntriesOf(l)' = EntriesOf(l)
        BY <2>3, <3>2 DEF DeleteEntry, Without, EntriesOf
      <4>2. \A e \in EntriesOf(l) : entries'[e] = entries[e]
        BY <2>3, <3>2 DEF DeleteEntry, Without, EntriesOf
      <4> QED
        BY <4>1, <4>2 DEF Changed
    <3> QED
      BY <3>1, <3>2
  <2> QED
    BY <1>1, <1>5, <2>1, <2>2, <2>3 DEF EntryStep, BeginCreateEntry,
       BeginUpdateEntry, BeginDeleteEntry, ReadSortOrder, LookUpEntry
<1> QED
  BY <1>3, <1>4, <1>5 DEF Next

(* The entries of a locked list: OnlyOvertakenWritesAfterLock                *)
(* (exhibition.go:225).                                                      *)
THEOREM LockedListSettles == Spec => OnlyOvertakenWritesAfterLock
<1> DEFINE Settles ==
      \A l \in DOMAIN lists \cap DOMAIN lists' :
         lists[l].locked /\ Changed(l) =>
            \E r \in Requests : req[r].early /\ req[r].list = l /\ req'[r] = Idle
<1>1. TypeOK /\ LockRespected /\ [Next]_vars => Settles
  BY OnlyOvertakenWrites DEF Unlocked
<1>2. Spec => [][Settles]_vars
  BY <1>1, TypeCorrect, LockInvariant, PTL DEF Spec
<1> QED
  BY <1>2 DEF OnlyOvertakenWritesAfterLock

(* The entries a deleted list leaves behind: OnlyOvertakenWritesAfterDelete  *)
(* (exhibition.go:178, 238).                                                 *)
THEOREM DeletedListSettles == Spec => OnlyOvertakenWritesAfterDelete
<1> DEFINE Settles ==
      \A l \in (ListIds \cap spent) \ DOMAIN lists :
         Changed(l) =>
            \E r \in Requests : req[r].early /\ req[r].list = l /\ req'[r] = Idle
<1>1. TypeOK /\ LockRespected /\ [Next]_vars => Settles
  BY OnlyOvertakenWrites DEF Unlocked
<1>2. Spec => [][Settles]_vars
  BY <1>1, TypeCorrect, LockInvariant, PTL DEF Spec
<1> QED
  BY <1>2 DEF OnlyOvertakenWritesAfterDelete

(* The lock is SetLocked's: a rename that has read the list before, or any   *)
(* other request, writes it without touching the lock.                       *)
THEOREM LockIsSetLocked == Spec => LockChangedBySetLocked
<1> DEFINE Locks ==
      \A l \in DOMAIN lists \cap DOMAIN lists' :
         lists[l].locked # lists'[l].locked =>
            \E r \in Requests : req[r].op = "lock" /\ req[r].list = l
                                /\ req[r].lock = lists'[l].locked
<1>1. TypeOK /\ [Next]_vars => Locks
  <2> SUFFICES ASSUME TypeOK, [Next]_vars, NEW l \in DOMAIN lists \cap DOMAIN lists',
                      lists[l].locked # lists'[l].locked
               PROVE  \E r \in Requests : /\ req[r].op = "lock" /\ req[r].list = l
                                          /\ req[r].lock = lists'[l].locked
    OBVIOUS
  <2>1. CASE Restart \/ UNCHANGED vars
    BY <2>1 DEF Restart, vars
  <2>2. ASSUME NEW r \in Requests, ListStep(r)
        PROVE  req[r].op = "lock" /\ req[r].list = l /\ req[r].lock = lists'[l].locked
    <3>1. lists[l] \in [locked : BOOLEAN, title : Titles]
      BY DEF TypeOK
    <3>2. ASSUME NEW k \in ListIds, NEW title \in Titles, CreateList(r, k, title) PROVE FALSE
      BY <3>2 DEF CreateList, With, TypeOK
    <3>3. ASSUME NEW k \in ListIds, DeleteList(r, k) PROVE FALSE
      BY <3>3 DEF DeleteList, Without
    <3>4. ASSUME NEW title \in Titles, UpdateList(r, title) PROVE FALSE
      BY <3>1, <3>4 DEF UpdateList
    <3>5. CASE SetLocked(r)
      BY <3>1, <3>5 DEF SetLocked
    <3> QED
      BY <2>2, <3>2, <3>3, <3>4, <3>5 DEF ListStep, BeginUpdateList, BeginSetLocked,
         ReadBackLock
  <2>3. ASSUME NEW r \in Requests, EntryStep(r) \/ AuditLock(r) \/ StatementFails(r) PROVE FALSE
    BY <2>3 DEF EntryStep, BeginCreateEntry, BeginUpdateEntry, BeginDeleteEntry,
       ReadSortOrder, InsertEntry, LookUpEntry, UpdateEntry, DeleteEntry, AuditLock, StatementFails
  <2> QED
    BY <2>1, <2>2, <2>3 DEF Next
<1>2. Spec => [][Locks]_vars
  BY <1>1, TypeCorrect, PTL DEF Spec
<1> QED
  BY <1>2 DEF LockChangedBySetLocked
----------------------------------------------------------------------------
(* The audit log, as long as requests come one at a time.                    *)

(* The log of a list ends with its lock state, but for a list that misses an *)
(* entry or whose lock is being audited, and what is about to be audited is  *)
(* the lock state.  An id that is still to be given out has no log.          *)
AuditFollows ==
  /\ \A l \in DOMAIN lists :
        \/ l \in missed
        \/ lists[l].locked <=> audited[l] = "locked"
        \/ \E r \in Requests : Auditing(req[r]) /\ req[r].list = l
  /\ \A r \in Requests : req[r].pc = "audit" /\ req[r].list \in DOMAIN lists =>
        lists[req[r].list].locked = req[r].lock
  /\ \A r \in Requests : req[r].op = "lock" => req[r].list \in spent
  /\ \A r \in Requests : Auditing(req[r]) => req[r].op = "lock"
  /\ \A l \in ListIds : audited[l] # "none" => l \in spent

OneAtATime ==
  \A r, s \in Requests : req[r] # Idle /\ req[s] # Idle => r = s

InTurn == ~overlapped => OneAtATime /\ AuditFollows

(* Of finitely many requests, no two are under way.                          *)
LEMMA AtMostOne ==
  ASSUME NEW S, S \subseteq Requests, ~(Cardinality(S) > 1), NEW r \in S, NEW s \in S
  PROVE  r = s
<1>1. IsFiniteSet(S)
  BY RequestsAssumption, FS_Subset
<1>2. Cardinality(S) \in Nat /\ Cardinality(S) # 0
  BY <1>1, FS_CardinalityType, FS_EmptySet
<1>3. Cardinality(S) = 1
  BY <1>2
<1>4. PICK x : S = {x}
  BY <1>1, <1>3, FS_Singleton
<1> QED
  BY <1>4

LEMMA StaysInTurn ==
  ASSUME MCNext, InTurn, ~overlapped', overlapped \in BOOLEAN
  PROVE  ~overlapped /\ OneAtATime /\ OneAtATime' /\ AuditFollows
<1>1. ~overlapped /\ ~(Cardinality(Busy') > 1)
  BY DEF MCNext
<1>2. ASSUME NEW r \in Requests, NEW s \in Requests, req'[r] # Idle, req'[s] # Idle
      PROVE  r = s
  <2>1. Busy' \subseteq Requests /\ r \in Busy' /\ s \in Busy'
    BY <1>2 DEF Busy
  <2> HIDE DEF Busy
  <2> QED
    BY <1>1, <2>1, AtMostOne
<1> QED
  BY <1>1, <1>2 DEF InTurn, OneAtATime

(* Requests that neither write a lock nor audit it.                          *)
LEMMA QuietFollows ==
  ASSUME TypeOK, AuditFollows, NEW r \in Requests, NEW q,
         req' = [req EXCEPT ![r] = q], ~Auditing(req[r]), ~Auditing(q),
         q.op = "lock" => q.list \in spent,
         audited' = audited, missed' = missed, spent \subseteq spent',
         \A l \in DOMAIN lists' :
            \/ l \in DOMAIN lists /\ lists'[l].locked = lists[l].locked
            \/ l \in ListIds \ spent /\ ~lists'[l].locked
  PROVE  AuditFollows'
<1>1. \A s \in Requests : req'[s] = IF s = r THEN q ELSE req[s]
  BY DEF TypeOK
<1>2. ASSUME NEW l \in DOMAIN lists'
      PROVE  \/ l \in missed'
             \/ lists'[l].locked <=> audited'[l] = "locked"
             \/ \E s \in Requests : Auditing(req'[s]) /\ req'[s].list = l
  <2>1. CASE l \in DOMAIN lists /\ lists'[l].locked = lists[l].locked
    BY <2>1, <1>1 DEF AuditFollows
  <2>2. CASE l \in ListIds \ spent /\ ~lists'[l].locked
    BY <2>2 DEF AuditFollows
  <2> QED
    BY <2>1, <2>2
<1>3. ASSUME NEW s \in Requests, req'[s].pc = "audit", req'[s].list \in DOMAIN lists'
      PROVE  lists'[req'[s].list].locked = req'[s].lock
  <2>1. req'[s] = req[s]
    BY <1>1, <1>3 DEF Auditing
  <2>2. req[s].list \in spent
    BY <1>3, <2>1 DEF AuditFollows, Auditing
  <2> QED
    BY <1>3, <2>1, <2>2 DEF AuditFollows
<1>4. ASSUME NEW s \in Requests
      PROVE  /\ req'[s].op = "lock" => req'[s].list \in spent'
             /\ Auditing(req'[s]) => req'[s].op = "lock"
  BY <1>1 DEF AuditFollows
<1>5. \A l \in ListIds : audited'[l] # "none" => l \in spent'
  BY DEF AuditFollows
<1> QED
  BY <1>2, <1>3, <1>4, <1>5 DEF AuditFollows, Auditing

(* The same for steps that no request notices.                               *)
LEMMA UnaskedFollows ==
  ASSUME TypeOK, AuditFollows, audited' = audited, missed' = missed, spent \subseteq spent',
         \A s \in Requests : /\ req'[s].pc = req[s].pc /\ req'[s].op = req[s].op
                             /\ req'[s].list = req[s].list /\ req'[s].lock = req[s].lock,
         \A l \in DOMAIN lists' :
            \/ l \in DOMAIN lists /\ lists'[l].locked = lists[l].locked
            \/ l \in ListIds \ spent /\ ~lists'[l].locked
  PROVE  AuditFollows'
<1>1. ASSUME NEW l \in DOMAIN lists'
      PROVE  \/ l \in missed'
             \/ lists'[l].locked <=> audited'[l] = "locked"
             \/ \E s \in Requests : Auditing(req'[s]) /\ req'[s].list = l
  BY DEF AuditFollows, Auditing
<1>2. ASSUME NEW s \in Requests, req'[s].pc = "audit", req'[s].list \in DOMAIN lists'
      PROVE  lists'[req'[s].list].locked = req'[s].lock
  <2>1. req[s].list \in spent
    BY <1>2 DEF AuditFollows, Auditing
  <2> QED
    BY <1>2, <2>1 DEF AuditFollows
<1>3. \A s \in Requests : /\ req'[s].op = "lock" => req'[s].list \in spent'
                          /\ Auditing(req'[s]) => req'[s].op = "lock"
  BY DEF AuditFollows, Auditing
<1>4. \A l \in ListIds : audited'[l] # "none" => l \in spent'
  BY DEF AuditFollows
<1> QED
  BY <1>1, <1>2, <1>3, <1>4 DEF AuditFollows, Auditing

(* A stop of the process, or a failing statement, ends requests; what they    *)
(* leave unaudited is missed.                                                *)
LEMMA CutFollows ==
  ASSUME TypeOK, AuditFollows, NEW S \in SUBSET Requests,
         UNCHANGED <<lists, spent, audited>>, missed' = missed \cup Unaudited(S),
         req' = [s \in Requests |-> IF s \in S THEN Idle ELSE req[s]]
  PROVE  AuditFollows'
<1>1. \A s \in Requests : req'[s] = IF s \in S THEN Idle ELSE req[s]
  OBVIOUS
<1>2. ~Auditing(Idle) /\ Idle.op # "lock" /\ Idle.pc # "audit"
  BY DEF Auditing, Idle
<1>3. ASSUME NEW l \in DOMAIN lists'
      PROVE  \/ l \in missed'
             \/ lists'[l].locked <=> audited'[l] = "locked"
             \/ \E s \in Requests : Auditing(req'[s]) /\ req'[s].list = l
  <2>1. CASE \E s \in Requests : Auditing(req[s]) /\ req[s].list = l
    <3>1. PICK s \in Requests : Auditing(req[s]) /\ req[s].list = l
      BY <2>1
    <3>2. CASE s \in S
      BY <3>1, <3>2 DEF Unaudited
    <3>3. CASE s \notin S
      BY <1>1, <3>1, <3>3
    <3> QED
      BY <3>2, <3>3
  <2>2. CASE ~\E s \in Requests : Auditing(req[s]) /\ req[s].list = l
    BY <2>2 DEF AuditFollows
  <2> QED
    BY <2>1, <2>2
<1>4. ASSUME NEW s \in Requests
      PROVE  /\ req'[s].pc = "audit" /\ req'[s].list \in DOMAIN lists' =>
                   lists'[req'[s].list].locked = req'[s].lock
             /\ req'[s].op = "lock" => req'[s].list \in spent'
             /\ Auditing(req'[s]) => req'[s].op = "lock"
  BY <1>1, <1>2 DEF AuditFollows
<1>5. \A l \in ListIds : audited'[l] # "none" => l \in spent'
  BY DEF AuditFollows
<1> QED
  BY <1>3, <1>4, <1>5 DEF AuditFollows, Auditing

LEMMA SetLockedFollows ==
  ASSUME TypeOK, OneAtATime, AuditFollows, NEW r \in Requests, SetLocked(r),
         missed' = missed
  PROVE  AuditFollows'
<1> DEFINE l == req[r].list
<1>1. /\ req[r].op = "lock" /\ req[r].pc = "write" /\ UNCHANGED <<spent, audited>>
      /\ lists' = [k \in DOMAIN lists |->
                     IF k = l THEN [lists[k] EXCEPT !.locked = req[r].lock] ELSE lists[k]]
  BY DEF SetLocked
<1>0. Idle.pc = "idle" /\ Idle.op = "none" /\ Idle.op \notin EntryOps
  BY DEF Idle, EntryOps, Creations
<1>2. ASSUME NEW s \in Requests, s # r PROVE req[s] = Idle
  <2>1. req[r] # Idle
    BY <1>0, <1>1
  <2> QED
    BY <1>2, <2>1 DEF OneAtATime
<1>3. ASSUME NEW s \in Requests, s # r PROVE req'[s].pc = "idle" /\ req'[s].op = "none"
  <2>1. req'[s] = req[s] \/ req'[s] = Overtaken(l)[s]
    BY <1>3 DEF SetLocked, Overtaken, TypeOK
  <2>2. req[s].op \notin EntryOps
    BY <1>0, <1>2, <1>3
  <2>3. Overtaken(l)[s] = req[s]
    BY <2>2 DEF Overtaken
  <2> QED
    BY <1>0, <1>2, <1>3, <2>1, <2>3
<1>4. req'[r].pc = "readback" /\ req'[r].op = "lock" /\ req'[r].list = l
  <2>1. req'[r] = [req[r] EXCEPT !.pc = "readback"] /\ req[r] \in RequestStates
    BY <1>1 DEF SetLocked, Overtaken, TypeOK, EntryOps, Creations
  <2> QED
    BY <1>1, <2>1 DEF RequestStates
<1>5. ASSUME NEW k \in DOMAIN lists'
      PROVE  \/ k \in missed'
             \/ lists'[k].locked <=> audited'[k] = "locked"
             \/ \E s \in Requests : Auditing(req'[s]) /\ req'[s].list = k
  <2>1. CASE k = l
    BY <1>4, <2>1 DEF Auditing
  <2>2. CASE k # l
    <3>1. \A s \in Requests : ~Auditing(req[s])
      BY <1>0, <1>1, <1>2 DEF Auditing
    <3> QED
      BY <1>1, <2>2, <3>1 DEF AuditFollows
  <2> QED
    BY <2>1, <2>2
<1> HIDE DEF l
<1>6. \A s \in Requests : req'[s].pc # "audit"
  BY <1>3, <1>4
<1>7. l \in spent
  BY <1>1 DEF AuditFollows, l
<1> QED
  BY <1>1, <1>3, <1>4, <1>5, <1>6, <1>7 DEF AuditFollows, Auditing

LEMMA ReadBackFollows ==
  ASSUME TypeOK, AuditFollows, NEW r \in Requests, ReadBackLock(r),
         missed' = missed
  PROVE  AuditFollows'
<1>1. req[r] \in RequestStates /\ req[r].pc = "readback" /\ req[r].op = "lock"
      /\ req[r].list \in spent /\ UNCHANGED <<lists, spent, audited>>
  BY DEF ReadBackLock, TypeOK, AuditFollows, Auditing
<1>2. CASE req[r].list \in DOMAIN lists
  <2> DEFINE q == [req[r] EXCEPT !.pc = "audit", !.lock = lists[req[r].list].locked]
  <2>1. \A s \in Requests : req'[s] = IF s = r THEN q ELSE req[s]
    BY <1>2 DEF ReadBackLock, TypeOK
  <2>2. /\ q.pc = "audit" /\ q.op = "lock" /\ q.list = req[r].list
        /\ q.lock = lists[req[r].list].locked
    BY <1>1 DEF RequestStates
  <2> HIDE DEF q
  <2> QED
    BY <1>1, <2>1, <2>2 DEF AuditFollows, Auditing
<1>3. CASE req[r].list \notin DOMAIN lists
  <2>1. \A s \in Requests : req'[s] = IF s = r THEN Idle ELSE req[s]
    BY <1>3 DEF ReadBackLock, TypeOK
  <2> QED
    BY <1>1, <1>3, <2>1 DEF AuditFollows, Auditing, Idle
<1> QED
  BY <1>2, <1>3

LEMMA AuditLockFollows ==
  ASSUME TypeOK, AuditFollows, NEW r \in Requests, AuditLock(r),
         missed' = missed \ {req[r].list}
  PROVE  AuditFollows'
<1> DEFINE l == req[r].list
<1>1. /\ req[r].pc = "audit" /\ l \in spent /\ l \in ListIds /\ UNCHANGED <<lists, spent>>
      /\ l \in DOMAIN lists => lists[l].locked = req[r].lock
  BY DEF AuditLock, TypeOK, AuditFollows, Auditing
<1>2. \A s \in Requests : req'[s] = IF s = r THEN Idle ELSE req[s]
  BY DEF AuditLock, TypeOK
<1>3. \A k \in ListIds : audited'[k] = IF k = l THEN IF req[r].lock THEN "locked" ELSE "unlocked"
                                       ELSE audited[k]
  BY DEF AuditLock, TypeOK
<1>4. ASSUME NEW k \in DOMAIN lists'
      PROVE  \/ k \in missed'
             \/ lists'[k].locked <=> audited'[k] = "locked"
             \/ \E s \in Requests : Auditing(req'[s]) /\ req'[s].list = k
  <2>1. k \in DOMAIN lists /\ k \in ListIds /\ lists' = lists
    BY <1>1 DEF TypeOK
  <2>2. CASE k = l
    BY <1>1, <1>3, <2>1, <2>2 DEF TypeOK
  <2>3. CASE k # l
    BY <1>2, <1>3, <2>1, <2>3 DEF AuditFollows
  <2> QED
    BY <2>2, <2>3
<1> HIDE DEF l
<1> QED
  BY <1>1, <1>2, <1>3, <1>4 DEF AuditFollows, Auditing, Idle

LEMMA ListStepFollows ==
  ASSUME TypeOK, OneAtATime, AuditFollows, NEW r \in Requests, ListStep(r),
         missed' = missed
  PROVE  AuditFollows'
<1>0. ~Auditing(Idle) /\ Idle.op # "lock"
  BY DEF Auditing, Idle
<1>1. ASSUME NEW l \in ListIds, NEW title \in Titles, CreateList(r, l, title)
      PROVE  AuditFollows'
  <2>1. \A k \in DOMAIN lists' : \/ k \in DOMAIN lists /\ lists'[k].locked = lists[k].locked
                                 \/ k \in ListIds \ spent /\ ~lists'[k].locked
    BY <1>1 DEF CreateList, With
  <2> QED
    BY <1>1, <2>1, UnaskedFollows DEF CreateList
<1>2. ASSUME NEW l \in ListIds, DeleteList(r, l) PROVE AuditFollows'
  <2>1. \A s \in Requests : /\ req'[s].pc = req[s].pc /\ req'[s].op = req[s].op
                            /\ req'[s].list = req[s].list /\ req'[s].lock = req[s].lock
    BY <1>2, OvertakenMarks DEF DeleteList
  <2> QED
    BY <1>2, <2>1, UnaskedFollows DEF DeleteList, Without
<1>3. ASSUME NEW l \in ListIds, BeginUpdateList(r, l) PROVE AuditFollows'
  <2> DEFINE q == [Idle EXCEPT !.op = "rename", !.pc = "write", !.list = l]
  <2>1. ~Auditing(q) /\ q.op # "lock"
    BY DEF Auditing, Idle
  <2>2. req' = [req EXCEPT ![r] = q] /\ req[r] = Idle
    BY <1>3 DEF BeginUpdateList
  <2> HIDE DEF q
  <2> QED
    BY <1>0, <1>3, <2>1, <2>2, QuietFollows DEF BeginUpdateList
<1>4. ASSUME NEW l \in ListIds, NEW b \in BOOLEAN, BeginSetLocked(r, l, b)
      PROVE  AuditFollows'
  <2> DEFINE q == [Idle EXCEPT !.op = "lock", !.pc = "write", !.list = l, !.lock = b]
  <2>1. ~Auditing(q) /\ q.list = l
    BY DEF Auditing, Idle
  <2>2. req' = [req EXCEPT ![r] = q] /\ req[r] = Idle /\ l \in spent
    BY <1>4 DEF BeginSetLocked, TypeOK
  <2> HIDE DEF q
  <2> QED
    BY <1>0, <1>4, <2>1, <2>2, QuietFollows DEF BeginSetLocked
<1>5. ASSUME NEW title \in Titles, UpdateList(r, title) PROVE AuditFollows'
  <2>1. \A k \in DOMAIN lists' : k \in DOMAIN lists /\ lists'[k].locked = lists[k].locked
    BY <1>5 DEF UpdateList, TypeOK
  <2>2. ~Auditing(req[r])
    BY <1>5 DEF UpdateList, Auditing
  <2> QED
    BY <1>0, <1>5, <2>1, <2>2, QuietFollows DEF UpdateList
<1> QED
  BY <1>1, <1>2, <1>3, <1>4, <1>5, SetLockedFollows, ReadBackFollows DEF ListStep

LEMMA EntryStepFollows ==
  ASSUME TypeOK, AuditFollows, NEW r \in Requests, EntryStep(r),
         missed' = missed
  PROVE  AuditFollows'
<1>1. lists' = lists /\ audited' = audited /\ spent \subseteq spent'
  BY DEF EntryStep, BeginCreateEntry, BeginUpdateEntry, BeginDeleteEntry, ReadSortOrder,
     InsertEntry, LookUpEntry, UpdateEntry, DeleteEntry
<1>2. ~Auditing(Idle) /\ Idle.op # "lock"
  BY DEF Auditing, Idle
<1>3. ASSUME NEW l \in ListIds, NEW o \in GivenOrders, BeginCreateEntry(r, l, o)
      PROVE  AuditFollows'
  <2> DEFINE q == IF o = 0
                  THEN [Idle EXCEPT !.op = "append", !.pc = "order", !.list = l]
                  ELSE [Idle EXCEPT !.op = "create", !.pc = "write", !.list = l, !.order = o]
  <2>1. ~Auditing(q) /\ q.op # "lock"
    BY DEF Auditing, Idle
  <2>2. req' = [req EXCEPT ![r] = q] /\ req[r] = Idle
    BY <1>3 DEF BeginCreateEntry
  <2> HIDE DEF q
  <2>3. ~Auditing(req[r]) /\ (q.op = "lock" => q.list \in spent)
    BY <1>2, <2>1, <2>2
  <2> QED
    BY <1>1, <2>1, <2>2, <2>3, QuietFollows
<1>4. ASSUME NEW l \in ListIds, NEW e \in EntryIds, NEW o \in GivenOrders,
             BeginUpdateEntry(r, l, e, o)
      PROVE  AuditFollows'
  <2> DEFINE q == [Idle EXCEPT !.op = "update", !.pc = "entry", !.list = l,
                               !.entry = e, !.order = o]
  <2>1. ~Auditing(q) /\ q.op # "lock"
    BY DEF Auditing, Idle
  <2>2. req' = [req EXCEPT ![r] = q] /\ req[r] = Idle
    BY <1>4 DEF BeginUpdateEntry
  <2> HIDE DEF q
  <2>3. ~Auditing(req[r]) /\ (q.op = "lock" => q.list \in spent)
    BY <1>2, <2>1, <2>2
  <2> QED
    BY <1>1, <2>1, <2>2, <2>3, QuietFollows
<1>5. ASSUME NEW l \in ListIds, NEW e \in EntryIds, BeginDeleteEntry(r, l, e)
      PROVE  AuditFollows'
  <2> DEFINE q == [Idle EXCEPT !.op = "delete", !.pc = "write", !.list = l, !.entry = e]
  <2>1. ~Auditing(q) /\ q.op # "lock"
    BY DEF Auditing, Idle
  <2>2. req' = [req EXCEPT ![r] = q] /\ req[r] = Idle
    BY <1>5 DEF BeginDeleteEntry
  <2> HIDE DEF q
  <2>3. ~Auditing(req[r]) /\ (q.op = "lock" => q.list \in spent)
    BY <1>2, <2>1, <2>2
  <2> QED
    BY <1>1, <2>1, <2>2, <2>3, QuietFollows
<1>6. CASE ReadSortOrder(r)
  <2>1. PICK next : req' = [req EXCEPT ![r].pc = "write", ![r].order = next]
    BY <1>6 DEF ReadSortOrder
  <2> DEFINE q == [req[r] EXCEPT !.pc = "write", !.order = next]
  <2>2. q.pc = "write" /\ q.op = req[r].op /\ q.list = req[r].list
    BY DEF TypeOK, RequestStates
  <2>3. req' = [req EXCEPT ![r] = q] /\ req[r].pc = "order"
    BY <1>6, <2>1 DEF ReadSortOrder
  <2> HIDE DEF q
  <2> QED
    BY <1>1, <2>2, <2>3, QuietFollows DEF Auditing, AuditFollows
<1>7. CASE LookUpEntry(r)
  <2> DEFINE q == [req[r] EXCEPT !.pc = "write"]
  <2>1. q.pc = "write" /\ q.op = req[r].op /\ q.list = req[r].list
    BY DEF TypeOK, RequestStates
  <2>2. /\ req' = [req EXCEPT ![r] = q] \/ req' = [req EXCEPT ![r] = Idle]
        /\ req[r].pc = "entry"
    BY <1>7 DEF LookUpEntry
  <2> HIDE DEF q
  <2>3. ~Auditing(req[r]) /\ ~Auditing(q) /\ (q.op = "lock" => q.list \in spent)
    BY <2>1, <2>2 DEF Auditing, AuditFollows
  <2>4. CASE req' = [req EXCEPT ![r] = q]
    BY <1>1, <2>3, <2>4, QuietFollows
  <2>5. CASE req' = [req EXCEPT ![r] = Idle]
    BY <1>1, <1>2, <2>3, <2>5, QuietFollows
  <2> QED
    BY <2>2, <2>4, <2>5
<1>8. ASSUME \/ \E e \in EntryIds : InsertEntry(r, e)
             \/ UpdateEntry(r) \/ DeleteEntry(r)
      PROVE  AuditFollows'
  <2>1. req' = [req EXCEPT ![r] = Idle] /\ req[r].pc = "write"
    BY <1>8 DEF InsertEntry, UpdateEntry, DeleteEntry
  <2>2. ~Auditing(req[r])
    BY <2>1 DEF Auditing
  <2> QED
    BY <1>1, <1>2, <2>1, <2>2, QuietFollows
<1> QED
  BY <1>3, <1>4, <1>5, <1>6, <1>7, <1>8 DEF EntryStep

LEMMA InTurnStep ==
  TypeOK /\ overlapped \in BOOLEAN /\ InTurn /\ [MCNext]_<<vars, overlapped, missed>>
    => InTurn' /\ overlapped' \in BOOLEAN
<1> SUFFICES ASSUME TypeOK, overlapped \in BOOLEAN, InTurn, [MCNext]_<<vars, overlapped, missed>>
             PROVE  InTurn' /\ overlapped' \in BOOLEAN
  OBVIOUS
<1>1. CASE UNCHANGED <<vars, overlapped, missed>>
  BY <1>1 DEF vars, InTurn, OneAtATime, AuditFollows, Auditing
<1>2. CASE MCNext
  <2>1. overlapped' \in BOOLEAN
    BY <1>2 DEF MCNext
  <2>2. ASSUME ~overlapped' PROVE OneAtATime' /\ AuditFollows'
    <3>1. ~overlapped /\ OneAtATime /\ OneAtATime' /\ AuditFollows
      BY <1>2, <2>2, StaysInTurn
    <3>2. ASSUME Restart, missed' = missed \cup Unaudited(Requests) PROVE AuditFollows'
      <4>1. req' = [s \in Requests |-> IF s \in Requests THEN Idle ELSE req[s]]
        BY <3>2 DEF Restart
      <4>2. UNCHANGED <<lists, spent, audited>>
        BY <3>2 DEF Restart
      <4> QED
        BY <3>1, <3>2, <4>1, <4>2, CutFollows
    <3>3. ASSUME NEW r \in Requests, StatementFails(r), missed' = missed \cup Unaudited({r})
          PROVE  AuditFollows'
      <4>1. req' = [s \in Requests |-> IF s \in {r} THEN Idle ELSE req[s]]
        BY <3>3 DEF StatementFails, TypeOK
      <4>2. UNCHANGED <<lists, spent, audited>>
        BY <3>3 DEF StatementFails
      <4> QED
        BY <3>1, <3>3, <4>1, <4>2, CutFollows
    <3> QED
      BY <1>2, <3>1, <3>2, <3>3, ListStepFollows, EntryStepFollows, AuditLockFollows DEF MCNext
  <2> QED
    BY <2>1, <2>2 DEF InTurn
<1> QED
  BY <1>1, <1>2

LEMMA InTurnInit == MCInit => overlapped \in BOOLEAN /\ InTurn
<1> SUFFICES ASSUME MCInit PROVE OneAtATime /\ AuditFollows /\ overlapped \in BOOLEAN
  BY DEF InTurn
<1>1. /\ DOMAIN lists = {} /\ \A r \in Requests : req[r] = Idle
      /\ \A l \in ListIds : audited[l] = "none"
  BY DEF MCInit, Init, NoRows
<1>2. ~Auditing(Idle) /\ Idle.op # "lock" /\ Idle.pc # "audit"
  BY DEF Auditing, Idle
<1> QED
  BY <1>1, <1>2 DEF OneAtATime, AuditFollows, MCInit

(* Handled one at a time, requests leave the audit log of a list with its    *)
(* lock state as the last lock event, unless the last change of the lock was *)
(* cut off before its audit entry (exhibition.go:175, api/exhibition.go:146).*)
THEOREM AuditIsKept == MCSpec => []AuditMatchesLock
<1>1. MCSpec => Spec
  <2>1. MCInit => Init
    BY DEF MCInit
  <2>2. [MCNext]_<<vars, overlapped, missed>> => [Next]_vars
    BY DEF MCNext, Next, vars
  <2> QED
    BY <2>1, <2>2, PTL DEF MCSpec, Spec
<1>2. InTurn => AuditMatchesLock
  <2>1. ~Auditing(Idle)
    BY DEF Auditing, Idle
  <2> QED
    BY <2>1 DEF InTurn, AuditFollows, AuditMatchesLock, Busy
<1> DEFINE J == overlapped \in BOOLEAN /\ InTurn
<1>3. MCInit => J
  BY InTurnInit
<1>4. TypeOK /\ J /\ [MCNext]_<<vars, overlapped, missed>> => J'
  BY InTurnStep
<1>5. J => AuditMatchesLock
  BY <1>2
<1> HIDE DEF J
<1> QED
  BY <1>1, <1>3, <1>4, <1>5, TypeCorrect, PTL DEF MCSpec
=============================================================================
