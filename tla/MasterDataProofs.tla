-------------------------- MODULE MasterDataProofs --------------------------
(* What MasterData keeps true for every set of keys, labels, requests,       *)
(* documents and every seed file.                                            *)
EXTENDS MasterData, TLAPS

----------------------------------------------------------------------------
(* Where a request can be.                                                   *)

(* A list that is still to be obtained has a flag; the rest is shorter.      *)
LEMMA TodoFacts ==
  ASSUME NEW todo \in Todos \ {<<>>}
  PROVE  Head(todo) \in Slots /\ Tail(todo) \in Todos
<1>0. <<>> \in Todos /\ <<"active">> \in Todos
  BY DEF Todos
<1>1. CASE todo = <<"all">>
  <2>1. Head(todo) = "all" /\ Tail(todo) = <<>>
    BY <1>1
  <2>2. Head(todo) \in Slots
    BY <2>1 DEF Slots
  <2>3. Tail(todo) \in Todos
    BY <1>0, <2>1, Zenon
  <2> QED
    BY <2>2, <2>3
<1>2. CASE todo = <<"active">>
  <2>1. Head(todo) = "active" /\ Tail(todo) = <<>>
    BY <1>2
  <2>2. Head(todo) \in Slots
    BY <2>1 DEF Slots
  <2>3. Tail(todo) \in Todos
    BY <1>0, <2>1, Zenon
  <2> QED
    BY <2>2, <2>3
<1>3. CASE todo = <<"all", "active">>
  <2>1. Head(todo) = "all" /\ Tail(todo) = <<"active">>
    BY <1>3
  <2>2. Head(todo) \in Slots
    BY <2>1 DEF Slots
  <2>3. Tail(todo) \in Todos
    BY <1>0, <2>1, Zenon
  <2> QED
    BY <2>2, <2>3
<1> QED
  BY <1>1, <1>2, <1>3 DEF Todos

(* A request that is at a list, or restoring files, has a list left to       *)
(* obtain.                                                                   *)
LEMMA QueuedByPc ==
  ASSUME NEW q \in RequestStates, q.pc \in {"lookup", "query", "store", "files"}
  PROVE  q \in Queued
BY DEF RequestStates, Exporting, Committed, Idle

(* Entering the queue of lists.                                              *)
LEMMA AtQueued ==
  ASSUME NEW op \in {"list", "export", "write", "restore"},
         NEW pc \in {"lookup", "query", "store", "files"},
         NEW todo \in Todos \ {<<>>}
  PROVE  At(op, pc, todo) \in RequestStates
BY DEF At, Queued, RequestStates

(* Leaving a list leads to the next one, to the relations or to the answer.  *)
LEMMA ProceedState ==
  ASSUME NEW q \in Queued, NEW list \in SUBSET Rows
  PROVE  Proceed(q, list) \in RequestStates
<1>1. q.todo \in Todos \ {<<>>} /\ q.op \in {"list", "export", "write", "restore"}
  BY DEF Queued
<1>2. Tail(q.todo) \in Todos
  BY <1>1, TodoFacts
<1>3. CASE Tail(q.todo) # <<>>
  BY <1>1, <1>2, <1>3, AtQueued DEF Proceed
<1>4. CASE Tail(q.todo) = <<>>
  BY <1>4 DEF Proceed, RequestStates, Exporting
<1> QED
  BY <1>3, <1>4

(* After the commit of a write or a restore the listing, if any, begins.     *)
LEMMA BeginState ==
  ASSUME NEW q \in Queued \cup Committed
  PROVE  Begin(q) \in RequestStates
<1>1. q.todo \in Todos /\ q.op \in {"list", "export", "write", "restore"}
  BY DEF Queued, Committed
<1> QED
  BY <1>1, AtQueued DEF Begin, RequestStates

(* There is a number of migrations, and each is made of rows and a rewriting. *)
LEMMA MigrationFacts ==
  /\ Len(Migrations) \in Nat
  /\ \A n \in 1 .. Len(Migrations) :
       Migrations[n] \in [inserted : SUBSET Rows, rewrite : [Keys -> [Labels -> Labels]]]
<1>1. PICK T : /\ T = [inserted : SUBSET Rows, rewrite : [Keys -> [Labels -> Labels]]]
               /\ Migrations \in Seq(T)
  BY MigrationsAssumption
<1>2. Len(Migrations) \in Nat /\ \A n \in 1 .. Len(Migrations) : Migrations[n] \in T
  <2>1. Migrations \in Seq(T)
    BY <1>1
  <2> QED
    BY <2>1
<1> QED
  BY <1>1, <1>2

(* What a migration makes of rows are rows.                                  *)
LEMMA MigratedRows ==
  ASSUME NEW n \in 1 .. Len(Migrations), NEW rows \in SUBSET Rows
  PROVE  Migrated(rows, Migrations[n]) \subseteq Rows
<1>1. Migrations[n] \in [inserted : SUBSET Rows, rewrite : [Keys -> [Labels -> Labels]]]
  BY MigrationFacts
<1>2. ASSUME NEW x \in rows PROVE Rewritten(x, Migrations[n]) \in Rows
  <2>1. x.key \in Keys /\ x.label \in Labels
    BY DEF Rows
  <2>2. Migrations[n].rewrite[x.key][x.label] \in Labels
    BY <1>1, <2>1
  <2> QED
    BY <2>2 DEF Rewritten, Rows
<1> QED
  BY <1>1, <1>2 DEF Migrated

----------------------------------------------------------------------------
(* The tables, the cache and the requests keep their shape; a request that   *)
(* is listing always has a list left to obtain (master_data.go:126 ListAll,   *)
(* 334 Import, master_data_seed.go:39 SeedMasterData, sqlite.go:43 Migrate).  *)
THEOREM TypeCorrect == Spec => []TypeOK
<1>1. Init => TypeOK
  <2> SUFFICES ASSUME Init PROVE TypeOK
    OBVIOUS
  <2>1. req \in [Requests -> RequestStates]
    BY DEF Init, RequestStates
  <2>2. version \in 0 .. Len(Migrations)
    BY MigrationFacts, MigrationsAssumption DEF Init
  <2>3. DOMAIN cache \subseteq Slots /\ \A a \in DOMAIN cache : cache[a] \subseteq Rows
    BY DEF Init, NoLists
  <2>4. entries \subseteq Rows /\ relations \subseteq RelationRows /\ late \subseteq Slots
    BY DEF Init
  <2>5. phase \in {"up", "down", "failed"} /\ foreign \in BOOLEAN
    BY DEF Init
  <2>6. writes \in 0 .. MaxWrites
    BY BoundAssumption DEF Init
  <2> QED
    BY <2>1, <2>2, <2>3, <2>4, <2>5, <2>6 DEF TypeOK
<1>2. TypeOK /\ [Next]_vars => TypeOK'
  <2> SUFFICES ASSUME TypeOK, [Next]_vars PROVE TypeOK'
    OBVIOUS
  <2> Idle \in RequestStates
    BY DEF RequestStates
  <2>1. CASE Stop
    BY <2>1 DEF Stop, TypeOK, NoLists, tables
  <2>3. CASE Migrate
    <3>1. version' \in 1..Len(Migrations)
      BY <2>3, MigrationsAssumption DEF Migrate, TypeOK
    <3>2. Migrated(entries, Migrations[version']) \subseteq Rows
      BY <3>1, MigratedRows DEF TypeOK
    <3> QED
      BY <2>3, <3>1, <3>2 DEF Migrate, TypeOK
  <2>4. CASE Start
    <3>1. Seeded(entries) \subseteq Rows /\ SeededRelations(relations) \subseteq RelationRows
      BY SeedAssumption DEF TypeOK, Seeded, SeededRelations, Documents
    <3>2. /\ DOMAIN WarmedBy(Seeded(entries)) \subseteq Slots
          /\ \A a \in Slots : WarmedBy(Seeded(entries))[a] \subseteq Rows
      BY <3>1 DEF WarmedBy, View
    <3> QED
      BY <2>4, <3>1, <3>2 DEF Start, TypeOK, NoLists
  <2>5. CASE StartFails
    BY <2>5 DEF StartFails, TypeOK, tables
  <2>2. ASSUME NEW r \in Requests, Step(r) PROVE TypeOK'
    <3> req[r] \in RequestStates
      BY DEF TypeOK
    <3>1. ASSUME NEW a \in Slots, ListAll(r, a) PROVE TypeOK'
      <4>1. <<a>> \in Todos \ {<<>>}
        BY DEF Todos, Slots
      <4>2. At("list", "lookup", <<a>>) \in RequestStates
        BY <4>1, AtQueued
      <4> QED
        BY <3>1, <4>2 DEF ListAll, TypeOK, tables, process
    <3>2. CASE LookupHit(r)
      <4>1. req[r] \in Queued /\ cache[Head(req[r].todo)] \in SUBSET Rows
        BY <3>2, QueuedByPc DEF LookupHit, TypeOK, tables, process
      <4>2. Proceed(req[r], cache[Head(req[r].todo)]) \in RequestStates
        BY <4>1, ProceedState
      <4> QED
        BY <3>2, <4>2 DEF LookupHit, TypeOK, tables, process
    <3>3. CASE LookupMiss(r)
      <4>1. [req[r] EXCEPT !.pc = "query"] \in Queued
        BY <3>3, QueuedByPc DEF LookupMiss, Queued
      <4> QED
        BY <3>3, <4>1 DEF LookupMiss, TypeOK, tables, process, RequestStates
    <3>4. CASE Query(r)
      <4> DEFINE q == [req[r] EXCEPT !.pc = "store",
                                     !.view = View(entries, Head(req[r].todo))]
      <4>1. q \in Queued
        BY <3>4, QueuedByPc DEF Query, Queued, View, TypeOK
      <4>2. req' = [req EXCEPT ![r] = q]
        BY <3>4 DEF Query
      <4> HIDE DEF q
      <4> QED
        BY <3>4, <4>1, <4>2 DEF Query, TypeOK, tables, process, RequestStates
    <3>5. CASE QueryFails(r)
      BY <3>5 DEF QueryFails, TypeOK, tables, process
    <3>6. CASE Store(r)
      <4>1. /\ req[r] \in Queued
            /\ req[r].view \in SUBSET Rows
            /\ req[r].todo \in Todos \ {<<>>}
        BY <3>6, QueuedByPc DEF Store, Queued
      <4>2. Proceed(req[r], req[r].view) \in RequestStates
        BY <4>1, ProceedState
      <4>3. Head(req[r].todo) \in Slots
        BY <4>1, TodoFacts
      <4> QED
        BY <3>6, <4>1, <4>2, <4>3 DEF Store, TypeOK, tables, process
    <3>7. ASSUME NEW rows \in SUBSET Rows, NEW todo \in {<<>>, WarmCache},
                 Commit(r, rows, todo), relations' \subseteq RelationRows,
                 foreign' \in BOOLEAN
          PROVE  TypeOK'
      <4>1. At("write", "invalidate", todo) \in RequestStates
        BY DEF At, RequestStates, Committed, Todos, WarmCache
      <4>2. writes + 1 \in 0..MaxWrites
        BY <3>7, BoundAssumption DEF Commit, CanWrite, TypeOK
      <4> QED
        BY <3>7, <4>1, <4>2 DEF Commit, TypeOK
    <3>8. ASSUME NEW x \in Rows, Create(r, x) PROVE TypeOK'
      BY <3>7, <3>8 DEF Create, TypeOK
    <3>9. ASSUME NEW x \in entries, NEW l \in Labels, NEW a \in BOOLEAN,
                 Update(r, x, l, a)
          PROVE  TypeOK'
      <4>1. [x EXCEPT !.label = l, !.active = a] \in Rows
        BY DEF TypeOK, Rows
      <4> QED
        BY <3>7, <3>9, <4>1 DEF Update, TypeOK
    <3>10. ASSUME NEW x \in entries, Delete(r, x) PROVE TypeOK'
      BY <3>7, <3>10 DEF Delete, TypeOK
    <3>11. ASSUME NEW doc \in Imports, Import(r, doc) PROVE TypeOK'
      BY <3>7, <3>11, DocumentsAssumption DEF Import, Documents
    <3>12. CASE Invalidate(r)
      <4>1. Begin(req[r]) \in RequestStates
        <5>1. req[r] \in Committed
          BY <3>12 DEF Invalidate, RequestStates, Queued, Exporting, Idle
        <5> QED
          BY <5>1, BeginState
      <4> QED
        BY <3>12, <4>1 DEF Invalidate, TypeOK, tables, process, NoLists
    <3>13. ASSUME NEW doc \in Backups, RestoreCommit(r, doc) PROVE TypeOK'
      <4>1. At("restore", "files", WarmCache) \in RequestStates
        BY AtQueued DEF WarmCache, Todos
      <4>2. writes + 1 \in 0..MaxWrites
        BY <3>13, BoundAssumption DEF RestoreCommit, CanWrite, TypeOK
      <4> QED
        BY <3>13, <4>1, <4>2, DocumentsAssumption DEF RestoreCommit, TypeOK, Documents
    <3>14. CASE RestoreFiles(r)
      <4>1. Begin(req[r]) \in RequestStates
        BY <3>14, QueuedByPc, BeginState DEF RestoreFiles
      <4> QED
        BY <3>14, <4>1 DEF RestoreFiles, TypeOK, tables, process
    <3>15. CASE Export(r)
      <4>1. At("export", "lookup", <<"all">>) \in RequestStates
        BY AtQueued DEF Todos
      <4> QED
        BY <3>15, <4>1 DEF Export, TypeOK, tables, process
    <3>16. CASE ExportRelations(r)
      BY <3>16 DEF ExportRelations, TypeOK, tables, process
    <3> QED
      BY <2>2, <3>1, <3>2, <3>3, <3>4, <3>5, <3>6, <3>8, <3>9, <3>10, <3>11,
         <3>12, <3>13, <3>14, <3>15, <3>16 DEF Step
  <2>6. CASE UNCHANGED vars
    BY <2>6 DEF vars, TypeOK
  <2> QED
    BY <2>1, <2>2, <2>3, <2>4, <2>5, <2>6 DEF Next
<1> QED
  BY <1>1, <1>2, PTL DEF Spec
----------------------------------------------------------------------------
(* A step of a request that is not at its invalidation leaves the others'    *)
(* invalidations pending.                                                    *)
LEMMA PendingStays ==
  ASSUME NEW r \in Requests, NEW q, TypeOK,
         req' = [req EXCEPT ![r] = q], req[r].pc # "invalidate",
         \E s \in Requests : req[s].pc = "invalidate"
  PROVE  \E s \in Requests : req'[s].pc = "invalidate"
<1>1. PICK s \in Requests : req[s].pc = "invalidate"
  OBVIOUS
<1>2. s # r /\ req'[s] = req[s]
  BY <1>1 DEF TypeOK
<1> QED
  BY <1>1, <1>2

(* What a request does leaves the process as it is.                          *)
LEMMA RequestsKeepThePhase ==
  ASSUME NEW r \in Requests, Step(r)
  PROVE  phase = "up" /\ phase' = "up" /\ version' = version
BY DEF Step, ListAll, Export, ExportRelations, LookupHit, LookupMiss,
   Query, QueryFails, Store, Create, Update, Delete, Import, Commit, CanWrite,
   Invalidate, RestoreCommit, RestoreFiles, process

(* A process that does not serve has nothing cached.                         *)
EmptyUntilUp == phase # "up" => cache = NoLists

LEMMA CacheNeedsAProcess == Spec => []EmptyUntilUp
<1>1. Init => EmptyUntilUp
  BY DEF Init, EmptyUntilUp
<1>2. EmptyUntilUp /\ [Next]_vars => EmptyUntilUp'
  <2> SUFFICES ASSUME EmptyUntilUp, [Next]_vars PROVE EmptyUntilUp'
    OBVIOUS
  <2>1. CASE Stop \/ Migrate \/ Start \/ StartFails
    BY <2>1 DEF Stop, Migrate, Start, StartFails, EmptyUntilUp
  <2>2. ASSUME NEW r \in Requests, Step(r) PROVE EmptyUntilUp'
    BY <2>2, RequestsKeepThePhase DEF EmptyUntilUp
  <2>3. CASE UNCHANGED vars
    BY <2>3 DEF vars, EmptyUntilUp
  <2> QED
    BY <2>1, <2>2, <2>3 DEF Next
<1> QED
  BY <1>1, <1>2, PTL DEF Spec

(* A cached list that differs from its table was late, or is about to be     *)
(* dropped (StaleCacheHasCause: master_data.go:159 ListAll, 456              *)
(* invalidateCache).  It is inductive given the types.                       *)
THEOREM StaleCache == Spec => []StaleCacheHasCause
<1>1. Init => StaleCacheHasCause
  BY DEF Init, StaleCacheHasCause, Coherent, NoLists
<1>2. TypeOK /\ EmptyUntilUp /\ StaleCacheHasCause /\ [Next]_vars => StaleCacheHasCause'
  <2> SUFFICES ASSUME TypeOK, EmptyUntilUp, StaleCacheHasCause, [Next]_vars
               PROVE  StaleCacheHasCause'
    OBVIOUS
  <2>1. CASE Stop \/ Migrate \/ StartFails
    BY <2>1 DEF Stop, Migrate, StartFails, EmptyUntilUp, StaleCacheHasCause, Coherent, NoLists
  <2>4. CASE Start
    BY <2>4 DEF Start, StaleCacheHasCause, Coherent, WarmedBy, NoLists
  <2>2. ASSUME NEW r \in Requests, Step(r) PROVE StaleCacheHasCause'
    <3>1. ASSUME NEW q, req' = [req EXCEPT ![r] = q], req[r].pc # "invalidate",
                 UNCHANGED <<entries, cache, late>>
          PROVE  StaleCacheHasCause'
      BY <3>1, PendingStays DEF StaleCacheHasCause, Coherent
    <3>2. ASSUME NEW slot \in Slots, ListAll(r, slot) PROVE StaleCacheHasCause'
      <4>1. \E q : req' = [req EXCEPT ![r] = q]
        BY <3>2 DEF ListAll, tables
      <4>2. req[r].pc # "invalidate" /\ UNCHANGED <<entries, cache, late>>
        BY <3>2 DEF ListAll, Idle, tables
      <4> QED
        BY <3>1, <4>1, <4>2
    <3>3. CASE LookupHit(r)
      BY <3>1, <3>3 DEF LookupHit, tables
    <3>4. CASE LookupMiss(r)
      BY <3>1, <3>4 DEF LookupMiss, tables
    <3>5. CASE Query(r)
      <4>1. \E q : req' = [req EXCEPT ![r] = q]
        BY <3>5 DEF Query, tables
      <4> QED
        BY <3>1, <3>5, <4>1 DEF Query, tables
    <3>6. CASE QueryFails(r)
      BY <3>1, <3>6 DEF QueryFails, tables
    <3>7. CASE Export(r) \/ ExportRelations(r)
      BY <3>1, <3>7 DEF Export, ExportRelations, Idle, tables
    <3>8. CASE RestoreFiles(r)
      <4>1. \E q : req' = [req EXCEPT ![r] = q]
        BY <3>8 DEF RestoreFiles, tables
      <4> QED
        BY <3>1, <3>8, <4>1 DEF RestoreFiles, tables
    <3>9. CASE Store(r)
      <4> SUFFICES ASSUME NEW slot \in Slots
                   PROVE  \/ Coherent(slot)'
                          \/ slot \in late'
                          \/ \E s \in Requests : req'[s].pc = "invalidate"
        BY DEF StaleCacheHasCause
      <4>1. CASE slot = Head(req[r].todo)
        BY <3>9, <4>1 DEF Store, Coherent, tables
      <4>2. CASE slot # Head(req[r].todo)
        <5>1. /\ Coherent(slot) => Coherent(slot)'
              /\ slot \in late => slot \in late'
          BY <3>9, <4>2 DEF Store, Coherent, tables
        <5> QED
          BY <3>9, <5>1, PendingStays DEF Store, StaleCacheHasCause
      <4> QED
        BY <4>1, <4>2
    <3>10. ASSUME NEW rows, NEW todo, Commit(r, rows, todo) PROVE StaleCacheHasCause'
      <4>1. req'[r].pc = "invalidate"
        BY <3>10 DEF Commit, At, TypeOK
      <4> QED
        BY <4>1 DEF StaleCacheHasCause
    <3>11. ASSUME NEW x \in Rows, Create(r, x) PROVE StaleCacheHasCause'
      BY <3>10, <3>11 DEF Create
    <3>12. ASSUME NEW x \in entries, NEW l \in Labels, NEW a \in BOOLEAN,
                  Update(r, x, l, a)
           PROVE  StaleCacheHasCause'
      BY <3>10, <3>12 DEF Update
    <3>13. ASSUME NEW x \in entries, Delete(r, x) PROVE StaleCacheHasCause'
      BY <3>10, <3>13 DEF Delete
    <3>14. ASSUME NEW doc \in Imports, Import(r, doc) PROVE StaleCacheHasCause'
      BY <3>10, <3>14 DEF Import
    <3>15. CASE Invalidate(r)
      BY <3>15 DEF Invalidate, tables, StaleCacheHasCause, Coherent, NoLists
    <3>16. ASSUME NEW doc \in Backups, RestoreCommit(r, doc) PROVE StaleCacheHasCause'
      BY <3>16 DEF RestoreCommit, StaleCacheHasCause, Coherent
    <3> QED
      BY <2>2, <3>2, <3>3, <3>4, <3>5, <3>6, <3>7, <3>8, <3>9, <3>11, <3>12,
         <3>13, <3>14, <3>15, <3>16 DEF Step
  <2>3. CASE UNCHANGED vars
    BY <2>3 DEF vars, StaleCacheHasCause, Coherent
  <2> QED
    BY <2>1, <2>2, <2>3, <2>4 DEF Next
<1> QED
  BY <1>1, <1>2, TypeCorrect, CacheNeedsAProcess, PTL DEF Spec

(* As long as no foreign document has replaced the tables they are the       *)
(* program's own, and so the seed file can be merged and the lists be read.  *)
OwnInvariant ==
  /\ phase = "failed" => foreign
  /\ foreign \/ Own(entries, relations)

(* Nothing but a document that replaces the tables brings rows under foreign *)
(* ids or metadata that cannot be read.                                      *)
LEMMA WritesStayOwn ==
  ASSUME NEW r \in Requests, TypeOK, Step(r), Own(entries, relations) \/ foreign
  PROVE  Own(entries', relations') \/ foreign'
<1>1. CASE UNCHANGED <<tables, foreign>>
  BY <1>1 DEF tables
<1>2. ASSUME NEW x \in Rows, Create(r, x) PROVE Own(entries', relations') \/ foreign'
  BY <1>2 DEF Create, Commit, Own
<1>3. ASSUME NEW x \in entries, NEW l \in Labels \ Unreadable, NEW a \in BOOLEAN,
             Update(r, x, l, a)
      PROVE  Own(entries', relations') \/ foreign'
  <2> DEFINE y == [x EXCEPT !.label = l, !.active = a]
  <2>1. entries' = (entries \ {x}) \cup {y} /\ UNCHANGED <<relations, foreign>>
    BY <1>3 DEF Update, Commit
  <2>2. y.id = x.id /\ y.key = x.key /\ y.label = l
    BY DEF TypeOK, Rows
  <2> HIDE DEF y
  <2> QED
    BY <2>1, <2>2 DEF Own
<1>4. ASSUME NEW x \in entries, Delete(r, x) PROVE Own(entries', relations') \/ foreign'
  BY <1>4 DEF Delete, Commit, Own
<1>5. ASSUME NEW doc, Import(r, doc) \/ RestoreCommit(r, doc)
      PROVE  Own(entries', relations') \/ foreign'
  BY <1>5 DEF Import, Commit, RestoreCommit
<1>6. ASSUME \/ \E slot \in Slots : ListAll(r, slot)
             \/ Export(r) \/ ExportRelations(r) \/ LookupHit(r) \/ LookupMiss(r)
             \/ Query(r) \/ QueryFails(r) \/ Store(r) \/ Invalidate(r) \/ RestoreFiles(r)
      PROVE  UNCHANGED <<tables, foreign>>
  BY <1>6 DEF ListAll, Export, ExportRelations, LookupHit, LookupMiss, Query,
     QueryFails, Store, Invalidate, RestoreFiles, process
<1> QED
  BY <1>1, <1>2, <1>3, <1>4, <1>5, <1>6 DEF Step

(* A migration and the seed file keep the program's own tables its own.      *)
LEMMA StartStaysOwn ==
  ASSUME TypeOK, Own(entries, relations)
  PROVE  /\ Migrate => Own(entries', relations')
         /\ Own(Seeded(entries), SeededRelations(relations))
         /\ ~SeedFails(entries, relations)
<1>1. ASSUME Migrate PROVE Own(entries', relations')
  <2> DEFINE m == Migrations[version']
  <2>1. version' \in 1..Len(Migrations)
    BY <1>1, MigrationsAssumption DEF Migrate, TypeOK
  <2>2. /\ Own(m.inserted, {})
        /\ \A k \in Keys, l \in Labels \ Unreadable : m.rewrite[k][l] \notin Unreadable
    BY <2>1, MigrationsAssumption
  <2> HIDE DEF m
  <2>3. ASSUME NEW x \in entries
        PROVE  LET y == Rewritten(x, m) IN (y.id \in Keys => y.id = y.key) /\ y.label \notin Unreadable
    <3>1. x \in Rows /\ (x.id \in Keys => x.id = x.key) /\ x.label \in Labels \ Unreadable /\ x.key \in Keys
      BY DEF TypeOK, Own, Rows
    <3>2. m.rewrite[x.key][x.label] \notin Unreadable
      BY <2>2, <3>1
    <3> QED
      BY <3>1, <3>2 DEF Rewritten, Rows
  <2>4. \A y \in Migrated(entries, m) : (y.id \in Keys => y.id = y.key) /\ y.label \notin Unreadable
    BY <2>2, <2>3 DEF Migrated, Own
  <2>5. entries' = Migrated(entries, m) /\ relations' = relations
    BY <1>1 DEF Migrate, m
  <2> QED
    BY <2>4, <2>5 DEF Own
<1>2. Own(Seeded(entries), SeededRelations(relations))
  BY SeedAssumption DEF Own, Seeded, SeededRelations, DistinctRelations
<1>3. ~SeedFails(entries, relations)
  BY SeedAssumption DEF SeedFails, Own, Documents, Rows
<1> QED
  BY <1>1, <1>2, <1>3

(* The start fails only after a foreign document has replaced the tables     *)
(* (StartFailsOnlyOnForeignDocuments: master_data_seed.go:70, 82,            *)
(* main.go:72, 78).                                                          *)
THEOREM OwnDataStart == Spec => []StartFailsOnlyOnForeignDocuments
<1>1. Init => OwnInvariant
  BY DEF Init, OwnInvariant, Own
<1>2. TypeOK /\ OwnInvariant /\ [Next]_vars => OwnInvariant'
  <2> SUFFICES ASSUME TypeOK, OwnInvariant, [Next]_vars PROVE OwnInvariant'
    OBVIOUS
  <2>1. CASE Stop
    BY <2>1 DEF Stop, OwnInvariant, tables
  <2>2. CASE Migrate
    <3>1. phase' = "down" /\ foreign' = foreign
      BY <2>2 DEF Migrate
    <3> QED
      BY <2>2, <3>1, StartStaysOwn DEF OwnInvariant
  <2>3. CASE Start
    <3>1. foreign' = foreign /\ entries' = Seeded(entries) /\ relations' = SeededRelations(relations)
      BY <2>3 DEF Start
    <3>2. CASE foreign
      BY <3>1, <3>2 DEF OwnInvariant
    <3>3. CASE ~foreign
      <4>1. Own(entries', relations')
        BY <3>1, <3>3, StartStaysOwn DEF OwnInvariant
      <4>2. phase' = "up"
        BY <2>3, <4>1 DEF Start, Own, Readable
      <4> QED
        BY <4>1, <4>2 DEF OwnInvariant
    <3> QED
      BY <3>2, <3>3
  <2>4. CASE StartFails
    <3>1. foreign
      BY <2>4, StartStaysOwn DEF StartFails, OwnInvariant
    <3> QED
      BY <2>4, <3>1 DEF StartFails, OwnInvariant
  <2>5. ASSUME NEW r \in Requests, Step(r) PROVE OwnInvariant'
    BY <2>5, RequestsKeepThePhase, WritesStayOwn DEF OwnInvariant
  <2>6. CASE UNCHANGED vars
    BY <2>6 DEF vars, OwnInvariant
  <2> QED
    BY <2>1, <2>2, <2>3, <2>4, <2>5, <2>6 DEF Next
<1>3. OwnInvariant => StartFailsOnlyOnForeignDocuments
  BY DEF OwnInvariant, StartFailsOnlyOnForeignDocuments
<1> QED
  BY <1>1, <1>2, <1>3, TypeCorrect, PTL DEF Spec

(* Only writes change rows: a start adds rows of the seed file, a migration  *)
(* rewrites rows by their keys and adds its own, and neither does more,      *)
(* whatever was edited, imported or restored before it                       *)
(* (OnlyWritesChangeRows: master_data_seed.go:74, sqlite.go:72).             *)
THEOREM EditsSurviveStarts == Spec => OnlyWritesChangeRows
<1> DEFINE Keeps ==
      writes' = writes =>
        IF version' = version
          THEN entries \subseteq entries' /\ entries' \ entries \subseteq Seed.entries
          ELSE LET m == Migrations[version']
               IN  /\ \A x \in entries : Rewritten(x, m) \in entries'
                   /\ \A y \in entries' : \/ y \in m.inserted
                                         \/ \E x \in entries : y = Rewritten(x, m)
<1>1. TypeOK /\ [Next]_vars => Keeps
  <2> SUFFICES ASSUME TypeOK, [Next]_vars, writes' = writes PROVE Keeps
    OBVIOUS
  <2>1. CASE Stop \/ StartFails
    BY <2>1 DEF Stop, StartFails, tables
  <2>2. CASE Migrate
    <3>1. version' # version
      BY <2>2 DEF Migrate, TypeOK
    <3> QED
      BY <2>2, <3>1 DEF Migrate, Migrated
  <2>3. CASE Start
    BY <2>3 DEF Start, Seeded
  <2>4. ASSUME NEW r \in Requests, Step(r) PROVE Keeps
    <3>1. writes + 1 # writes
      BY BoundAssumption DEF TypeOK
    <3>2. entries' = entries
      BY <2>4, <3>1 DEF Step, ListAll, Export, ExportRelations, LookupHit, LookupMiss,
         Query, QueryFails, Store, Create, Update, Delete, Import, Commit, Invalidate,
         RestoreCommit, RestoreFiles, tables
    <3> QED
      BY <2>4, <3>2, RequestsKeepThePhase
  <2>5. CASE UNCHANGED vars
    BY <2>5 DEF vars
  <2> QED
    BY <2>1, <2>2, <2>3, <2>4, <2>5 DEF Next
<1>2. Spec => [][Keeps]_vars
  BY <1>1, TypeCorrect, PTL DEF Spec
<1> QED
  BY <1>2 DEF OnlyWritesChangeRows
=============================================================================
