----------------------------- MODULE MasterData -----------------------------
(***************************************************************************)
(* Master data (manufacturers, gauges, epochs, ...): the two tables        *)
(* master_data_entries and master_data_relations, the in-memory cache of   *)
(* MasterDataService in front of the first one, and the requests that read *)
(* and write both (backend/internal/application/master_data.go).           *)
(*                                                                         *)
(* The database has one connection, so a statement outside a transaction,  *)
(* and a whole transaction, is one atomic step.  Everything between two    *)
(* statements of a handler can be interleaved with other requests.         *)
(*                                                                         *)
(* The process can stop at any moment.  Before the first request is served *)
(* again, the migrations a newer program brings are applied, the seed file *)
(* is merged into the tables and the cache is warmed.                      *)
(***************************************************************************)
EXTENDS Naturals, Sequences

CONSTANTS Keys,         \* "type:key" of an entry; Create also uses it as the row's id
          GivenIds,     \* other ids of entries, which migrations give
          RelationIds,  \* ids of relations
          Labels,       \* what an edit can change: label, source and metadata of an entry
          Unreadable,   \* those of the labels whose metadata is no JSON
          Migrations,   \* what the migrations do to the entries, in their order
          Requests,     \* HTTP requests being served
          Seed,         \* the document in the seed file
          Imports,      \* master data documents that clients import
          Backups,      \* the master data part of backups that clients restore
          MaxWrites     \* bound on the committed writes (model checking only)

Ids == Keys \cup GivenIds
Rows == [id : Ids, key : Keys, label : Labels, active : BOOLEAN]
RelationRows == [id : RelationIds, link : Keys \X Keys]

\* PRIMARY KEY (id) and UNIQUE (type, key) of master_data_entries.
Distinct(rows) ==
    \A x, y \in rows : (x.id = y.id \/ x.key = y.key) => x = y

\* PRIMARY KEY (id) and UNIQUE of parent and child of master_data_relations.
DistinctRelations(rows) ==
    \A x, y \in rows : (x.id = y.id \/ x.link = y.link) => x = y

Documents == [entries : SUBSET Rows, relations : SUBSET RelationRows]

\* No entry has the id of another entry, no relation that of another relation of the
\* seed file, and the metadata can be read: so are the tables the program itself fills.
Own(rows, rels) ==
    /\ \A x \in rows : (x.id \in Keys => x.id = x.key) /\ x.label \notin Unreadable
    /\ \A x \in rels, s \in Seed.relations : x.id = s.id => x.link = s.link

\* backend/seeds/master_data.json: every id of an entry is "type:key".
ASSUME SeedAssumption ==
    /\ Seed \in Documents
    /\ Distinct(Seed.entries) /\ DistinctRelations(Seed.relations)
    /\ \A s \in Seed.entries : s.id = s.key /\ s.label \notin Unreadable
ASSUME DocumentsAssumption == Imports \subseteq Documents /\ Backups \subseteq Documents
\* The metadata of an import is part of the JSON that was parsed.
ASSUME ImportsAssumption ==
    \A doc \in Imports : \A x \in doc.entries : x.label \notin Unreadable
\* A migration inserts entries and rewrites entries by their keys (0013, 0020, 0025, 0026,
\* 0031, 0032).
ASSUME MigrationsAssumption ==
    /\ Migrations \in Seq([inserted : SUBSET Rows, rewrite : [Keys -> [Labels -> Labels]]])
    /\ \A n \in 1 .. Len(Migrations) :
         /\ Distinct(Migrations[n].inserted) /\ Own(Migrations[n].inserted, {})
         /\ \A key \in Keys, label \in Labels \ Unreadable :
              Migrations[n].rewrite[key][label] \notin Unreadable
ASSUME BoundAssumption == MaxWrites \in Nat

VARIABLES entries,      \* master_data_entries
          relations,    \* master_data_relations
          cache,        \* MasterDataService.cache: slot -> cached list
          req,          \* what each request is doing
          version,      \* schema_migrations: how many migrations have been applied
          phase,        \* the process is serving, has stopped, or could not start
          late,         \* history: cached lists that missed a committed write
          foreign,      \* history: what replaced the tables last was not the program's own
          writes        \* bound: committed writes so far
vars == <<entries, relations, cache, req, version, phase, late, foreign, writes>>
tables == <<entries, relations>>
process == <<version, phase, foreign>>

\* The two cached lists, by the activeOnly flag of ListAll: FALSE is "all", TRUE is
\* "active".
Slots == {"all", "active"}

View(rows, slot) == {x \in rows : slot = "active" => x.active}

\* The calls of ListAll a request still has to make, by the slot of the cache.
Todos == {<<>>, <<"all">>, <<"active">>, <<"all", "active">>}
WarmCache == <<"all", "active">>

NoLists == [slot \in {} |-> {}]        \* the empty cache

Idle == [op |-> "none", pc |-> "idle", todo |-> <<>>, view |-> {}]
At(op, pc, todo) == [op |-> op, pc |-> pc, todo |-> todo, view |-> {}]

Begin(q) == IF q.todo = <<>> THEN Idle ELSE At(q.op, "lookup", q.todo)

\* After a list has been obtained: the next one of WarmCache, or the answer.  An
\* export keeps the list and goes on to read the relations.
Proceed(q, list) ==
    CASE Tail(q.todo) # <<>> -> At(q.op, "lookup", Tail(q.todo))
      [] Tail(q.todo) = <<>> /\ q.op = "export" ->
            [op |-> "export", pc |-> "relations", todo |-> <<>>, view |-> list]
      [] OTHER -> Idle

\* The states of a request.
Queued == [op : {"list", "export", "write", "restore"},
           pc : {"lookup", "query", "store", "files"},
           todo : Todos \ {<<>>}, view : SUBSET Rows]
Exporting == [op : {"export"}, pc : {"relations"}, todo : {<<>>}, view : SUBSET Rows]
Committed == [op : {"write"}, pc : {"invalidate"}, todo : Todos, view : {{}}]
RequestStates == {Idle} \cup Queued \cup Exporting \cup Committed

TypeOK ==
    /\ entries \subseteq Rows
    /\ relations \subseteq RelationRows
    /\ DOMAIN cache \subseteq Slots
    /\ \A a \in DOMAIN cache : cache[a] \subseteq Rows
    /\ req \in [Requests -> RequestStates]
    /\ version \in 0..Len(Migrations)
    /\ phase \in {"up", "down", "failed"}
    /\ foreign \in BOOLEAN
    /\ late \subseteq Slots
    /\ writes \in 0..MaxWrites

----------------------------------------------------------------------------
(* Start of the process: Migrate, SeedMasterData, then WarmCache.          *)

Init ==
    /\ entries = {} /\ relations = {}
    /\ version = 0 /\ phase = "down"
    /\ cache = NoLists
    /\ req = [r \in Requests |-> Idle]
    /\ late = {} /\ foreign = FALSE
    /\ writes = 0

\* The process stops between any two steps of its requests.
Stop ==
    /\ phase = "up" /\ phase' = "down"
    /\ req' = [r \in Requests |-> Idle]
    /\ cache' = NoLists
    /\ late' = {}
    /\ UNCHANGED <<tables, version, foreign, writes>>

Rewritten(x, m) == [x EXCEPT !.label = m.rewrite[x.key][x.label]]

\* INSERT OR IGNORE of rows, UPDATE of rows by their keys.
Migrated(rows, m) ==
    {Rewritten(x, m) : x \in rows}
      \cup {y \in m.inserted : \A x \in rows : x.id # y.id /\ x.key # y.key}

\* The program that is started is a newer one: it applies its migrations one by one,
\* each in a transaction with the row that records it, and may stop after each.
Migrate ==
    /\ phase # "up" /\ phase' = "down"
    /\ version < Len(Migrations)
    /\ version' = version + 1
    /\ entries' = Migrated(entries, Migrations[version'])
    /\ UNCHANGED <<relations, cache, req, late, foreign, writes>>

\* fault: ON CONFLICT DO UPDATE
SeedUpserts(rows) ==
    Seed.entries \cup {x \in rows : \A s \in Seed.entries : x.key # s.key}

\* INSERT ... ON CONFLICT(type, key) DO NOTHING, row by row in one transaction:
\* a seed row whose key is taken is skipped ...
Seeded(rows) ==
    rows \cup {s \in Seed.entries : \A x \in rows : x.key # s.key}

SeededRelations(rows) ==
    rows \cup {s \in Seed.relations : \A x \in rows : x.link # s.link}

\* fault: no ON CONFLICT clause
SeedFailsOnTakenKeys(rows, rels) ==
    \E s \in Seed.entries, x \in rows : x # s /\ (x.id = s.id \/ x.key = s.key)

\* ... but a free key whose id is taken by another row fails the transaction,
\* and with it the start of the process.
SeedFails(rows, rels) ==
    \/ \E s \in Seed.entries : /\ \A x \in rows : x.key # s.key
                               /\ \E x \in rows : x.id = s.id
    \/ \E s \in Seed.relations : /\ \A x \in rels : x.link # s.link
                                 /\ \E x \in rels : x.id = s.id

Readable(rows) == \A x \in rows : x.label \notin Unreadable

WarmedBy(rows) == [slot \in Slots |-> View(rows, slot)]

Start ==
    /\ phase # "up" /\ ~SeedFails(entries, relations)
    /\ entries' = Seeded(entries)
    /\ relations' = SeededRelations(relations)
    /\ phase' = IF Readable(entries') THEN "up" ELSE "failed"
    /\ cache' = IF Readable(entries') THEN WarmedBy(entries') ELSE NoLists
    /\ UNCHANGED <<req, version, late, foreign, writes>>

StartFails ==
    /\ phase # "up" /\ SeedFails(entries, relations)
    /\ phase' = "failed"
    /\ UNCHANGED <<tables, cache, req, version, late, foreign, writes>>

----------------------------------------------------------------------------
(* Reading: ListAll, alone or twice in a row as WarmCache.                 *)

\* Export lists all entries, through the cache, and then reads the relations.
Export(r) ==
    /\ phase = "up" /\ req[r] = Idle
    /\ req' = [req EXCEPT ![r] = At("export", "lookup", <<"all">>)]
    /\ UNCHANGED <<tables, cache, process, late, writes>>

ExportRelations(r) ==
    /\ phase = "up" /\ req[r].pc = "relations"
    /\ req' = [req EXCEPT ![r] = Idle]
    /\ UNCHANGED <<tables, cache, process, late, writes>>

ListAll(r, slot) ==
    /\ phase = "up" /\ req[r] = Idle
    /\ req' = [req EXCEPT ![r] = At("list", "lookup", <<slot>>)]
    /\ UNCHANGED <<tables, cache, process, late, writes>>

LookupHit(r) ==
    /\ phase = "up" /\ req[r].pc = "lookup"
    /\ Head(req[r].todo) \in DOMAIN cache
    /\ req' = [req EXCEPT ![r] = Proceed(req[r], cache[Head(req[r].todo)])]
    /\ UNCHANGED <<tables, cache, process, late, writes>>

LookupMiss(r) ==
    /\ phase = "up" /\ req[r].pc = "lookup"
    /\ Head(req[r].todo) \notin DOMAIN cache
    /\ req' = [req EXCEPT ![r].pc = "query"]
    /\ UNCHANGED <<tables, cache, process, late, writes>>

Query(r) ==
    /\ phase = "up" /\ req[r].pc = "query"
    /\ Readable(View(entries, Head(req[r].todo)))
    /\ req' = [req EXCEPT ![r].pc = "store",
                          ![r].view = View(entries, Head(req[r].todo))]
    /\ UNCHANGED <<tables, cache, process, late, writes>>

\* The client is gone and the query fails with the request's context, or the metadata
\* of a row cannot be read.
QueryFails(r) ==
    /\ phase = "up" /\ req[r].pc = "query"
    /\ req' = [req EXCEPT ![r] = Idle]
    /\ UNCHANGED <<tables, cache, process, late, writes>>

\* The list read by Query goes into the cache, whatever happened since.
Store(r) ==
    /\ phase = "up" /\ req[r].pc = "store"
    /\ LET slot == Head(req[r].todo)
           view == req[r].view
       IN  /\ cache' = [a \in DOMAIN cache \cup {slot} |->
                           IF a = slot THEN view ELSE cache[a]]
           /\ late' = IF view = View(entries, slot) THEN late \ {slot}
                                                    ELSE late \cup {slot}
    /\ req' = [req EXCEPT ![r] = Proceed(req[r], req[r].view)]
    /\ UNCHANGED <<tables, process, writes>>

----------------------------------------------------------------------------
(* Writing: one statement or transaction, then invalidateCache.            *)

CanWrite(r) == phase = "up" /\ req[r] = Idle /\ writes < MaxWrites

\* After the commit: the cache is still to be dropped, then "todo" to be listed.
Commit(r, rows, todo) ==
    /\ CanWrite(r)
    /\ entries' = rows
    /\ req' = [req EXCEPT ![r] = At("write", "invalidate", todo)]
    /\ writes' = writes + 1
    /\ UNCHANGED <<cache, version, phase, late>>

Create(r, x) ==
    /\ x.id = x.key /\ x.label \notin Unreadable
    /\ Distinct(entries \cup {x}) /\ x \notin entries
    /\ Commit(r, entries \cup {x}, <<>>)
    /\ UNCHANGED <<relations, foreign>>

Update(r, old, label, active) ==
    /\ old \in entries
    /\ Commit(r, (entries \ {old}) \cup
                 {[old EXCEPT !.label = label, !.active = active]}, <<>>)
    /\ UNCHANGED <<relations, foreign>>

\* fault: the cache is not dropped
DeleteKeepsCache(r, x) ==
    /\ CanWrite(r) /\ x \in entries
    /\ entries' = entries \ {x}
    /\ writes' = writes + 1
    /\ UNCHANGED <<relations, cache, req, process, late>>

Delete(r, x) ==
    /\ x \in entries
    /\ Commit(r, entries \ {x}, <<>>)
    /\ UNCHANGED <<relations, foreign>>

Storable(doc) == Distinct(doc.entries) /\ DistinctRelations(doc.relations)

\* Import replaces both tables in one transaction; a document with two rows of
\* one id or key is rolled back.  The handler then warms the cache.
Import(r, doc) ==
    /\ Storable(doc)
    /\ Commit(r, doc.entries, WarmCache)
    /\ relations' = doc.relations
    /\ foreign' = ~Own(doc.entries, doc.relations)

Invalidate(r) ==
    /\ phase = "up" /\ req[r].pc = "invalidate"
    /\ cache' = NoLists
    /\ late' = {}
    /\ req' = [req EXCEPT ![r] = Begin(req[r])]
    /\ UNCHANGED <<tables, process, writes>>

----------------------------------------------------------------------------
(* Restoring a backup replaces the tables behind the service's back.       *)

RestoreCommit(r, doc) ==
    /\ CanWrite(r)
    /\ Storable(doc)
    /\ entries' = doc.entries
    /\ relations' = doc.relations
    /\ foreign' = ~Own(doc.entries, doc.relations)
    /\ req' = [req EXCEPT ![r] = At("restore", "files", WarmCache)]
    /\ writes' = writes + 1
    /\ late' = late \cup DOMAIN cache
    /\ UNCHANGED <<cache, version, phase>>

\* The uploads are written; only when that succeeds is the cache warmed.
RestoreFiles(r) ==
    /\ phase = "up" /\ req[r].pc = "files"
    /\ \/ req' = [req EXCEPT ![r] = Begin(req[r])]
       \/ req' = [req EXCEPT ![r] = Idle]
    /\ UNCHANGED <<tables, cache, process, late, writes>>

----------------------------------------------------------------------------
Step(r) ==
    \/ \E slot \in Slots : ListAll(r, slot)
    \/ Export(r)
    \/ ExportRelations(r)
    \/ LookupHit(r)
    \/ LookupMiss(r)
    \/ Query(r)
    \/ QueryFails(r)
    \/ Store(r)
    \/ \E x \in Rows : Create(r, x)
    \/ \E x \in entries, label \in Labels \ Unreadable, active \in BOOLEAN :
          Update(r, x, label, active)
    \/ \E x \in entries : Delete(r, x)
    \/ \E doc \in Imports : Import(r, doc)
    \/ Invalidate(r)
    \/ \E doc \in Backups : RestoreCommit(r, doc)
    \/ RestoreFiles(r)

Next == Stop \/ Migrate \/ Start \/ StartFails \/ \E r \in Requests : Step(r)

Spec == Init /\ [][Next]_vars

----------------------------------------------------------------------------
(* Properties.                                                             *)

Coherent(slot) ==
    slot \in DOMAIN cache => cache[slot] = View(entries, slot)

\* A cached list differs from the table only while a committed write has still
\* to drop the cache (the window between commit and invalidateCache), or because
\* the list was read before a write and stored after it, or was cached when a
\* backup replaced the tables: every other write path drops the cache.
StaleCacheHasCause ==
    \A slot \in Slots :
        \/ Coherent(slot)
        \/ slot \in late
        \/ \E r \in Requests : req[r].pc = "invalidate"

\* When a restore has run its WarmCache to the end, and no other request is being
\* served, the cached lists are those of the restored tables: the step the
\* handler calls "master data cache refresh after backup restore".
RestoreRefreshesCache ==
    [][\A r \in Requests :
          ( /\ req[r].op = "restore" /\ req[r].pc \in {"lookup", "store"} /\ req'[r] = Idle
            /\ \A s \in Requests \ {r} : req[s] = Idle )
          => \A slot \in Slots : Coherent(slot)']_vars

\* A start adds missing rows of the seed file and does nothing else to the entries, so that
\* edits survive restarts (master_data_seed.go:74).  A migration, which is applied once,
\* does no more than rewrite rows by their keys and insert missing ones: what was edited
\* after it survives every later start, and so does "active" (sqlite.go:72, 0026, 0031, 0032).
OnlyWritesChangeRows ==
    [][writes' = writes =>
         IF version' = version
           THEN entries \subseteq entries' /\ entries' \ entries \subseteq Seed.entries
           ELSE LET m == Migrations[version']
                IN  /\ \A x \in entries : Rewritten(x, m) \in entries'
                    /\ \A y \in entries' : \/ y \in m.inserted
                                          \/ \E x \in entries : y = Rewritten(x, m)]_vars

\* The process can only fail to start over its master data when a document was imported or
\* restored that the program has not made: one with a row under the id of another seed
\* row, or with metadata that cannot be read.  No other sequence of writes, updates of the
\* program and starts leads there (master_data_seed.go:70, 82, main.go:72, 78).
StartFailsOnlyOnForeignDocuments == phase = "failed" => foreign
=============================================================================
