---------------------------- MODULE MCMasterData ----------------------------
(* Bounded instances of MasterData: two entries, one of them seeded.        *)
EXTENDS MasterData, TLC

CONSTANTS k1, k2, g, l1, l2, bad, x1, x2

MCSymmetry == Permutations(Requests)

Row(id, key, label, active) ==
    [id |-> id, key |-> key, label |-> label, active |-> active]
Relation(id, parent, child) == [id |-> id, link |-> <<parent, child>>]
Doc(rows, rels) == [entries |-> rows, relations |-> rels]

MCSeed == Doc({Row(k1, k1, l1, TRUE)}, {Relation(x1, k1, k1)})

Kept == [label \in Labels |-> label]
\* A row under an id of its own (0031); a label that is set (0026), and one that is
\* rewritten if it has the old form (0032).
MCMigrations ==
    << [inserted |-> {Row(g, k2, l1, TRUE)}, rewrite |-> [key \in Keys |-> Kept]],
       [inserted |-> {}, rewrite |-> [key \in Keys |->
           IF key = k1 THEN [label \in Labels |-> l2] ELSE [Kept EXCEPT ![l1] = l2]]] >>

\* What an export of this program contains ...
OwnExport == Doc({Row(k1, k1, l2, FALSE), Row(k2, k2, l1, TRUE)}, {Relation(x2, k1, k2)})
\* ... and documents only another source can contain: a row or a relation under a foreign
\* id, two rows of one key, which the database rejects, and metadata that is no JSON.
ForeignIds == Doc({Row(k1, k2, l1, TRUE)}, {})
ForeignRelation == Doc({}, {Relation(x1, k1, k2)})
Clashing == Doc({Row(k1, k1, l1, TRUE), Row(k2, k1, l2, TRUE)}, {})
Broken == Doc({Row(k2, k2, bad, FALSE)}, {})

MCImports == {OwnExport, ForeignIds, ForeignRelation, Clashing}
MCBackups == {Doc({Row(k2, k2, l2, FALSE)}, {}), Broken}
=============================================================================
