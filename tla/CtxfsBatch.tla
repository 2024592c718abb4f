----------------------------- MODULE CtxfsBatch -----------------------------
(***************************************************************************)
(* How a submission is planned before ctxfs touches anything               *)
(* (src/ctxfs/store.py): its operations are ordered (CtxfsOrder), the      *)
(* ordered batch is simulated against the catalog; and its net effect.     *)
(*                                                                         *)
(* Everything here is a pure operator over the catalog's rows.  A row is   *)
(* None or a record with the fields path, hash and obj; a path, a source   *)
(* key, a content hash are opaque values, and a prefix grant is the set of *)
(* paths it covers.                                                        *)
(***************************************************************************)
EXTENDS Naturals, FiniteSets, CtxfsOrder

CONSTANTS
    Writers,        \* writer ids
    Keys,           \* source keys; an identity is a writer and a key
    Paths,          \* normalized ctxfs paths
    Hashes,         \* content hashes (they stand for the contents)
    Authorized,     \* writer -> the paths its registered prefixes cover
    Ancestors,      \* path -> the paths that are a proper prefix of it
    None            \* SQL NULL, a missing file, an absent key of a dict

Ids == Writers \X Keys

\* register_prefix refuses a prefix that overlaps another writer's, so the
\* grants of two writers share no path.
ASSUME GrantsAssumption ==
    /\ Authorized \in [Writers -> SUBSET Paths]
    /\ \A v, w \in Writers : v # w => Authorized[v] \cap Authorized[w] = {}
    /\ Ancestors \in [Paths -> SUBSET Paths]
    /\ None \notin Paths \cup Hashes

(***************************************************************************)
(* Operations.  "hash" is the content of a put and the expected content of *)
(* a move.                                                                 *)
(***************************************************************************)

PutOp(k, p, h)  == [kind |-> "put", key |-> k, path |-> p, hash |-> h]
MoveOp(k, p, h) == [kind |-> "move", key |-> k, path |-> p, hash |-> h]
DeleteOp(k)     == [kind |-> "delete", key |-> k, path |-> None, hash |-> None]
DecisionOp(k, p) == [kind |-> "decision", key |-> k, path |-> p, hash |-> None]

Operation ==
    [kind : {"put", "move"}, key : Keys, path : Paths, hash : Hashes]
    \cup [kind : {"delete"}, key : Keys, path : {None}, hash : {None}]
    \cup [kind : {"decision"}, key : Keys, path : Paths \cup {None}, hash : {None}]

(***************************************************************************)
(* _preflight_submission: the ordered batch against the two maps of        *)
(* _source_path_maps.  The simulation pops the old path of a move even     *)
(* when an earlier move of the batch already re-occupied it (a swap), so   *)
(* what it accepts can still collide on the catalog's primary key.         *)
(***************************************************************************)
PathsBySource(rows) == [id \in Ids |-> IF rows[id] = None THEN None ELSE rows[id].path]

SourcesByPath(rows) ==
    [p \in Paths |-> LET at == {id \in Ids : rows[id] # None /\ rows[id].path = p}
                     IN  IF at = {} THEN None ELSE CHOOSE id \in at : TRUE]

\* Re-key an identity in the two maps (a move, or a put over its old path).
Resettle(sim, id, p) ==
    LET old == sim.paths[id]
        vacated == IF old \in Paths /\ old # p
                   THEN [sim.sources EXCEPT ![old] = None] ELSE sim.sources
    IN  [sim EXCEPT !.paths[id] = p, !.sources = [vacated EXCEPT ![p] = id]]

\* Faulty variant: the path may be another source's.
PreflightPutOccupied(sim, w, op) ==
    IF op.path \in Authorized[w] THEN Resettle(sim, <<w, op.key>>, op.path)
    ELSE [sim EXCEPT !.ok = FALSE]

PreflightPut(sim, w, op) ==
    LET id == <<w, op.key>>
    IN  IF op.path \in Authorized[w] /\ sim.sources[op.path] \in {None, id}
        THEN Resettle(sim, id, op.path)
        ELSE [sim EXCEPT !.ok = FALSE]

PreflightMove(sim, w, op, moving) ==
    LET id == <<w, op.key>>
        old == sim.paths[id]
    IN  IF /\ op.path \in Authorized[w]
           /\ old # None
           /\ old \in Authorized[w]
           /\ sim.sources[op.path] \in {None, id} \cup moving
        THEN IF old = op.path THEN sim ELSE Resettle(sim, id, op.path)
        ELSE [sim EXCEPT !.ok = FALSE]

\* Faulty variant: a source that is not there is an error.
PreflightDeleteKnown(sim, w, op) ==
    LET id == <<w, op.key>>
        old == sim.paths[id]
    IN  IF old = None \/ old \notin Authorized[w] THEN [sim EXCEPT !.ok = FALSE]
        ELSE [sim EXCEPT !.paths[id] = None, !.sources[old] = None]

PreflightDelete(sim, w, op) ==
    LET id == <<w, op.key>>
        old == sim.paths[id]
    IN  IF old = None THEN sim
        ELSE IF old \notin Authorized[w] THEN [sim EXCEPT !.ok = FALSE]
        ELSE [sim EXCEPT !.paths[id] = None, !.sources[old] = None]

PreflightDecision(sim, w, op) ==
    IF op.path = None \/ op.path \in Authorized[w] THEN sim ELSE [sim EXCEPT !.ok = FALSE]

PreflightStep(sim, w, op, moving) ==
    IF ~sim.ok THEN sim
    ELSE CASE op.kind = "put"      -> PreflightPut(sim, w, op)
           [] op.kind = "move"     -> PreflightMove(sim, w, op, moving)
           [] op.kind = "delete"   -> PreflightDelete(sim, w, op)
           [] op.kind = "decision" -> PreflightDecision(sim, w, op)

Preflight(ordered, rows, w) ==
    LET moving == {<<w, op.key>> : op \in ToSet(OfKind(ordered, "move"))}
    IN  Iterate(LAMBDA sim, op : PreflightStep(sim, w, op, moving),
                 [ok |-> TRUE, paths |-> PathsBySource(rows), sources |-> SourcesByPath(rows)],
                 ordered).ok

(***************************************************************************)
(* The net effect of submit on a table of documents (path, hash, and       *)
(* whether the tree has the file), for the modules in which a submission   *)
(* is one step.  The moves of a batch happen at once; a move onto the path *)
(* the document already has parks its file and never brings it back.       *)
(***************************************************************************)
NotTaken(rows, id, p) == \A other \in DOMAIN rows \ {id} : rows[other] # None => rows[other].path # p

Settle(rows, w, deletes, mvs) ==
    [id \in DOMAIN rows |->
        LET mine == {m \in mvs : id = <<w, m.key>>}
        IN  IF rows[id] = None \/ id \in {<<w, d.key>> : d \in deletes} THEN None
            ELSE IF mine = {} THEN rows[id]
            ELSE LET m == CHOOSE x \in mine : TRUE
                 IN  [rows[id] EXCEPT !.path = m.path, !.file = @ /\ rows[id].path # m.path]]

\* _put: content that is already stored is renamed, which needs the file.
PutDoc(acc, w, op) ==
    LET id   == <<w, op.key>>
        old  == acc.rows[id]
        same == old # None /\ old.hash = op.hash
    IN  [rows |-> [acc.rows EXCEPT ![id] = [path |-> op.path, hash |-> op.hash,
                                            file |-> IF same THEN old.file ELSE TRUE]],
         ok   |-> /\ acc.ok
                  /\ same /\ old.path # op.path => old.file
                  /\ NotTaken(acc.rows, id, op.path)]

PutDocs(rows, w, puts) ==
    Iterate(LAMBDA acc, op : PutDoc(acc, w, op), [rows |-> rows, ok |-> TRUE], puts)

Submitted(rows, w, ops) ==
    LET mvs     == {op \in ToSet(ops) : op.kind = "move"}
        settled == Settle(rows, w, {op \in ToSet(ops) : op.kind = "delete"}, mvs)
        put     == PutDocs(settled, w, OfKind(ops, "put"))
        ordered == OrderedOperations(ops, PathsBySource(rows), w)
    IN  [rows |-> put.rows,
         ok   |-> /\ ~DuplicateMoveSources(ops)
                  /\ Preflight(ordered, rows, w)
                  /\ \A m \in mvs : /\ settled[<<w, m.key>>] # None
                                    /\ settled[<<w, m.key>>].hash = m.hash
                  /\ \A id \in DOMAIN settled :
                         settled[id] # None => NotTaken(settled, id, settled[id].path)
                  /\ put.ok]

=============================================================================
