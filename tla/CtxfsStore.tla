----------------------------- MODULE CtxfsStore -----------------------------
(***************************************************************************)
(* CtxfsStore.submit (src/ctxfs/store.py): one submission at a time, step  *)
(* by step, over the SQLite catalog and three directories of plain files.  *)
(*                                                                         *)
(*   catalog   the committed tables: rows (entries) and decided (decisions)*)
(*   work      the same tables as the open transaction sees them           *)
(*   fs        the tree (users/) and the journal directory (undo/): which  *)
(*             inode is linked at each path or journal name                *)
(*   objects   the object ids that have a file under objects/              *)
(*   content   the bytes of each inode, as a hash                          *)
(*                                                                         *)
(* A stored document is one inode with two hard links, objects/<id> and    *)
(* the tree path.  Every filesystem helper changes fs and pushes a closure *)
(* on undo_stack and one on cleanup_stack; a failed submission runs the    *)
(* first in reverse, and every submission ends by running the second.      *)
(* One action is one helper call or one SQL statement.  A helper that      *)
(* raises undoes its own effects before it does, so a fault is a step that *)
(* changes nothing and goes to the rollback; the exception is the write of *)
(* an object, whose closure is pushed after it.  A crash inside a helper   *)
(* falls before or after its os.replace.  A journal link that a crash or a *)
(* failed unlink leaves, under a name nothing refers to, is left out.      *)
(***************************************************************************)
EXTENDS CtxfsBatch

CONSTANTS
    Objs,           \* object ids (uuid4); an inode is named by the object id
    UndoNames,      \* journal file names (uuid4), also the temporary catalog
                    \* paths _ctxfs_cycle/<uuid>
    Batches,        \* the operation lists a client may submit
    InitRows,       \* catalogs the store may be opened with
    SelfMoves,      \* whether a move may name the path its source already has
    MaxSubmissions, \* bound on the submissions of a behaviour
    MaxFaults,      \* bound on exceptions raised by a helper or a statement
    MaxUndoFaults,  \* bound on exceptions raised while undoing or cleaning up
    MaxCrashes      \* bound on process deaths

Locations == Paths \cup UndoNames

Row == [path : Locations, hash : Hashes, obj : Objs]

ASSUME StoreAssumption ==
    /\ None \notin Objs \cup UndoNames \cup Ids \cup Row
    /\ None \notin [path : Paths, hash : Hashes]
    /\ Paths \cap UndoNames = {}
    /\ Writers # {} /\ Hashes # {}
    /\ SelfMoves \in BOOLEAN
    /\ MaxSubmissions \in Nat /\ MaxFaults \in Nat
    /\ MaxUndoFaults \in Nat /\ MaxCrashes \in Nat

\* A client submits lists of operations.
ASSUME BatchesAssumption == Batches \subseteq Seq(Operation)

\* A catalog the store is opened with is one it wrote: paths under the writer's
\* prefixes, no path and no object twice.
ASSUME InitRowsAssumption ==
    \A rows \in InitRows :
        /\ rows \in [Ids -> Row \cup {None}]
        /\ \A i \in Ids : rows[i] # None => rows[i].path \in Authorized[i[1]]
        /\ \A i, j \in Ids : i # j /\ rows[i] # None /\ rows[j] # None =>
               rows[i].path # rows[j].path /\ rows[i].obj # rows[j].obj

\* Paths above one another are modelled where no file can be lost: once one is, its
\* path may be a directory of other documents, which source.exists() then takes for
\* the file, and os.replace moves with everything below.
ASSUME DirectoryAssumption ==
    (\E p \in Paths : Ancestors[p] # {}) => MaxUndoFaults = 0 /\ MaxCrashes = 0

Tables == [rows : [Ids -> Row \cup {None}], decided : SUBSET Ids]

UndoRecords ==
    [op : {"object"}, source : {None}, target : {None}, backup : {None}, obj : Objs]
    \cup [op : {"replace", "remove"}, source : {None}, target : Locations,
          backup : UndoNames \cup {None}, obj : {None}]
    \cup [op : {"rename"}, source : Locations, target : Locations,
          backup : UndoNames \cup {None}, obj : {None}]

CleanupRecords == [backup : UndoNames \cup {None}, obj : Objs \cup {None}]

VARIABLES
    catalog, work, fs, objects, content,
    pc,         \* where the submission stands
    status,     \* state column of its submissions row
    writer,     \* its writer_id
    ops,        \* its operations as submitted
    todo,       \* the ordered operations not yet applied
    moves,      \* the moves of the running _move_batch not yet applied
    breaks,     \* paths _break_move_cycles has still to park
    from,       \* entries_by_source: key -> path when the batch was validated
    temp,       \* temp_locations: path -> journal name it was parked at
    fresh,      \* object id the running _put stores, None when it writes none
    undo_stack, cleanup_stack,
    undo_failed,    \* some undo closure raised
    before,     \* history: fs when the submission was accepted, and the objects
                \* no undo closure answers for: those it found, and one whose
                \* write was cut short
    trail,      \* history: fs as it was before each record of undo_stack
    interrupted, \* history: identities of batches cut short by a crash or
                \* left half undone
    submitted, faults, undo_faults, crashes     \* counters for the bounds

data    == <<catalog, work, fs, objects, content>>
control == <<pc, status, writer, ops, todo, moves, breaks, from, temp, fresh>>
journal == <<undo_stack, cleanup_stack, undo_failed, before, trail, interrupted>>
bounds  == <<submitted, faults, undo_faults, crashes>>
vars    == <<data, control, journal, bounds>>

-----------------------------------------------------------------------------
(***************************************************************************)
(* The filesystem                                                          *)
(***************************************************************************)

\* os.replace: renaming between two links of one inode does nothing (POSIX).
Rename(f, s, t) ==
    IF f[s] = None \/ f[s] = f[t] THEN f ELSE [f EXCEPT ![t] = f[s], ![s] = None]

\* mkdir of the parents raises when one of them is a file; linking a backup of
\* the target raises when the target is a directory.
Blocked(f, t) ==
    t \in Paths /\ \E q \in Paths : f[q] # None /\ (q \in Ancestors[t] \/ t \in Ancestors[q])

\* Faulty variant: backups in the tree itself.
JournalInTree(f) == CHOOSE u \in Locations : f[u] = None

JournalName(f) == CHOOSE u \in UndoNames : f[u] = None

\* _backup_tree_entry: a second link to the target, when there is a target.
BackupName(f, t) == IF f[t] = None THEN None ELSE JournalName(f)
Backup(f, t) == IF f[t] = None THEN f ELSE [f EXCEPT ![JournalName(f)] = f[t]]

\* Push the undo closure of rec and the cleanup closures: the backup, and obj,
\* an object file the batch supersedes.
Journal(rec, obj) ==
    /\ \E u \in UndoNames : fs[u] = None
    /\ undo_stack' = Append(undo_stack, rec)
    /\ cleanup_stack' = Append(cleanup_stack, [backup |-> rec.backup, obj |-> obj])
    /\ trail' = Append(trail, fs)
    /\ UNCHANGED <<undo_failed, before, interrupted>>

\* An object for the cleanup to remove, with no file to put back.
Supersede(obj) ==
    /\ cleanup_stack' = IF obj = None THEN cleanup_stack
                        ELSE Append(cleanup_stack, [backup |-> None, obj |-> obj])
    /\ UNCHANGED <<undo_stack, undo_failed, before, trail, interrupted>>

\* _replace_tree_entry: link the object at the path, over what is there.
ReplaceTreeEntry(p, o) ==
    /\ ~Blocked(fs, p)
    /\ fs' = [Backup(fs, p) EXCEPT ![p] = o]
    /\ Journal([op |-> "replace", source |-> None, target |-> p,
                backup |-> BackupName(fs, p), obj |-> None], None)

\* _rename_tree_file
RenameTreeFile(s, t) ==
    /\ fs[s] # None
    /\ ~Blocked(fs, t)
    /\ fs' = Rename(Backup(fs, t), s, t)
    /\ Journal([op |-> "rename", source |-> s, target |-> t,
                backup |-> BackupName(fs, t), obj |-> None], None)

\* _remove_tree_entry: a missing file is no error and leaves no record.
RemoveTreeEntry(p, superseded) ==
    \/ /\ fs[p] # None
       /\ fs' = [Backup(fs, p) EXCEPT ![p] = None]
       /\ Journal([op |-> "remove", source |-> None, target |-> p,
                   backup |-> BackupName(fs, p), obj |-> None], superseded)
    \/ /\ fs[p] = None
       /\ Supersede(superseded)
       /\ UNCHANGED fs

\* Faulty variant: a replaced file is unlinked, what it replaced is not restored.
UndoWithoutBackup(rec, f) ==
    LET cleared == IF rec.op = "rename" THEN Rename(f, rec.target, rec.source)
                   ELSE IF rec.op = "replace" THEN [f EXCEPT ![rec.target] = None] ELSE f
    IN  IF rec.backup = None \/ rec.op = "replace" THEN cleared
        ELSE Rename(cleared, rec.backup, rec.target)

\* What an undo closure does to the files.
Undo(rec, f) ==
    LET cleared == IF rec.op = "rename" THEN Rename(f, rec.target, rec.source)
                   ELSE IF rec.op = "replace" /\ rec.backup = None
                   THEN [f EXCEPT ![rec.target] = None] ELSE f
    IN  IF rec.backup = None THEN cleared ELSE Rename(cleared, rec.backup, rec.target)

-----------------------------------------------------------------------------
(***************************************************************************)
(* The catalog                                                             *)
(***************************************************************************)

\* PRIMARY KEY(user_id, path)
PathFree(rows, id, p) == \A other \in Ids \ {id} : rows[other] # None => rows[other].path # p

RowPath(rows, id) == IF rows[id] = None THEN None ELSE rows[id].path

\* Faulty variant: the transaction is left open for the next submission.
RaiseKeepsTransaction ==
    /\ pc' = "undo"
    /\ UNCHANGED <<data, journal, status, writer, ops, todo, moves, breaks, from, temp, fresh>>

\* An exception leaves the transaction, whose context manager rolls it back,
\* and enters the except clause of submit.
Raise ==
    /\ pc' = "undo"
    /\ work' = catalog
    /\ UNCHANGED <<catalog, fs, objects, content, journal>>
    /\ UNCHANGED <<status, writer, ops, todo, moves, breaks, from, temp, fresh>>

-----------------------------------------------------------------------------
(***************************************************************************)
(* submit: accept and plan                                                 *)
(***************************************************************************)

MovesInPlace(w, batch) ==
    \E i \in DOMAIN batch : /\ batch[i].kind = "move"
                            /\ batch[i].path = RowPath(catalog.rows, <<w, batch[i].key>>)

\* The QUEUED row, in a transaction of its own.
Accept(w, batch) ==
    /\ pc = "idle"
    /\ SelfMoves \/ ~MovesInPlace(w, batch)
    /\ submitted < MaxSubmissions
    /\ submitted' = submitted + 1
    /\ writer' = w /\ ops' = batch
    /\ status' = "queued"
    /\ pc' = "plan"
    /\ undo_stack' = <<>> /\ cleanup_stack' = <<>> /\ trail' = <<>>
    /\ undo_failed' = FALSE
    /\ before' = [fs |-> fs, objects |-> objects]
    /\ UNCHANGED interrupted
    /\ UNCHANGED <<data, todo, moves, breaks, from, temp, fresh, faults, undo_faults, crashes>>

Plan ==
    /\ pc = "plan"
    /\ ~DuplicateMoveSources(ops)
    /\ LET ordered == OrderedOperations(ops, PathsBySource(catalog.rows), writer)
       IN  /\ Preflight(ordered, catalog.rows, writer)
           /\ todo' = ordered
    /\ pc' = "next"
    /\ UNCHANGED <<data, journal, bounds, status, writer, ops, moves, breaks, from, temp, fresh>>

RejectPlan ==
    /\ pc = "plan"
    /\ \/ DuplicateMoveSources(ops)
       \/ ~Preflight(OrderedOperations(ops, PathsBySource(catalog.rows), writer),
                     catalog.rows, writer)
    /\ Raise
    /\ UNCHANGED bounds

(***************************************************************************)
(* _put                                                                    *)
(***************************************************************************)

Unchanged(k, h) == LET row == work.rows[<<writer, k>>] IN row # None /\ row.hash = h

\* The stored content is the submitted one: keep the object, follow the path.
PutUnchanged(k, p, h) ==
    /\ pc = "next" /\ todo # <<>> /\ Head(todo) = PutOp(k, p, h)
    /\ p \in Authorized[writer]
    /\ Unchanged(k, h)
    /\ \/ /\ work.rows[<<writer, k>>].path = p
          /\ UNCHANGED <<fs, journal>>
       \/ /\ work.rows[<<writer, k>>].path # p
          /\ RenameTreeFile(work.rows[<<writer, k>>].path, p)
    /\ fresh' = None
    /\ pc' = "put_row"
    /\ UNCHANGED <<catalog, work, objects, content, bounds>>
    /\ UNCHANGED <<status, writer, ops, todo, moves, breaks, from, temp>>

\* uuid4: an object id that nothing in the store has.
UnusedObject(o) ==
    /\ o \notin objects
    /\ \A l \in Locations : fs[l] # o
    /\ \A id \in Ids : work.rows[id] # None => work.rows[id].obj # o

PutObject(k, p, h) ==
    /\ pc = "next" /\ todo # <<>> /\ Head(todo) = PutOp(k, p, h)
    /\ p \in Authorized[writer]
    /\ ~Unchanged(k, h)
    /\ \E o \in Objs : UnusedObject(o)
    /\ LET o == CHOOSE x \in Objs : UnusedObject(x)
       IN  /\ fresh' = o
           /\ objects' = objects \cup {o}
           /\ content' = [content EXCEPT ![o] = h]
           /\ undo_stack' = Append(undo_stack,
                  [op |-> "object", source |-> None, target |-> None,
                   backup |-> None, obj |-> o])
    /\ trail' = Append(trail, fs)
    /\ pc' = "put_tree"
    /\ UNCHANGED <<catalog, work, fs, cleanup_stack, undo_failed, before, interrupted, bounds>>
    /\ UNCHANGED <<status, writer, ops, todo, moves, breaks, from, temp>>

\* write_bytes raises half way: no closure will remove the object.
PutObjectTorn(k, p, h) ==
    /\ pc = "next" /\ todo # <<>> /\ Head(todo) = PutOp(k, p, h)
    /\ p \in Authorized[writer]
    /\ ~Unchanged(k, h)
    /\ faults < MaxFaults
    /\ faults' = faults + 1
    /\ \E o \in Objs : UnusedObject(o)
    /\ LET o == CHOOSE x \in Objs : UnusedObject(x)
       IN  /\ objects' = objects \cup {o}
           /\ before' = [before EXCEPT !.objects = @ \cup {o}]
    /\ pc' = "undo"
    /\ work' = catalog
    /\ UNCHANGED <<catalog, fs, content, undo_stack, cleanup_stack, undo_failed, trail, interrupted>>
    /\ UNCHANGED <<status, writer, ops, todo, moves, breaks, from, temp, fresh>>
    /\ UNCHANGED <<submitted, undo_faults, crashes>>

PutTree(k, p, h) ==
    /\ pc = "put_tree" /\ Head(todo) = PutOp(k, p, h)
    /\ ReplaceTreeEntry(p, fresh)
    /\ pc' = "put_old"
    /\ UNCHANGED <<catalog, work, objects, content, bounds>>
    /\ UNCHANGED <<status, writer, ops, todo, moves, breaks, from, temp, fresh>>

\* Faulty variant: the file at the old path is left behind.
PutOldPathLeft(k, p, h) ==
    LET old == work.rows[<<writer, k>>]
    IN  /\ pc = "put_old" /\ Head(todo) = PutOp(k, p, h)
        /\ Supersede(IF old = None THEN None ELSE old.obj)
        /\ pc' = "put_row"
        /\ UNCHANGED <<catalog, work, fs, objects, content, bounds>>
        /\ UNCHANGED <<status, writer, ops, todo, moves, breaks, from, temp, fresh>>

\* The file at the path the source had before, and its object, which the
\* cleanup removes whether the submission is applied or not.
PutOldPath(k, p, h) ==
    LET old == work.rows[<<writer, k>>]
    IN  /\ pc = "put_old" /\ Head(todo) = PutOp(k, p, h)
        /\ \/ old = None /\ UNCHANGED <<fs, journal>>
           \/ old # None /\ old.path = p /\ Supersede(old.obj) /\ UNCHANGED fs
           \/ old # None /\ old.path # p /\ RemoveTreeEntry(old.path, old.obj)
        /\ pc' = "put_row"
        /\ UNCHANGED <<catalog, work, objects, content, bounds>>
        /\ UNCHANGED <<status, writer, ops, todo, moves, breaks, from, temp, fresh>>

\* The upsert on (user, writer, source_key).  Only the key's own conflict is
\* handled: a path another source holds is an IntegrityError.
PutRow(k, p, h) ==
    LET id == <<writer, k>>
    IN  /\ pc = "put_row" /\ Head(todo) = PutOp(k, p, h)
        /\ PathFree(work.rows, id, p)
        /\ work' = [work EXCEPT !.rows[id] =
                       [path |-> p, hash |-> h,
                        obj |-> IF fresh # None THEN fresh ELSE work.rows[id].obj]]
        /\ todo' = Tail(todo)
        /\ pc' = "next"
        /\ UNCHANGED <<catalog, fs, objects, content, journal, bounds>>
        /\ UNCHANGED <<status, writer, ops, moves, breaks, from, temp, fresh>>

\* The ways _put raises: authority, a rename whose source is missing, a path
\* that is a directory or lies under a file, the primary key.
PutRaises(k, p, h) ==
    LET id == <<writer, k>>
        old == work.rows[id]
    IN  /\ todo # <<>> /\ Head(todo) = PutOp(k, p, h)
        /\ \/ pc = "next" /\ p \notin Authorized[writer]
           \/ /\ pc = "next" /\ Unchanged(k, h) /\ old.path # p
              /\ fs[old.path] = None \/ Blocked(fs, p)
           \/ pc = "put_tree" /\ Blocked(fs, p)
           \/ pc = "put_row" /\ ~PathFree(work.rows, id, p)
        /\ Raise
        /\ UNCHANGED bounds

(***************************************************************************)
(* _delete.  The object file is not touched.  The path is authorized,      *)
(* since it was when the row was written.                                  *)
(***************************************************************************)
DeleteUnknown(k) ==
    /\ pc = "next" /\ todo # <<>> /\ Head(todo) = DeleteOp(k)
    /\ work.rows[<<writer, k>>] = None
    /\ todo' = Tail(todo)
    /\ UNCHANGED <<data, journal, bounds, pc, status, writer, ops, moves, breaks, from, temp, fresh>>

DeleteTree(k) ==
    /\ pc = "next" /\ todo # <<>> /\ Head(todo) = DeleteOp(k)
    /\ work.rows[<<writer, k>>] # None
    /\ work.rows[<<writer, k>>].path \in Authorized[writer]
    /\ RemoveTreeEntry(work.rows[<<writer, k>>].path, None)
    /\ pc' = "delete_row"
    /\ UNCHANGED <<catalog, work, objects, content, bounds>>
    /\ UNCHANGED <<status, writer, ops, todo, moves, breaks, from, temp, fresh>>

DeleteRow(k) ==
    /\ pc = "delete_row" /\ Head(todo) = DeleteOp(k)
    /\ work' = [work EXCEPT !.rows[<<writer, k>>] = None]
    /\ todo' = Tail(todo)
    /\ pc' = "next"
    /\ UNCHANGED <<catalog, fs, objects, content, journal, bounds>>
    /\ UNCHANGED <<status, writer, ops, moves, breaks, from, temp, fresh>>

(***************************************************************************)
(* _decision                                                               *)
(***************************************************************************)

\* Faulty variant: decisions keyed by source_key alone.
DecisionByKey(k, p) ==
    /\ pc = "next" /\ todo # <<>> /\ Head(todo) = DecisionOp(k, p)
    /\ p = None \/ p \in Authorized[writer]
    /\ work' = [work EXCEPT !.decided = @ \cup {k}]
    /\ todo' = Tail(todo)
    /\ UNCHANGED <<catalog, fs, objects, content, journal, bounds>>
    /\ UNCHANGED <<pc, status, writer, ops, moves, breaks, from, temp, fresh>>

Decision(k, p) ==
    /\ pc = "next" /\ todo # <<>> /\ Head(todo) = DecisionOp(k, p)
    /\ p = None \/ p \in Authorized[writer]
    /\ work' = [work EXCEPT !.decided = @ \cup {<<writer, k>>}]
    /\ todo' = Tail(todo)
    /\ UNCHANGED <<catalog, fs, objects, content, journal, bounds>>
    /\ UNCHANGED <<pc, status, writer, ops, moves, breaks, from, temp, fresh>>

(***************************************************************************)
(* _move_batch                                                             *)
(***************************************************************************)

MovesAhead == OfKind(todo, "move")      \* contiguous in the ordered batch

\* _validated_move_entry, for every move of the run before any is applied.
ValidMove(op) ==
    LET row == work.rows[<<writer, op.key>>]
    IN  /\ op.path \in Authorized[writer]
        /\ row # None
        /\ row.path \in Authorized[writer]
        /\ row.hash = op.hash

MoveBegin ==
    /\ pc = "next" /\ todo # <<>> /\ Head(todo).kind = "move"
    /\ \A op \in ToSet(MovesAhead) : ValidMove(op)
    /\ LET path(k) == work.rows[<<writer, k>>].path
           batch   == ToSet(MovesAhead)
           dest    == [p \in {path(op.key) : op \in batch} |->
                          (CHOOSE op \in batch : path(op.key) = p).path]
       IN  /\ breaks' = MoveCycleBreaks(dest,
                            [i \in DOMAIN MovesAhead |-> path(MovesAhead[i].key)])
           /\ from' = [k \in Keys |-> IF \E op \in batch : op.key = k THEN path(k) ELSE None]
    /\ moves' = MovesAhead
    /\ todo' = SubSeq(todo, Len(MovesAhead) + 1, Len(todo))
    /\ temp' = [p \in Paths |-> None]
    /\ pc' = "breaks"
    /\ UNCHANGED <<data, journal, bounds, status, writer, ops, fresh>>

\* _break_move_cycles: park one file of a cycle under undo/, if it is there.
BreakCycle(p) ==
    /\ pc = "breaks" /\ breaks # <<>> /\ Head(breaks) = p
    /\ IF fs[p] = None
       THEN UNCHANGED <<fs, journal, temp>>
       ELSE /\ RenameTreeFile(p, JournalName(fs))
            /\ temp' = [temp EXCEPT ![p] = JournalName(fs)]
    /\ breaks' = Tail(breaks)
    /\ UNCHANGED <<catalog, work, objects, content, bounds>>
    /\ UNCHANGED <<pc, status, writer, ops, todo, moves, from, fresh>>

\* The rows of the parked files get a temporary path, which frees theirs.
RekeyParked ==
    /\ pc = "breaks" /\ breaks = <<>>
    /\ work' = [work EXCEPT !.rows =
                   [id \in Ids |->
                       IF id[1] = writer /\ from[id[2]] # None /\ temp[from[id[2]]] # None
                       THEN [work.rows[id] EXCEPT !.path = temp[from[id[2]]]]
                       ELSE work.rows[id]]]
    /\ pc' = "moves"
    /\ UNCHANGED <<catalog, fs, objects, content, journal, bounds>>
    /\ UNCHANGED <<status, writer, ops, todo, moves, breaks, from, temp, fresh>>

\* Faulty variant: a parked file is looked for at its old path.
MoveSourceUnparked(k) == from[k]

MoveSource(k) == IF temp[from[k]] # None THEN temp[from[k]] ELSE from[k]

\* A move onto the path the row already had renames nothing; neither does one
\* whose file is missing.
MoveFile(k, p, h) ==
    /\ pc = "moves" /\ moves # <<>> /\ Head(moves) = MoveOp(k, p, h)
    /\ from[k] # None
    /\ IF from[k] = p \/ fs[MoveSource(k)] = None
       THEN UNCHANGED <<fs, journal>>
       ELSE RenameTreeFile(MoveSource(k), p)
    /\ pc' = "move_row"
    /\ UNCHANGED <<catalog, work, objects, content, bounds>>
    /\ UNCHANGED <<status, writer, ops, todo, moves, breaks, from, temp, fresh>>

MoveRow(k, p, h) ==
    /\ pc = "move_row" /\ Head(moves) = MoveOp(k, p, h)
    /\ from[k] # None
    /\ PathFree(work.rows, <<writer, k>>, p)
    /\ work' = [work EXCEPT !.rows[<<writer, k>>].path = p]
    /\ moves' = Tail(moves)
    /\ pc' = "moves"
    /\ UNCHANGED <<catalog, fs, objects, content, journal, bounds>>
    /\ UNCHANGED <<status, writer, ops, todo, breaks, from, temp, fresh>>

MoveBatchDone ==
    /\ pc = "moves" /\ moves = <<>>
    /\ pc' = "next"
    /\ UNCHANGED <<data, journal, bounds, status, writer, ops, todo, moves, breaks, from, temp, fresh>>

MoveRaises ==
    /\ \/ /\ pc = "next" /\ todo # <<>> /\ Head(todo).kind = "move"
          /\ \E op \in ToSet(MovesAhead) : ~ValidMove(op)
       \/ /\ pc = "moves" /\ moves # <<>>
          /\ Head(moves).path # from[Head(moves).key]
          /\ fs[MoveSource(Head(moves).key)] # None
          /\ Blocked(fs, Head(moves).path)
       \/ /\ pc = "move_row"
          /\ ~PathFree(work.rows, <<writer, Head(moves).key>>, Head(moves).path)
    /\ Raise
    /\ UNCHANGED bounds

-----------------------------------------------------------------------------
(***************************************************************************)
(* submit: commit, roll back, clean up                                     *)
(***************************************************************************)

\* The APPLIED update and the commit of the transaction.
Commit ==
    /\ pc = "next" /\ todo = <<>>
    /\ catalog' = work
    /\ status' = "applied"
    /\ pc' = "cleanup"
    /\ UNCHANGED <<work, fs, objects, content, journal, bounds>>
    /\ UNCHANGED <<writer, ops, todo, moves, breaks, from, temp, fresh>>

\* Any helper, statement or the commit itself raises (disk full, database
\* locked, permission denied) before it takes effect.
Fault ==
    /\ pc \in {"plan", "next", "put_tree", "put_old", "put_row", "delete_row",
               "breaks", "moves", "move_row"}
    /\ faults < MaxFaults
    /\ faults' = faults + 1
    /\ Raise
    /\ UNCHANGED <<submitted, undo_faults, crashes>>

Popped(s) == [i \in 1 .. Len(s) - 1 |-> s[i]]

\* _rollback_filesystem: the closures in reverse; one that raises is noted and
\* the others still run.
UndoLast ==
    /\ pc = "undo" /\ undo_stack # <<>>
    /\ fs' = Undo(undo_stack[Len(undo_stack)], fs)
    /\ objects' = objects \ {undo_stack[Len(undo_stack)].obj}
    /\ undo_stack' = Popped(undo_stack) /\ trail' = Popped(trail)
    /\ UNCHANGED <<catalog, work, content, cleanup_stack, undo_failed, before, interrupted>>
    /\ UNCHANGED <<control, bounds>>

BatchIds == {<<writer, ops[i].key>> : i \in DOMAIN ops}

UndoRaises ==
    /\ pc = "undo" /\ undo_stack # <<>>
    /\ undo_faults < MaxUndoFaults
    /\ undo_faults' = undo_faults + 1
    /\ undo_stack' = Popped(undo_stack) /\ trail' = Popped(trail)
    /\ undo_failed' = TRUE
    /\ interrupted' = interrupted \cup BatchIds
    /\ UNCHANGED <<data, control, cleanup_stack, before, submitted, faults, crashes>>

\* The FAILED update, in a transaction of its own.
MarkFailed ==
    /\ pc = "undo" /\ undo_stack = <<>>
    /\ status' = "failed"
    /\ pc' = "cleanup"
    /\ UNCHANGED <<data, journal, bounds, writer, ops, todo, moves, breaks, from, temp, fresh>>

Forget ==
    /\ pc' = "idle"
    /\ todo' = <<>> /\ moves' = <<>> /\ breaks' = <<>>
    /\ from' = [k \in Keys |-> None] /\ temp' = [p \in Paths |-> None] /\ fresh' = None
    /\ undo_stack' = <<>> /\ cleanup_stack' = <<>> /\ trail' = <<>> /\ undo_failed' = FALSE
    /\ UNCHANGED <<writer, ops>>

\* The FAILED update raises: submit ends there, and the row stays QUEUED.
MarkFailedRaises ==
    /\ pc = "undo" /\ undo_stack = <<>>
    /\ faults < MaxFaults
    /\ faults' = faults + 1
    /\ Forget
    /\ UNCHANGED <<data, status, before, interrupted, submitted, undo_faults, crashes>>

\* _cleanup_filesystem, after a commit and after a failure alike.
CleanupFirst ==
    /\ pc = "cleanup" /\ cleanup_stack # <<>>
    /\ fs' = IF Head(cleanup_stack).backup = None THEN fs
             ELSE [fs EXCEPT ![Head(cleanup_stack).backup] = None]
    /\ objects' = objects \ {Head(cleanup_stack).obj}
    /\ cleanup_stack' = Tail(cleanup_stack)
    /\ UNCHANGED <<catalog, work, content, undo_stack, undo_failed, before, trail, interrupted>>
    /\ UNCHANGED <<control, bounds>>

\* A cleanup that raises is logged.
CleanupRaises ==
    /\ pc = "cleanup" /\ cleanup_stack # <<>>
    /\ undo_faults < MaxUndoFaults
    /\ undo_faults' = undo_faults + 1
    /\ cleanup_stack' = Tail(cleanup_stack)
    /\ UNCHANGED <<data, control, undo_stack, undo_failed, before, trail, interrupted>>
    /\ UNCHANGED <<submitted, faults, crashes>>

\* submit returns the submission, or raises.
Return ==
    /\ pc = "cleanup" /\ cleanup_stack = <<>>
    /\ Forget
    /\ UNCHANGED <<data, status, before, interrupted, bounds>>

\* The process dies: SQLite discards the open transaction; the files stay.
Crash ==
    /\ pc # "idle"
    /\ crashes < MaxCrashes
    /\ crashes' = crashes + 1
    /\ work' = catalog
    /\ interrupted' = IF pc = "cleanup" THEN interrupted ELSE interrupted \cup BatchIds
    /\ Forget
    /\ UNCHANGED <<catalog, fs, objects, content, status, before>>
    /\ UNCHANGED <<submitted, faults, undo_faults>>

-----------------------------------------------------------------------------
Init ==
    /\ \E rows \in InitRows :
        LET at(l)    == {id \in Ids : rows[id] # None /\ rows[id].path = l}
            stored   == {id \in Ids : rows[id] # None}
            holds(o) == {id \in stored : rows[id].obj = o}
        IN  /\ catalog = [rows |-> rows, decided |-> {}]
            /\ fs = [l \in Locations |->
                        IF at(l) = {} THEN None ELSE rows[CHOOSE id \in at(l) : TRUE].obj]
            /\ objects = {rows[id].obj : id \in stored}
            /\ content = [o \in Objs |->
                   IF holds(o) = {} THEN CHOOSE h \in Hashes : TRUE
                   ELSE rows[CHOOSE id \in holds(o) : TRUE].hash]
    /\ work = catalog
    /\ pc = "idle" /\ status = "none"
    /\ writer = CHOOSE w \in Writers : TRUE
    /\ ops = <<>> /\ todo = <<>> /\ moves = <<>> /\ breaks = <<>>
    /\ from = [k \in Keys |-> None] /\ temp = [p \in Paths |-> None] /\ fresh = None
    /\ undo_stack = <<>> /\ cleanup_stack = <<>> /\ trail = <<>> /\ undo_failed = FALSE
    /\ before = [fs |-> fs, objects |-> objects]
    /\ interrupted = {}
    /\ submitted = 0 /\ faults = 0 /\ undo_faults = 0 /\ crashes = 0

PutStep(k, p, h) ==
    \/ PutUnchanged(k, p, h) \/ PutObject(k, p, h) \/ PutTree(k, p, h)
    \/ PutOldPath(k, p, h) \/ PutRow(k, p, h) \/ PutRaises(k, p, h)

DeleteStep(k) == DeleteUnknown(k) \/ DeleteTree(k) \/ DeleteRow(k)

MoveStep ==
    \/ MoveBegin \/ RekeyParked \/ MoveBatchDone \/ MoveRaises
    \/ \E p \in Paths : BreakCycle(p)
    \/ \E k \in Keys, p \in Paths, h \in Hashes : MoveFile(k, p, h) \/ MoveRow(k, p, h)

\* What submit does by itself once it has been called.
Proceed ==
    \/ Plan \/ RejectPlan
    \/ \E k \in Keys, p \in Paths, h \in Hashes : PutStep(k, p, h)
    \/ \E k \in Keys : DeleteStep(k)
    \/ \E k \in Keys, p \in Paths \cup {None} : Decision(k, p)
    \/ MoveStep
    \/ Commit \/ UndoLast \/ MarkFailed \/ CleanupFirst \/ Return

\* What the environment does to it.
Disturb ==
    \/ Fault \/ UndoRaises \/ MarkFailedRaises \/ CleanupRaises \/ Crash
    \/ \E k \in Keys, p \in Paths, h \in Hashes : PutObjectTorn(k, p, h)

Next ==
    \/ \E w \in Writers, batch \in Batches : Accept(w, batch)
    \/ Proceed
    \/ Disturb

Spec == Init /\ [][Next]_vars

-----------------------------------------------------------------------------
(***************************************************************************)
(* Properties                                                              *)
(***************************************************************************)

Stages == {"idle", "plan", "next", "put_tree", "put_old", "put_row", "delete_row",
           "breaks", "moves", "move_row", "undo", "cleanup"}

\* Types of the store's state and of submit's local variables.
TypeOK ==
    /\ catalog \in Tables /\ work \in Tables
    /\ fs \in [Locations -> Objs \cup {None}]
    /\ objects \subseteq Objs
    /\ content \in [Objs -> Hashes]
    /\ pc \in Stages
    /\ status \in {"none", "queued", "applied", "failed"}
    /\ writer \in Writers
    /\ from \in [Keys -> Paths \cup {None}]
    /\ temp \in [Paths -> UndoNames \cup {None}]
    /\ fresh \in Objs \cup {None}
    /\ undo_stack \in Seq(UndoRecords)
    /\ cleanup_stack \in Seq(CleanupRecords)
    /\ trail \in Seq([Locations -> Objs \cup {None}])
    /\ undo_failed \in BOOLEAN
    /\ before \in [fs : [Locations -> Objs \cup {None}], objects : SUBSET Objs]

\* No inode has two links among the tree and the journal, so a rename always
\* moves (POSIX ignores a rename between two links of one inode).
Distinct(f) == \A l, m \in Locations : (l # m /\ f[l] = f[m]) => f[l] = None

\* What submit's local variables promise to the step that uses them.
LocalsSound ==
    /\ pc \in {"put_tree", "put_old"} => fresh \in Objs
    /\ pc = "put_tree" => \A l \in Locations : fs[l] # fresh
    /\ (pc = "put_row" /\ fresh = None) =>
           \A k \in Keys, p \in Paths, h \in Hashes :
               Head(todo) = PutOp(k, p, h) => work.rows[<<writer, k>>] # None
    /\ pc \in {"breaks", "moves", "move_row"} =>
           \A k \in Keys : from[k] # None => work.rows[<<writer, k>>] # None

\* Undoing the last record gives the files as they were before it, and so on
\* down to the files the submission found.
TrailSound ==
    /\ Len(trail) = Len(undo_stack)
    /\ (pc \notin {"idle", "cleanup"} /\ ~undo_failed) =>
           /\ undo_stack = <<>> => fs = before.fs
           /\ undo_stack # <<>> =>
                  /\ trail[1] = before.fs
                  /\ Undo(undo_stack[Len(undo_stack)], fs) = trail[Len(undo_stack)]
                  /\ \A i \in 1 .. Len(undo_stack) - 1 :
                         Undo(undo_stack[i], trail[i + 1]) = trail[i]

\* The objects written so far are the ones the undo closures will remove.
ObjectsSound ==
    (pc \notin {"idle", "cleanup"} /\ ~undo_failed) =>
        /\ \A o \in Objs : o \in objects <=>
               (o \in before.objects \/ \E i \in 1 .. Len(undo_stack) : undo_stack[i].obj = o)
        /\ \A i \in 1 .. Len(undo_stack) : undo_stack[i].obj \notin before.objects
        /\ \A i, j \in 1 .. Len(undo_stack) :
               (i # j /\ undo_stack[i].obj = undo_stack[j].obj) => undo_stack[i].obj = None

\* The inductive strengthening of RollbackRestoresFiles: types, one link per inode,
\* and every undo record a faithful inverse of the step that pushed it.
JournalSound ==
    TypeOK /\ Distinct(fs) /\ LocalsSound /\ TrailSound /\ ObjectsSound

\* The row of an identity as a client knows it, and the readable tree of a
\* filesystem state.
DocOf(rows) ==
    [id \in Ids |-> IF rows[id] = None THEN None
                    ELSE [path |-> rows[id].path, hash |-> rows[id].hash]]

Readable(f) == [p \in Paths |-> IF f[p] = None THEN None ELSE content[f[p]]]

\* Until the commit, and while it is rolled back, a submission has not happened
\* yet; the abstract tree is the one it found.
Uncommitted == pc \notin {"idle", "cleanup"}

Atomic == INSTANCE CtxfsAtomic WITH
    docs    <- DocOf(catalog.rows),
    decided <- catalog.decided,
    view    <- Readable(IF Uncommitted THEN before.fs ELSE fs),
    request <- [writer |-> writer, ops |-> ops, state |-> status]

\* Refinement: submit's ordering, cycle breaking, renames, upserts, journal and
\* rollback together implement the atomic batch of CtxfsAtomic, whatever helper
\* or statement raises.
ImplementsAtomicBatch == Atomic!Spec

\* A failed submission puts back every file: when its undo closures have run and
\* none of them raised, the tree, the journal directory and objects/ are what
\* they were when it was accepted, but for an object whose write was cut short.
\* (The cleanup that follows still unlinks the object of a row whose update was
\* rolled back; the tree's link keeps the bytes.)
RollbackRestoresFiles ==
    (pc = "undo" /\ undo_stack = <<>> /\ ~undo_failed)
        => fs = before.fs /\ objects = before.objects

\* Between submissions the journal directory holds no file: each backup was put
\* back or unlinked, each parked file of a move cycle went on to its path.
JournalEmptyAtRest ==
    (pc = "idle" /\ crashes = 0 /\ undo_faults = 0) => \A u \in UndoNames : fs[u] = None

\* A writer's submission, failed or not, never touches the files or rows under
\* another writer's prefix.
OnlyOwnPrefix ==
    [][\A p \in Paths : (pc # "idle" /\ p \notin Authorized[writer]) => fs'[p] = fs[p]]_fs

\* A batch nothing stands in the way of: its moves name existing, undeleted
\* sources with the content they expect, everything stays under the writer's
\* prefixes, the outcome has one document per path, no path before or after is
\* both a file and a directory, a key is put or moved once, no two keys want one
\* path, and none wants a path that only a put of the batch would free.
Conflicts(p, q) == p \in Ancestors[q] \/ q \in Ancestors[p]

Satisfiable ==
    LET rows   == catalog.rows
        kinds(kind) == ToSet(OfKind(ops, kind))
        result == [id \in Ids |-> IF id[1] = writer
                                  THEN Atomic!Outcome(DocOf(rows)[id], ops, id[2])
                                  ELSE DocOf(rows)[id]]
        used   == {d.path : d \in ({DocOf(rows)[id] : id \in Ids} \cup
                                   {result[id] : id \in Ids} \cup
                                   kinds("put") \cup kinds("move")) \ {None}}
    IN  /\ ~DuplicateMoveSources(ops)
        /\ \A op \in kinds("put") \cup kinds("move") : op.path \in Authorized[writer]
        /\ \A op \in kinds("decision") : op.path \in Authorized[writer] \cup {None}
        /\ \A op \in kinds("move") : /\ rows[<<writer, op.key>>] # None
                                     /\ rows[<<writer, op.key>>].hash = op.hash
                                     /\ \A del \in kinds("delete") : del.key # op.key
        /\ Atomic!OnePathEach(result)
        /\ \A p, q \in used : ~Conflicts(p, q)
        /\ \A op, other \in kinds("put") \cup kinds("move") : op # other =>
               /\ op.key # other.key
               /\ op.path # other.path
               /\ op.kind = "put" => RowPath(rows, <<writer, op.key>>) # other.path

\* Completeness: absent a fault, submit refuses no satisfiable batch.  Moves
\* along a chain or round a cycle, and puts onto paths the batch vacates, are
\* ordered so that each destination is free when it is filled.
RefusesOnlyConflicts ==
    [][(pc # "undo" /\ pc' = "undo" /\ faults' = faults) => ~Satisfiable]_vars

\* A batch of moves that was applied moved its files: each destination holds the
\* content the move named, also when the batch is a retry or a repetition.
AppliedMovesReadable ==
    (pc = "idle" /\ status = "applied") =>
        \A i \in DOMAIN ops : (\A j \in DOMAIN ops : ops[j].kind = "move") =>
            fs[ops[i].path] # None /\ content[fs[ops[i].path]] = ops[i].hash

\* After crashes: a document whose identity was in no interrupted batch is still
\* whole, its file at its path with its content, however many submissions
\* by others, retries included, came after.
DamageIsConfined ==
    pc = "idle" =>
        \A id \in Ids : (catalog.rows[id] # None /\ id \notin interrupted) =>
            /\ fs[catalog.rows[id].path] = catalog.rows[id].obj
            /\ content[catalog.rows[id].obj] = catalog.rows[id].hash

\* The catalog's own guarantee through any crash: one row per path, none left on
\* a temporary path.
CatalogPathsUnique ==
    \A i \in Ids : catalog.rows[i] # None =>
        catalog.rows[i].path \in Authorized[i[1]] /\ PathFree(catalog.rows, i, catalog.rows[i].path)

=============================================================================
