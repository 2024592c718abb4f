---------------------------- MODULE CtxfsService ----------------------------
(***************************************************************************)
(* The queued front of the store (src/ctxfs/service.py): writers enqueue   *)
(* submissions, an applier takes them one after another to store.submit,   *)
(* and a manager deletes a prefix, an integration or a user.  Each of them *)
(* may be a process of its own with its own connection, and may die.       *)
(*                                                                         *)
(*   queue      service_submissions; a submission's number is its place in *)
(*              created_at order                                           *)
(*   docs       the entries table                                          *)
(*   tree       the paths that have a file (its object comes and goes with *)
(*              it)                                                        *)
(*   decisions  the decisions table, with the submission that made a row   *)
(*   granted    writers with rows in writer_prefixes                       *)
(*   audited    users with rows in the store's own submissions table       *)
(*   hand       the applier: the row it read, and what became of it        *)
(*   job        the manager: the deletion it runs, and its locals          *)
(*                                                                         *)
(* store.submit is one step here, with the effect Submitted of CtxfsBatch; *)
(* CtxfsStore is about its insides.  A deletion is a series of             *)
(* transactions and unlinks; nothing joins them and nothing resumes them.  *)
(***************************************************************************)
EXTENDS Naturals, FiniteSets, SequencesExt, Iteration

CONSTANTS
    Writers, Keys, Paths, Hashes, None,
    Users, UserOf,  \* writer -> its user
    Authorized,     \* writer -> the paths under the prefix it registers
    Subtrees,       \* what delete_prefix may be asked for: sets of paths
    Batches,        \* writer -> the lists of operations it may submit
    MaxSubmissions, \* bound on submissions
    MaxJobs,        \* bound on deletions
    MaxFaults       \* bound on deaths, failed submits and failed rmtrees

Ids == Writers \X Keys

\* PutOperation, MoveOperation, DeleteOperation, DecisionOperation
Operation ==
    [kind : {"put", "move"}, key : Keys, path : Paths, hash : Hashes]
    \cup [kind : {"delete"}, key : Keys, path : {None}, hash : {None}]
    \cup [kind : {"decision"}, key : Keys, path : Paths \cup {None}, hash : {None}]

\* A row of service_submissions.
States == {"queued", "applied", "failed", "discarded"}
Submission == [writer : Writers, ops : Seq(Operation), state : States]

\* A row of entries, and the same with whether the tree has the file.
Document == [path : Paths, hash : Hashes]
Filed    == [path : Paths, hash : Hashes, file : BOOLEAN]

ASSUME ServiceAssumption ==
    /\ UserOf \in [Writers -> Users] /\ Users \cap Ids = {}
    /\ Authorized \in [Writers -> SUBSET Paths]
    /\ \A v, w \in Writers : v # w => Authorized[v] \cap Authorized[w] = {}
    /\ Subtrees \subseteq SUBSET Paths
    /\ \A w \in Writers : Batches[w] \subseteq Seq(Operation)
    /\ None \notin Paths /\ None \notin Submission /\ None \notin Document /\ None \notin Filed
    /\ MaxSubmissions \in Nat /\ MaxJobs \in Nat /\ MaxFaults \in Nat

Numbers == 1..MaxSubmissions

\* What a deletion is asked for: delete_prefix, delete_integration, delete_user.
Targets ==
    [scope : {"prefix"}, writer : Writers, prefix : Subtrees, user : {None}]
    \cup [scope : {"integration"}, writer : Writers, prefix : {None}, user : {None}]
    \cup [scope : {"user"}, writer : {None}, prefix : {None}, user : Users]

\* A running deletion and its locals: the rows it has read, the ones or the submissions
\* left to do, and the last submission there was when it began.
Stages == {"decisions", "list", "discard", "unlink", "purge", "rmtree", "record"}
Deletion == [target : Targets, at : Stages, rows : SUBSET (Ids \X Paths),
             left : SUBSET (Numbers \cup (Ids \X Paths)), upto : Nat]

ASSUME DeletionAssumption == None \notin Deletion

VARIABLES
    queue, docs, tree, decisions, granted, audited, hand, job,
    count,          \* submissions so far
    origin,         \* history: the submission that last wrote a document
    effects,        \* history: submissions that took effect
    barred,         \* history: submissions a finished deletion answers for, with
                    \* its target
    raced,          \* history: paths and identities a submission wrote while a
                    \* deletion ran
    held,           \* history: submissions in the applier's hand since the deletion
                    \* began and before it was through with the queue
    halved,         \* history: identities that lost their file (a deletion died
                    \* unlinking, a move was repeated), and users whose tree a
                    \* deletion left behind
    jobs, faults

tables  == <<queue, docs, tree, decisions, granted, audited>>
history == <<origin, effects, barred, raced, held, halved>>
vars    == <<tables, hand, job, count, history, jobs, faults>>

\* The prefixes registered now; the plan of a submission reads them.
Batch == INSTANCE CtxfsBatch WITH
    Authorized <- [w \in Writers |-> IF w \in granted THEN Authorized[w] ELSE {}],
    Ancestors <- [p \in Paths |-> {}]

Queued == {s \in Numbers : queue[s] # None /\ queue[s].state = "queued"}

Fault == faults < MaxFaults /\ faults' = faults + 1

-----------------------------------------------------------------------------
(***************************************************************************)
(* Writers                                                                 *)
(***************************************************************************)
RegisterPrefix(w) ==
    /\ w \notin granted
    /\ granted' = granted \cup {w}
    /\ UNCHANGED <<queue, docs, tree, decisions, audited, hand, job, count, history, jobs, faults>>

Enqueue(w, ops) ==
    /\ count < MaxSubmissions
    /\ count' = count + 1
    /\ queue' = [queue EXCEPT ![count'] = [writer |-> w, ops |-> ops, state |-> "queued"]]
    /\ UNCHANGED <<docs, tree, decisions, granted, audited, hand, job, history, jobs, faults>>

-----------------------------------------------------------------------------
(***************************************************************************)
(* The applier: apply_next, called by drain until the queue is empty       *)
(***************************************************************************)

\* Faulty variant: no ORDER BY.
NextInLineAny(s) == s \in Queued

\* ORDER BY created_at.
NextInLine(s) == s \in Queued /\ \A t \in Queued : s <= t

\* The row is read, and used from memory from here on.
Row(s) == [sub |-> s, writer |-> queue[s].writer, ops |-> queue[s].ops, at |-> "read"]

Pick(s) ==
    /\ hand = None
    /\ NextInLine(s)
    /\ hand' = Row(s)
    /\ held' = IF job # None /\ job.at \in {"decisions", "list", "discard"} THEN held \cup {s}
               ELSE held
    /\ UNCHANGED <<tables, job, count, origin, effects, barred, raced, halved, jobs, faults>>

WithFiles == [id \in Ids |-> IF docs[id] = None THEN None
                             ELSE [path |-> docs[id].path, hash |-> docs[id].hash,
                                   file |-> docs[id].path \in tree]]

Outcome == Batch!Submitted(WithFiles, hand.writer, hand.ops)

\* Identities and paths that an applied batch writes.
Written == {<<hand.writer, op.key>> : op \in {o \in ToSet(hand.ops) : o.kind # "decision"}}
PathsOf(rows, ids) == {rows[id].path : id \in {x \in ids : rows[x] # None}}

\* Documents moved to where they are (CtxfsBatch).
Parked == {id \in Written : /\ docs[id] # None
                            /\ \E i \in DOMAIN hand.ops :
                                   /\ hand.ops[i].kind = "move" /\ hand.ops[i].key = id[2]
                                   /\ hand.ops[i].path = docs[id].path}

Decided ==
    {[writer |-> hand.writer, key |-> op.key, path |-> op.path, by |-> hand.sub] :
        op \in {o \in ToSet(hand.ops) : o.kind = "decision"}}

Apply ==
    /\ hand # None /\ hand.at = "read"
    /\ hand' = [hand EXCEPT !.at = "applied"]
    /\ LET outcome == Outcome
           rows    == outcome.rows
       IN  /\ outcome.ok
           /\ docs' = [id \in Ids |-> IF rows[id] = None THEN None
                                      ELSE [path |-> rows[id].path, hash |-> rows[id].hash]]
           /\ tree' = (tree \ PathsOf(docs, Written))
                      \cup PathsOf(rows, {id \in Ids : rows[id] # None /\ rows[id].file})
    /\ decisions' = {d \in decisions : \A e \in Decided : <<d.writer, d.key>> # <<e.writer, e.key>>}
                    \cup Decided
    /\ audited' = audited \cup {UserOf[hand.writer]}
    /\ origin' = [id \in Ids |-> IF id \in Written THEN hand.sub ELSE origin[id]]
    /\ effects' = effects \cup {hand.sub}
    /\ raced' = IF job = None THEN raced
                ELSE raced \cup Written \cup PathsOf(docs, Written) \cup PathsOf(docs', Written)
    /\ halved' = halved \cup Parked
    /\ UNCHANGED <<queue, granted, job, count, barred, held, jobs, faults>>

\* store.submit raises: the plan is refused, or something fails inside.
ApplyRaises ==
    /\ hand # None /\ hand.at = "read"
    /\ hand' = [hand EXCEPT !.at = "failed"]
    /\ LET ok == Outcome.ok
       IN  \/ ~ok /\ UNCHANGED faults
           \/ ok /\ Fault
    /\ audited' = audited \cup {UserOf[hand.writer]}
    /\ UNCHANGED <<queue, docs, tree, decisions, granted, job, count, history, jobs>>

\* Faulty variant: a failure is not recorded.
MarkAppliedOnly ==
    /\ hand # None /\ hand.at # "read"
    /\ queue' = IF queue[hand.sub] = None \/ hand.at = "failed" THEN queue
                ELSE [queue EXCEPT ![hand.sub].state = hand.at]
    /\ hand' = None
    /\ UNCHANGED <<docs, tree, decisions, granted, audited, job, count, history, jobs, faults>>

\* _mark_applied, _mark_failed: whatever state the row is in by now, if it is there.
Mark ==
    /\ hand # None /\ hand.at # "read"
    /\ queue' = IF queue[hand.sub] = None THEN queue
                ELSE [queue EXCEPT ![hand.sub].state = hand.at]
    /\ hand' = None
    /\ UNCHANGED <<docs, tree, decisions, granted, audited, job, count, history, jobs, faults>>

ApplierDies ==
    /\ hand # None
    /\ hand' = None
    /\ Fault
    /\ UNCHANGED <<tables, job, count, history, jobs>>

\* What these steps do to the applier's own variable: all that its fairness is about.
AppliersTurn ==
    \/ hand = None /\ \E s \in Queued : NextInLine(s) /\ hand' = Row(s)
    \/ /\ hand # None /\ hand.at = "read"
       /\ \E result \in {"applied", "failed"} : hand' = [hand EXCEPT !.at = result]
    \/ hand # None /\ hand.at # "read" /\ hand' = None

Applier == (\E s \in Numbers : Pick(s)) \/ Apply \/ ApplyRaises \/ Mark

-----------------------------------------------------------------------------
(***************************************************************************)
(* The manager: delete_prefix, delete_integration, delete_user             *)
(***************************************************************************)
InScope(t, w, p) ==
    CASE t.scope = "prefix"      -> w = t.writer /\ p \in t.prefix
      [] t.scope = "integration" -> w = t.writer
      [] t.scope = "user"        -> UserOf[w] = t.user

\* The arguments are checked and the rows of the scope are read.
Begin(t) ==
    /\ job = None
    /\ jobs < MaxJobs
    /\ jobs' = jobs + 1
    /\ t.scope = "prefix" => t.writer \in granted /\ t.prefix \subseteq Authorized[t.writer]
    /\ LET ids == {id \in Ids : docs[id] # None /\ InScope(t, id[1], docs[id].path)}
       IN  job' = [target |-> t, at |-> "decisions", rows |-> {<<id, docs[id].path>> : id \in ids},
                   left |-> {}, upto |-> count]
    /\ held' = IF hand = None THEN {} ELSE {hand.sub}
    /\ UNCHANGED <<tables, hand, count, origin, effects, barred, raced, halved, faults>>

RowIds == {r[1] : r \in job.rows}

\* _delete_decisions_for_prefix, _for_writer, _for_user
DeleteDecisions ==
    /\ job # None /\ job.at = "decisions"
    /\ decisions' = {d \in decisions : /\ ~InScope(job.target, d.writer, d.path)
                                       /\ <<d.writer, d.key>> \notin RowIds}
    /\ job' = [job EXCEPT !.at = "list"]
    /\ UNCHANGED <<queue, docs, tree, granted, audited, hand, count, history, jobs, faults>>

\* Faulty variant: a move into the scope does not count.
TargetedByPuts(op, t) ==
    \/ t.scope # "prefix"
    \/ op.kind \in {"put", "decision"} /\ op.path # None /\ InScope(t, t.writer, op.path)
    \/ op.kind = "delete" /\ <<t.writer, op.key>> \in RowIds

\* _operation_targets_prefix; the scope of an integration or a user is everything.
TargetedBy(op, t) ==
    \/ t.scope # "prefix"
    \/ op.kind \in {"put", "move", "decision"} /\ op.path # None /\ InScope(t, t.writer, op.path)
    \/ op.kind \in {"delete", "move"} /\ <<t.writer, op.key>> \in RowIds

\* The queued submissions of the scope that have such an operation.
ListQueued ==
    /\ job # None /\ job.at = "list" /\ job.target.scope # "user"
    /\ LET t == job.target
       IN  job' = [job EXCEPT !.at = "discard",
                              !.left = {s \in Queued : /\ queue[s].writer = t.writer
                                                       /\ \E op \in ToSet(queue[s].ops) :
                                                              TargetedBy(op, t)}]
    /\ UNCHANGED <<tables, hand, count, history, jobs, faults>>

\* Faulty variant: a submission without operations stays in the queue.
DiscardOneEmptied ==
    /\ job # None /\ job.at = "discard" /\ job.left # {}
    /\ LET s    == CHOOSE x \in job.left : \A y \in job.left : x <= y
           kept == Keeping({op \in ToSet(queue[s].ops) : ~TargetedBy(op, job.target)}, queue[s].ops)
       IN  /\ queue' = [queue EXCEPT ![s].ops = kept]
           /\ job' = [job EXCEPT !.left = @ \ {s}]
    /\ UNCHANGED <<docs, tree, decisions, granted, audited, hand, count, history, jobs, faults>>

\* _discard_service_submission
Discarded(s) == [queue EXCEPT ![s].state = "discarded"]

\* The operations of the scope are taken out of a submission, which is discarded when
\* none is left; a transaction each, whatever became of the row meanwhile.
DiscardOne ==
    /\ job # None /\ job.at = "discard" /\ job.left # {}
    /\ LET s    == CHOOSE x \in job.left : \A y \in job.left : x <= y
           kept == Keeping({op \in ToSet(queue[s].ops) : ~TargetedBy(op, job.target)}, queue[s].ops)
       IN  /\ queue' = IF kept # <<>> THEN [queue EXCEPT ![s].ops = kept]
                       ELSE Discarded(s)
           /\ job' = [job EXCEPT !.left = @ \ {s}]
    /\ UNCHANGED <<docs, tree, decisions, granted, audited, hand, count, history, jobs, faults>>

DiscardDone ==
    /\ job # None /\ job.at = "discard" /\ job.left = {}
    /\ job' = [job EXCEPT !.at = "unlink", !.left = job.rows]
    /\ UNCHANGED <<tables, hand, count, history, jobs, faults>>

\* _delete_entry_rows_and_files: the file at the path that was read.
UnlinkOne(r) ==
    /\ job # None /\ job.at = "unlink" /\ r \in job.left
    /\ tree' = tree \ {r[2]}
    /\ job' = [job EXCEPT !.left = @ \ {r}]
    /\ UNCHANGED <<queue, docs, decisions, granted, audited, hand, count, history, jobs, faults>>

\* Faulty variant: the rows go before the files.
RowsGone == job # None /\ job.at = "unlink"

\* The rows go when the files are gone.
FilesGone == job # None /\ job.at = "unlink" /\ job.left = {}

\* The rows, by source key and in one transaction.
DeleteRows ==
    /\ FilesGone
    /\ docs' = [id \in Ids |-> IF id \in RowIds THEN None ELSE docs[id]]
    /\ job' = [job EXCEPT !.at = "record"]
    /\ UNCHANGED <<queue, tree, decisions, granted, audited, hand, count, history, jobs, faults>>

-----------------------------------------------------------------------------
UserPaths(u) == UNION {Authorized[w] : w \in {x \in Writers : UserOf[x] = u}}

\* _delete_queued_submissions_for_user
DeleteQueued ==
    /\ job # None /\ job.at = "list" /\ job.target.scope = "user"
    /\ queue' = [s \in Numbers |->
                    IF s \in Queued /\ UserOf[queue[s].writer] = job.target.user THEN None
                    ELSE queue[s]]
    /\ job' = [job EXCEPT !.at = "purge"]
    /\ UNCHANGED <<docs, tree, decisions, granted, audited, hand, count, history, jobs, faults>>

\* Prefixes, submissions and entries, in one transaction.
Purge ==
    /\ job # None /\ job.at = "purge"
    /\ LET u == job.target.user
       IN  /\ granted' = {w \in granted : UserOf[w] # u}
           /\ audited' = audited \ {u}
           /\ queue' = [s \in Numbers |->
                  IF queue[s] # None /\ UserOf[queue[s].writer] = u THEN None ELSE queue[s]]
           /\ docs' = [id \in Ids |-> IF UserOf[id[1]] = u THEN None ELSE docs[id]]
    /\ job' = [job EXCEPT !.at = "rmtree"]
    /\ UNCHANGED <<tree, decisions, hand, count, history, jobs, faults>>

\* rmtree with ignore_errors
RemoveTree ==
    /\ job # None /\ job.at = "rmtree"
    /\ LET u == job.target.user
       IN  \/ tree' = tree \ UserPaths(u) /\ halved' = halved \ {u} /\ UNCHANGED faults
           \/ Fault /\ halved' = halved \cup {u} /\ UNCHANGED tree
    /\ job' = [job EXCEPT !.at = "record"]
    /\ UNCHANGED <<queue, docs, decisions, granted, audited, hand, count>>
    /\ UNCHANGED <<origin, effects, barred, raced, held, jobs>>

\* _assert_user_removed: what it would find left.
UserRemoved(u) ==
    /\ u \notin audited
    /\ \A w \in granted : UserOf[w] # u
    /\ \A s \in Numbers : queue[s] # None => UserOf[queue[s].writer] # u
    /\ \A id \in Ids : docs[id] # None => UserOf[id[1]] # u
    /\ \A d \in decisions : UserOf[d.writer] # u
    /\ tree \cap UserPaths(u) = {}

\* The registrations of an integration, the deletion record, and the final check of
\* delete_user; then the call returns or raises.
Finish ==
    /\ job # None /\ job.at = "record"
    /\ LET t == job.target
       IN  /\ granted' = IF t.scope = "integration" THEN granted \ {t.writer} ELSE granted
           /\ barred' = IF t.scope = "user" /\ ~UserRemoved(t.user) THEN barred
                        ELSE barred \cup {<<s, t>> : s \in (1..job.upto) \ held}
    /\ job' = None
    /\ UNCHANGED <<queue, docs, tree, decisions, audited, hand, count>>
    /\ UNCHANGED <<origin, effects, raced, held, halved, jobs, faults>>

ManagerDies ==
    /\ job # None
    /\ job' = None
    /\ Fault
    /\ halved' = halved \cup (IF job.at = "unlink" THEN RowIds ELSE {})
                        \cup (IF job.at = "rmtree" THEN {job.target.user} ELSE {})
    /\ UNCHANGED <<tables, hand, count, origin, effects, barred, raced, held, jobs>>

Manager ==
    \/ \E t \in Targets : Begin(t)
    \/ DeleteDecisions \/ ListQueued \/ DiscardOne \/ DiscardDone
    \/ \E r \in (IF job = None THEN {} ELSE job.rows) : UnlinkOne(r)
    \/ DeleteRows \/ DeleteQueued \/ Purge \/ RemoveTree \/ Finish

-----------------------------------------------------------------------------
Init ==
    /\ queue = [s \in Numbers |-> None] /\ docs = [id \in Ids |-> None]
    /\ tree = {} /\ decisions = {} /\ granted = Writers /\ audited = {}
    /\ hand = None /\ job = None /\ count = 0
    /\ origin = [id \in Ids |-> 0] /\ effects = {} /\ barred = {} /\ raced = {}
    /\ held = {} /\ halved = {}
    /\ jobs = 0 /\ faults = 0

Next ==
    \/ \E w \in Writers : RegisterPrefix(w) \/ \E ops \in Batches[w] : Enqueue(w, ops)
    \/ Applier \/ ApplierDies
    \/ Manager \/ ManagerDies

\* drain is called again and again; nobody has to submit, delete or die.
Spec == Init /\ [][Next]_vars /\ WF_hand(AppliersTurn)

-----------------------------------------------------------------------------
(***************************************************************************)
(* Properties                                                              *)
(***************************************************************************)
\* The type invariant; a submission has no operations only when it came without any.
TypeOK ==
    /\ \A s \in Numbers : queue[s] # None =>
           /\ queue[s].writer \in Writers /\ queue[s].state \in States /\ s <= count
           /\ queue[s].ops = <<>> => <<>> \in Batches[queue[s].writer]
    /\ \A id \in Ids : docs[id] # None => docs[id] \in Document
    /\ tree \subseteq Paths /\ granted \subseteq Writers /\ audited \subseteq Users
    /\ hand # None => hand.sub \in Numbers /\ hand.at \in {"read", "applied", "failed"}
    /\ job # None => /\ job.target \in Targets /\ job.at \in Stages
                     /\ job.rows \subseteq Ids \X Paths /\ job.upto \in 0..count

\* A deletion is final: once it has returned, no document and no decision of its
\* scope comes from a submission that was queued when it began, whatever was cut
\* short or half discarded before; the one exception is a submission the applier
\* had in hand.
DeletedStaysDeleted ==
    \A b \in barred :
        /\ \A id \in Ids : (docs[id] # None /\ origin[id] = b[1]) =>
               ~InScope(b[2], id[1], docs[id].path)
        /\ \A d \in decisions : (d.by = b[1] /\ d.path # None) => ~InScope(b[2], d.writer, d.path)

Owner(p) == CHOOSE w \in Writers : p \in Authorized[w]

\* Catalog and tree agree, whatever dies where, except while a deletion is under way,
\* where one died unlinking or did not remove a tree, where a submission was applied
\* in the middle of one, and where a move was repeated.
TreeMatchesCatalog ==
    /\ \A p \in tree \ raced :
           \/ \E id \in Ids : docs[id] # None /\ docs[id].path = p
           \/ UserOf[Owner(p)] \in halved
           \/ job # None /\ job.at = "rmtree" /\ job.target.user = UserOf[Owner(p)]
    /\ \A id \in Ids \ raced : docs[id] # None =>
           \/ docs[id].path \in tree
           \/ id \in halved
           \/ job # None /\ job.at = "unlink" /\ id \in RowIds

\* A later submission wins: no document is left by a submission while a later one
\* that wrote it took effect, although a submission may be applied twice.
LatestWins ==
    [][\A id \in Ids : origin'[id] >= origin[id]]_vars

\* A batch that writes each source with one operation, as the tracker's do as long as each
\* file has one name.
OncePerSource(ops) ==
    \A op, other \in ToSet(ops) :
        (op.kind # "decision" /\ other.kind # "decision" /\ op.key = other.key) => op = other

\* A submission applied a second time, because the applier died before it had marked
\* it, is accepted and finds the catalog as it left it, unless a deletion ran when it was
\* applied or taken up again.  It holds where every batch is OncePerSource (one that leads a
\* source by way of a path which it then gives to another is refused when it is repeated),
\* of batches that write a document (the grants behind a batch of decisions alone may be gone).
RepeatChangesNothing ==
    [][(/\ hand # None /\ hand.sub \in effects \ held
        /\ hand.at = "read" /\ hand' \notin {None, hand}
        /\ Written # {} /\ Written \cap raced = {} /\ faults' = faults)
        => docs' = docs /\ hand'.at = "applied"]_vars

\* Every submission is applied, refused or discarded in the end: one that cannot be
\* applied does not hold up the queue.
QueueDrains == \A s \in Numbers : (s \in Queued) ~> (s \notin Queued)

=============================================================================
