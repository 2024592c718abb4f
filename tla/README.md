# ctxd / ctxfs: a TLA+ verification project

ctxd mirrors folders of text files into ctxfs, a catalog with a plain file tree
that agents can list, read and search. This directory models what keeps that mirror
correct: the submission engine of the store, its search, the queued service in
front of it, the tracker that feeds it, the keys and grants of those who write, and
the files and processes one installation shares between its commands. TLC checks
the models; TLAPS proves, for every value of the constants, the rollback, the catalog
and the journal of the store, the life of the machine keys, the queue and the deletions
of the service, the identity of an installation and the life of its processes.

Source paths below are relative to the repository root. `PROJECT.json` maps every
definition to the lines it models.

## 1. Inventory

| Component | State it keeps | Operations | Hard behaviour | Module |
|---|---|---|---|---|
| Submission engine (`ctxfs/store.py`, `submit` and helpers) | SQLite tables `entries`, `decisions`, `submissions`; directories `users/` (tree), `objects/`, `undo/` (journal) | put, move, delete, decision, in batches; rollback and cleanup | one SQL transaction beside many renames; chains and cycles of moves; exceptions inside any helper; death before the commit; retries | `CtxfsStore` |
| Search (`ctxfs/store.py`, `grep`) | none; cursors travel with the client | scan with ripgrep, check each file, page, resume | files and catalog change under the scan; time-outs; cursors of the previous release | `Grep` |
| Other reads (`ctxfs/store.py`) | none | list, tree, glob, stat, read | - | - |
| Prefix registry (`ctxfs/store.py`) | `writer_prefixes` | `register_prefix` | read before the write lock | `WriterAuthority` |
| Machines, folders of the catalog (`ctxfs/store.py`) | machines, folders, credential bindings | register, bind, clear | commits beside the credential database | `MachineCredentials` (machines) |
| Migrations (`ctxfs/store.py`) | schema version | rebuild tables at open | single transactions | - |
| Service (`ctxfs/service.py`) | queued submissions | enqueue, `apply_next`, `drain`, deletions of prefixes, integrations, users | several transactions per operation; an applier that dies between apply and mark; a deletion that dies half way | `CtxfsService` |
| Credentials (`ctxfs/enrollment.py`, `credentials.py`) | catalog and credential database | register, prepare/confirm rotation, revoke; create, rotate, revoke of other keys | two databases that do not commit together; retried confirmation | `MachineCredentials`, `WriterAuthority` |
| Authorization (`ctxfs/auth.py`) | none | scope and prefix decisions | - | `WriterAuthority` |
| Local HTTP server (`ctxd/local_ctxfs_server.py`) | threads, one connection each | submission, credential and search routes | concurrent requests; writer id derived from the key id | parts in `WriterAuthority`, `MachineCredentials`, `Tracker`, `Grep` |
| Tracker (`ctxd/tracker.py`) | state file, health file | `sync_once`, `_scan_folder`, `run_forever` | files change under the scan; lost answers; partial scans; directories that may not be listed; torn state file | `Tracker` |
| Machine identity (`ctxd/machine_identity.py`, `secure_store.py`) | `credentials.json`, three locks | load or create, configure, register, status, login, logout | locks, atomic replacement, resumed registration | `MachineIdentity` |
| Configuration, folders (`ctxd/config.py`, `folders.py`) | `config.json` | add, remove, endpoint | read-modify-write without a lock | `MachineIdentity` |
| Process managers (`ctxd/local_ctxfs_service.py`, `tracker_service.py`) | pid files, socket, lock | ensure started, start, stop | commands at once; death between start and pid file; a socket path looked at before it is bound | `ServiceLifecycle` |
| Clients, CLI, MCP server | none | wrappers, formatting | paging (in `Grep`) | - |

Interaction: the tracker scans folders, derives one batch of operations per
folder from the difference to its state file, and sends each over HTTP to the
local server. The server authenticates the key, derives the writer, registers its
prefix and calls `CtxfsStore.submit`. The store plans the batch against the catalog,
changes the tree and the tables, and commits. The tracker writes its state file
after every batch was accepted. In a hosted setting `CtxfsSubmissionService` puts a
queue between writer and store. Commands of the user change `config.json` and
`credentials.json` and start and stop server and tracker meanwhile.

What makes each part correct:

* store: a batch happens as a whole or not at all, in tables and tree; a failed
  one restores every file; nothing satisfiable is refused; no writer touches
  another's files; a crash damages only what its batch named;
* search: a complete answer has every match of what did not change, none twice, and
  nothing that was never committed;
* service: what was deleted stays deleted; submissions take effect in order; one
  applied twice changes nothing the second time; the queue drains;
* tracker: it deletes only what a scan that could read all it was told of did not
  find; its state file never runs ahead of the store; the health file can be believed; the catalog
  comes to mirror the folders;
* credentials: rotation and revocation, cut short anywhere and retried, never
  leave a machine with only a key that does not work; no key outlives a second
  rotation; an enrollment is good for one machine, and for repeating its request;
* identity: one identity per installation; a registration the server accepted is
  not forgotten; no section of `credentials.json` is lost;
* managers: one server, known by its pid file, that other commands leave alone.

The hazards, each at its line, are in `PROJECT.json`.

## 2. Modules

| Module | Role |
|---|---|
| `Iteration` | loops over a list (`Iterate`) and list comprehensions (`Keeping`), as recursive functions |
| `CtxfsOrder` | pure operators: the order of a batch and the cycles of its moves (`_reject_duplicate_move_sources`, `_ordered_operations`, `_move_cycles`) |
| `CtxfsOrderProofs` | lemmas: what a loop keeps at every turn, what `Keeping` keeps, what the order of a batch and the walks for cycles hold, that no operation is in it twice, and which element of a list is its last of a set |
| `CtxfsBatch` | pure operators: how a batch is checked against the catalog (`_preflight_submission`), and its net effect, `Submitted`; extends `CtxfsOrder` |
| `CtxfsStore` | `submit` step by step over catalog, tree, journal and objects; extends `CtxfsBatch` |
| `CtxfsAtomic` | abstract specification: what a client of `submit` is promised |
| `CtxfsStoreProofs` | theorems about `CtxfsStore`: files, undo closures, rollback; the catalog, the files of other writers, what is left in `undo/`, what a crash can damage, the refinement of `CtxfsAtomic` |
| `Grep` | one search, page by page and record by record, beside a submission of another thread |
| `GrepProofs` | theorems about `Grep` |
| `CtxfsService` | writers, applier and manager over the queue and the store; takes `Submitted` of `CtxfsBatch` by INSTANCE |
| `CtxfsServiceProofs` | theorems about `CtxfsService`: queue, deletions, order and repetition of submissions, agreement of catalog and tree |
| `Tracker` | `run_forever` against a user who edits; takes `CtxfsBatch` by INSTANCE |
| `TrackerProofs` | theorems about `Tracker`: scan, batches, state file and store |
| `MachineCredentials` | the coordinator of machine keys over its two databases, behind the server's authentication |
| `MachineCredentialsProofs` | theorems about `MachineCredentials` |
| `WriterAuthority` | keys, grants, the writer of a submission and the registry of prefixes |
| `MachineIdentity` | the commands that rewrite `config.json` and `credentials.json` |
| `MachineIdentityProofs` | theorems about `MachineIdentity` |
| `ServiceLifecycle` | `ensure_started`, `tracker start` and `tracker stop` |
| `ServiceLifecycleProofs` | theorems about `ServiceLifecycle` |
| `MCCtxfsStore`, `MCGrep`, `MCCtxfsService`, `MCTracker`, `MCMachineCredentials`, `MCServiceLifecycle`, `MCWriterAuthority` | instances for TLC (`MachineIdentity` needs none) |

### CtxfsStore

`catalog` is the committed database and `work` the open transaction. `fs` maps
each tree path and each journal name to the inode linked there, `objects` is the
set of files under `objects/`, `content` the bytes of an inode, reduced to their
hash. `pc` and the other control variables are the locals of `submit`, `_put`,
`_move_batch` and `_delete`. One action is one filesystem helper or one SQL
statement:

* `Accept` inserts the QUEUED row and remembers what the submission found;
  `Plan` and `RejectPlan` are the three planning functions;
* `PutUnchanged`, `PutObject`, `PutTree`, `PutOldPath`, `PutRow`, `PutRaises` are
  the branches of `_put`; `DeleteUnknown`, `DeleteTree`, `DeleteRow`
  those of `_delete`; `Decision` is `_decision`;
* `MoveBegin`, `BreakCycle`, `RekeyParked`, `MoveFile`, `MoveRow`,
  `MoveBatchDone`, `MoveRaises` are `_move_batch`;
* `Commit`, `UndoLast`, `MarkFailed`, `CleanupFirst`, `Return` are the tail of
  `submit`; `Undo` interprets a record of `undo_stack`, which stands for the
  closure that the helper pushed;
* `Fault`, `PutObjectTorn`, `UndoRaises`, `MarkFailedRaises`, `CleanupRaises` and
  `Crash` are exceptions and process death.

`before`, `trail` and `interrupted` are history variables; no action reads them
except to update them.

Left out: a journal link that a crash or a failed unlink leaves under a name
nothing refers to, and an empty directory that a death leaves behind; two submissions
at once; the text of errors and timestamps. A path is an opaque value; `Ancestors`
says which of them would have to be a directory of which. `DirectoryAssumption` keeps
such paths and lost files apart: after a crash or a failed undo the path of a document
without a file may have become a directory of other documents, and the store then
moves that directory when the document is moved (see Observations). While no file is
lost this cannot happen (a document's file stands at its path whenever a step starts),
and no undo closure can meet a directory in its way: run in reverse, closures pass
through trees that existed.

### Grep

A request goes through `Request`, the records of `consume_record` (`Skip`, `BeginFile`,
`RgError`, `TooLong`, `NeedSnapshot`, `Unverified`, `SeekAnchor`, `CollectLogical`,
`Collect`), the three reads of `_snapshot_grep_file` (`ReadFile`, `StatFile`, `ReadRow`,
or `ReadUnreadable`), and ends in `EndOfScan`, `Timeout` or `TimeoutEarly`. `ReadLate` is a
deadline that passes in `_snapshot_grep_file`, which catches its own `TimeoutError` as an
`OSError`: the page ends as a catalog mismatch without a cursor, or as an exception
(see Observations); `Timeout` is a deadline anywhere else in the scan. ripgrep is a
process of its own (`RgRead`) that listed the tree when it was launched and fills a pipe;
another thread's submission is `SubmitTree` and then `SubmitCommit` or `SubmitUndo`. The
client follows pages or stops, as the SDK and the MCP endpoint do. All five kinds of
cursor are there, those of the previous release as possible first cursors.

A path is its place in ripgrep's order, `Logical` its place in the catalog's; a line is
found by its number; a content stands for its hash. Patterns, globs, context lines, the
JSON of ripgrep and the encoding of cursors are left out. The candidates of a search in the
catalog's order are a sorted list with `bisect_right` (`Insertion`) and one element beyond
the page (`Inserted`), as in `consume_record`.

### CtxfsService

Three actors: writers (`RegisterPrefix`, `Enqueue`), the applier (`Pick`, `Apply` or
`ApplyRaises`, `Mark`) and the manager, who runs one deletion at a time (`Begin`,
`DeleteDecisions`, `ListQueued`, `DiscardOne`, `DiscardDone`, `UnlinkOne`, `DeleteRows`;
`DeleteQueued`, `Purge`, `RemoveTree` for a user; `Finish`). Each action is a transaction
or an unlink; `ApplierDies` and `ManagerDies` may come between any two. `store.submit` is
one step with the effect `Submitted`, which `CtxfsStore` was checked to have. Submissions are
ordered by `created_at`; equal times and clocks that are set back are left out.

### Tracker

`disk`, `mounted`, `closed`, `configured` belong to the user, `docs` to the store, `saved`
and `health` to the tracker. A sync goes through `Begin`, `ListFolder`,
`StatFile`, `ReadFile`, `FolderScanned`, `DropUnregistered`, `Submit` or
`SubmitRefused`, `SaveState` and `PersistHealth`. The listing, the stat and the
read of a file are separate steps, so that the user may act between any two.
A name lies in directories (`Above`), and the user may close any of them, the root
included (`closed`, `ToggleListable`): `rglob` takes a directory it may not list for an empty
one and raises nothing, so `ListFolder` lists only what is `Visible` and the scan stays
complete; a file whose directory was closed after the listing may fail its stat and read.
`RequestLost`, `AnswerLost`, `Crash` and `CrashInSave` are the faults. `Submit`
is the net effect of a batch, `Submitted`; it uses the store's planning
operators, and its effect on the documents is the one that `CtxfsStore` was
checked to have (moves at once, then puts), with the loss of the file on a move
to the path a document already has (finding `store_selfmove`). Files the tracker
skips (hidden, other suffix, too large) behave like deleted files and are not
told apart from them. Health is reduced to `last_result`.

### MachineCredentials

`row` and `bound` are the machines table of the catalog and its
`credential_key_id`, `creds` and `uses` the tables of the credential database,
`txn` what the open transaction makes of the latter two. A request lives in a
session of the server:

* `Verify` and `Admit` are the two unlocked reads of `authenticate_request`, first
  the credential database, then the catalog; `Verify` also has the scope a route
  asks for. Another request may run between them and before the call;
* `RegisterMachine` and `BindIssued` are `register`, up to and from the commit of
  `register_machine`; the binding is a catalog commit of its own, after the first;
* `Prepare`, `Confirm`, `ConfirmAgain` (its retry) and `RevokeMachine` are the other
  three calls, up to the end of their last catalog commit;
* `Refuse` is a call that raises before it changed anything;
* `Commit` ends `immediate_transaction`; `Abort` is an exception or the death of the
  server before that end: the catalog keeps its commits, `txn` is forgotten.

A death before the first catalog commit changes nothing and is a request that is never
served. `issued`, `via`, `orphaned` and `asked` are history variables; `issued` also makes
key ids fresh, as `secrets` does. The machine's id and its local registration id, which are
one to one, are one value. A key that is not in `creds` cannot be presented, since the token
is returned after the commit. Scopes and prefixes of machine keys are constant per machine
and left out; so is expiry, which machine keys do not have, and a transient refusal because
a database is locked. The clients are free: whoever received a key may send any request at
any time, any number of times.

### WriterAuthority

`Create`, `Revoke`, `BeginRotation` and `EndRotation` change the credential table;
`Arrive`, `Select`, `Insert` and `Answer` are a submission in a thread of the server,
from its principal to the insertion into `writer_prefixes`. `register_prefix` reads the
registered prefixes before its transaction holds the write lock, so the two are steps.

### MachineIdentity

Every read and every replacement of `config.json` and `credentials.json` is a step of the
process that runs a command: `LoadIdentity` and `SaveIdentity` (under the identity lock),
`ReloadConfig` (`configure_machine`), `LeaveIdentity`, `LockRegistration`, `Call`,
`LoadBundle` and `SaveBundle` (under the lock of `credentials.json`), `LoadConfig` and
`SaveConfig` (the folder and endpoint commands, under no lock), `Report`. `Die` is death
or an exception. A machine may start with a `config.json` copied from another one.

### ServiceLifecycle

A background process is an entry of `os` and is known to others only by its pid file and
its socket. `Probe`, `Kill`, `Cleanup`, `Unlink`, `Spawn`, `WritePid`, `Poll`, `GiveUp`
and `Abort` are `ensure_started` under `ctxfs.lock`; `CheckTracker`, `SpawnTracker`,
`WriteTrackerPid`, `StopTracker`, `StopCleanup` the tracker commands, under no lock;
`Check`, `Replace` and `Bind` are the server's own start, under no lock: it looks at the
socket path (`_validate_socket_target`), and only later, inside `uvicorn.run`, asyncio's
`create_unix_server` removes a socket that is there by then and binds the path. `Fail` is
its death or hang. `Replace` and the bind are external, modelled from what `uvicorn.run(uds=...)`
does. Process ids are not used again: `_pid_matches` compares the command line.

## 3. Runs

| Run | Expectation | Question |
|---|---|---|
| `store_batches` | pass | Does `submit` implement `CtxfsAtomic`, restore the files, leave nothing in `undo/` and stay in its prefix? Every batch of one or two operations and of up to three moves, also two moves and a put, on catalogs of up to three documents, beside another writer and around a directory, one exception anywhere: chains, swaps and 3-cycles are applied as if at once and refused only when they conflict |
| `store_crash` | pass | Three submissions that retry, continue or revert one another, one exception, one failing undo or cleanup, one crash: is the damage confined to the batches that were cut short? Does the inductive invariant hold? |
| `store_selfmove` | violation | A move repeated after it was applied |
| `grep` | pass | A search over three files beside a submission that commits or is undone, and one time-out: is a complete answer exhaustive, without repetition, and committed? |
| `tracker` | pass | Two folders, two edits at any point (a directory closed among them), one fault: the tracker's safety and convergence |
| `tracker_unlistable` | violation | A directory that may no longer be listed |
| `tracker_interrupted` | violation | A sync cut short, and the change taken back |
| `service` | pass | Two submissions, two deletions, one death or failure: does what was deleted stay deleted, do tree and catalog agree, does the later submission win, does a repeated one change nothing, does the queue drain? |
| `machine_credentials` | pass | Two machines, two enrollments and the admin, four requests two at a time, one of them lost between the commits of the two databases: is any machine locked out, any key left over, any enrollment used twice, any repeated registration refused? |
| `identity` | pass | Four commands in two processes, one death or failed read: one identity, no registration forgotten, no section of `credentials.json` lost, and every command ends? |
| `lifecycle` | pass | Five commands in three processes, two deaths, hangs or slow starts: one server, left alone by all but orphans; trackers known by their pid file? |
| `writer_rotation` | violation | A submission with the replacement of a rotated key |

**Bounds.** Planning and moves are about how at most three identities share at
most three paths: three are enough for a chain that must be reordered, a swap, a
3-cycle, and a third party in the way. Two operations give every pair of kinds.
Lists of moves name the documents in one order only: another order is the same list with
documents and paths renamed, on a catalog that is there too. `e` lies below `b`, so that a
directory may stand where a file is wanted.
`w2` and `d` exist so that a foreign prefix can be touched. Objects and journal
names are as many as a batch can create (one or two per operation and per cycle)
times the submissions of a behaviour, so uuid4 never runs out. One exception is
enough to reach every rollback, a second fault is in the undo or cleanup, and
three submissions allow crash, retry and a later batch.

In `Grep`, three files give one before, at and after a cursor, in two orders that
differ; contents have up to two matching lines, one of them too long for a record;
limits of one and two put the end of a page inside and between files; one write with its
commit or its undo may fall between any two reads, and one page may run out of time at
any record. (With two writes the run also passes; it takes minutes.) In `Tracker`, two edits
give an edit and its reversal, a rename and an overwrite, an edit of each folder,
and an unregistration after an edit; one fault lies anywhere between them. The
three versions are a text, the same text with other line ends, and another text;
the two names have different suffixes, since a move needs equal formats. One name lies in
the root and the other in a directory of it, so that a part or all of a folder may be hidden.

In `CtxfsService`, the two batches lie partly inside and partly outside of the subtree a
deletion may be asked for, and the second depends on the first; two deletions allow one that
died and its repetition. In `MachineCredentials`, four requests are the longest story that
matters: a registration, a rotation in two calls of which the second is lost, and its retry
or a second rotation; two sessions let a request go stale; four keys are as many as four
requests can issue; two enrollments and two contents of a request tell a retry from an
intruder. Machines, keys, enrollments, contents and sessions are interchangeable (symmetry);
all properties of that run are safety properties, and so are those of `lifecycle`, whose
commands are interchangeable too. `MaxIds` and `MaxPids` are as many as the commands of a
behaviour can use.

**Deadlock.** `CHECK_DEADLOCK FALSE` in all runs but the tracker's: a store, a server, a
queue or a search nobody calls (here: when the bound on submissions, requests, commands or
pages is used up) does stop. The tracker polls for ever and its run checks for deadlock.

**Fairness.** `Spec` of `Tracker` assumes weak fairness of `Poll`: `run_forever` catches
what `sync_once` raises and polls again. `Crash` is death and restart in one; that someone
starts the tracker again (`ctxd tracker start`) is assumed, the repository has no
supervisor. `Spec` of `CtxfsService` assumes weak fairness of the applier, which `drain`
loops over and whoever calls it starts again; `ApplyRaises` and `Mark` show that a bad
submission does not stop it. `Spec` of `MachineIdentity` assumes weak fairness of each
process: a command that runs goes on running, and waits only for locks. `CommandsEnd` then
says that the locks are never waited for in a circle. No fairness is assumed of users,
clients, deletions or faults.

**What the passing runs exempt.** The properties speak of histories outside these cases,
each of which a violation run, a hazard or an observation below names. The hazards
that `raced` (lifecycle), `stale` (identity) and `twice` (tracker) stand for have no property:
the code does nothing against them, and the properties are about the other histories:

* store: `SelfMoves = FALSE`, since a move to the path its document already has loses
  the file (`store_selfmove`);
* tracker: `torn` (the state file was lost in `write_text` and counts as empty, so documents
  of deleted files stay; every file is still indexed), `raced` (an edit after a batch was
  accepted and before the state file was written, see `tracker_interrupted`), `twice` (one
  scan met an inode under two names; `DeletesOnlyUnlisted` does not exempt it), `refused`
  (the store refused a batch; besides the case below, a chain such as `2.md` to `3.txt` and
  then `1.md` to `2.md` is refused at every poll: the change of suffix makes the first a
  put, and puts come after moves);
* service: `held` (a submission that was in the applier's hand when the deletion began),
  `raced` (one applied while a deletion ran), `halved` (a deletion died between the files
  and the rows) and repeated moves;
* identity: `clobbered` (a command without the lock saved an overtaken copy of `config.json`)
  and `stale` of the very process that saves (its copy was overtaken or misread);
* lifecycle: `orphans` (the starter died before it wrote the pid file; in
  `ReadyStaysHealthy` one that removes the socket of the ready server, see below), `raced`
  (two tracker commands at once);
* grep: a `file_start` cursor, see below, in the part of `PagesFit` about repetition.

## 4. Findings and observations

Findings, each shown by a run:

1. `store_selfmove` (`store.py:2055`): a repeated move is taken for a cycle of
   length one; the file is parked in `undo/`, never brought back, and the
   submission is APPLIED.
2. `tracker_interrupted` (`tracker.py:139`): a change accepted in a sync that
   failed later and then taken back is never reconciled.
3. `tracker_unlistable` (`tracker.py:366`): `rglob` passes over a directory it may not list
   in silence, the scan counts as complete, and the documents below it are deleted, which
   `local-tracker.md` rules out. `DeletesOnlyUnlisted` says what the code does keep to.
4. `writer_rotation` (`local_ctxfs_server.py:466`): the writer is derived from the key id
   and its prefix stays registered, so every submission with a rotated key is refused.

Observations made while modelling. The first two go against a sentence of the repository
and can be found as behaviours of the models (`ReadLate`; `Replace`), but have no run of
their own; the others have no such sentence to be held against:

* grep, `store.py:1795`: `_snapshot_grep_file` catches its own `TimeoutError` as an
  `OSError`. A deadline that passes while a file is verified ends the page as a catalog
  mismatch without a cursor, or the request as a stale cursor, where `ctxfs.md` promises
  `timeout`; the handlers of `TimeoutError` around the calls (1457, 1498) are dead code.
* lifecycle, `local_ctxfs_service.py:242`: the socket path is looked at before `uvicorn.run`
  binds it, and the bind removes a socket that is there by then. A server whose starter died
  before it wrote the pid file, if it is late, takes the socket of one that answers already,
  although `_validate_socket_target` says "Never replace ... live socket implicitly".
* store, `store.py:2000`: after a crash between the renames and the commit, the retry of a
  chain of moves takes the file that arrived for the one that has to leave, and is APPLIED;
  `DamageIsConfined` says the harm stays in that batch. `store.py:2518`: after such a crash
  a put of unchanged content under a new path raises FileNotFoundError at every retry.
* store, `store.py:2000` and `2518`: when the path of a document whose file is lost has
  become a directory of others, `exists()` is true of the directory, and the document's next
  move renames it with all that is below (not modelled, `DirectoryAssumption`).
* tracker, `tracker.py:101`: while a file is unreadable, deletions are withheld and renames
  are not; a rename onto the path of a deleted file is then refused at every poll.
  `tracker.py:436`: a hard link in a tracked folder makes its document move to and fro
  between the two names.
* service: a queued decision about a deleted source key whose path lies elsewhere is kept,
  while the stored ones are deleted by key; taking some operations out of a submission can
  make a later one fail that relied on them; `_mark_applied` overwrites DISCARDED. A
  submission that writes one source twice (moves it and puts it, or leads it by way of a path
  that it then gives to another) may be marked FAILED when it is applied again, although its
  first application stands; so may a batch of decisions whose writer's grants are gone.
  `RepeatChangesNothing` is of the other batches.
* identity: a folder or endpoint command that saves an overtaken `config.json` can drop the
  machine section or put an old one back, and the machine gets a new identity; an unreadable
  `config.json` counts as an empty one.
* lifecycle: a server whose starter died before writing the pid file may answer in place of
  the one started later.
* grants: two keys with nested prefixes refuse one another's submissions, whichever comes
  second.
* grep: a `file_start` cursor of the previous release whose page runs out of time after the
  first record is replaced by the start of the search, so matches are answered again. Such
  cursors are resumed in the order of the disk, the other old ones in that of the catalog.
  A match that ripgrep found in an older version of a file is dropped when the file has
  changed since; only unchanged files are promised.

## 5. Proofs

`CtxfsStoreProofs` proves, for any sets of writers, keys, paths, hashes, objects
and journal names, any batches and any number of submissions, faults and crashes:

* `JournalInvariant`: `Spec => []JournalSound`;
* `TypeCorrect`: `Spec => []TypeOK`;
* `RollbackRestores`: `Spec => []RollbackRestoresFiles`. When a failed submission
  has run its undo closures and none of them raised, tree, journal directory and
  objects are what it found.

**Argument.** `RollbackRestoresFiles` speaks of the moment when `undo_stack` is
empty and is not inductive. `JournalSound` says what holds on the way:

* `TypeOK`;
* `Distinct(fs)`: no inode has two links among tree and journal. Needed because
  POSIX ignores a rename between two links of one inode: with two links, undoing
  a rename would not be its inverse;
* `LocalsSound`: what each step of `_put` and `_move_batch` may assume of the
  locals an earlier one set, for example that the object about to be linked into
  the tree has no link there yet (which keeps `Distinct`);
* `TrailSound`: `trail[i]` is the filesystem before record `i` was pushed, and
  undoing record `i` leads from `trail[i + 1]` to `trail[i]`; the last record
  leads from the present `fs`, and `trail[1]` is what the submission found;
* `ObjectsSound`: the objects present are those found plus those that some record
  of `undo_stack` will remove, each of them once.

Lemmas state, for each filesystem helper, that it keeps `Distinct` and that the
record it pushes is its inverse; one lemma covers "a helper ran and pushed one
record"; one per action shows the invariant kept. `TypeOK` leaves `ops`, `todo`
and `moves` untyped, since the argument uses nothing about them that the guards
do not give; `PlanSound` below types them.

On top of it, for the same constants and batches of any length:

* `CatalogInvariant`: `Spec => [](JournalSound /\ CatalogSound)`;
* `CatalogPathsUniqueAlways`: `Spec => []CatalogPathsUnique`;
* `OnlyOwnPrefixAlways`: `Spec => OnlyOwnPrefix`, an action property;
* `JournalEmptyAlways`: `Spec => []JournalEmptyAtRest`, if `~SelfMoves`;
* `DamageIsConfinedAlways`: `Spec => []DamageIsConfined`, if `~SelfMoves`;
* `ImplementsAtomicBatchAlways`: `Spec => ImplementsAtomicBatch`, if `~SelfMoves`,
  `MaxCrashes = 0` and `MaxUndoFaults = 0`: the refinement of `CtxfsAtomic`.

**Argument.** `CatalogPathsUnique` speaks of the committed rows, and a commit may bring
anything; `RowsSound` says of `work` what it says of `catalog`. While the moves of a batch
are under way a row may be re-keyed to the journal: `PlacedOrParked` allows that only while
the move of that row is still to come, so nothing is parked when `_move_batch` ends.
`ParkingSound` is what parking needs: the files of one cycle get distinct names, and the
rows that `RekeyParked` will re-key are rows of the batch. `PlanSound` keeps the
operations of the plan within the grant once they were checked. For `OnlyOwnPrefix`,
`RecordsSound` says that every undo closure names only paths of the writer and of the
journal; each step then changes nothing elsewhere (`StaysOwn`), and neither does the
rollback.

`JournalEmptyAtRest` has an account of its own. `LeftoversSound`: as long as nothing
crashed and no undo or cleanup failed, each file in the journal is the backup of a cleanup
record or parked with its move ahead, and the journal the submission found was empty. A
commit leaves backups only, and the cleanup unlinks each; a rollback restores what was
found, by `TrailSound`. That parked files all leave the journal needs `AheadSound`: moves
come before puts and after deletes in what is left to do, all moves are in one batch, and
none names the path its row has. The last is the hypothesis `~SelfMoves`. The code does
not ensure it: it is what run `store_selfmove` shows to be necessary, and what the passing
runs assume.

`DamageIsConfined` speaks of documents that no interrupted batch named, at rest; `DamageSound`
says where the file of each is on the way there. `FoundSound`: the committed rows are intact
in the files to go back to, and those that the batch does not name are intact in the files
there are, at every step, so that a crash or a failed undo harms the batch's own documents at
most; no undo closure names a path of the others, and no inode of the files found loses its
last link before the rollback, so that the id of a new object is none of theirs. `ApartSound`:
no operation of the plan names a path of a document that the batch does not name. That is what
the simulation is for, and `PreflightApart` proves it of the loop of `_preflight_submission`,
for batches of any length. `ApplySound` and `MovingSound`: between any two helpers each row of
the transaction has its file where the next statement or rename looks for it, except the one
whose path the running operation is taking, which the primary key then refuses. Moves are of
different sources (`OrderedOnce`), so a row that was moved is not moved again. The order of
the moves is not needed: in a wrong order the primary key would refuse the batch, not harm it.

`ImplementsAtomicBatch` needs two things more, `AtomicSound`. `EffectSound`: applied to the
rows of the transaction, what is left of the plan gives for each key what the whole batch
gives for it on the committed rows (`Leads`); for a move under way, whose row may be parked,
what its operation writes and the rest of the plan give. Each operation hands its part over
from the plan to the rows: a put because nothing but puts and decisions follows it, a delete
because moves and puts follow it, the moves all at once because each is of another source.
At the start the plan is the batch in another order, and `OrderedOutcome` shows that the
order keeps the last put, the move and the deletes of each key (`EndsWith`, the last element
of a list in a set, is the notion that makes this provable without an induction over lists).
`TidyFound` and `TidyNow`: no file of the tree is without a row, the converse of
`DamageSound`; together they make the tree the view of the rows (`ViewOfDocs`). Then a commit
is `Apply`, the FAILED update after a rollback is `Refuse`, and `Working` sums up all other
steps of a submission: they change neither the committed rows nor the bytes of a file it
found. The hypotheses are those of the runs that check the refinement: after a crash or a
closure that raised, the tree may differ from the catalog (`store_crash` says how far), and a
move onto its own path may lose its file (`store_selfmove`). Exceptions of helpers and
statements, the FAILED update included, are not excluded.

**Assumptions.** `BatchesAssumption` (a client submits lists of operations),
`GrantsAssumption` (prefixes of two writers share no path, which `register_prefix`
enforces, save for two first submissions at once), `StoreAssumption` (names of different
sorts differ, and the absent value is no row and no document), `DirectoryAssumption`
(section 2) and `InitRowsAssumption` (the store is opened on a catalog it wrote: no path and
no object twice, paths under the writer's prefixes). TLC evaluates them in the store runs.

`MachineCredentialsProofs` proves, for any sets of machines, keys, enrollments,
contents and sessions and any number of requests and losses:

* `CredentialsInvariant`: `Spec => []CredentialsSound`;
* `NeverLockedOutTheorem`, `OneOtherKeyTheorem`, `EnrollmentTheorem`: the three
  state properties of the run;
* `RetryAcceptedTheorem`: `Spec => RetryAccepted`, its action property.

**Argument.** `NeverLockedOut` and `OneOtherKey` speak of committed tables, and a
commit may bring anything. `CredentialsSound` therefore says of `txn` what it says
of `creds` and `uses` (`TablesSound`, `TransactionSound`), under the binding the
catalog has already; `Commit` then has nothing left to show, and neither has
`Abort`. `KeysSound`, its heart, adds to `OneOtherKey` that a replacement prepared
for the bound key, even for one that does not exist, leaves no third active key:
without it `Confirm` could not make the replacement the bound key and stay sound.
`Drawn` (ids are drawn before use) makes a new key nobody's predecessor, and
`InLedger` ties the machine of each key issued under an enrollment to the ledger,
which `Consumable` reads. `OneOwner` (no key is bound to two machines) shows that
what is revoked for one machine is bound by no other. Types and the lock are part
of the invariant. One lemma per action, and below them lemmas about `Revoked` and
`WithKey`. `RetryAccepted` compares a refusal with all that was ever asked, so it rests on a
second invariant, `AskedSound`: each row of the machines table and of the ledger, committed
or in the open transaction, and each request in hand says what some request in `asked`
said. `RefusedAsked` then finds, for each way `MayRegister` can fail, the request that the
row in its way came from.

**Assumptions.** `CredentialsAssumption` and `NoneAssumption`: the names of keys,
enrollments, the admin and the absent value differ, and the bounds are numbers.

`CtxfsServiceProofs` proves, for any writers, grants, batches of any length, submissions,
deletions, deaths and failures:

* `ServiceInvariant`: `Spec => []ServiceSound`, and `ServiceTyped`: `Spec => []TypeOK`;
* `DeletedStaysDeletedAlways`: `Spec => []DeletedStaysDeleted`;
* `LatestAlwaysWins`: `Spec => LatestWins`, an action property;
* `TreeInvariant`: `Spec => [](ServiceSound /\ TreeSound)`, and `TreeMatchesCatalogAlways`:
  `Spec => []TreeMatchesCatalog`;
* `RepeatChangesNothingAlways`: `Spec => RepeatChangesNothing`, an action property, where
  every batch writes each source with one operation.

**Argument.** `DeletedStaysDeleted` speaks of deletions that have returned. On the way,
`ScopeSound` says what the running one has settled: from each stage on, one more of the
places from which something of its scope could come back (the decisions, the queue, the
rows, the applier's hand) holds nothing it answers for. At `Finish` all are clean, and
`BarredSound` keeps them so: an application writes only what its operations name, and none
of those in the queue or in hand names anything of a finished deletion's scope.
`OrderSound` (what was applied is not later than what is queued or in hand) gives
`LatestWins`. For the tree, `PlacesSound` says that documents lie at distinct paths in
their writers' grants, so that a file belongs to one document; `RowsSound` that a deletion
unlinks the files of the rows it will delete and of no others; `FilesSound` is the property
itself. `PlacesSound` needs to know what the planner accepts: that `OrderedOperations`
leaves no operation out (`OrderedHolds`, through the depth-first visits), that the
simulation of `_preflight_submission` looks at every one of them (`PreflightHolds`), and
that the puts and moves of an accepted batch lie in the grant (`SubmittedIsGranted`).

That a repeated submission changes nothing rests on two facts about the plan of a batch,
and on an invariant in between. `SubmittedDone`: an accepted batch leaves each document as
the one operation on it says. `SubmittedAgain`: a batch that finds every document like that
is accepted (the simulation of `_preflight_submission` allows each operation and stays as it
is, the deletes and moves find their documents settled, no put finds its path taken) and is a
fixed point. `RepeatSound` says that what a submission left still stands when it is taken up
again: later submissions wait behind it (`EffectsSound`); the row in the queue has at most
lost operations since (`RowTrimmed`, `RowsOnce`); what it wrote is as it left it, and its
writer may still write (`Standing`). For a deletion that runs meanwhile, `QueueSpared` and
`HandSpared` say that it has no business with what is left in the queue once it is through
with it, and `ReadRows` that the documents it read at its start are where it read them, so
that what it removes by source key lies in its scope (`SparedUntouched`).

**Induction over lists.** These facts are about folds over batches of any length. The
induction theorems of the library take an operator as parameter, which the provers cannot
instantiate; `CtxfsOrderProofs` therefore argues by the least counterexample
(`LeastNatural`, from the well-foundedness of `<`): a loop that starts in a set and whose
body stays in it ends in it (`Accumulates`). The loops of the planner are recursive
functions for that reason.

**Assumptions.** `ServiceAssumption`: grants of two writers share no path; a batch is a list
of operations; names of different sorts, the absent value among them, differ.
`DeletionAssumption`: so does the record of a deletion from the absent value.
`RepeatChangesNothingAlways` assumes `OncePerSource` of the batches, and only this theorem:
the tracker makes one operation for each inode it meets, so it holds unless a file has two
tracked names. It cannot be dropped: the batch put k1 at a, put k1 at b, put k2 at a is
accepted once and refused when it is repeated.

`GrepProofs` proves, for any finite set of files, any contents, any order of the catalog,
any page limits, and any number of pages, concurrent submissions and time-outs (those in
`_snapshot_grep_file` included):

* `GrepInvariant`: `Spec => []GrepSound`, and `GrepTypes`: `Spec => []TypeOK`;
* `ExhaustiveAlways`: `Spec => []Exhaustive`;
* `PagesFitAlways`: `Spec => []PagesFit`;
* `CompleteIsCommittedAlways`: `Spec => []CompleteIsCommitted`.

**Argument.** The three properties speak of a search that has ended or of what it has
answered; `GrepSound` follows a match on its way there. `CoverSound` is its heart: of a file
that stayed as it was, each match beyond the cursor is on the page, in the pipe, in a file
that ripgrep has yet to read, or excused, because the page is full of earlier ones or
because the cursor's match is gone (and then the scan fails at its end). So nothing is
missing when pipe and files are used up. `AheadSound` says that all still to come is beyond
all that was passed, which is why a page may stop anywhere with a cursor at its last match;
`PipeSound` that the pipe is in ripgrep's order. `PageSound` is what the page has and where it
resumed, for each of the five kinds of cursor; for those of the previous release the file
they name is looked at first (`anchor`), and its snapshot must still be the one at hand when
its records come. `MismatchSound`: what is on the page was in the catalog, or the page
remembers that it may not have been, in a cursor too. Between two pages `ClientSound` says
that the next cursor continues what was answered (`Follows`: what is owed was answered or
lies after the cursor; the content of the cursor's file is the one answered) and asks for
nothing that was not owed (`Within`), up to the one case in which a `file_start` cursor is
lost to a time-out (`StartedOver`). `PhaseSound` says which locals go with which step, and
`StoreSound` that the file being written is counted as touched. The lemmas on lists (what
`bisect_right` finds, what `Keeping` keeps in turn, what a consumed record leaves) are
stated once, here and in `CtxfsOrderProofs`.

**Assumptions.** `GrepAssumption`: files are finitely many and numbered in ripgrep's order,
the catalog's order is strict, a content is a list of lines, a page holds at least one match
(`match_limit`). `RecordAssumption`: the absent value is none of the records. Pages and
time-outs are counted by the model for TLC only; the theorems hold for every bound.

`TrackerProofs` proves, for any finite sets of folders, inodes and names, any contents, and
any number of edits, lost requests, lost answers, deaths and torn state files:

* `TrackerInvariant`: `Spec => []TrackerSound`, and `TrackerTypes`: `Spec => []TypeOK`;
* `StateFileMatchesStoreAlways`: `Spec => []StateFileMatchesStore`;
* `SuccessIsCurrentAlways`: `Spec => []SuccessIsCurrent`;
* `SeenInvariant`: `Spec => []SeenSound`, and `DeletesOnlyUnlistedAlways`:
  `Spec => DeletesOnlyUnlisted`, an action property.

**Argument.** Both state properties speak of the end of a sync; `TrackerSound` follows a
file through it. `Due(f, i)` is what takes the document of a file from the entry of the
state file to what the scan found: nothing, a put, a move or a delete. `BatchesSound` says
that a batch holds, about each file of its folder, just what is due, that folders already
scanned without a batch owe nothing, and that a batch of an incompletely scanned folder
deletes nothing, which is half of the action property. The other half is `SeenSound`: what
may be listed is listed, and what was listed is found or makes the folder `partial`, so
that, while the user rests, a delete is never of a file with a name that may be listed,
however many names it has. A batch that the store accepts brings each document to what was
found (`OutcomeHolds`, from what `Submitted` does to the documents), *if* the document was
what the state file says or already what is asked for. That is `Backed`: the store has of a
file what the state file has, or what a scan of the disk as it is would find (`Targets`,
while `ahead`: a batch was accepted and the state file not written since), or what this sync
has found (while it submits). An edit while `ahead` breaks it, whence the exception `raced`.
`ScanSound` closes the circle: with no edit since the sync began, what was found is in
`Targets`, which has one element (a second name of a file sets `twice`), so batches accepted
before a sync was cut short are asked for again by the next. `VisitSound` is the same for
the folder whose scan is under way: what was visited is in `current`, and `partial` tells
whether something could not be read. `Vouched` is `SuccessIsCurrent` in terms of `Targets`,
and holds through later syncs that fail, because these too submit only what is on the
undisturbed disk. `PhaseSound` says which locals go with which step. One lemma per action;
those that end a sync share three (`ResetSound`, `FailSound`, `InterruptedBacked`), the
edits one (`EditedSound`).

**Assumptions.** `TrackerAssumption`: folders, inodes and names are finitely many, names are
numbered in sort order, each lies in some of the directories, a file has one content under all
its names at the start, and the absent value is no name and no record.

`MachineIdentityProofs` proves, for any processes, endpoints, folders, commands and faults:

* `IdentityInvariant`: `Spec => []IdentitySound`, and `IdentityTyped`: `Spec => []TypeOK`;
* `OneIdentityAlways`, `RegistrationRememberedAlways`: the two invariants of the run;
* `CredentialsKeptAlways`, `ConfigKeptAlways`: the two action properties.

**Argument.** `LocksAt` says which locks a command holds at which step, `LocalsAt` what its
locals are when it uses them, and that the copy of `credentials.json` it is about to save is
the file: the lock makes it so, and `CredentialsKept` follows. For `config.json`, which has
no lock, `CopyAt` says the same up to the command's own section (`OwnSection`) unless that
process's copy is `stale`; `ConfigKeptUnlessOvertaken` is read off it for the process that
saves. `HeldIsSaved` is `OneIdentity` with the moments in between: nobody holds an identity
while a new one is being saved and proved. `UnsavedUnknown` and `IdsDrawn` make a new
identity one that no server, file or process knows. `RegistrationStored` says that a request
is in `credentials.json` before it is sent, which is why the server never knows more.

**Assumptions.** `IdentityAssumption`, `RecordAssumption`: the absent value is no number
and no record; bounds are numbers.

`ServiceLifecycleProofs` proves, for any number of commands, processes, deaths and hangs:

* `LifecycleInvariant`: `Spec => []LifecycleSound`, and `LifecycleTyped`: `Spec => []TypeOK`;
* `OneServerAlways`, `ReadyStaysHealthyAlways`, `TrackerIsNamedAlways`.

**Argument.** `PidFileSound` is what a command inside `ensure_started` knows because it has
the lock: before the start of a new server the old one is dead, afterwards the pid file
names the new one. With `ServersNamed`, every server but the orphans is the one that the
file names or that the holder of the lock is about to name, so there is one. `ReadySound`:
while the server is ready nobody is replacing it under the lock, and who takes it finds the
server healthy; a server that is about to remove or bind a socket meanwhile is, by
`ServersNamed`, an orphan, which is where `ready` ends (`StaysReady`).
`CommandsSound` and `TrackersNamed` do the same for the tracker, without a lock, up to the
first overlap of two tracker commands.

**Assumptions.** `LifecycleAssumption`: the absent value is no process id and no command.

**Only model-checked**: the liveness properties `MirrorsAgain`, `QueueDrains` and
`CommandsEnd` (liveness under fairness is beyond the prover), and `RefusesOnlyConflicts`
(that the order found for the moves of a chain or a cycle frees each destination in time is
an induction over the walks of `_move_cycles`).

## 6. Plan

Done, in this order: the store with its abstract specification and the proof of its
rollback; the tracker; the machine keys with the proof of their invariant; the service; the
writers and their prefixes; identity, configuration and processes; the search; the proofs
about processes, identity and the service; those about the catalog and the journal of the
store; those about the search; those about the tracker; the refinement of `CtxfsAtomic`;
the repetition of submissions.

Left:

1. Two submissions at once in `CtxfsStore`: plans made before the write lock is held.
2. Names of paths in `CtxfsStore`, so that the rename of a directory can be stated and
   `DirectoryAssumption` dropped.

Not modelled: the other reads (they change nothing; what they show is stated on the tree
itself), migrations (single transactions), `register_folder` and metadata updates (single
statements), pydantic validators, HTTP wrappers, argument parsing and formatting of the CLI
and the MCP server, regular expressions.

## 7. Running

    tlc -workers 2 -config MCStoreCrash.cfg MCCtxfsStore
    tlc -workers 2 -config MCMachineCredentials.cfg MCMachineCredentials
    tlapm CtxfsStoreProofs.tla
    tlapm MachineCredentialsProofs.tla
    tlapm TrackerProofs.tla
    tlapm CtxfsOrderProofs.tla
    tlapm CtxfsServiceProofs.tla
    tlapm GrepProofs.tla
    tlapm MachineIdentityProofs.tla
    tlapm ServiceLifecycleProofs.tla
