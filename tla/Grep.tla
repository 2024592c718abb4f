-------------------------------- MODULE Grep --------------------------------
(***************************************************************************)
(* The search of the store (CtxfsStore.grep, src/ctxfs/store.py) and the   *)
(* clients that follow its pages (CtxfsFilesClient.grep in                 *)
(* ctxd/ctxfs_client.py and _execute_ctxfs_grep in                         *)
(* ctxd/local_ctxfs_server.py).                                            *)
(*                                                                         *)
(* One search is a chain of requests.  Each starts ripgrep over the tree,  *)
(* takes its records from a pipe, looks at every matching file a second    *)
(* time (_snapshot_grep_file), and answers with a page of matches and a    *)
(* cursor; the next request scans again and skips what the cursor says was *)
(* answered before.  Nothing is locked meanwhile: another thread submits   *)
(* and the files, the catalog and the pipe may tell of different moments.  *)
(*                                                                         *)
(* A path is its position in the order of `rg --sort path` over the tree;  *)
(* Logical is the order of the catalog, which differs when one path is a   *)
(* directory prefix of another.  A content is the sequence of its lines,   *)
(* all of one length, so that a line is found by its number; the content   *)
(* stands for its hash.                                                    *)
(***************************************************************************)
EXTENDS Naturals, Sequences, FiniteSets, FiniteSetsExt, SequencesExt, Iteration

CONSTANTS
    Paths,          \* the files under the prefix, numbers in the order ripgrep reads them
    Logical,        \* the place of each of them in the order of the catalog
    Contents,       \* the contents a file may have, sequences of lines
    Needles,        \* the lines the pattern matches
    Oversized,      \* the lines whose record exceeds GREP_MAX_JSON_RECORD_BYTES
    Limits,         \* the limits a client may ask for
    InitStores,     \* what the search may find: the contents of the files and of the rows
    MaxPages,       \* _GREP_MAX_TRANSPORT_PAGES
    MaxWrites,      \* bound on the submissions of other threads
    MaxTimeouts,    \* bound on the pages that run out of time
    None

ASSUME GrepAssumption ==
    /\ Paths \subseteq Nat \ {0} /\ IsFiniteSet(Paths)
    /\ Logical \in [Paths -> Nat] /\ \A p, q \in Paths : p # q => Logical[p] # Logical[q]
    /\ Contents \subseteq Seq(STRING)
    /\ InitStores \subseteq [texts : [Paths -> Contents \cup {None}],
                             rows : [Paths -> Contents \cup {None}]]
    /\ Limits \subseteq Nat \ {0} /\ None \notin Paths /\ None \notin Contents
    /\ MaxPages \in Nat /\ MaxWrites \in Nat /\ MaxTimeouts \in Nat

\* A file of the tree, a cursor, a match, what _snapshot_grep_file returns, a record of
\* ripgrep, ripgrep itself, a submission under way, a snapshot under way, and why a page
\* ends early.
Files     == [text : Contents, id : Nat]
Cursors   == [mode : {"search_start", "after_match", "v2_after_match", "legacy_after_match",
                      "file_start"},
              path : Paths \cup {None}, text : Contents \cup {None}, line : Nat, mismatch : BOOLEAN]
Matches   == [path : Paths, line : Nat, text : Contents]
Snapshots == [path : Paths, text : Contents \cup {None}, mismatch : BOOLEAN, verified : BOOLEAN]
Events    == [kind : {"begin", "match", "error"}, path : Paths, line : Nat,
              seen : STRING \cup {None}]
Processes == [todo : SUBSET Paths, pipe : Seq(Events)]
Writing   == [path : Paths, text : Contents \cup {None}, old : Contents \cup {None}]
Reading   == [path : Paths, file : Files, stable : BOOLEAN]
Reasons   == {"limit", "timeout", "max_bytes", "catalog_mismatch"}

ASSUME RecordAssumption ==
    /\ None \notin Files /\ None \notin Cursors /\ None \notin Matches /\ None \notin Snapshots
    /\ None \notin Processes /\ None \notin Writing /\ None \notin Reading /\ None \notin Reasons

VARIABLES
    tree,       \* the files: content and stat identity, or None
    rows,       \* entries.content_hash, or None
    write,      \* the submission of another thread between its renames and its commit
    client,     \* the caller: limit, cursor, items, pages asked for, state
    pc,         \* where the request is
    scan,       \* the locals of _grep_tree_target
    rg,         \* ripgrep: the files still to be read and its pipe; None when not running
    snap,       \* the locals of _snapshot_grep_file
    touched,    \* history: the paths whose file changed since the search began
    committed,  \* history: the contents the catalog had for a path since then
    writes, timeouts

vars == <<tree, rows, write, client, pc, scan, rg, snap, touched, committed, writes, timeouts>>
store == <<tree, rows, write, touched, committed, writes>>

-----------------------------------------------------------------------------
(* Cursors and matches *)

Matching(text) == {i \in DOMAIN text : text[i] \in Needles}

Cursor(mode, path, text, line, mismatch) ==
    [mode |-> mode, path |-> path, text |-> text, line |-> line, mismatch |-> mismatch]

SearchStart(mismatch) == Cursor("search_start", None, None, 0, mismatch)
\* Faulty variant: the next page does not know of the mismatch.
AfterMatchForgets(mode, m, mismatch) == Cursor(mode, m.path, m.text, m.line, FALSE)
AfterMatch(mode, m, mismatch) == Cursor(mode, m.path, m.text, m.line, mismatch)

\* A cursor of the previous release knows nothing of mismatches.
OldCursors(texts) ==
    UNION {{Cursor("v2_after_match", p, texts[p], i, FALSE) : i \in Matching(texts[p])}
               \cup {Cursor("file_start", p, texts[p], 0, FALSE)} :
           p \in {q \in Paths : texts[q] # None}}

\* legacy_logical_resume and legacy_file_start.
InLogicalOrder(cursor) == cursor # None /\ cursor.mode \in {"v2_after_match", "legacy_after_match"}
FromFileStart(cursor)  == cursor # None /\ cursor.mode = "file_start"

Before(m, n) ==
    \/ Logical[m.path] < Logical[n.path]
    \/ m.path = n.path /\ m.line < n.line

\* bisect_right: the place behind every candidate that m does not come before.
Insertion(s, m) ==
    CHOOSE k \in 1 .. Len(s) + 1 :
        /\ \A i \in 1 .. k - 1 : ~Before(m, s[i])
        /\ \A i \in k .. Len(s) : Before(m, s[i])

\* Faulty variant: no candidate is kept beyond the page.
InsertedWithinPage(limit, s, m) ==
    LET t == InsertAt(s, Insertion(s, m), m)
    IN  IF Len(t) > limit THEN Front(t) ELSE t

\* legacy_candidates: those found so far, in the order of the catalog, but no more
\* than one beyond the page.
Inserted(limit, s, m) ==
    LET t == InsertAt(s, Insertion(s, m), m)
    IN  IF Len(t) > limit + 1 THEN Front(t) ELSE t

-----------------------------------------------------------------------------
(* The search begins; what it finds *)

\* A file of the tree; its id stands for inode, size and times.
File(text, id) == IF text = None THEN None ELSE [text |-> text, id |-> id]

IdleScan ==
    [resume |-> None, anchorFound |-> FALSE, replayed |-> FALSE, mismatch |-> FALSE,
     anchor |-> None, active |-> None, last |-> None, matches |-> <<>>, candidates |-> <<>>]

\* A file without a row, or with another content than its row, is what a crash
\* inside submit leaves behind.
Init ==
    \E found \in InitStores, limit \in Limits :
        /\ tree = [p \in Paths |-> File(found.texts[p], 0)]
        /\ rows = found.rows
        /\ \E cursor \in OldCursors(found.texts) \cup {None} :
               client = [limit |-> limit, cursor |-> cursor, start |-> cursor,
                         items |-> <<>>, pages |-> 0, state |-> "asking"]
        /\ committed = [p \in Paths |-> {rows[p]} \ {None}]
        /\ write = None /\ touched = {} /\ writes = 0 /\ timeouts = 0
        /\ pc = "client" /\ scan = IdleScan /\ rg = None /\ snap = None

-----------------------------------------------------------------------------
(* Another thread submits: renames first, then the commit or the undo *)

TextAt(p) == IF tree[p] = None THEN None ELSE tree[p].text

SubmitTree(p, text) ==
    /\ write = None /\ writes < MaxWrites
    /\ text # TextAt(p)
    /\ write' = [path |-> p, text |-> text, old |-> TextAt(p)]
    /\ tree' = [tree EXCEPT ![p] = File(text, 2 * writes + 1)]
    /\ touched' = touched \cup {p}
    /\ writes' = writes + 1
    /\ UNCHANGED <<rows, client, pc, scan, rg, snap, committed, timeouts>>

SubmitCommit ==
    /\ write # None
    /\ rows' = [rows EXCEPT ![write.path] = write.text]
    /\ committed' = [committed EXCEPT ![write.path] = @ \cup ({write.text} \ {None})]
    /\ write' = None
    /\ UNCHANGED <<tree, client, pc, scan, rg, snap, touched, writes, timeouts>>

SubmitUndo ==
    /\ write # None
    /\ tree' = [tree EXCEPT ![write.path] = File(write.old, 2 * writes)]
    /\ write' = None
    /\ UNCHANGED <<rows, client, pc, scan, rg, snap, touched, committed, writes, timeouts>>

-----------------------------------------------------------------------------
(* ripgrep, reading the files it listed one after the other *)

Launch == rg' = [todo |-> {p \in Paths : tree[p] # None}, pipe |-> <<>>]

Records(p) ==
    LET text  == tree[p].text
        lines == [i \in 1 .. Len(text) |->
                     [kind |-> "match", path |-> p, line |-> i, seen |-> text[i]]]
    IN  <<[kind |-> "begin", path |-> p, line |-> 0, seen |-> None]>>
            \o Keeping({ev \in ToSet(lines) : ev.seen \in Needles}, lines)

\* A listed file that is gone is an error message in the pipe.
RgRead ==
    /\ rg # None /\ rg.todo # {}
    /\ LET p   == Min(rg.todo)
           new == CASE tree[p] = None ->
                           <<[kind |-> "error", path |-> p, line |-> 0, seen |-> None]>>
                    [] tree[p] # None /\ Matching(tree[p].text) = {} -> <<>>
                    [] OTHER -> Records(p)
       IN  rg' = [todo |-> rg.todo \ {p}, pipe |-> rg.pipe \o new]
    /\ UNCHANGED <<store, client, pc, scan, snap, timeouts>>

-----------------------------------------------------------------------------
(* The answer, and what the client does with it *)

\* Faulty variant: ripgrep is not terminated.
EndedRunning == pc' = "client" /\ scan' = IdleScan /\ snap' = None /\ UNCHANGED <<rg, store>>
Ended == /\ pc' = "client" /\ scan' = IdleScan /\ rg' = None /\ snap' = None
         /\ UNCHANGED store

\* An exception: the cursor is stale, or ripgrep failed.
Failed == client' = [client EXCEPT !.state = "failed"] /\ Ended

Fail == Failed /\ UNCHANGED timeouts

\* The deadline of the request has passed.
TimeUp == timeouts < MaxTimeouts /\ timeouts' = timeouts + 1

Reactions(stoppedBy, cursor) ==
    CASE stoppedBy = None -> {"complete"}
      [] stoppedBy # None /\ cursor = None -> {"failed"}
      [] stoppedBy = "limit" /\ cursor # None ->
             {"limited", IF client.pages < MaxPages THEN "asking" ELSE "failed"}
      [] OTHER -> {"failed", "asking"}

\* A client that set a limit is content with the first full page, the others ask
\* for the next one; after a timeout the SDK gives up, and a client of the HTTP
\* endpoint may go on.
Answer(stoppedBy, matches, cursor) ==
    /\ \E state \in Reactions(stoppedBy, cursor) :
           client' = [client EXCEPT !.items = @ \o matches, !.cursor = cursor, !.state = state]
    /\ Ended

StopPage(stoppedBy, matches, cursor) == Answer(stoppedBy, matches, cursor) /\ UNCHANGED timeouts

-----------------------------------------------------------------------------
(* A request *)

\* The prefix does not exist: as a scan that finds nothing.
Request ==
    /\ pc = "client" /\ client.state = "asking"
    /\ LET cursor == client.cursor
           resume == IF cursor # None /\ cursor.mode = "search_start" THEN None ELSE cursor
       IN  /\ scan' = [IdleScan EXCEPT !.resume = resume, !.anchorFound = resume = None,
                           !.mismatch = cursor # None /\ cursor.mismatch,
                           !.replayed = ~FromFileStart(resume)]
           /\ IF InLogicalOrder(resume) \/ FromFileStart(resume)
              THEN pc' = "read" /\ UNCHANGED rg
              ELSE pc' = "scan" /\ Launch
    /\ client' = [client EXCEPT !.pages = @ + 1]
    /\ UNCHANGED <<store, snap, timeouts>>

\* The time is up before ripgrep was started.
TimeoutEarly ==
    /\ pc = "client" /\ client.state = "asking" /\ TimeUp
    /\ Answer("timeout", <<>>, IF client.cursor = None THEN SearchStart(FALSE) ELSE client.cursor)

-----------------------------------------------------------------------------
(* _snapshot_grep_file: the file, its stat, its row *)

Snapshot(path, text, mismatch, verified) ==
    [path |-> path, text |-> text, mismatch |-> mismatch, verified |-> verified]

SnapshotPath == IF rg = None THEN scan.resume.path ELSE Head(rg.pipe).path

\* Of the file a cursor of the previous release names: it must be unchanged.
AnchorTaken(s) ==
    IF s.text # scan.resume.text THEN Fail
    ELSE /\ scan' = [scan EXCEPT !.anchor = s, !.mismatch = @ \/ s.mismatch,
                         !.anchorFound = @ \/ FromFileStart(scan.resume)]
         /\ pc' = "scan" /\ snap' = None
         /\ Launch
         /\ UNCHANGED <<store, client, timeouts>>

\* Of the file of the match at hand: what cannot be verified ends the page.
MatchTaken(s) ==
    IF ~s.verified THEN StopPage("catalog_mismatch", scan.matches, None)
    ELSE /\ scan' = [scan EXCEPT !.active = s, !.mismatch = @ \/ s.mismatch]
         /\ pc' = "scan" /\ snap' = None
         /\ UNCHANGED <<store, client, rg, timeouts>>

Taken(s) == IF rg = None THEN AnchorTaken(s) ELSE MatchTaken(s)

ReadUnreadable ==
    /\ pc = "read" /\ tree[SnapshotPath] = None
    /\ Taken(Snapshot(SnapshotPath, None, TRUE, FALSE))

\* The deadline passes during the read.  TimeoutError is an OSError, so that a file
\* that is there counts as one that cannot be read, and no cursor is answered.
ReadLate ==
    /\ pc = "read" /\ tree[SnapshotPath] # None /\ TimeUp
    /\ IF rg = None THEN Failed ELSE Answer("catalog_mismatch", scan.matches, None)

ReadFile ==
    /\ pc = "read" /\ tree[SnapshotPath] # None
    /\ snap' = [path |-> SnapshotPath, file |-> tree[SnapshotPath], stable |-> TRUE]
    /\ pc' = "stat"
    /\ UNCHANGED <<store, client, scan, rg, timeouts>>

StatFile ==
    /\ pc = "stat"
    /\ snap' = [snap EXCEPT !.stable = tree[snap.path] = snap.file]
    /\ pc' = "row"
    /\ UNCHANGED <<store, client, scan, rg, timeouts>>

ReadRow ==
    /\ pc = "row"
    /\ LET row == rows[snap.path]
       IN  Taken(Snapshot(snap.path, snap.file.text,
                          row # snap.file.text \/ ~snap.stable,
                          snap.stable /\ row \in {None, snap.file.text}))

-----------------------------------------------------------------------------
(* consume_record: one record of the pipe *)

Consumed == rg' = [rg EXCEPT !.pipe = Tail(@)]

Proceed(new) ==
    /\ Consumed /\ scan' = new
    /\ UNCHANGED <<store, client, pc, snap, timeouts>>

At(kind) == pc = "scan" /\ rg.pipe # <<>> /\ Head(rg.pipe).kind = kind

\* What was answered before: files ahead of the cursor's, and every other file
\* until the cursor's match was met.
SkippedRecord(ev) ==
    \/ ~scan.replayed /\ ev.path < scan.resume.path
    \/ /\ ev.kind = "match" /\ InLogicalOrder(scan.resume)
       /\ Logical[ev.path] < Logical[scan.resume.path]
    \/ /\ ev.kind = "match" /\ ~scan.anchorFound
       /\ ~InLogicalOrder(scan.resume) /\ ev.path # scan.resume.path

Skip ==
    /\ At("begin") \/ At("match")
    /\ SkippedRecord(Head(rg.pipe))
    /\ Proceed(scan)

BeginFile ==
    /\ At("begin") /\ ~SkippedRecord(Head(rg.pipe))
    /\ Proceed([scan EXCEPT !.replayed = TRUE,
                    !.active = IF scan.anchor # None /\ Head(rg.pipe).path = scan.anchor.path
                               THEN scan.anchor ELSE None])

RgError == At("error") /\ Fail

TooLong ==
    /\ At("match") /\ Head(rg.pipe).seen \in Oversized
    /\ StopPage("max_bytes", scan.matches, None)

ActiveFor(ev) == scan.active # None /\ scan.active.path = ev.path

Candidate ==
    /\ At("match")
    /\ Head(rg.pipe).seen \notin Oversized /\ ~SkippedRecord(Head(rg.pipe))

NeedSnapshot ==
    /\ Candidate /\ ~ActiveFor(Head(rg.pipe))
    /\ pc' = "read"
    /\ UNCHANGED <<store, client, scan, rg, snap, timeouts>>

\* _verified_grep_match: the record against the bytes of the snapshot.
Verified(ev) ==
    /\ scan.active.verified
    /\ ev.line \in DOMAIN scan.active.text
    /\ scan.active.text[ev.line] = ev.seen

Ready == Candidate /\ ActiveFor(Head(rg.pipe))

Unverified ==
    /\ Ready /\ ~Verified(Head(rg.pipe))
    /\ StopPage("catalog_mismatch", scan.matches, None)

Found == [path |-> scan.active.path, line |-> Head(rg.pipe).line, text |-> scan.active.text]

\* Faulty variant: the content of the cursor's file is not compared.
SeekAnchorUnchecked ==
    /\ Ready /\ Verified(Head(rg.pipe))
    /\ ~scan.anchorFound /\ ~InLogicalOrder(scan.resume)
    /\ Proceed(IF Found.line = scan.resume.line
               THEN [scan EXCEPT !.anchorFound = TRUE, !.last = Found] ELSE scan)

\* Still looking for the match a cursor names; in a changed file it is stale.
SeekAnchor ==
    /\ Ready /\ Verified(Head(rg.pipe))
    /\ ~scan.anchorFound /\ ~InLogicalOrder(scan.resume)
    /\ IF Found.text # scan.resume.text THEN Fail
       ELSE Proceed(IF Found.line = scan.resume.line
                    THEN [scan EXCEPT !.anchorFound = TRUE, !.last = Found] ELSE scan)

\* The compatibility scan, in the order of the catalog.
CollectLogical ==
    /\ Ready /\ Verified(Head(rg.pipe)) /\ InLogicalOrder(scan.resume)
    /\ LET there == Found.path = scan.resume.path
       IN  Proceed(CASE there /\ Found.line = scan.resume.line -> [scan EXCEPT !.anchorFound = TRUE]
                     [] there /\ Found.line < scan.resume.line -> scan
                     [] OTHER -> [scan EXCEPT !.candidates = Inserted(client.limit, @, Found)])

Collect ==
    /\ Ready /\ Verified(Head(rg.pipe))
    /\ scan.anchorFound /\ ~InLogicalOrder(scan.resume)
    /\ LET matches == Append(scan.matches, Found)
       IN  IF Len(matches) >= client.limit
           THEN StopPage("limit", matches, AfterMatch("after_match", Found, scan.mismatch))
           ELSE Proceed([scan EXCEPT !.matches = matches, !.last = Found])

-----------------------------------------------------------------------------
(* The end of a page *)

\* timeout_cursor
TimeoutCursor ==
    CASE InLogicalOrder(scan.resume) \/ ~scan.replayed \/ ~scan.anchorFound -> scan.resume
      [] scan.last # None -> AfterMatch("after_match", scan.last, scan.mismatch)
      [] OTHER -> SearchStart(scan.mismatch)

\* Between two records, or while one is checked against its snapshot.
Timeout ==
    /\ pc = "scan" /\ TimeUp
    /\ Answer("timeout", scan.matches, TimeoutCursor)

LogicalPage ==
    LET page == SubSeq(scan.candidates, 1, Min({client.limit, Len(scan.candidates)}))
    IN  IF Len(scan.candidates) > client.limit
        THEN StopPage("limit", page, AfterMatch("legacy_after_match", Last(page), scan.mismatch))
        ELSE StopPage(IF scan.mismatch THEN "catalog_mismatch" ELSE None, page, None)

EndOfScan ==
    /\ pc = "scan" /\ rg.todo = {} /\ rg.pipe = <<>>
    /\ CASE ~scan.anchorFound -> Fail
         [] scan.anchorFound /\ InLogicalOrder(scan.resume) -> LogicalPage
         [] OTHER -> StopPage(IF scan.mismatch THEN "catalog_mismatch" ELSE None,
                              scan.matches, None)

Search ==
    \/ Request \/ TimeoutEarly \/ ReadUnreadable \/ ReadLate \/ ReadFile \/ StatFile \/ ReadRow
    \/ Skip \/ BeginFile \/ RgError \/ TooLong \/ NeedSnapshot \/ Unverified
    \/ SeekAnchor \/ CollectLogical \/ Collect \/ Timeout \/ EndOfScan

Next ==
    \/ Search \/ RgRead
    \/ \E p \in Paths, text \in Contents \cup {None} : SubmitTree(p, text)
    \/ SubmitCommit \/ SubmitUndo

Spec == Init /\ [][Next]_vars

-----------------------------------------------------------------------------
(* Properties *)

\* The types: a page under way has a scan, ripgrep runs during the scan only.
TypeOK ==
    /\ \A p \in Paths : tree[p] = None \/ tree[p] \in [text : Contents, id : 0 .. 2 * MaxWrites]
    /\ rows \in [Paths -> Contents \cup {None}]
    /\ client.cursor \in Cursors \cup {None} /\ Range(client.items) \subseteq Matches
    /\ client.state \in {"asking", "complete", "limited", "failed"}
    /\ pc \in {"client", "scan", "read", "stat", "row"}
    /\ (pc = "client") => rg = None /\ scan = IdleScan
    /\ (pc = "scan") => rg # None
    /\ (pc \in {"stat", "row"}) <=> snap # None

\* The matches a search that began with the client's first cursor still owes.
Owed(p, line) ==
    LET start == client.start
    IN  CASE start = None          -> TRUE
          [] InLogicalOrder(start) -> Before(start, [path |-> p, line |-> line])
          [] OTHER                 -> p >= start.path

\* "A complete grep response means the visible filesystem scope was searched
\* exhaustively" (docs/public/ctxfs.md): whatever other threads did to other
\* files meanwhile, a search that ends as complete has every match of every file
\* that stayed as it was, over any number of pages, resumes and timeouts.
Exhaustive ==
    client.state = "complete" =>
        \A p \in Paths \ touched : tree[p] # None =>
            \A i \in Matching(tree[p].text) :
                Owed(p, i) => \E m \in Range(client.items) : m.path = p /\ m.line = i

InOrder(m, n) ==
    IF InLogicalOrder(client.start) THEN Before(m, n)
    ELSE m.path < n.path \/ (m.path = n.path /\ m.line < n.line)

\* The pages of one search fit together: no match is answered twice or out of
\* order, none that the pages before the first cursor had, and all matches of one
\* file are of one content, also when the file was replaced between two pages.
\* (A file_start cursor of the previous release whose page runs out of time after
\* the first record is lost: timeout_cursor starts the search over.)
PagesFit ==
    /\ \A i, j \in DOMAIN client.items : i < j =>
           LET m == client.items[i]
               n == client.items[j]
           IN  InOrder(m, n) /\ (m.path = n.path => m.text = n.text)
    /\ ~FromFileStart(client.start) \/ timeouts = 0 =>
           \A m \in Range(client.items) : Owed(m.path, m.line)

\* Every match a complete search answers is one of a content the catalog had at
\* some moment of the search: nothing of a submission that was rolled back, or
\* of a file no row names, on any of its pages.
CompleteIsCommitted ==
    client.state = "complete" =>
        \A m \in Range(client.items) : m.text \in committed[m.path] /\ m.line \in Matching(m.text)
=============================================================================
