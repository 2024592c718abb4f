------------------------------ MODULE Tracker ------------------------------
(***************************************************************************)
(* The local tracker (src/ctxd/tracker.py): run_forever calls sync_once    *)
(* again and again.  A sync scans the registered folders, compares what it *)
(* finds with its state file, submits one batch per folder and, only when  *)
(* every batch was accepted, writes the state file.  Meanwhile the user    *)
(* edits the folders, the network loses requests and answers, and the      *)
(* tracker may die.                                                        *)
(*                                                                         *)
(*   disk    the files of each folder, by relative path: inode, content    *)
(*           and whether it can be read                                    *)
(*   closed  the directories of each folder that may not be listed         *)
(*   saved   the state file: folder -> inode -> what was last submitted    *)
(*   docs    the store's catalog: (folder, inode) -> document.  One writer *)
(*           per folder, and a source key is the folder's prefix and the   *)
(*           file's inode                                                  *)
(*                                                                         *)
(* The store plans a batch with the operators of CtxfsBatch and applies it *)
(* as CtxfsStore was checked to; file tells whether the tree has a file    *)
(* at the document's path.  A path is a number: rglob's result is sorted.  *)
(***************************************************************************)
EXTENDS Naturals, FiniteSets, SequencesExt, Iteration

CONSTANTS
    Folders,        \* registered prefixes, past and present, numbered in the
                    \* order of list_folders
    Inodes,
    Names,          \* relative paths, numbered in sort order
    Dirs,           \* directories, the root of the folder among them
    Above,          \* name -> the directories it lies in
    Versions,       \* contents of a file (source_version is their hash)
    Normal,         \* version -> hash of its text with normalized line ends
    Format,         \* name -> its suffix
    InitDisks,      \* what the folders may hold at the start
    None,
    MaxEdits,       \* bound on what the user does
    MaxFaults       \* bound on lost requests and answers and on crashes

DocPaths == Folders \X Names

File == [ino : Inodes, ver : Versions, readable : BOOLEAN]

\* TrackedFile
Tracked == [name : Names, ver : Versions]

Doc == [path : DocPaths, hash : Versions, file : BOOLEAN]

\* A file has one content under all its names.
ASSUME TrackerAssumption ==
    /\ Folders \subseteq Nat /\ IsFiniteSet(Folders) /\ IsFiniteSet(Inodes)
    /\ IsFiniteSet(Names) /\ Names = 1 .. Cardinality(Names)
    /\ Above \in [Names -> SUBSET Dirs]
    /\ Normal \in [Versions -> Versions]
    /\ InitDisks \subseteq [Folders -> [Names -> File \cup {None}]]
    /\ \A d \in InitDisks, f \in Folders : \A m, n \in Names :
           d[f][m] # None /\ d[f][n] # None /\ d[f][m].ino = d[f][n].ino => d[f][m] = d[f][n]
    /\ None \notin Folders \cup Inodes \cup Names \cup Versions
    /\ None \notin File \cup Tracked \cup Doc
    /\ MaxEdits \in Nat /\ MaxFaults \in Nat

Batch == INSTANCE CtxfsBatch WITH
    Writers <- Folders, Keys <- Inodes, Paths <- DocPaths, Hashes <- Versions,
    Authorized <- [f \in Folders |-> {f} \X Names], Ancestors <- [p \in DocPaths |-> {}]

VARIABLES
    disk, mounted, closed,          \* the user's: files, folders that exist, directories
    configured,                     \* that may not be listed, folders.json
    docs,                           \* the store's
    saved, health,                  \* the tracker's files: state, last_result
    pc, folders, toscan, at, listing, held, current, found, batches, submitted, partial, result,
                                    \* locals of sync_once and _scan_folder:
                                    \* held is the inode just stat'ed, found the
                                    \* operations, partial the incomplete scans
    quiet, undisturbed,             \* history: no edit since this sync began, and
                                    \* none since the one health tells of began
    ahead, raced,                   \* history: a batch was accepted and the state file
                                    \* not written since; an edit fell into that time
    twice,                          \* history: a scan met one file under two names
    torn, refused,                  \* history: state file lost, batch refused
    edits, faults                   \* counters for the bounds

user    == <<disk, mounted, closed, configured, edits>>
locals  == <<folders, toscan, at, listing, held, current, found, batches, submitted,
             partial, result>>
history == <<ahead, raced, twice, torn, refused>>
vars    == <<user, docs, saved, health, pc, locals, quiet, undisturbed, history, faults>>

NothingTracked == [f \in Folders |-> [i \in Inodes |-> None]]

-----------------------------------------------------------------------------
(***************************************************************************)
(* The user                                                                *)
(***************************************************************************)
Edited ==
    /\ edits < MaxEdits
    /\ edits' = edits + 1
    /\ quiet' = FALSE /\ undisturbed' = FALSE
    /\ raced' = (raced \/ ahead)
    /\ UNCHANGED <<docs, saved, health, pc, locals, ahead, twice, torn, refused, faults>>

Create(f, n, i, v) ==
    /\ disk[f][n] = None
    /\ \A m \in Names : disk[f][m] # None => disk[f][m].ino # i
    /\ disk' = [disk EXCEPT ![f][n] = [ino |-> i, ver |-> v, readable |-> TRUE]]
    /\ Edited /\ UNCHANGED <<mounted, closed, configured>>

\* A second name of the same file.
Link(f, n, m) ==
    /\ disk[f][n] # None /\ disk[f][m] = None
    /\ disk' = [disk EXCEPT ![f][m] = disk[f][n]]
    /\ Edited /\ UNCHANGED <<mounted, closed, configured>>

\* A file changes under all its names.
WithFile(f, file) ==
    [disk EXCEPT ![f] = [m \in Names |->
        IF disk[f][m] # None /\ disk[f][m].ino = file.ino THEN file ELSE disk[f][m]]]

Write(f, n, v) ==
    /\ disk[f][n] # None /\ disk[f][n].ver # v
    /\ disk' = WithFile(f, [disk[f][n] EXCEPT !.ver = v])
    /\ Edited /\ UNCHANGED <<mounted, closed, configured>>

MoveTo(f, n, m) ==
    /\ disk[f][n] # None /\ m # n
    /\ disk' = [disk EXCEPT ![f][m] = disk[f][n], ![f][n] = None]
    /\ Edited /\ UNCHANGED <<mounted, closed, configured>>

Unlink(f, n) ==
    /\ disk[f][n] # None
    /\ disk' = [disk EXCEPT ![f][n] = None]
    /\ Edited /\ UNCHANGED <<mounted, closed, configured>>

\* chmod, or bytes that are not UTF-8, and back.
ToggleReadable(f, n) ==
    /\ disk[f][n] # None
    /\ disk' = WithFile(f, [disk[f][n] EXCEPT !.readable = ~@])
    /\ Edited /\ UNCHANGED <<mounted, closed, configured>>

ToggleMounted(f) ==
    /\ mounted' = IF f \in mounted THEN mounted \ {f} ELSE mounted \cup {f}
    /\ Edited /\ UNCHANGED <<disk, closed, configured>>

\* chmod of a directory, and back.
ToggleListable(f, d) ==
    /\ closed' = [closed EXCEPT ![f] = IF d \in @ THEN @ \ {d} ELSE @ \cup {d}]
    /\ Edited /\ UNCHANGED <<disk, mounted, configured>>

\* ctxd folders remove; a folder added again gets a new prefix.
Unregister(f) ==
    /\ f \in configured
    /\ configured' = configured \ {f}
    /\ Edited /\ UNCHANGED <<disk, mounted, closed>>

User ==
    \/ \E f \in Folders, n \in Names, i \in Inodes, v \in Versions : Create(f, n, i, v)
    \/ \E f \in Folders, n \in Names, v \in Versions : Write(f, n, v)
    \/ \E f \in Folders, n, m \in Names : MoveTo(f, n, m) \/ Link(f, n, m)
    \/ \E f \in Folders, n \in Names : Unlink(f, n) \/ ToggleReadable(f, n)
    \/ \E f \in Folders : ToggleMounted(f) \/ Unregister(f)
    \/ \E f \in Folders, d \in Dirs : ToggleListable(f, d)

-----------------------------------------------------------------------------
(***************************************************************************)
(* _scan_folder                                                            *)
(***************************************************************************)
\* Faulty variant: after a sync that raised the loop only waits.
BeginUnlessFailed ==
    /\ pc = "idle"
    /\ pc' = (IF health = "failed" THEN "health" ELSE "scan")
    /\ folders' = configured /\ toscan' = configured
    /\ current' = NothingTracked /\ partial' = {} /\ batches' = <<>> /\ submitted' = FALSE
    /\ at' = None /\ listing' = <<>> /\ held' = None /\ found' = <<>>
    /\ result' = (IF health = "failed" THEN "failed" ELSE None)
    /\ quiet' = TRUE
    /\ UNCHANGED <<user, docs, saved, health, undisturbed, history, faults>>

\* The folders are read from config.json once per sync.
Begin ==
    /\ pc = "idle"
    /\ pc' = "scan"
    /\ folders' = configured /\ toscan' = configured
    /\ current' = NothingTracked /\ partial' = {} /\ batches' = <<>> /\ submitted' = FALSE
    /\ at' = None /\ listing' = <<>> /\ held' = None /\ found' = <<>> /\ result' = None
    /\ quiet' = TRUE
    /\ UNCHANGED <<user, docs, saved, health, undisturbed, history, faults>>

Hidden(f, n) == Above[n] \cap closed[f] # {}

\* What rglob finds: it takes a directory it may not list for an empty one.
Visible(f) == {n \in Names : disk[f][n] # None /\ ~Hidden(f, n)}

\* sorted(root.rglob("*")), when there is a root.
ListFolder(f) ==
    /\ pc = "scan" /\ f \in toscan /\ \A g \in toscan : f <= g
    /\ toscan' = toscan \ {f}
    /\ at' = f /\ found' = <<>>
    /\ listing' = IF f \in mounted THEN Keeping(Visible(f), [n \in Names |-> n]) ELSE <<>>
    /\ partial' = IF f \in mounted THEN partial ELSE partial \cup {f}
    /\ pc' = "visit"
    /\ UNCHANGED <<user, docs, saved, health, folders, held, current, batches, submitted, result>>
    /\ UNCHANGED <<quiet, undisturbed, history, faults>>

Skip ==
    /\ partial' = partial \cup {at}
    /\ listing' = Tail(listing)
    /\ held' = None
    /\ pc' = "visit"
    /\ UNCHANGED <<current, found>>

\* Faulty variant: a file that is gone is noticed, and not skipped.
StatFileUnskipped ==
    /\ pc = "visit" /\ listing # <<>>
    /\ LET entry == disk[at][Head(listing)]
       IN  /\ held' = (IF entry = None THEN None ELSE entry.ino)
           /\ partial' = (IF entry = None THEN partial \cup {at} ELSE partial)
    /\ pc' = "read"
    /\ UNCHANGED <<listing, current, found>>
    /\ UNCHANGED <<user, docs, saved, health, folders, toscan, at, batches, submitted, result>>
    /\ UNCHANGED <<quiet, undisturbed, history, faults>>

\* path.stat(): the file may be gone since the listing, or in a directory that was closed
\* meanwhile, whether by one permission or by all.
StatFile ==
    /\ pc = "visit" /\ listing # <<>>
    /\ LET entry == disk[at][Head(listing)]
       IN  \/ (entry = None \/ Hidden(at, Head(listing))) /\ Skip
           \/ /\ entry # None
              /\ held' = entry.ino
              /\ pc' = "read"
              /\ UNCHANGED <<listing, current, found, partial>>
    /\ UNCHANGED <<user, docs, saved, health, folders, toscan, at, batches, submitted, result>>
    /\ UNCHANGED <<quiet, undisturbed, history, faults>>

\* Faulty variant: a changed file that changed its path too is moved.
OperationForPathFirst(was, f, i, n, v) ==
    CASE was = [name |-> n, ver |-> v] -> <<>>
      [] was # None /\ was.name # n -> <<Batch!MoveOp(i, <<f, n>>, Normal[was.ver])>>
      [] OTHER -> <<Batch!PutOp(i, <<f, n>>, Normal[v])>>

\* The operation for one file: none when nothing changed, a move when only its
\* path did, a put otherwise.
OperationFor(was, f, i, n, v) ==
    CASE was = [name |-> n, ver |-> v] -> <<>>
      [] was # None /\ was.ver = v /\ was.name # n /\ Format[was.name] = Format[n] ->
             <<Batch!MoveOp(i, <<f, n>>, Normal[was.ver])>>
      [] OTHER -> <<Batch!PutOp(i, <<f, n>>, Normal[v])>>

Readable(entry) == entry # None /\ entry.readable

\* path.read_bytes(): by now another file may be at that path.
ReadFile ==
    /\ pc = "read"
    /\ LET n     == Head(listing)
           entry == disk[at][n]
       IN  \/ (~Readable(entry) \/ Hidden(at, n)) /\ Skip /\ UNCHANGED twice
           \/ /\ Readable(entry)
              /\ twice' = (twice \/ current[at][held] # None)
              /\ current' = [current EXCEPT ![at][held] = [name |-> n, ver |-> entry.ver]]
              /\ found' = found \o OperationFor(saved[at][held], at, held, n, entry.ver)
              /\ listing' = Tail(listing)
              /\ held' = None
              /\ pc' = "visit"
              /\ UNCHANGED partial
    /\ UNCHANGED <<user, docs, saved, health, folders, toscan, at, batches, submitted, result>>
    /\ UNCHANGED <<quiet, undisturbed, ahead, raced, torn, refused, faults>>

-----------------------------------------------------------------------------
(***************************************************************************)
(* sync_once                                                               *)
(***************************************************************************)
DeletesOf(keys) == [j \in DOMAIN SetToSeq(keys) |-> Batch!DeleteOp(SetToSeq(keys)[j])]

WithBatch(f, ops) ==
    IF ops = <<>> THEN batches ELSE Append(batches, [folder |-> f, ops |-> ops])

\* Faulty variant: deletions are inferred from incomplete scans too.
FolderScannedEager ==
    /\ pc = "visit" /\ listing = <<>>
    /\ LET gone == {i \in Inodes : saved[at][i] # None /\ current[at][i] = None}
       IN  batches' = WithBatch(at, found \o DeletesOf(gone))
    /\ pc' = "scan" /\ at' = None /\ found' = <<>>
    /\ UNCHANGED <<user, docs, saved, health, folders, toscan, listing, held, current>>
    /\ UNCHANGED <<submitted, partial, result, quiet, undisturbed, history, faults>>

\* A complete scan infers deletions; an incomplete one keeps what it did not see.
FolderScanned ==
    /\ pc = "visit" /\ listing = <<>>
    /\ LET unseen == {i \in Inodes : saved[at][i] # None /\ current[at][i] = None}
       IN  IF at \in partial
           THEN /\ current' = [current EXCEPT ![at] =
                       [i \in Inodes |-> IF i \in unseen THEN saved[at][i] ELSE current[at][i]]]
                /\ batches' = WithBatch(at, found)
           ELSE /\ batches' = WithBatch(at, found \o DeletesOf(unseen))
                /\ UNCHANGED current
    /\ pc' = "scan" /\ at' = None /\ found' = <<>>
    /\ UNCHANGED <<user, docs, saved, health, folders, toscan, listing, held>>
    /\ UNCHANGED <<submitted, partial, result, quiet, undisturbed, history, faults>>

\* Prefixes of the state file that are no longer registered.
DropUnregistered ==
    /\ pc = "scan" /\ toscan = {}
    /\ LET keys(f)  == {i \in Inodes : saved[f][i] # None}
           dropped  == SetToSeq({f \in Folders \ folders : keys(f) # {}})
       IN  batches' = batches \o [j \in DOMAIN dropped |->
                          [folder |-> dropped[j], ops |-> DeletesOf(keys(dropped[j]))]]
    /\ pc' = "submit"
    /\ UNCHANGED <<user, docs, saved, health, folders, toscan, at, listing, held, current>>
    /\ UNCHANGED <<found, submitted, partial, result, quiet, undisturbed, history, faults>>

\* CtxfsStore.submit, as a function of the documents.
Outcome == Batch!Submitted(docs, Head(batches).folder, Head(batches).ops)

Submit ==
    /\ pc = "submit" /\ batches # <<>>
    /\ Outcome.ok
    /\ docs' = Outcome.rows
    /\ batches' = Tail(batches)
    /\ submitted' = TRUE
    /\ UNCHANGED <<user, saved, health, pc, folders, toscan, at, listing, held, current>>
    /\ UNCHANGED <<found, partial, result, quiet, undisturbed, history, faults>>

\* A sync ends before the state file is written.
Interrupted(accepted) ==
    /\ ahead' = (ahead \/ accepted)
    /\ raced' = (raced \/ (ahead' /\ ~quiet))

\* raise_for_status, a timeout or a lost connection: run_forever catches it, and
\* the batches already accepted stay accepted.
Fail(accepted) ==
    /\ pc' = "health"
    /\ result' = "failed"
    /\ Interrupted(accepted)
    /\ UNCHANGED <<user, saved, health, folders, toscan, at, listing, held, current, found>>
    /\ UNCHANGED <<batches, submitted, partial, quiet, undisturbed, twice, torn>>

SubmitRefused ==
    /\ pc = "submit" /\ batches # <<>>
    /\ ~Outcome.ok
    /\ refused' = TRUE
    /\ Fail(submitted) /\ UNCHANGED <<docs, faults>>

RequestLost ==
    /\ pc = "submit" /\ batches # <<>>
    /\ faults < MaxFaults
    /\ faults' = faults + 1
    /\ Fail(submitted) /\ UNCHANGED <<docs, refused>>

AnswerLost ==
    /\ pc = "submit" /\ batches # <<>>
    /\ Outcome.ok
    /\ faults < MaxFaults
    /\ faults' = faults + 1
    /\ docs' = Outcome.rows
    /\ Fail(TRUE) /\ UNCHANGED refused

\* Faulty variant: the state file keeps only what a complete scan saw.
SaveStateSeen ==
    /\ pc = "submit" /\ batches = <<>>
    /\ saved' = [f \in Folders |-> IF f \in partial THEN [i \in Inodes |-> None] ELSE current[f]]
    /\ result' = IF partial = {} THEN "success" ELSE "incomplete"
    /\ pc' = "health"
    /\ ahead' = FALSE
    /\ UNCHANGED <<user, docs, health, folders, toscan, at, listing, held, current>>
    /\ UNCHANGED <<found, batches, submitted, partial, quiet, undisturbed>>
    /\ UNCHANGED <<raced, twice, torn, refused, faults>>

\* _save_state, after every batch was accepted.
SaveState ==
    /\ pc = "submit" /\ batches = <<>>
    /\ saved' = current
    /\ result' = IF partial = {} THEN "success" ELSE "incomplete"
    /\ pc' = "health"
    /\ ahead' = FALSE
    /\ UNCHANGED <<user, docs, health, folders, toscan, at, listing, held, current>>
    /\ UNCHANGED <<found, batches, submitted, partial, quiet, undisturbed>>
    /\ UNCHANGED <<raced, twice, torn, refused, faults>>

(***************************************************************************)
(* run_forever                                                             *)
(***************************************************************************)
Reset ==
    /\ pc' = "idle"
    /\ folders' = {} /\ toscan' = {} /\ at' = None /\ listing' = <<>> /\ held' = None
    /\ current' = NothingTracked /\ found' = <<>> /\ batches' = <<>> /\ submitted' = FALSE
    /\ partial' = {} /\ result' = None

PersistHealth ==
    /\ pc = "health"
    /\ health' = result
    /\ undisturbed' = quiet
    /\ Reset
    /\ UNCHANGED <<user, docs, saved, quiet, history, faults>>

\* The process dies and is started again.
Crash ==
    /\ pc # "idle"
    /\ faults < MaxFaults
    /\ faults' = faults + 1
    /\ Interrupted(submitted /\ pc = "submit")
    /\ Reset
    /\ UNCHANGED <<user, docs, saved, health, quiet, undisturbed, twice, torn, refused>>

\* It dies inside write_text: _load_state takes the broken file for an empty one.
CrashInSave ==
    /\ pc = "submit" /\ batches = <<>>
    /\ faults < MaxFaults
    /\ faults' = faults + 1
    /\ saved' = NothingTracked
    /\ torn' = TRUE
    /\ Interrupted(submitted)
    /\ Reset
    /\ UNCHANGED <<user, docs, health, quiet, undisturbed, twice, refused>>

-----------------------------------------------------------------------------
\* The store holds what the first disk holds, and the tracker knows it.
Init ==
    /\ disk \in InitDisks
    /\ mounted = Folders /\ closed = [f \in Folders |-> {}] /\ configured = Folders
    /\ saved = [f \in Folders |-> [i \in Inodes |->
           LET at_ == {n \in Names : disk[f][n] # None /\ disk[f][n].ino = i}
           IN  IF at_ = {} THEN None
               ELSE LET n == CHOOSE m \in at_ : TRUE IN [name |-> n, ver |-> disk[f][n].ver]]]
    /\ docs = [id \in Folders \X Inodes |->
           LET t == saved[id[1]][id[2]]
           IN  IF t = None THEN None
               ELSE [path |-> <<id[1], t.name>>, hash |-> Normal[t.ver], file |-> TRUE]]
    /\ health = "success"
    /\ pc = "idle"
    /\ folders = {} /\ toscan = {} /\ at = None /\ listing = <<>> /\ held = None
    /\ current = NothingTracked /\ found = <<>> /\ batches = <<>> /\ submitted = FALSE
    /\ partial = {} /\ result = None
    /\ quiet = TRUE /\ undisturbed = TRUE
    /\ ahead = FALSE /\ raced = FALSE /\ twice = FALSE /\ torn = FALSE /\ refused = FALSE
    /\ edits = 0 /\ faults = 0

\* What run_forever does by itself.
Poll ==
    \/ Begin \/ (\E f \in Folders : ListFolder(f)) \/ StatFile \/ ReadFile \/ FolderScanned
    \/ DropUnregistered \/ Submit \/ SubmitRefused \/ SaveState \/ PersistHealth

Next == User \/ Poll \/ RequestLost \/ AnswerLost \/ Crash \/ CrashInSave

\* run_forever never stops polling; each of its steps changes one of these.
progress == <<pc, listing, batches>>

Spec == Init /\ [][Next]_vars /\ WF_progress(Poll)

-----------------------------------------------------------------------------
(***************************************************************************)
(* Properties                                                              *)
(***************************************************************************)

\* Types of the disk, the catalog and the tracker's state; a file is read only
\* after a stat that found it, in a folder that was registered when the sync began.
TypeOK ==
    /\ disk \in [Folders -> [Names -> File \cup {None}]]
    /\ docs \in [Folders \X Inodes -> Doc \cup {None}]
    /\ saved \in [Folders -> [Inodes -> Tracked \cup {None}]]
    /\ current \in [Folders -> [Inodes -> Tracked \cup {None}]]
    /\ health \in {"success", "incomplete", "failed"}
    /\ pc \in {"idle", "scan", "visit", "read", "submit", "health"}
    /\ partial \subseteq Folders
    /\ held \in (IF pc = "read" THEN Inodes ELSE {None})
    /\ at \in folders \cup {None}
    /\ pc \in {"visit", "read"} => at \in folders

\* A folder's documents are its state file entry.
MatchesSaved(f) ==
    \A i \in Inodes :
        LET t == saved[f][i]
            d == docs[<<f, i>>]
        IN  IF t = None THEN d = None
            ELSE d # None /\ d.path = <<f, t.name>> /\ d.hash = Normal[t.ver]

\* A folder's documents are the files that can be found in it.
MatchesDisk(f) ==
    \A i \in Inodes :
        LET names == {n \in Visible(f) : disk[f][n].ino = i}
            d     == docs[<<f, i>>]
        IN  IF names = {} THEN d = None
            ELSE \E n \in names : /\ d # None /\ d.path = <<f, n>>
                                  /\ d.hash = Normal[disk[f][n].ver]

\* What is found in the folder can be read.
Accessible(f) == f \in mounted /\ \A n \in Visible(f) : disk[f][n].readable

Indexed(f, n) ==
    LET d == docs[<<f, disk[f][n].ino>>]
    IN  d # None /\ d.path = <<f, n>> /\ d.hash = Normal[disk[f][n].ver]

\* Every file that is found in a readable folder has its document.
IndexesFiles ==
    \A f \in configured : Accessible(f) => \A n \in Visible(f) : Indexed(f, n)

\* The catalog mirrors every folder in which all that is found can be read, with nothing of
\* directories that may not be listed, and holds nothing of a folder that was unregistered.
Mirrors ==
    \A f \in Folders :
        IF f \notin configured THEN \A i \in Inodes : docs[<<f, i>>] = None
        ELSE Accessible(f) => MatchesDisk(f)

\* The state file never runs ahead of the store: after a sync that raised nothing
\* the two agree on every folder, although each batch was submitted on its own and
\* earlier syncs may have failed in between.
StateFileMatchesStore ==
    (pc = "health" /\ result # "failed" /\ ~torn /\ ~raced /\ ~twice) =>
        \A f \in Folders : MatchesSaved(f)

\* A success in the health file is to be believed: with no edit since that sync began, the
\* catalog has of every folder what can be found and read, whatever failed before or since.
SuccessIsCurrent ==
    (health = "success" /\ undisturbed /\ ~torn /\ ~raced /\ ~twice) => Mirrors

\* A registered folder loses a document only by a scan that read all it was told of, and
\* only a document of a file that was not there to be found: with no edit since the sync
\* began, no name that may be listed is the file's.  This also holds for files with several
\* names, and for batches that are submitted again or whose answer is lost.
DeletesOnlyUnlisted ==
    [][\A f \in folders, i \in Inodes :
          (docs[<<f, i>>] # None /\ docs'[<<f, i>>] = None) =>
              /\ f \notin partial
              /\ quiet => \A n \in Visible(f) : disk[f][n].ino # i]_vars

\* "This folder-wide safeguard prevents a temporary access or decoding failure from deleting
\* unrelated indexed content" (docs/public/local-tracker.md): of a folder that stays
\* registered only documents of files that are gone are deleted.
AccessFailuresDeleteNothing ==
    [][\A f \in folders, i \in Inodes :
          (docs[<<f, i>>] # None /\ docs'[<<f, i>>] = None /\ quiet) =>
              \A n \in Names : disk[f][n] # None => disk[f][n].ino # i]_vars

\* Once the user rests, the catalog comes to mirror the disk, through any lost
\* request or answer and any crash.  When the state file was lost, every file that
\* can be read is indexed all the same, and only documents of deleted files may
\* stay behind.  Excepted are histories in which the store refused a batch or an
\* edit fell between a batch that was accepted and the next write of the state file.
MirrorsAgain ==
    [](~refused /\ ~raced /\ ~twice) => <>[](IndexesFiles /\ (torn \/ Mirrors))

\* MirrorsAgain with no exception for an edit after a sync that was cut short.
InterruptedSyncsResolve == [](~torn /\ ~refused /\ ~twice) => <>[]Mirrors

=============================================================================
