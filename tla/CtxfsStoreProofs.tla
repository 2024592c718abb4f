-------------------------- MODULE CtxfsStoreProofs --------------------------
(***************************************************************************)
(* Theorems about CtxfsStore, for every set of writers, keys, paths,       *)
(* batches and every bound: that a rollback restores the files, what       *)
(* submit does to the catalog and to the files of other writers, what it   *)
(* leaves in the journal, which documents a crash can damage, and that it  *)
(* implements CtxfsAtomic.                                                 *)
(***************************************************************************)
EXTENDS CtxfsStore, CtxfsOrderProofs, TLAPS

Files == [Locations -> Objs \cup {None}]

(***************************************************************************)
(* The filesystem helpers and their undo closures, as functions of the     *)
(* files.                                                                  *)
(***************************************************************************)

\* The journal name a helper takes is a free one.
LEMMA FreeJournalName ==
    ASSUME NEW f \in Files, \E u \in UndoNames : f[u] = None
    PROVE  JournalName(f) \in UndoNames /\ f[JournalName(f)] = None
BY DEF JournalName

\* _backup_tree_entry adds at most one link, at a free journal name.
LEMMA BackupFacts ==
    ASSUME NEW f \in Files, NEW t \in Locations, \E u \in UndoNames : f[u] = None
    PROVE  /\ Backup(f, t) \in Files
           /\ BackupName(f, t) \in UndoNames \cup {None}
           /\ f[t] = None => BackupName(f, t) = None /\ Backup(f, t) = f
           /\ f[t] # None => /\ BackupName(f, t) \in UndoNames
                             /\ f[BackupName(f, t)] = None
                             /\ Backup(f, t) = [f EXCEPT ![BackupName(f, t)] = f[t]]
BY FreeJournalName, StoreAssumption DEF Backup, BackupName, Files, Locations

\* os.replace keeps a file table a file table, and links no inode twice.
LEMMA RenameFacts ==
    ASSUME NEW f \in Files, NEW s \in Locations, NEW t \in Locations
    PROVE  /\ Rename(f, s, t) \in Files
           /\ Distinct(f) => Distinct(Rename(f, s, t))
BY StoreAssumption DEF Rename, Files, Distinct

\* The shape of an undo closure.
LEMMA UndoShape ==
    ASSUME NEW rec \in UndoRecords
    PROVE  /\ rec.op \in {"object", "replace", "remove", "rename"}
           /\ rec.backup \in UndoNames \cup {None}
           /\ rec.obj \in Objs \cup {None}
           /\ rec.op = "object" => rec.backup = None
           /\ rec.op # "object" => rec.target \in Locations /\ rec.obj = None
           /\ rec.op = "rename" => rec.source \in Locations
BY DEF UndoRecords

\* Undoing keeps a file table a file table, and links no inode twice.
LEMMA UndoFacts ==
    ASSUME NEW f \in Files, NEW rec \in UndoRecords
    PROVE  /\ Undo(rec, f) \in Files
           /\ Distinct(f) => Distinct(Undo(rec, f))
<1> DEFINE g == IF rec.op = "rename" THEN Rename(f, rec.target, rec.source)
                ELSE IF rec.op = "replace" /\ rec.backup = None
                THEN [f EXCEPT ![rec.target] = None] ELSE f
<1>1. g \in Files /\ (Distinct(f) => Distinct(g))
  <2>1. CASE rec.op = "rename"
    BY <2>1, UndoShape, RenameFacts
  <2>2. CASE rec.op = "replace" /\ rec.backup = None
    BY <2>2, UndoShape DEF Files, Distinct
  <2> QED BY <2>1, <2>2
<1>2. Undo(rec, f) = IF rec.backup = None THEN g ELSE Rename(g, rec.backup, rec.target)
  BY DEF Undo
<1> HIDE DEF g
<1>3. rec.backup # None => rec.backup \in Locations /\ rec.target \in Locations
  BY UndoShape DEF Locations
<1> QED BY <1>1, <1>2, <1>3, RenameFacts

\* _undo_replace_tree_entry takes back what _replace_tree_entry did with an
\* object that had no link yet.
LEMMA UndoReplace ==
    ASSUME NEW f \in Files, NEW p \in Paths, NEW o \in Objs,
           \E u \in UndoNames : f[u] = None,
           Distinct(f), \A l \in Locations : f[l] # o
    PROVE  LET rec == [op |-> "replace", source |-> None, target |-> p,
                       backup |-> BackupName(f, p), obj |-> None]
               g   == [Backup(f, p) EXCEPT ![p] = o]
           IN  /\ rec \in UndoRecords
               /\ g \in Files
               /\ Distinct(g)
               /\ Undo(rec, g) = f
<1> DEFINE b == BackupName(f, p)
           rec == [op |-> "replace", source |-> None, target |-> p, backup |-> b, obj |-> None]
           g   == [Backup(f, p) EXCEPT ![p] = o]
<1>1. p \in Locations /\ p \notin UndoNames /\ None \notin UndoNames
  BY StoreAssumption DEF Locations
<1>2. rec \in UndoRecords /\ g \in Files
  BY <1>1, BackupFacts DEF UndoRecords, Files
<1>3. CASE f[p] = None
  <2>1. b = None /\ g = [f EXCEPT ![p] = o]
    BY <1>1, <1>3, BackupFacts
  <2>2. Distinct(g)
    BY <1>1, <2>1 DEF Distinct, Files
  <2>3. Undo(rec, g) = [g EXCEPT ![p] = None]
    BY <2>1 DEF Undo
  <2>4. [g EXCEPT ![p] = None] = f
    BY <1>1, <1>3, <2>1 DEF Files
  <2> QED BY <1>2, <2>2, <2>3, <2>4
<1>4. CASE f[p] # None
  <2>1. /\ b \in UndoNames /\ f[b] = None /\ b # p /\ b \in Locations
        /\ g = [[f EXCEPT ![b] = f[p]] EXCEPT ![p] = o]
    BY <1>1, <1>4, BackupFacts DEF Locations
  <2>2. /\ g[b] = f[p] /\ g[p] = o
        /\ \A l \in Locations \ {b, p} : g[l] = f[l]
    BY <1>1, <2>1 DEF Files
  <2>3. Distinct(g)
    BY <1>1, <1>2, <1>4, <2>1, <2>2 DEF Distinct, Files
  <2>4. Undo(rec, g) = Rename(g, b, p)
    BY <1>1, <2>1 DEF Undo
  <2>5. Rename(g, b, p) = [g EXCEPT ![p] = g[b], ![b] = None]
    BY <1>1, <1>4, <2>1, <2>2 DEF Rename
  <2>6. [g EXCEPT ![p] = g[b], ![b] = None] = f
    <3> DEFINE r == [g EXCEPT ![p] = g[b], ![b] = None]
    <3>1. r \in [Locations -> Objs \cup {None}] /\ f \in [Locations -> Objs \cup {None}]
      BY <1>1, <1>2, <2>1 DEF Files
    <3>2. \A l \in Locations : r[l] = f[l]
      BY <1>1, <1>2, <2>1, <2>2 DEF Files
    <3>3. r = f
      <4> HIDE DEF r
      <4> QED BY <3>1, <3>2
    <3> QED BY <3>3
  <2> QED BY <1>2, <2>3, <2>4, <2>5, <2>6
<1> QED BY <1>3, <1>4

\* _undo_rename_tree_entry takes back what _rename_tree_file did.
LEMMA UndoRename ==
    ASSUME NEW f \in Files, NEW s \in Locations, NEW t \in Locations,
           \E u \in UndoNames : f[u] = None,
           Distinct(f), s # t, f[s] # None
    PROVE  LET rec == [op |-> "rename", source |-> s, target |-> t,
                       backup |-> BackupName(f, t), obj |-> None]
               g   == Rename(Backup(f, t), s, t)
           IN  /\ rec \in UndoRecords
               /\ g \in Files
               /\ Distinct(g)
               /\ Undo(rec, g) = f
<1> DEFINE b == BackupName(f, t)
           rec == [op |-> "rename", source |-> s, target |-> t, backup |-> b, obj |-> None]
           g   == Rename(Backup(f, t), s, t)
<1>1. None \notin UndoNames /\ None \notin Objs
  BY StoreAssumption
<1>2. rec \in UndoRecords /\ g \in Files
  BY BackupFacts, RenameFacts DEF UndoRecords
<1>3. CASE f[t] = None
  <2>1. b = None /\ g = [f EXCEPT ![t] = f[s], ![s] = None]
    BY <1>3, BackupFacts DEF Rename
  <2>2. Distinct(g)
    BY <2>1 DEF Distinct, Files
  <2>3. Undo(rec, g) = Rename(g, t, s)
    BY <2>1 DEF Undo
  <2>4. Rename(g, t, s) = [g EXCEPT ![s] = g[t], ![t] = None]
    BY <2>1 DEF Rename, Files
  <2>5. [g EXCEPT ![s] = g[t], ![t] = None] = f
    BY <1>3, <2>1 DEF Files
  <2> QED BY <1>2, <2>2, <2>3, <2>4, <2>5
<1>4. CASE f[t] # None
  <2>1. /\ b \in UndoNames /\ f[b] = None /\ b # s /\ b # t /\ b \in Locations
        /\ Backup(f, t) = [f EXCEPT ![b] = f[t]]
    BY <1>1, <1>4, BackupFacts DEF Locations
  <2>2. f[s] # f[t]
    BY <1>4 DEF Distinct
  <2>3. g = [[f EXCEPT ![b] = f[t]] EXCEPT ![t] = f[s], ![s] = None]
    BY <2>1, <2>2 DEF Rename, Files
  <2>4. /\ g[b] = f[t] /\ g[t] = f[s] /\ g[s] = None
        /\ \A l \in Locations \ {b, s, t} : g[l] = f[l]
    <3> HIDE DEF g
    <3> QED BY <2>1, <2>3 DEF Files
  <2>5. Distinct(g)
    <3> HIDE DEF g
    <3> QED BY <2>1, <2>2, <2>4 DEF Distinct
  <2> DEFINE r == Rename(g, t, s)
  <2>6. r = [g EXCEPT ![s] = g[t], ![t] = None]
    <3> HIDE DEF g
    <3> QED BY <2>4 DEF Rename
  <2>7. /\ r[s] = f[s] /\ r[t] = None /\ r[b] = f[t] /\ r \in Files
        /\ \A l \in Locations \ {b, s, t} : r[l] = f[l]
    <3> HIDE DEF g, r
    <3> QED BY <1>2, <2>1, <2>4, <2>6 DEF Files
  <2>8. Undo(rec, g) = Rename(r, b, t)
    <3> HIDE DEF g
    <3> QED BY <1>1, <2>1 DEF Undo
  <2>9. Rename(r, b, t) = [r EXCEPT ![t] = r[b], ![b] = None]
    <3> HIDE DEF r
    <3> QED BY <1>4, <2>1, <2>7 DEF Rename
  <2>10. [r EXCEPT ![t] = r[b], ![b] = None] = f
    <3> HIDE DEF r
    <3> QED BY <2>1, <2>7 DEF Files
  <2> QED BY <1>2, <2>5, <2>8, <2>9, <2>10
<1> QED BY <1>3, <1>4

\* _undo_remove_tree_entry takes back what _remove_tree_entry did.
LEMMA UndoRemove ==
    ASSUME NEW f \in Files, NEW p \in Locations,
           \E u \in UndoNames : f[u] = None,
           Distinct(f), f[p] # None
    PROVE  LET rec == [op |-> "remove", source |-> None, target |-> p,
                       backup |-> BackupName(f, p), obj |-> None]
               g   == [Backup(f, p) EXCEPT ![p] = None]
           IN  /\ rec \in UndoRecords
               /\ g \in Files
               /\ Distinct(g)
               /\ Undo(rec, g) = f
<1> DEFINE b == BackupName(f, p)
           rec == [op |-> "remove", source |-> None, target |-> p, backup |-> b, obj |-> None]
           g   == [Backup(f, p) EXCEPT ![p] = None]
<1>1. None \notin UndoNames /\ None \notin Objs
  BY StoreAssumption
<1>2. rec \in UndoRecords /\ g \in Files
  BY BackupFacts DEF UndoRecords, Files
<1>3. /\ b \in UndoNames /\ f[b] = None /\ b # p /\ b \in Locations
      /\ g = [[f EXCEPT ![b] = f[p]] EXCEPT ![p] = None]
  BY BackupFacts DEF Locations
<1>4. /\ g[b] = f[p] /\ g[p] = None
      /\ \A l \in Locations \ {b, p} : g[l] = f[l]
  <2> HIDE DEF g
  <2> QED BY <1>3 DEF Files
<1>5. Distinct(g)
  <2> HIDE DEF g, b
  <2> SUFFICES ASSUME NEW l \in Locations, NEW m \in Locations, l # m, g[l] = g[m]
               PROVE  g[l] = None
    BY DEF Distinct
  <2>1. CASE l = p \/ m = p
    BY <1>4, <2>1
  <2>2. CASE l = b \/ m = b
    BY <1>3, <1>4, <2>2 DEF Distinct
  <2> QED BY <1>4, <2>1, <2>2 DEF Distinct
<1>6. Undo(rec, g) = Rename(g, b, p)
  <2> HIDE DEF g
  <2> QED BY <1>1, <1>3 DEF Undo
<1>7. Rename(g, b, p) = [g EXCEPT ![p] = g[b], ![b] = None]
  <2> HIDE DEF g
  <2> QED BY <1>3, <1>4 DEF Rename
<1>8. [g EXCEPT ![p] = g[b], ![b] = None] = f
  <2> HIDE DEF g
  <2> QED BY <1>2, <1>3, <1>4 DEF Files
<1> QED BY <1>2, <1>5, <1>6, <1>7, <1>8

-----------------------------------------------------------------------------
(***************************************************************************)
(* The journal: what the pushes of the helpers and the pops of the         *)
(* rollback do to the part of the invariant that speaks of the stacks.     *)
(***************************************************************************)

JournalKept ==
    /\ fs' \in Files /\ Distinct(fs')
    /\ objects' \subseteq Objs
    /\ undo_stack' \in Seq(UndoRecords) /\ trail' \in Seq(Files)
    /\ cleanup_stack' \in Seq(CleanupRecords)
    /\ before' \in [fs : Files, objects : SUBSET Objs]
    /\ undo_failed' \in BOOLEAN
    /\ TrailSound' /\ ObjectsSound'

Settled == pc \in {"idle", "cleanup"}

\* A step that touches neither files nor journal.
LEMMA QuietKept ==
    ASSUME JournalSound,
           UNCHANGED <<fs, objects, undo_stack, cleanup_stack, trail, undo_failed, before>>,
           ~Settled \/ Settled'
    PROVE  JournalKept
BY DEF JournalSound, TypeOK, JournalKept, TrailSound, ObjectsSound, Settled, Files, Distinct

\* A step that pushes one undo closure, which takes back what the step did.
LEMMA PushKept ==
    ASSUME JournalSound, ~Settled, NEW rec \in UndoRecords,
           fs' \in Files, Distinct(fs'),
           Undo(rec, fs') = fs,
           rec.obj \notin objects, objects' = (objects \cup {rec.obj}) \ {None},
           undo_stack' = Append(undo_stack, rec),
           trail' = Append(trail, fs),
           cleanup_stack' \in Seq(CleanupRecords),
           UNCHANGED <<undo_failed, before>>
    PROVE  JournalKept
<1>1. /\ undo_stack \in Seq(UndoRecords) /\ trail \in Seq(Files) /\ fs \in Files
      /\ Len(trail) = Len(undo_stack)
      /\ objects \subseteq Objs /\ before \in [fs : Files, objects : SUBSET Objs]
      /\ undo_failed \in BOOLEAN /\ None \notin Objs
      /\ rec.obj \in Objs \cup {None}
  BY StoreAssumption, UndoShape DEF JournalSound, TypeOK, TrailSound, Files
<1> DEFINE n == Len(undo_stack)
<1>2. /\ undo_stack' \in Seq(UndoRecords) /\ trail' \in Seq(Files)
      /\ Len(undo_stack') = n + 1 /\ Len(trail') = n + 1 /\ n \in Nat
      /\ undo_stack'[n + 1] = rec /\ trail'[n + 1] = fs
      /\ \A i \in 1 .. n : undo_stack'[i] = undo_stack[i] /\ trail'[i] = trail[i]
      /\ undo_stack' # <<>>
  BY <1>1
<1>3. TrailSound'
  <2> SUFFICES ASSUME ~undo_failed
               PROVE  /\ trail'[1] = before.fs
                      /\ Undo(undo_stack'[n + 1], fs') = trail'[n + 1]
                      /\ \A i \in 1 .. n : Undo(undo_stack'[i], trail'[i + 1]) = trail'[i]
    <3>1. (n + 1) - 1 = n
      BY <1>2
    <3> HIDE DEF n
    <3> QED BY <1>2, <3>1 DEF TrailSound
  <2>1. CASE n = 0
    <3>1. undo_stack = <<>> /\ fs = before.fs
      BY <1>1, <2>1 DEF JournalSound, TrailSound, Settled
    <3> QED BY <1>2, <2>1, <3>1
  <2>2. CASE n > 0
    <3>1. /\ undo_stack # <<>>
          /\ trail[1] = before.fs
          /\ Undo(undo_stack[n], fs) = trail[n]
          /\ \A i \in 1 .. n - 1 : Undo(undo_stack[i], trail[i + 1]) = trail[i]
      BY <1>1, <2>2 DEF JournalSound, TrailSound, Settled
    <3>2. ASSUME NEW i \in 1 .. n PROVE Undo(undo_stack'[i], trail'[i + 1]) = trail'[i]
      <4>1. CASE i = n
        BY <1>2, <3>1, <4>1
      <4>2. CASE i # n
        <5>1. i \in 1 .. n - 1 /\ i + 1 \in 1 .. n
          BY <1>2, <4>2
        <5> QED BY <1>2, <3>1, <5>1
      <4> QED BY <4>1, <4>2
    <3> QED BY <1>2, <2>2, <3>1, <3>2
  <2>3. n = 0 \/ n > 0
    BY <1>2
  <2> QED BY <2>1, <2>2, <2>3
<1>4. ObjectsSound'
  <2> SUFFICES ASSUME ~undo_failed
               PROVE  /\ \A o \in Objs : o \in objects' <=>
                             (o \in before.objects
                                 \/ \E i \in 1 .. n + 1 : undo_stack'[i].obj = o)
                      /\ \A i \in 1 .. n + 1 : undo_stack'[i].obj \notin before.objects
                      /\ \A i, j \in 1 .. n + 1 :
                             (i # j /\ undo_stack'[i].obj = undo_stack'[j].obj)
                                 => undo_stack'[i].obj = None
    BY <1>2 DEF ObjectsSound
  <2>1. /\ \A o \in Objs : o \in objects <=>
               (o \in before.objects \/ \E i \in 1 .. n : undo_stack[i].obj = o)
        /\ \A i \in 1 .. n : undo_stack[i].obj \notin before.objects
        /\ \A i, j \in 1 .. n : (i # j /\ undo_stack[i].obj = undo_stack[j].obj)
                                    => undo_stack[i].obj = None
    BY DEF JournalSound, ObjectsSound, Settled
  <2>2. \A i \in 1 .. n + 1 : i \in 1 .. n \/ i = n + 1
    BY <1>2
  <2>3. ASSUME NEW o \in Objs
        PROVE  o \in objects' <=> (o \in before.objects
                                     \/ \E i \in 1 .. n + 1 : undo_stack'[i].obj = o)
    <3>1. (\E i \in 1 .. n + 1 : undo_stack'[i].obj = o)
              <=> (rec.obj = o \/ \E i \in 1 .. n : undo_stack[i].obj = o)
      BY <1>2, <2>2
    <3> QED BY <1>1, <2>1, <3>1
  <2>4. ASSUME NEW i \in 1 .. n + 1 PROVE undo_stack'[i].obj \notin before.objects
    BY <1>1, <1>2, <2>1, <2>2
  <2>5. ASSUME NEW i \in 1 .. n, rec.obj = undo_stack[i].obj PROVE rec.obj = None
    BY <1>1, <2>1, <2>5
  <2>6. ASSUME NEW i \in 1 .. n + 1, NEW j \in 1 .. n + 1, i # j,
               undo_stack'[i].obj = undo_stack'[j].obj
        PROVE  undo_stack'[i].obj = None
    BY <1>2, <2>1, <2>2, <2>5, <2>6
  <2> QED BY <2>3, <2>4, <2>6
<1> QED BY <1>1, <1>2, <1>3, <1>4 DEF JournalKept

\* A step that pops one record.
LEMMA PoppedFacts ==
    ASSUME NEW S, NEW q \in Seq(S), q # <<>>
    PROVE  /\ Popped(q) \in Seq(S)
           /\ Len(q) \in Nat /\ Len(q) > 0
           /\ Len(Popped(q)) = Len(q) - 1
           /\ \A i \in 1 .. Len(q) - 1 : Popped(q)[i] = q[i]
           /\ q[Len(q)] \in S
           /\ Popped(q) = <<>> => Len(q) = 1
<1>1. Len(q) \in Nat /\ Len(q) > 0 /\ q[Len(q)] \in S
  OBVIOUS
<1>2. \A i \in 1 .. Len(q) - 1 : q[i] \in S
  BY <1>1
<1>3. Popped(q) \in Seq(S) /\ Len(Popped(q)) = Len(q) - 1
  BY <1>1, <1>2 DEF Popped
<1>4. Popped(q) = <<>> => Len(q) = 1
  BY <1>1, <1>3
<1> QED BY <1>1, <1>3, <1>4 DEF Popped

\* The rollback runs one closure: the files are as they were before its step.
LEMMA PopKept ==
    ASSUME JournalSound, ~Settled, UndoLast
    PROVE  JournalKept
<1> DEFINE n   == Len(undo_stack)
           rec == undo_stack[n]
<1>1. /\ undo_stack \in Seq(UndoRecords) /\ trail \in Seq(Files) /\ fs \in Files
      /\ Len(trail) = n /\ Distinct(fs)
      /\ objects \subseteq Objs /\ before \in [fs : Files, objects : SUBSET Objs]
      /\ undo_failed \in BOOLEAN /\ None \notin Objs
      /\ cleanup_stack \in Seq(CleanupRecords)
  BY StoreAssumption DEF JournalSound, TypeOK, TrailSound, Files
<1>2. /\ undo_stack # <<>>
      /\ undo_stack' = Popped(undo_stack) /\ trail' = Popped(trail)
      /\ fs' = Undo(rec, fs) /\ objects' = objects \ {rec.obj}
      /\ UNCHANGED <<pc, cleanup_stack, undo_failed, before>>
  BY DEF UndoLast, control
<1>3. /\ n \in Nat /\ n > 0 /\ rec \in UndoRecords
      /\ undo_stack' \in Seq(UndoRecords) /\ Len(undo_stack') = n - 1
      /\ \A i \in 1 .. n - 1 : undo_stack'[i] = undo_stack[i]
      /\ undo_stack' = <<>> => n = 1
  BY <1>1, <1>2, PoppedFacts
<1>4. trail # <<>>
  BY <1>1, <1>3
<1>5. /\ trail' \in Seq(Files) /\ Len(trail') = n - 1
      /\ \A i \in 1 .. n - 1 : trail'[i] = trail[i]
  BY <1>1, <1>2, <1>4, PoppedFacts
<1>6. fs' \in Files /\ Distinct(fs')
  BY <1>1, <1>2, <1>3, UndoFacts
<1>7. TrailSound'
  <2> SUFFICES ASSUME ~undo_failed
               PROVE  /\ undo_stack' = <<>> => fs' = before.fs
                      /\ undo_stack' # <<>> =>
                             /\ trail'[1] = before.fs
                             /\ Undo(undo_stack'[n - 1], fs') = trail'[n - 1]
                             /\ \A i \in 1 .. (n - 1) - 1 :
                                    Undo(undo_stack'[i], trail'[i + 1]) = trail'[i]
    BY <1>2, <1>3, <1>5 DEF TrailSound
  <2>1. /\ trail[1] = before.fs
        /\ fs' = trail[n]
        /\ \A i \in 1 .. n - 1 : Undo(undo_stack[i], trail[i + 1]) = trail[i]
    BY <1>2 DEF JournalSound, TrailSound, Settled
  <2>2. CASE undo_stack' = <<>>
    BY <1>3, <2>1, <2>2
  <2>3. CASE undo_stack' # <<>>
    <3>1. n - 1 \in 1 .. n - 1 /\ 1 \in 1 .. n - 1
      <4>1. Len(undo_stack') # 0
        BY <1>3, <2>3
      <4> QED BY <1>3, <4>1
    <3>2. \A i \in 1 .. (n - 1) - 1 : i \in 1 .. n - 1 /\ i + 1 \in 1 .. n - 1
      BY <1>3
    <3>3. (n - 1) + 1 = n
      BY <1>3
    <3> QED BY <1>3, <1>5, <2>1, <2>3, <3>1, <3>2, <3>3
  <2> QED BY <2>2, <2>3
<1>8. ObjectsSound'
  <2> SUFFICES ASSUME ~undo_failed
               PROVE  /\ \A o \in Objs : o \in objects' <=>
                             (o \in before.objects
                                 \/ \E i \in 1 .. n - 1 : undo_stack[i].obj = o)
                      /\ \A i \in 1 .. n - 1 : undo_stack[i].obj \notin before.objects
                      /\ \A i, j \in 1 .. n - 1 :
                             (i # j /\ undo_stack[i].obj = undo_stack[j].obj)
                                 => undo_stack[i].obj = None
    BY <1>2, <1>3 DEF ObjectsSound
  <2>1. /\ \A o \in Objs : o \in objects <=>
               (o \in before.objects \/ \E i \in 1 .. n : undo_stack[i].obj = o)
        /\ \A i \in 1 .. n : undo_stack[i].obj \notin before.objects
        /\ \A i, j \in 1 .. n : (i # j /\ undo_stack[i].obj = undo_stack[j].obj)
                                    => undo_stack[i].obj = None
    BY DEF JournalSound, ObjectsSound, Settled
  <2>2. \A i \in 1 .. n - 1 : i \in 1 .. n /\ i # n
    BY <1>3
  <2>3. \A i \in 1 .. n : i \in 1 .. n - 1 \/ i = n
    BY <1>3
  <2>4. n \in 1 .. n
    BY <1>3
  <2>5. ASSUME NEW o \in Objs
        PROVE  o \in objects' <=> (o \in before.objects
                                     \/ \E i \in 1 .. n - 1 : undo_stack[i].obj = o)
    <3>1. CASE o = rec.obj
      <4>1. o \notin objects' /\ o \notin before.objects
        BY <1>2, <2>1, <2>4, <3>1
      <4>2. \A i \in 1 .. n - 1 : undo_stack[i].obj # o
        BY <1>1, <2>1, <2>2, <2>4, <3>1
      <4> QED BY <4>1, <4>2
    <3>2. CASE o # rec.obj
      BY <1>2, <2>1, <2>2, <2>3, <3>2
    <3> QED BY <3>1, <3>2
  <2> QED BY <2>1, <2>2, <2>5
<1> QED BY <1>1, <1>2, <1>3, <1>5, <1>6, <1>7, <1>8 DEF JournalKept

-----------------------------------------------------------------------------
(***************************************************************************)
(* The helpers of the store, as steps.                                     *)
(***************************************************************************)

\* The part of JournalSound the helpers start from.
LEMMA JournalTypes ==
    ASSUME JournalSound
    PROVE  /\ fs \in Files /\ Distinct(fs) /\ objects \subseteq Objs
           /\ undo_stack \in Seq(UndoRecords) /\ trail \in Seq(Files)
           /\ cleanup_stack \in Seq(CleanupRecords)
           /\ None \notin objects /\ None \notin Objs /\ None \notin UndoNames
           /\ (objects \cup {None}) \ {None} = objects
BY StoreAssumption DEF JournalSound, TypeOK, Files

\* Every helper pushes through Journal.
LEMMA JournalPush ==
    ASSUME JournalSound, ~Settled, NEW rec \in UndoRecords, rec.obj = None,
           NEW obj \in Objs \cup {None}, Journal(rec, obj),
           fs' \in Files, Distinct(fs'), Undo(rec, fs') = fs, UNCHANGED objects
    PROVE  JournalKept
<1>1. [backup |-> rec.backup, obj |-> obj] \in CleanupRecords
  BY UndoShape DEF CleanupRecords
<1>2. cleanup_stack' \in Seq(CleanupRecords)
  BY <1>1, JournalTypes DEF Journal
<1>3. rec.obj \notin objects /\ objects' = (objects \cup {rec.obj}) \ {None}
  BY JournalTypes
<1>4. /\ undo_stack' = Append(undo_stack, rec) /\ trail' = Append(trail, fs)
      /\ UNCHANGED <<undo_failed, before>>
  BY DEF Journal
<1> QED BY <1>2, <1>3, <1>4, PushKept

\* _replace_tree_entry leaves a closure that takes it back.
LEMMA ReplaceKept ==
    ASSUME JournalSound, ~Settled, NEW p \in Paths, NEW o \in Objs,
           \A l \in Locations : fs[l] # o,
           ReplaceTreeEntry(p, o), UNCHANGED objects
    PROVE  JournalKept
<1> DEFINE rec == [op |-> "replace", source |-> None, target |-> p,
                   backup |-> BackupName(fs, p), obj |-> None]
<1>1. \E u \in UndoNames : fs[u] = None
  BY DEF ReplaceTreeEntry, Journal
<1>2. Journal(rec, None) /\ fs' = [Backup(fs, p) EXCEPT ![p] = o]
  BY DEF ReplaceTreeEntry
<1>3. rec \in UndoRecords /\ fs' \in Files /\ Distinct(fs') /\ Undo(rec, fs') = fs
  BY <1>1, <1>2, JournalTypes, UndoReplace
<1>4. rec.obj = None
  OBVIOUS
<1> HIDE DEF rec
<1> QED BY <1>2, <1>3, <1>4, JournalPush

\* _rename_tree_file, between two different places, leaves a closure that takes it back.
LEMMA RenameKept ==
    ASSUME JournalSound, ~Settled, NEW s \in Locations, NEW t \in Locations, s # t,
           RenameTreeFile(s, t), UNCHANGED objects
    PROVE  JournalKept
<1> DEFINE rec == [op |-> "rename", source |-> s, target |-> t,
                   backup |-> BackupName(fs, t), obj |-> None]
<1>1. fs[s] # None /\ \E u \in UndoNames : fs[u] = None
  BY DEF RenameTreeFile, Journal
<1>2. Journal(rec, None) /\ fs' = Rename(Backup(fs, t), s, t)
  BY DEF RenameTreeFile
<1>3. rec \in UndoRecords /\ fs' \in Files /\ Distinct(fs') /\ Undo(rec, fs') = fs
  BY <1>1, <1>2, JournalTypes, UndoRename
<1>4. rec.obj = None
  OBVIOUS
<1> HIDE DEF rec
<1> QED BY <1>2, <1>3, <1>4, JournalPush

\* Noting an object for the cleanup changes nothing the rollback reads.
LEMMA SupersedeKept ==
    ASSUME JournalSound, ~Settled, NEW obj \in Objs \cup {None}, Supersede(obj),
           UNCHANGED <<fs, objects>>
    PROVE  JournalKept
<1>1. [backup |-> None, obj |-> obj] \in CleanupRecords
  BY DEF CleanupRecords
<1>2. cleanup_stack' \in Seq(CleanupRecords)
  BY <1>1, JournalTypes DEF Supersede
<1>3. UNCHANGED <<undo_stack, trail, undo_failed, before>>
  BY DEF Supersede
<1> QED BY <1>2, <1>3 DEF JournalSound, TypeOK, JournalKept, TrailSound, ObjectsSound,
                          Settled, Files, Distinct

\* _remove_tree_entry leaves a closure that takes it back, or removes nothing.
LEMMA RemoveKept ==
    ASSUME JournalSound, ~Settled, NEW p \in Locations, NEW obj \in Objs \cup {None},
           RemoveTreeEntry(p, obj), UNCHANGED objects
    PROVE  JournalKept
<1> DEFINE rec == [op |-> "remove", source |-> None, target |-> p,
                   backup |-> BackupName(fs, p), obj |-> None]
<1>1. CASE fs[p] = None
  <2>1. Supersede(obj) /\ UNCHANGED <<fs, objects>>
    BY <1>1 DEF RemoveTreeEntry
  <2> QED BY <2>1, SupersedeKept
<1>2. CASE fs[p] # None
  <2>1. Journal(rec, obj) /\ fs' = [Backup(fs, p) EXCEPT ![p] = None]
    BY <1>2 DEF RemoveTreeEntry
  <2>2. \E u \in UndoNames : fs[u] = None
    BY <2>1 DEF Journal
  <2>3. rec \in UndoRecords /\ fs' \in Files /\ Distinct(fs') /\ Undo(rec, fs') = fs
    BY <1>2, <2>1, <2>2, JournalTypes, UndoRemove
  <2>4. rec.obj = None
    OBVIOUS
  <2> HIDE DEF rec
  <2> QED BY <2>1, <2>3, <2>4, JournalPush
<1> QED BY <1>1, <1>2

-----------------------------------------------------------------------------
(***************************************************************************)
(* JournalSound is inductive: one lemma per operation of the store.        *)
(***************************************************************************)

\* The part of JournalSound that speaks of the catalog and of submit's locals.
LocalsTyped ==
    /\ catalog \in Tables /\ work \in Tables
    /\ content \in [Objs -> Hashes]
    /\ pc \in Stages
    /\ status \in {"none", "queued", "applied", "failed"}
    /\ writer \in Writers
    /\ from \in [Keys -> Paths \cup {None}]
    /\ temp \in [Paths -> UndoNames \cup {None}]
    /\ fresh \in Objs \cup {None}

\* JournalSound has two halves: the files with their journal, and submit's locals.
LEMMA TwoHalves ==
    ASSUME JournalKept, LocalsTyped', LocalsSound'
    PROVE  JournalSound'
BY DEF JournalKept, LocalsTyped, JournalSound, TypeOK, Files

\* The second half of JournalSound: submit's locals.
LEMMA LocalsHalf ==
    ASSUME JournalSound
    PROVE  LocalsTyped /\ LocalsSound
BY DEF LocalsTyped, JournalSound, TypeOK

\* An exception, a fault or a death only lets go of the open transaction.
LEMMA RaiseSound ==
    ASSUME JournalSound, ~Settled, Raise
    PROVE  JournalSound'
<1>1. JournalKept
  BY QuietKept DEF Raise, journal
<1>2. LocalsTyped' /\ LocalsSound'
  BY LocalsHalf DEF LocalsTyped, LocalsSound, Raise, Stages
<1> QED BY <1>1, <1>2, TwoHalves

\* submit's locals and stacks are gone: it returned, or its process died.
LEMMA ForgetSound ==
    ASSUME JournalSound, Forget, work' \in Tables,
           UNCHANGED <<catalog, fs, objects, content, status, before>>
    PROVE  JournalSound'
<1>1. /\ pc' = "idle" /\ undo_stack' = <<>> /\ trail' = <<>> /\ cleanup_stack' = <<>>
      /\ undo_failed' = FALSE /\ UNCHANGED writer /\ fresh' = None
      /\ from' = [k \in Keys |-> None] /\ temp' = [p \in Paths |-> None]
  BY DEF Forget
<1>2. JournalKept
  <2>1. TrailSound' /\ ObjectsSound'
    BY <1>1 DEF TrailSound, ObjectsSound
  <2>2. /\ undo_stack' \in Seq(UndoRecords) /\ trail' \in Seq(Files)
        /\ cleanup_stack' \in Seq(CleanupRecords)
    BY <1>1
  <2>3. before' \in [fs : Files, objects : SUBSET Objs] /\ Distinct(fs')
    BY DEF JournalSound, TypeOK, Files, Distinct
  <2>4. undo_failed' \in BOOLEAN
    BY <1>1
  <2> QED BY <2>1, <2>2, <2>3, <2>4, JournalTypes DEF JournalKept
<1>3. LocalsTyped'
  BY <1>1, LocalsHalf DEF LocalsTyped, Stages
<1>4. LocalsSound'
  BY <1>1 DEF LocalsSound
<1> QED BY <1>2, <1>3, <1>4, TwoHalves

\* A row of the open transaction is None or a Row.
LEMMA WorkRow ==
    ASSUME JournalSound, NEW id \in Ids, work.rows[id] # None
    PROVE  /\ work.rows[id] \in Row
           /\ work.rows[id].path \in Locations
           /\ work.rows[id].hash \in Hashes
           /\ work.rows[id].obj \in Objs
BY DEF JournalSound, TypeOK, Tables, Row

\* A put names one source key.
LEMMA PutOpKey ==
    ASSUME NEW k, NEW p, NEW h, NEW j, NEW q, NEW g, PutOp(k, p, h) = PutOp(j, q, g)
    PROVE  k = j
BY DEF PutOp

\* The QUEUED insert at the head of submit starts from empty stacks.
LEMMA AcceptSound ==
    ASSUME JournalSound, NEW w \in Writers, NEW batch \in Batches, Accept(w, batch)
    PROVE  JournalSound'
<1>1. JournalKept
  <2>1. /\ undo_stack' = <<>> /\ trail' = <<>> /\ cleanup_stack' = <<>>
        /\ undo_failed' = FALSE /\ fs' = fs /\ objects' = objects
        /\ before' = [fs |-> fs, objects |-> objects]
    BY DEF Accept, data
  <2>2. TrailSound' /\ ObjectsSound'
    BY <2>1 DEF TrailSound, ObjectsSound
  <2>3. fs' \in Files /\ Distinct(fs') /\ objects' \subseteq Objs
    BY <2>1, JournalTypes
  <2>4. before' \in [fs : Files, objects : SUBSET Objs]
    BY <2>1, JournalTypes
  <2>5. undo_stack' \in Seq(UndoRecords) /\ trail' \in Seq(Files)
        /\ cleanup_stack' \in Seq(CleanupRecords)
    BY <2>1
  <2>6. undo_failed' \in BOOLEAN
    BY <2>1
  <2> QED BY <2>2, <2>3, <2>4, <2>5, <2>6 DEF JournalKept
<1>2. LocalsTyped' /\ LocalsSound'
  BY LocalsHalf DEF LocalsTyped, LocalsSound, Accept, Stages, data
<1> QED BY <1>1, <1>2, TwoHalves

\* The steps of _put keep the journal sound.
LEMMA PutSound ==
    ASSUME JournalSound, NEW k \in Keys, NEW p \in Paths, NEW h \in Hashes, PutStep(k, p, h)
    PROVE  JournalSound'
<1> DEFINE id == <<writer, k>>
<1>1. id \in Ids /\ p \in Locations /\ fresh \in Objs \cup {None}
  BY LocalsHalf DEF LocalsTyped, Ids, Locations
<1>2. CASE PutUnchanged(k, p, h)
  <2>1. JournalKept
    <3>1. ~Settled /\ UNCHANGED objects /\ work.rows[id] # None
      BY <1>2 DEF PutUnchanged, Settled, Unchanged
    <3>2. CASE UNCHANGED <<fs, journal>>
      BY <3>1, <3>2, QuietKept DEF journal
    <3>3. CASE work.rows[id].path # p /\ RenameTreeFile(work.rows[id].path, p)
      BY <1>1, <3>1, <3>3, WorkRow, RenameKept
    <3> QED BY <1>2, <3>2, <3>3 DEF PutUnchanged
  <2>2. LocalsTyped'
    BY <1>2, LocalsHalf DEF LocalsTyped, PutUnchanged, Stages
  <2>3. LocalsSound'
    BY <1>2, PutOpKey DEF LocalsSound, PutUnchanged, Unchanged
  <2> QED BY <2>1, <2>2, <2>3, TwoHalves
<1>3. CASE PutObject(k, p, h)
  <2> DEFINE o   == CHOOSE x \in Objs : UnusedObject(x)
             rec == [op |-> "object", source |-> None, target |-> None,
                     backup |-> None, obj |-> o]
  <2>1. o \in Objs /\ UnusedObject(o)
    BY <1>3 DEF PutObject
  <2>2. /\ fresh' = o /\ objects' = objects \cup {o}
        /\ content' = [content EXCEPT ![o] = h]
        /\ undo_stack' = Append(undo_stack, rec) /\ trail' = Append(trail, fs)
        /\ pc = "next" /\ pc' = "put_tree"
        /\ UNCHANGED <<catalog, work, fs, cleanup_stack, undo_failed, before>>
        /\ UNCHANGED <<status, writer, ops, todo, moves, breaks, from, temp>>
    BY <1>3 DEF PutObject
  <2> HIDE DEF o
  <2>3. rec \in UndoRecords /\ rec.obj = o /\ Undo(rec, fs') = fs
    BY <2>1, <2>2 DEF UndoRecords, Undo
  <2>4. objects' = (objects \cup {rec.obj}) \ {None} /\ rec.obj \notin objects
    BY <2>1, <2>2, <2>3, JournalTypes DEF UnusedObject
  <2>5. fs' \in Files /\ Distinct(fs') /\ cleanup_stack' \in Seq(CleanupRecords) /\ ~Settled
    BY <2>2, JournalTypes DEF Settled
  <2>6. JournalKept
    <3> HIDE DEF rec
    <3> QED BY <2>2, <2>3, <2>4, <2>5, PushKept
  <2>7. LocalsTyped'
    BY <2>1, <2>2, LocalsHalf DEF LocalsTyped, Stages
  <2>8. LocalsSound'
    BY <2>1, <2>2 DEF LocalsSound, UnusedObject
  <2> QED BY <2>6, <2>7, <2>8, TwoHalves
<1>4. CASE PutTree(k, p, h)
  <2>1. fresh \in Objs /\ (\A l \in Locations : fs[l] # fresh) /\ ~Settled
    BY <1>4, LocalsHalf DEF PutTree, LocalsSound, Settled
  <2>2. JournalKept
    BY <1>4, <2>1, ReplaceKept DEF PutTree
  <2>3. LocalsTyped' /\ LocalsSound'
    BY <1>4, <2>1, LocalsHalf DEF LocalsTyped, LocalsSound, PutTree, Stages
  <2> QED BY <2>2, <2>3, TwoHalves
<1>5. CASE PutOldPath(k, p, h)
  <2>1. ~Settled /\ UNCHANGED objects /\ fresh \in Objs
    BY <1>5, LocalsHalf DEF PutOldPath, Settled, LocalsSound
  <2>2. JournalKept
    <3>1. CASE UNCHANGED <<fs, journal>>
      BY <2>1, <3>1, QuietKept DEF journal
    <3>2. CASE work.rows[id] # None /\ Supersede(work.rows[id].obj) /\ UNCHANGED fs
      BY <1>1, <2>1, <3>2, WorkRow, SupersedeKept
    <3>3. CASE work.rows[id] # None /\ RemoveTreeEntry(work.rows[id].path, work.rows[id].obj)
      BY <1>1, <2>1, <3>3, WorkRow, RemoveKept
    <3> QED BY <1>5, <3>1, <3>2, <3>3 DEF PutOldPath
  <2>3. LocalsTyped'
    BY <1>5, LocalsHalf DEF LocalsTyped, PutOldPath, Stages
  <2>4. LocalsSound'
    <3>1. pc' = "put_row" /\ fresh' # None
      BY <1>5, <2>1, JournalTypes DEF PutOldPath
    <3> QED BY <3>1 DEF LocalsSound
  <2> QED BY <2>2, <2>3, <2>4, TwoHalves
<1>6. CASE PutRow(k, p, h)
  <2> DEFINE row == [path |-> p, hash |-> h,
                     obj |-> IF fresh # None THEN fresh ELSE work.rows[id].obj]
  <2>1. ~Settled /\ pc' = "next"
    BY <1>6 DEF PutRow, Settled
  <2>2. JournalKept
    BY <1>6, <2>1, QuietKept DEF PutRow, journal
  <2>3. row \in Row
    <3>1. fresh = None => work.rows[id] # None
      BY <1>6, LocalsHalf DEF PutRow, LocalsSound
    <3> QED BY <1>1, <3>1, WorkRow DEF Row
  <2>4. work' = [work EXCEPT !.rows[id] = row]
    BY <1>6 DEF PutRow
  <2>5. work' \in Tables
    <3> HIDE DEF row, id
    <3> QED BY <1>1, <2>3, <2>4, LocalsHalf DEF LocalsTyped, Tables
  <2>6. LocalsTyped'
    BY <1>6, <2>5, LocalsHalf DEF LocalsTyped, PutRow, Stages
  <2>7. LocalsSound'
    BY <2>1 DEF LocalsSound
  <2> QED BY <2>2, <2>6, <2>7, TwoHalves
<1>7. CASE PutRaises(k, p, h)
  <2>1. ~Settled /\ Raise
    BY <1>7 DEF PutRaises, Settled
  <2> QED BY <2>1, RaiseSound
<1> QED BY <1>2, <1>3, <1>4, <1>5, <1>6, <1>7 DEF PutStep

\* The steps of _delete keep the journal sound.
LEMMA DeleteSound ==
    ASSUME JournalSound, NEW k \in Keys, DeleteStep(k)
    PROVE  JournalSound'
<1> DEFINE id == <<writer, k>>
<1>1. id \in Ids /\ None \in Objs \cup {None}
  BY LocalsHalf DEF LocalsTyped, Ids
<1>2. CASE DeleteUnknown(k)
  <2>1. JournalKept
    BY <1>2, QuietKept DEF DeleteUnknown, Settled, data, journal
  <2>2. LocalsTyped' /\ LocalsSound'
    BY <1>2, LocalsHalf DEF LocalsTyped, LocalsSound, DeleteUnknown, data
  <2> QED BY <2>1, <2>2, TwoHalves
<1>3. CASE DeleteTree(k)
  <2>1. /\ ~Settled /\ UNCHANGED objects /\ work.rows[id] # None
        /\ RemoveTreeEntry(work.rows[id].path, None)
    BY <1>3 DEF DeleteTree, Settled
  <2>2. JournalKept
    BY <1>1, <2>1, WorkRow, RemoveKept
  <2>3. LocalsTyped' /\ LocalsSound'
    BY <1>3, LocalsHalf DEF LocalsTyped, LocalsSound, DeleteTree, Stages
  <2> QED BY <2>2, <2>3, TwoHalves
<1>4. CASE DeleteRow(k)
  <2>1. JournalKept
    BY <1>4, QuietKept DEF DeleteRow, Settled, journal
  <2>2. work' = [work EXCEPT !.rows[id] = None] /\ pc' = "next"
    BY <1>4 DEF DeleteRow
  <2>3. work' \in Tables
    <3> HIDE DEF id
    <3> QED BY <1>1, <2>2, LocalsHalf DEF LocalsTyped, Tables
  <2>4. LocalsTyped'
    BY <1>4, <2>3, LocalsHalf DEF LocalsTyped, DeleteRow, Stages
  <2>5. LocalsSound'
    BY <2>2 DEF LocalsSound
  <2> QED BY <2>1, <2>4, <2>5, TwoHalves
<1> QED BY <1>2, <1>3, <1>4 DEF DeleteStep

\* _decision writes a row and leaves the journal alone.
LEMMA DecisionSound ==
    ASSUME JournalSound, NEW k \in Keys, NEW p \in Paths \cup {None}, Decision(k, p)
    PROVE  JournalSound'
<1>1. JournalKept
  BY QuietKept DEF Decision, Settled, journal
<1>2. work' = [work EXCEPT !.decided = @ \cup {<<writer, k>>}] /\ UNCHANGED pc /\ pc = "next"
  BY DEF Decision
<1>3. work' \in Tables
  BY <1>2, LocalsHalf DEF LocalsTyped, Tables, Ids
<1>4. LocalsTyped'
  BY <1>3, LocalsHalf DEF LocalsTyped, Decision
<1>5. LocalsSound'
  BY <1>2 DEF LocalsSound
<1> QED BY <1>1, <1>4, <1>5, TwoHalves

\* The steps of _move_batch and _break_move_cycles keep the journal sound.
LEMMA MoveSound ==
    ASSUME JournalSound, MoveStep
    PROVE  JournalSound'
<1>1. LocalsTyped /\ LocalsSound /\ None \notin Paths /\ None \notin UndoNames
  BY LocalsHalf, GrantsAssumption, StoreAssumption
<1>2. CASE MoveBegin
  <2>1. JournalKept
    BY <1>2, QuietKept DEF MoveBegin, Settled, data, journal
  <2>2. /\ pc' = "breaks" /\ temp' = [p \in Paths |-> None]
        /\ UNCHANGED <<catalog, work, content, status, writer, fresh>>
        /\ from' = [k \in Keys |-> IF \E op \in ToSet(MovesAhead) : op.key = k
                                   THEN work.rows[<<writer, k>>].path ELSE None]
        /\ \A op \in ToSet(MovesAhead) : ValidMove(op)
    BY <1>2 DEF MoveBegin, data
  <2>3. ASSUME NEW k \in Keys, NEW op \in ToSet(MovesAhead), op.key = k
        PROVE  work.rows[<<writer, k>>] # None /\ work.rows[<<writer, k>>].path \in Paths
    <3>1. ValidMove(op)
      BY <2>2
    <3>2. Authorized[writer] \subseteq Paths
      BY <1>1, GrantsAssumption DEF LocalsTyped
    <3> QED BY <2>3, <3>1, <3>2 DEF ValidMove
  <2>4. LocalsTyped'
    <3>1. from' \in [Keys -> Paths \cup {None}]
      BY <2>2, <2>3
    <3> QED BY <1>1, <2>2, <3>1 DEF LocalsTyped, Stages
  <2>5. LocalsSound'
    <3>1. ASSUME NEW k \in Keys, from'[k] # None PROVE work.rows[<<writer, k>>] # None
      BY <2>2, <2>3, <3>1
    <3> QED BY <2>2, <3>1 DEF LocalsSound
  <2> QED BY <2>1, <2>4, <2>5, TwoHalves
<1>3. ASSUME NEW p \in Paths, BreakCycle(p) PROVE JournalSound'
  <2>1. ~Settled /\ UNCHANGED objects
    BY <1>3 DEF BreakCycle, Settled
  <2>2. CASE fs[p] = None
    <3>1. JournalKept
      BY <1>3, <2>1, <2>2, QuietKept DEF BreakCycle, journal
    <3>2. LocalsTyped' /\ LocalsSound'
      BY <1>1, <1>3, <2>2 DEF LocalsTyped, LocalsSound, BreakCycle
    <3> QED BY <3>1, <3>2, TwoHalves
  <2>3. CASE fs[p] # None
    <3>1. RenameTreeFile(p, JournalName(fs)) /\ temp' = [temp EXCEPT ![p] = JournalName(fs)]
      BY <1>3, <2>3 DEF BreakCycle
    <3>2. \E u \in UndoNames : fs[u] = None
      BY <3>1 DEF RenameTreeFile, Journal
    <3>3. JournalName(fs) \in UndoNames
      BY <3>2, JournalTypes, FreeJournalName
    <3>4. JournalKept
      <4>1. p \in Locations /\ JournalName(fs) \in Locations /\ p # JournalName(fs)
        BY <3>3, StoreAssumption DEF Locations
      <4> QED BY <2>1, <3>1, <4>1, RenameKept
    <3>5. LocalsTyped' /\ LocalsSound'
      BY <1>1, <1>3, <3>1, <3>3 DEF LocalsTyped, LocalsSound, BreakCycle
    <3> QED BY <3>4, <3>5, TwoHalves
  <2> QED BY <2>2, <2>3
<1>4. CASE RekeyParked
  <2>1. JournalKept
    BY <1>4, QuietKept DEF RekeyParked, Settled, journal
  <2> DEFINE parked(id) == id[1] = writer /\ from[id[2]] # None /\ temp[from[id[2]]] # None
             rows == [id \in Ids |-> IF parked(id)
                                     THEN [work.rows[id] EXCEPT !.path = temp[from[id[2]]]]
                                     ELSE work.rows[id]]
  <2>2. pc = "breaks" /\ pc' = "moves" /\ work' = [work EXCEPT !.rows = rows]
    BY <1>4 DEF RekeyParked
  <2>3. ASSUME NEW id \in Ids
        PROVE  /\ rows[id] \in Row \cup {None}
               /\ work.rows[id] # None => rows[id] # None
    <3>1. work.rows[id] \in Row \cup {None} /\ None \notin Row
      BY <1>1, StoreAssumption DEF LocalsTyped, Tables
    <3>2. CASE parked(id)
      <4>1. id[2] \in Keys /\ id = <<writer, id[2]>>
        BY <3>2 DEF Ids
      <4>2. work.rows[id] # None
        BY <1>1, <2>2, <3>2, <4>1 DEF LocalsSound
      <4>3. from[id[2]] \in Paths /\ temp[from[id[2]]] \in Locations
        BY <1>1, <3>2, <4>1 DEF LocalsTyped, Locations
      <4> QED BY <3>1, <3>2, <4>2, <4>3 DEF Row
    <3>3. CASE ~parked(id)
      BY <3>1, <3>3
    <3> QED BY <3>2, <3>3
  <2>4. work'.rows = rows /\ work' \in Tables
    <3>1. rows \in [Ids -> Row \cup {None}]
      BY <2>3
    <3> HIDE DEF rows
    <3> QED BY <1>1, <2>2, <3>1 DEF LocalsTyped, Tables
  <2>5. LocalsTyped'
    BY <1>1, <1>4, <2>4 DEF LocalsTyped, RekeyParked, Stages
  <2>6. LocalsSound'
    <3>1. ASSUME NEW k \in Keys, from[k] # None PROVE rows[<<writer, k>>] # None
      <4>1. <<writer, k>> \in Ids
        BY <1>1 DEF LocalsTyped, Ids
      <4>2. work.rows[<<writer, k>>] # None
        BY <1>1, <2>2, <3>1 DEF LocalsSound
      <4> HIDE DEF rows
      <4> QED BY <2>3, <4>1, <4>2
    <3>2. UNCHANGED <<from, writer>>
      BY <1>4 DEF RekeyParked
    <3> HIDE DEF rows
    <3> QED BY <2>2, <2>4, <3>1, <3>2 DEF LocalsSound
  <2> QED BY <2>1, <2>5, <2>6, TwoHalves
<1>5. ASSUME NEW k \in Keys, NEW p \in Paths, NEW h \in Hashes, MoveFile(k, p, h)
      PROVE  JournalSound'
  <2>1. ~Settled /\ UNCHANGED objects /\ from[k] \in Paths
    BY <1>1, <1>5 DEF MoveFile, Settled, LocalsTyped
  <2>2. JournalKept
    <3>1. CASE from[k] = p \/ fs[MoveSource(k)] = None
      BY <1>5, <2>1, <3>1, QuietKept DEF MoveFile, journal
    <3>2. CASE ~(from[k] = p \/ fs[MoveSource(k)] = None)
      <4>1. RenameTreeFile(MoveSource(k), p)
        BY <1>5, <3>2 DEF MoveFile
      <4>2. temp[from[k]] \in UndoNames \cup {None}
        BY <1>1, <2>1 DEF LocalsTyped
      <4>3. MoveSource(k) \in Locations /\ p \in Locations /\ MoveSource(k) # p
        BY <2>1, <3>2, <4>2, StoreAssumption DEF MoveSource, Locations
      <4> QED BY <2>1, <4>1, <4>3, RenameKept
    <3> QED BY <3>1, <3>2
  <2>3. LocalsTyped' /\ LocalsSound'
    BY <1>1, <1>5 DEF LocalsTyped, LocalsSound, MoveFile, Stages
  <2> QED BY <2>2, <2>3, TwoHalves
<1>6. ASSUME NEW k \in Keys, NEW p \in Paths, NEW h \in Hashes, MoveRow(k, p, h)
      PROVE  JournalSound'
  <2>1. JournalKept
    BY <1>6, QuietKept DEF MoveRow, Settled, journal
  <2> DEFINE id  == <<writer, k>>
             row == [work.rows[id] EXCEPT !.path = p]
  <2>2. id \in Ids /\ work.rows[id] # None /\ p \in Locations
    BY <1>1, <1>6 DEF LocalsTyped, LocalsSound, MoveRow, Ids, Locations
  <2>3. row \in Row /\ row # None
    BY <2>2, WorkRow, StoreAssumption DEF Row
  <2>4. work' = [work EXCEPT !.rows[id] = row] /\ pc' = "moves"
    BY <1>6 DEF MoveRow
  <2>5. /\ work' \in Tables
        /\ \A j \in Ids : work.rows[j] # None => work'.rows[j] # None
    <3> HIDE DEF row, id
    <3> QED BY <1>1, <2>2, <2>3, <2>4 DEF LocalsTyped, Tables
  <2>6. LocalsTyped'
    BY <1>1, <1>6, <2>5 DEF LocalsTyped, MoveRow, Stages
  <2>7. LocalsSound'
    <3>1. \A j \in Keys : <<writer, j>> \in Ids
      BY <1>1 DEF LocalsTyped, Ids
    <3>2. pc = "move_row" /\ UNCHANGED <<from, writer>>
      BY <1>6 DEF MoveRow
    <3> QED BY <1>1, <2>4, <2>5, <3>1, <3>2 DEF LocalsSound
  <2> QED BY <2>1, <2>6, <2>7, TwoHalves
<1>7. CASE MoveBatchDone
  <2>1. JournalKept
    BY <1>7, QuietKept DEF MoveBatchDone, Settled, data, journal
  <2>2. LocalsTyped' /\ LocalsSound'
    BY <1>1, <1>7 DEF LocalsTyped, LocalsSound, MoveBatchDone, Stages, data
  <2> QED BY <2>1, <2>2, TwoHalves
<1>8. CASE MoveRaises
  <2>1. ~Settled /\ Raise
    BY <1>8 DEF MoveRaises, Settled
  <2> QED BY <2>1, RaiseSound
<1> QED BY <1>2, <1>3, <1>4, <1>5, <1>6, <1>7, <1>8 DEF MoveStep

\* _rollback_filesystem, the FAILED update and _cleanup_filesystem keep it sound.
LEMMA RollbackSound ==
    ASSUME JournalSound,
           UndoLast \/ UndoRaises \/ MarkFailed \/ MarkFailedRaises
               \/ CleanupFirst \/ CleanupRaises \/ Return
    PROVE  JournalSound'
<1>1. LocalsTyped /\ LocalsSound
  BY LocalsHalf
<1>2. CASE UndoLast
  <2>1. JournalKept
    BY <1>2, PopKept DEF UndoLast, Settled
  <2>2. LocalsTyped'
    BY <1>1, <1>2 DEF LocalsTyped, UndoLast, control
  <2>3. LocalsSound'
    BY <1>2 DEF LocalsSound, UndoLast, control
  <2> QED BY <2>1, <2>2, <2>3, TwoHalves
<1>3. CASE UndoRaises
  <2>1. JournalKept
    <3>1. /\ undo_stack # <<>> /\ undo_failed' = TRUE
          /\ undo_stack' = Popped(undo_stack) /\ trail' = Popped(trail)
          /\ UNCHANGED <<fs, objects, cleanup_stack, before>>
      BY <1>3 DEF UndoRaises, data
    <3>2. Len(trail) = Len(undo_stack)
      BY DEF JournalSound, TrailSound
    <3>3. trail # <<>>
      BY <3>1, <3>2, JournalTypes
    <3>4. /\ undo_stack' \in Seq(UndoRecords) /\ trail' \in Seq(Files)
          /\ Len(trail') = Len(undo_stack')
      BY <3>1, <3>2, <3>3, JournalTypes, PoppedFacts
    <3>5. TrailSound' /\ ObjectsSound'
      BY <3>1, <3>4 DEF TrailSound, ObjectsSound
    <3>6. before' \in [fs : Files, objects : SUBSET Objs] /\ Distinct(fs')
      BY <3>1 DEF JournalSound, TypeOK, Files, Distinct
    <3> QED BY <3>1, <3>4, <3>5, <3>6, JournalTypes DEF JournalKept
  <2>2. LocalsTyped'
    BY <1>1, <1>3 DEF LocalsTyped, UndoRaises, control, data
  <2>3. LocalsSound'
    BY <1>3 DEF LocalsSound, UndoRaises, control
  <2> QED BY <2>1, <2>2, <2>3, TwoHalves
<1>4. CASE MarkFailed
  <2>1. JournalKept
    BY <1>4, QuietKept DEF MarkFailed, Settled, data, journal
  <2>2. LocalsTyped' /\ LocalsSound'
    BY <1>1, <1>4 DEF LocalsTyped, LocalsSound, MarkFailed, Stages, data
  <2> QED BY <2>1, <2>2, TwoHalves
<1>5. CASE CleanupFirst
  <2>1. JournalKept
    <3> DEFINE rec == Head(cleanup_stack)
    <3>1. /\ cleanup_stack # <<>> /\ pc = "cleanup" /\ UNCHANGED pc
          /\ fs' = IF rec.backup = None THEN fs ELSE [fs EXCEPT ![rec.backup] = None]
          /\ objects' = objects \ {rec.obj}
          /\ cleanup_stack' = Tail(cleanup_stack)
          /\ UNCHANGED <<undo_stack, undo_failed, before, trail>>
      BY <1>5 DEF CleanupFirst, control
    <3>2. cleanup_stack' \in Seq(CleanupRecords) /\ objects' \subseteq Objs
      BY <3>1, JournalTypes
    <3>3. fs' \in Files /\ Distinct(fs')
      <4> HIDE DEF rec
      <4> QED BY <3>1, JournalTypes DEF Files, Distinct
    <3>4. TrailSound' /\ ObjectsSound'
      BY <3>1 DEF JournalSound, TrailSound, ObjectsSound
    <3> QED BY <3>1, <3>2, <3>3, <3>4 DEF JournalKept, JournalSound, TypeOK, Files
  <2>2. LocalsTyped'
    BY <1>1, <1>5 DEF LocalsTyped, CleanupFirst, control
  <2>3. LocalsSound'
    BY <1>5 DEF LocalsSound, CleanupFirst, control
  <2> QED BY <2>1, <2>2, <2>3, TwoHalves
<1>6. CASE CleanupRaises
  <2>1. JournalKept
    <3>1. /\ cleanup_stack # <<>> /\ cleanup_stack' = Tail(cleanup_stack)
          /\ UNCHANGED <<fs, objects, pc, undo_stack, undo_failed, before, trail>>
      BY <1>6 DEF CleanupRaises, control, data
    <3>2. cleanup_stack' \in Seq(CleanupRecords)
      BY <3>1, JournalTypes
    <3> QED BY <3>1, <3>2 DEF JournalSound, TypeOK, JournalKept, TrailSound, ObjectsSound,
                              Files, Distinct
  <2>2. LocalsTyped'
    BY <1>1, <1>6 DEF LocalsTyped, CleanupRaises, control, data
  <2>3. LocalsSound'
    BY <1>6 DEF LocalsSound, CleanupRaises, control
  <2> QED BY <2>1, <2>2, <2>3, TwoHalves
<1>7. CASE MarkFailedRaises \/ Return
  <2>1. Forget /\ UNCHANGED <<data, status, before>>
    BY <1>7 DEF MarkFailedRaises, Return
  <2>2. work' \in Tables
    BY <1>1, <2>1 DEF LocalsTyped, data
  <2> QED BY <2>1, <2>2, ForgetSound DEF data
<1> QED BY <1>2, <1>3, <1>4, <1>5, <1>6, <1>7

\* A write_bytes that raises half way leaves a sound journal behind.
LEMMA PutObjectTornSound ==
    ASSUME JournalSound, NEW k \in Keys, NEW p \in Paths, NEW h \in Hashes,
           PutObjectTorn(k, p, h)
    PROVE  JournalSound'
<1> DEFINE o == CHOOSE x \in Objs : UnusedObject(x)
<1>1. o \in Objs /\ UnusedObject(o)
  BY DEF PutObjectTorn
<1>2. /\ objects' = objects \cup {o} /\ before' = [before EXCEPT !.objects = @ \cup {o}]
      /\ pc = "next" /\ pc' = "undo" /\ work' = catalog
      /\ UNCHANGED <<catalog, fs, content, undo_stack, cleanup_stack, undo_failed, trail>>
      /\ UNCHANGED <<status, writer, from, temp, fresh>>
  BY DEF PutObjectTorn
<1> HIDE DEF o
<1>3. /\ before \in [fs : Files, objects : SUBSET Objs]
      /\ before'.fs = before.fs /\ before'.objects = before.objects \cup {o}
      /\ before' \in [fs : Files, objects : SUBSET Objs]
  BY <1>1, <1>2 DEF JournalSound, TypeOK, Files
<1>4. TrailSound'
  BY <1>2, <1>3 DEF JournalSound, TrailSound
<1>5. ObjectsSound'
  <2> SUFFICES ASSUME ~undo_failed
               PROVE  /\ \A x \in Objs : x \in objects' <=>
                             (x \in before'.objects
                                 \/ \E i \in 1 .. Len(undo_stack) : undo_stack[i].obj = x)
                      /\ \A i \in 1 .. Len(undo_stack) : undo_stack[i].obj \notin before'.objects
                      /\ \A i, j \in 1 .. Len(undo_stack) :
                             (i # j /\ undo_stack[i].obj = undo_stack[j].obj)
                                 => undo_stack[i].obj = None
    BY <1>2 DEF ObjectsSound
  <2>1. /\ \A x \in Objs : x \in objects <=>
               (x \in before.objects
                   \/ \E i \in 1 .. Len(undo_stack) : undo_stack[i].obj = x)
        /\ \A i \in 1 .. Len(undo_stack) : undo_stack[i].obj \notin before.objects
        /\ \A i, j \in 1 .. Len(undo_stack) :
               (i # j /\ undo_stack[i].obj = undo_stack[j].obj) => undo_stack[i].obj = None
    BY <1>2 DEF JournalSound, ObjectsSound
  <2>2. o \notin objects
    BY <1>1 DEF UnusedObject
  <2>3. \A i \in 1 .. Len(undo_stack) : undo_stack[i].obj # o
    BY <1>1, <2>1, <2>2
  <2> QED BY <1>1, <1>2, <1>3, <2>1, <2>2, <2>3
<1>6. JournalKept
  <2>1. objects' \subseteq Objs /\ fs' \in Files /\ Distinct(fs')
    BY <1>1, <1>2, JournalTypes
  <2>2. undo_failed' \in BOOLEAN
    BY <1>2 DEF JournalSound, TypeOK
  <2> QED BY <1>2, <1>3, <1>4, <1>5, <2>1, <2>2, JournalTypes DEF JournalKept
<1>7. LocalsTyped' /\ LocalsSound'
  BY <1>2, LocalsHalf DEF LocalsTyped, LocalsSound, Stages
<1> QED BY <1>6, <1>7, TwoHalves

\* Planning, the commit, and what the environment does to a submission.
LEMMA SubmitSound ==
    ASSUME JournalSound, Plan \/ RejectPlan \/ Commit \/ Fault \/ Crash
    PROVE  JournalSound'
<1>1. LocalsTyped /\ LocalsSound
  BY LocalsHalf
<1>2. CASE Plan
  <2>1. JournalKept
    BY <1>2, QuietKept DEF Plan, Settled, data, journal
  <2>2. LocalsTyped'
    BY <1>1, <1>2 DEF LocalsTyped, Plan, Stages, data
  <2>3. LocalsSound'
    BY <1>2 DEF LocalsSound, Plan
  <2> QED BY <2>1, <2>2, <2>3, TwoHalves
<1>3. CASE RejectPlan \/ Fault
  <2>1. ~Settled /\ Raise
    BY <1>3 DEF RejectPlan, Fault, Settled
  <2> QED BY <2>1, RaiseSound
<1>4. CASE Commit
  <2>1. JournalKept
    BY <1>4, QuietKept DEF Commit, Settled, journal
  <2>2. LocalsTyped' /\ LocalsSound'
    BY <1>1, <1>4 DEF LocalsTyped, LocalsSound, Commit, Stages
  <2> QED BY <2>1, <2>2, TwoHalves
<1>5. CASE Crash
  <2>1. Forget /\ UNCHANGED <<catalog, fs, objects, content, status, before>> /\ work' = catalog
    BY <1>5 DEF Crash
  <2>2. work' \in Tables
    BY <1>1, <2>1 DEF LocalsTyped
  <2> QED BY <2>1, <2>2, ForgetSound
<1> QED BY <1>2, <1>3, <1>4, <1>5

\* A store opened on a catalog it wrote has a sound, empty journal.
LEMMA InitSound == Init => JournalSound
<1> SUFFICES ASSUME Init PROVE JournalSound
  OBVIOUS
<1> DEFINE at(rows, l)    == {id \in Ids : rows[id] # None /\ rows[id].path = l}
           stored(rows)   == {id \in Ids : rows[id] # None}
           holds(rows, o) == {id \in stored(rows) : rows[id].obj = o}
<1>1. PICK rows \in InitRows :
        /\ catalog = [rows |-> rows, decided |-> {}]
        /\ fs = [l \in Locations |-> IF at(rows, l) = {} THEN None
                                     ELSE rows[CHOOSE id \in at(rows, l) : TRUE].obj]
        /\ objects = {rows[id].obj : id \in stored(rows)}
        /\ content = [o \in Objs |->
               IF holds(rows, o) = {} THEN CHOOSE h \in Hashes : TRUE
               ELSE rows[CHOOSE id \in holds(rows, o) : TRUE].hash]
  BY DEF Init
<1>2. /\ rows \in [Ids -> Row \cup {None}]
      /\ \A i, j \in Ids : i # j /\ rows[i] # None /\ rows[j] # None =>
             rows[i].path # rows[j].path /\ rows[i].obj # rows[j].obj
  BY InitRowsAssumption
<1>3. ASSUME NEW id \in Ids, rows[id] # None
      PROVE  rows[id].obj \in Objs /\ rows[id].hash \in Hashes
  BY <1>2, <1>3 DEF Row
<1>4. fs \in Files /\ Distinct(fs)
  <2>1. ASSUME NEW l \in Locations, at(rows, l) # {}
        PROVE  \E id \in Ids : rows[id] # None /\ rows[id].path = l /\ fs[l] = rows[id].obj
    <3>1. (CHOOSE id \in at(rows, l) : TRUE) \in at(rows, l)
      BY <2>1
    <3> QED BY <1>1, <2>1, <3>1
  <2>2. ASSUME NEW l \in Locations, at(rows, l) = {}
        PROVE  fs[l] = None
    BY <1>1, <2>2
  <2>3. fs \in Files
    <3>1. \A l \in Locations : fs[l] \in Objs \cup {None}
      BY <1>3, <2>1, <2>2
    <3>2. fs = [l \in Locations |-> fs[l]]
      BY <1>1
    <3> QED BY <3>1, <3>2 DEF Files
  <2>4. Distinct(fs)
    <3> SUFFICES ASSUME NEW l \in Locations, NEW m \in Locations, l # m, fs[l] = fs[m],
                        fs[l] # None
                 PROVE  FALSE
      BY DEF Distinct
    <3>1. at(rows, l) # {} /\ at(rows, m) # {}
      BY <2>2
    <3>2. PICK i \in Ids : rows[i] # None /\ rows[i].path = l /\ fs[l] = rows[i].obj
      BY <2>1, <3>1
    <3>3. PICK j \in Ids : rows[j] # None /\ rows[j].path = m /\ fs[m] = rows[j].obj
      BY <2>1, <3>1
    <3> QED BY <1>2, <3>2, <3>3
  <2> QED BY <2>3, <2>4
<1>5. content \in [Objs -> Hashes]
  <2>1. (CHOOSE h \in Hashes : TRUE) \in Hashes
    BY StoreAssumption
  <2>2. ASSUME NEW o \in Objs, holds(rows, o) # {}
        PROVE  rows[CHOOSE id \in holds(rows, o) : TRUE].hash \in Hashes
    <3>1. (CHOOSE id \in holds(rows, o) : TRUE) \in holds(rows, o)
      BY <2>2
    <3> QED BY <1>3, <3>1
  <2> QED BY <1>1, <2>1, <2>2
<1>6. objects \subseteq Objs
  BY <1>1, <1>3
<1>7. catalog \in Tables
  BY <1>1, <1>2 DEF Tables
<1> HIDE DEF at, stored, holds
<1>8. /\ pc = "idle" /\ status = "none" /\ writer \in Writers /\ work = catalog
      /\ from = [k \in Keys |-> None] /\ temp = [p \in Paths |-> None] /\ fresh = None
      /\ undo_stack = <<>> /\ cleanup_stack = <<>> /\ trail = <<>> /\ undo_failed = FALSE
      /\ before = [fs |-> fs, objects |-> objects]
  BY StoreAssumption DEF Init
<1>9. TrailSound /\ ObjectsSound /\ LocalsSound
  BY <1>8 DEF TrailSound, ObjectsSound, LocalsSound
<1>10. /\ undo_stack \in Seq(UndoRecords) /\ trail \in Seq(Files)
       /\ cleanup_stack \in Seq(CleanupRecords)
       /\ before \in [fs : Files, objects : SUBSET Objs]
  BY <1>4, <1>6, <1>8
<1>11. undo_failed \in BOOLEAN
  BY <1>8
<1>12. TypeOK
  BY <1>4, <1>5, <1>6, <1>7, <1>8, <1>10, <1>11 DEF TypeOK, Files, Stages
<1> QED BY <1>4, <1>9, <1>12 DEF JournalSound

\* Every step of submit, and every fault or crash, keeps the journal sound.
LEMMA StepSound == JournalSound /\ [Next]_vars => JournalSound'
<1> SUFFICES ASSUME JournalSound, [Next]_vars PROVE JournalSound'
  OBVIOUS
<1>1. CASE UNCHANGED vars
  BY <1>1 DEF JournalSound, TypeOK, Distinct, LocalsSound, TrailSound, ObjectsSound,
              vars, data, control, journal
<1>2. CASE \E w \in Writers, batch \in Batches : Accept(w, batch)
  BY <1>2, AcceptSound
<1>3. CASE Proceed
  BY <1>3, SubmitSound, PutSound, DeleteSound, DecisionSound, MoveSound, RollbackSound
     DEF Proceed
<1>4. CASE Disturb
  BY <1>4, SubmitSound, RollbackSound, PutObjectTornSound DEF Disturb
<1> QED BY <1>1, <1>2, <1>3, <1>4 DEF Next

-----------------------------------------------------------------------------
(***************************************************************************)
(* Theorems                                                                *)
(***************************************************************************)

\* The journal always describes the way back: the records on undo_stack, undone
\* in reverse, lead from the present files to those the submission found.
THEOREM JournalInvariant == Spec => []JournalSound
BY InitSound, StepSound, PTL DEF Spec

\* Type correctness of the store's tables, files, locals and stacks.
THEOREM TypeCorrect == Spec => []TypeOK
<1>1. JournalSound => TypeOK
  BY DEF JournalSound
<1> QED BY <1>1, JournalInvariant, PTL

\* submit's except clause: for every batch, every catalog, every sequence of
\* faults, crashes and earlier submissions, once the undo closures have run and
\* none of them raised the files are those the submission found.
THEOREM RollbackRestores == Spec => []RollbackRestoresFiles
<1>1. JournalSound => RollbackRestoresFiles
  <2> SUFFICES ASSUME JournalSound, pc = "undo", undo_stack = <<>>, ~undo_failed
               PROVE  fs = before.fs /\ objects = before.objects
    BY DEF RollbackRestoresFiles
  <2>1. fs = before.fs
    BY DEF JournalSound, TrailSound
  <2>2. \A o \in Objs : o \in objects <=> o \in before.objects
    <3>1. Len(undo_stack) = 0
      OBVIOUS
    <3> QED BY <3>1 DEF JournalSound, ObjectsSound
  <2>3. objects \subseteq Objs /\ before.objects \subseteq Objs
    BY DEF JournalSound, TypeOK
  <2> QED BY <2>1, <2>2, <2>3
<1> QED BY <1>1, JournalInvariant, PTL

-----------------------------------------------------------------------------
(***************************************************************************)
(* The invariant of the catalog.                                           *)
(***************************************************************************)

\* One document to a path, each under the prefixes of its writer.
Placed(rows) ==
    \A i \in Ids : rows[i] # None =>
        rows[i].path \in Authorized[i[1]] /\ PathFree(rows, i, rows[i].path)

\* As above, but for the rows whose file is parked and whose move is still to come.
PlacedOrParked(rows, w, ahead) ==
    \A i \in Ids : rows[i] # None =>
        /\ PathFree(rows, i, rows[i].path)
        /\ \/ rows[i].path \in Authorized[i[1]]
           \/ rows[i].path \in UndoNames /\ i[1] = w /\ \E op \in ToSet(ahead) : op.key = i[2]

Putting == {"put_tree", "put_old", "put_row"}
Moving  == {"breaks", "moves", "move_row"}

\* The operations, as long as they are needed.
PlanSound ==
    /\ ops \in Seq(Operation) /\ todo \in Seq(Operation) /\ moves \in Seq(Operation)
    /\ pc \in Putting \cup {"delete_row"} => todo # <<>>
    /\ pc \in Putting => Head(todo).kind = "put" /\ Head(todo).path \in Authorized[writer]
    /\ pc = "move_row" => moves # <<>>
    /\ pc \in Moving => \A op \in ToSet(moves) : op.path \in Authorized[writer]

\* What _move_batch knows of the rows it moves, until those of parked files are re-keyed.
ParkingSound ==
    /\ pc \in Moving => \A k \in Keys : from[k] \in Authorized[writer] \cup {None}
    /\ pc = "breaks" =>
           /\ breaks \in Seq(Authorized[writer])
           /\ \A k \in Keys : from[k] # None =>
                  /\ work.rows[<<writer, k>>].path = from[k]
                  /\ \E op \in ToSet(moves) : op.key = k
           /\ \A p, q \in Paths : (temp[p] # None /\ temp[p] = temp[q]) => p = q
           /\ \A p \in Paths : temp[p] # None => fs[temp[p]] # None

\* The tables: what is committed, and what the transaction has made of it.
RowsSound ==
    /\ Placed(catalog.rows)
    /\ pc \in {"idle", "plan", "undo", "cleanup"} => work = catalog
    /\ pc \notin {"moves", "move_row"} => Placed(work.rows)
    /\ pc \in {"moves", "move_row"} => PlacedOrParked(work.rows, writer, moves)

\* The undo closures are about the journal and the paths of the writer.
Own(w, rec) == {rec.source, rec.target} \subseteq Authorized[w] \cup UndoNames \cup {None}

RecordsSound == \A i \in 1..Len(undo_stack) : Own(writer, undo_stack[i])

CatalogSound == PlanSound /\ ParkingSound /\ RowsSound /\ RecordsSound

-----------------------------------------------------------------------------
(***************************************************************************)
(* The helpers stay among the journal and the paths they are given.        *)
(***************************************************************************)

\* The places a submission of w may touch.
Reach(w) == Authorized[w] \cup UndoNames

\* What a step of a submission must do to the files and to the undo closures.
StaysOwn ==
    /\ RecordsSound'
    /\ \A p \in Paths : p \notin Authorized[writer] => fs'[p] = fs[p]

\* The paths of a writer are places of the store, and none of them in the journal.
LEMMA ReachFacts ==
    ASSUME NEW w \in Writers
    PROVE  /\ Authorized[w] \subseteq Paths /\ Reach(w) \subseteq Locations
           /\ None \notin Reach(w)
           /\ \A p \in Paths : p \notin Authorized[w] => p \notin Reach(w)
BY GrantsAssumption, StoreAssumption DEF Reach, Locations

\* A rename touches its two ends.
LEMMA RenameElsewhere ==
    ASSUME NEW f \in Files, NEW s \in Locations, NEW t \in Locations, NEW p \in Locations,
           p # s, p # t
    PROVE  Rename(f, s, t)[p] = f[p]
BY DEF Rename, Files

\* A backup is in the journal.
LEMMA BackupElsewhere ==
    ASSUME NEW f \in Files, NEW t \in Locations, NEW p \in Paths,
           \E u \in UndoNames : f[u] = None
    PROVE  Backup(f, t)[p] = f[p] /\ Backup(f, t) \in Files
BY BackupFacts, StoreAssumption DEF Files, Locations

\* An undo closure touches its source, its target and its backup.
LEMMA UndoElsewhere ==
    ASSUME NEW f \in Files, NEW rec \in UndoRecords, NEW p \in Paths,
           p # rec.source, p # rec.target
    PROVE  Undo(rec, f)[p] = f[p]
<1> DEFINE g == IF rec.op = "rename" THEN Rename(f, rec.target, rec.source)
                ELSE IF rec.op = "replace" /\ rec.backup = None
                THEN [f EXCEPT ![rec.target] = None] ELSE f
<1>0. p \in Locations /\ p \notin UndoNames
  BY StoreAssumption DEF Locations
<1>1. g \in Files /\ g[p] = f[p]
  <2>1. CASE rec.op = "rename"
    BY <1>0, <2>1, UndoShape, RenameFacts, RenameElsewhere
  <2>2. CASE rec.op = "replace" /\ rec.backup = None
    BY <1>0, <2>2, UndoShape DEF Files
  <2> QED BY <2>1, <2>2
<1>2. Undo(rec, f) = IF rec.backup = None THEN g ELSE Rename(g, rec.backup, rec.target)
  BY DEF Undo
<1> HIDE DEF g
<1>3. rec.backup # None =>
          rec.backup \in Locations /\ rec.target \in Locations /\ p # rec.backup
  BY <1>0, UndoShape DEF Locations
<1> QED BY <1>0, <1>1, <1>2, <1>3, RenameElsewhere

\* A step that pushes nothing.
LEMMA NoRecord ==
    ASSUME RecordsSound, UNCHANGED <<fs, undo_stack, writer>>
    PROVE  StaysOwn
BY DEF RecordsSound, StaysOwn

\* A step that pushes one closure of the writer's.
LEMMA PushOwn ==
    ASSUME JournalSound, RecordsSound, UNCHANGED writer, NEW rec \in UndoRecords,
           Own(writer, rec), undo_stack' = Append(undo_stack, rec)
    PROVE  RecordsSound'
<1>1. undo_stack \in Seq(UndoRecords)
  BY JournalTypes
<1>2. ASSUME NEW i \in 1..Len(undo_stack') PROVE Own(writer, undo_stack'[i])
  <2>1. CASE i \in 1..Len(undo_stack)
    BY <1>1, <2>1 DEF RecordsSound
  <2>2. CASE i = Len(undo_stack) + 1
    BY <1>1, <2>2
  <2> QED BY <1>1, <2>1, <2>2
<1> QED BY <1>2 DEF RecordsSound

\* _replace_tree_entry at a path of the writer.
LEMMA ReplaceOwn ==
    ASSUME JournalSound, RecordsSound, UNCHANGED writer,
           NEW p \in Authorized[writer], NEW o \in Objs, ReplaceTreeEntry(p, o)
    PROVE  StaysOwn
<1> DEFINE rec == [op |-> "replace", source |-> None, target |-> p,
                   backup |-> BackupName(fs, p), obj |-> None]
<1>1. fs \in Files /\ writer \in Writers /\ \E u \in UndoNames : fs[u] = None
  BY JournalTypes, LocalsHalf DEF ReplaceTreeEntry, Journal, LocalsTyped
<1>2. p \in Paths /\ p \in Locations
  BY <1>1, ReachFacts DEF Locations
<1>3. undo_stack' = Append(undo_stack, rec) /\ fs' = [Backup(fs, p) EXCEPT ![p] = o]
  BY DEF ReplaceTreeEntry, Journal
<1>4. rec \in UndoRecords /\ Own(writer, rec)
  BY <1>1, <1>2, BackupFacts DEF UndoRecords, Own
<1>5. RecordsSound'
  <2> HIDE DEF rec
  <2> QED BY <1>3, <1>4, PushOwn
<1>6. ASSUME NEW q \in Paths, q \notin Authorized[writer] PROVE fs'[q] = fs[q]
  BY <1>1, <1>2, <1>3, <1>6, BackupElsewhere DEF Files
<1> QED BY <1>5, <1>6 DEF StaysOwn

\* _rename_tree_file between two places of the writer's reach.
LEMMA RenameOwn ==
    ASSUME JournalSound, RecordsSound, UNCHANGED writer,
           NEW s \in Reach(writer), NEW t \in Reach(writer), RenameTreeFile(s, t)
    PROVE  StaysOwn
<1> DEFINE rec == [op |-> "rename", source |-> s, target |-> t,
                   backup |-> BackupName(fs, t), obj |-> None]
<1>1. fs \in Files /\ writer \in Writers /\ \E u \in UndoNames : fs[u] = None
  BY JournalTypes, LocalsHalf DEF RenameTreeFile, Journal, LocalsTyped
<1>2. s \in Locations /\ t \in Locations
  BY <1>1, ReachFacts
<1>3. undo_stack' = Append(undo_stack, rec) /\ fs' = Rename(Backup(fs, t), s, t)
  BY DEF RenameTreeFile, Journal
<1>4. rec \in UndoRecords /\ Own(writer, rec)
  BY <1>1, <1>2, BackupFacts DEF UndoRecords, Own, Reach
<1>5. RecordsSound'
  <2> HIDE DEF rec
  <2> QED BY <1>3, <1>4, PushOwn
<1>6. ASSUME NEW q \in Paths, q \notin Authorized[writer] PROVE fs'[q] = fs[q]
  <2>1. q # s /\ q # t /\ q \in Locations
    BY <1>1, <1>6, ReachFacts DEF Locations
  <2> QED BY <1>1, <1>2, <1>3, <2>1, BackupElsewhere, RenameElsewhere
<1> QED BY <1>5, <1>6 DEF StaysOwn

\* _remove_tree_entry at a path of the writer.
LEMMA RemoveOwn ==
    ASSUME JournalSound, RecordsSound, UNCHANGED writer,
           NEW p \in Authorized[writer], NEW obj, RemoveTreeEntry(p, obj)
    PROVE  StaysOwn
<1> DEFINE rec == [op |-> "remove", source |-> None, target |-> p,
                   backup |-> BackupName(fs, p), obj |-> None]
<1>1. fs \in Files /\ writer \in Writers
  BY JournalTypes, LocalsHalf DEF LocalsTyped
<1>2. p \in Paths /\ p \in Locations
  BY <1>1, ReachFacts DEF Locations
<1>3. CASE fs[p] = None
  BY <1>3, NoRecord DEF RemoveTreeEntry, Supersede
<1>4. CASE fs[p] # None
  <2>1. /\ undo_stack' = Append(undo_stack, rec) /\ fs' = [Backup(fs, p) EXCEPT ![p] = None]
        /\ \E u \in UndoNames : fs[u] = None
    BY <1>4 DEF RemoveTreeEntry, Journal
  <2>2. rec \in UndoRecords /\ Own(writer, rec)
    BY <1>1, <1>2, <2>1, BackupFacts DEF UndoRecords, Own
  <2>3. RecordsSound'
    <3> HIDE DEF rec
    <3> QED BY <2>1, <2>2, PushOwn
  <2>4. ASSUME NEW q \in Paths, q \notin Authorized[writer] PROVE fs'[q] = fs[q]
    BY <1>1, <1>2, <2>1, <2>4, BackupElsewhere DEF Files
  <2> QED BY <2>3, <2>4 DEF StaysOwn
<1> QED BY <1>3, <1>4

-----------------------------------------------------------------------------
(***************************************************************************)
(* CatalogSound is inductive: one lemma per operation of the store.  Each  *)
(* also shows that the operation stays within the reach of the writer.     *)
(***************************************************************************)

TablesSound == PlanSound /\ ParkingSound /\ RowsSound

\* The locals that the catalog's invariant starts from.
LEMMA CatalogTypes ==
    ASSUME JournalSound
    PROVE  /\ catalog \in Tables /\ work \in Tables /\ writer \in Writers
           /\ from \in [Keys -> Paths \cup {None}]
           /\ temp \in [Paths -> UndoNames \cup {None}]
           /\ fresh \in Objs \cup {None}
           /\ fs \in Files
           /\ \A k \in Keys : <<writer, k>> \in Ids
           /\ None \notin Paths /\ None \notin UndoNames /\ None \notin Row
           /\ None \notin Objs
BY LocalsHalf, JournalTypes, GrantsAssumption, StoreAssumption DEF LocalsTyped, Ids

\* An exception lets go of the open transaction, and of nothing else.
LEMMA RaiseCatalog ==
    ASSUME CatalogSound, Raise
    PROVE  TablesSound' /\ StaysOwn
<1>1. /\ pc' = "undo" /\ work' = catalog
      /\ UNCHANGED <<catalog, fs, undo_stack, writer, ops, todo, moves>>
  BY DEF Raise, journal
<1>2. StaysOwn
  BY <1>1, NoRecord DEF CatalogSound
<1>3. PlanSound'
  BY <1>1 DEF CatalogSound, PlanSound, Putting, Moving
<1>4. ParkingSound'
  BY <1>1 DEF ParkingSound, Moving
<1>5. RowsSound'
  BY <1>1 DEF CatalogSound, RowsSound, Placed, PathFree
<1> QED BY <1>2, <1>3, <1>4, <1>5 DEF TablesSound

\* The end of a submission, or of its process.
LEMMA ForgetCatalog ==
    ASSUME CatalogSound, Forget, work' = catalog, UNCHANGED <<catalog, fs>>
    PROVE  TablesSound' /\ StaysOwn
<1>1. /\ pc' = "idle" /\ todo' = <<>> /\ moves' = <<>> /\ undo_stack' = <<>>
      /\ UNCHANGED <<writer, ops>>
  BY DEF Forget
<1>2. StaysOwn
  BY <1>1 DEF StaysOwn, RecordsSound
<1>3. PlanSound'
  BY <1>1 DEF CatalogSound, PlanSound, Putting, Moving
<1>4. ParkingSound'
  BY <1>1 DEF ParkingSound, Moving
<1>5. RowsSound'
  BY <1>1 DEF CatalogSound, RowsSound, Placed, PathFree
<1> QED BY <1>2, <1>3, <1>4, <1>5 DEF TablesSound

\* The QUEUED insert takes a list of operations.
LEMMA AcceptCatalog ==
    ASSUME CatalogSound, NEW w \in Writers, NEW batch \in Batches, Accept(w, batch)
    PROVE  TablesSound' /\ StaysOwn
<1>1. /\ pc = "idle" /\ pc' = "plan" /\ undo_stack' = <<>> /\ ops' = batch
      /\ UNCHANGED <<fs, catalog, work, todo, moves>>
  BY DEF Accept, data
<1>2. StaysOwn
  BY <1>1 DEF StaysOwn, RecordsSound
<1>3. PlanSound'
  BY <1>1, BatchesAssumption DEF CatalogSound, PlanSound, Putting, Moving
<1>4. ParkingSound'
  BY <1>1 DEF ParkingSound, Moving
<1>5. RowsSound'
  BY <1>1 DEF CatalogSound, RowsSound, Placed, PathFree
<1> QED BY <1>2, <1>3, <1>4, <1>5 DEF TablesSound

\* The planner only orders the operations it is given.
LEMMA PlanCatalog ==
    ASSUME CatalogSound, Plan
    PROVE  TablesSound' /\ StaysOwn
<1>1. /\ pc = "plan" /\ pc' = "next"
      /\ todo' = OrderedOperations(ops, PathsBySource(catalog.rows), writer)
      /\ UNCHANGED <<fs, catalog, work, undo_stack, writer, ops, moves>>
  BY DEF Plan, data, journal
<1>2. StaysOwn
  BY <1>1, NoRecord DEF CatalogSound
<1>3. ops \in Seq(Operation) /\ moves \in Seq(Operation)
  BY DEF CatalogSound, PlanSound
<1>4. todo' \in Seq(Operation)
  <2>1. \A op \in Operation : op.kind \in {"put", "move", "delete", "decision"}
    BY DEF Operation
  <2> QED BY <1>1, <1>3, <2>1, OrderedHolds
<1>5. PlanSound'
  BY <1>1, <1>3, <1>4 DEF PlanSound, Putting, Moving
<1>6. ParkingSound'
  BY <1>1 DEF ParkingSound, Moving
<1>7. RowsSound'
  BY <1>1 DEF CatalogSound, RowsSound, Placed, PathFree
<1> QED BY <1>2, <1>5, <1>6, <1>7 DEF TablesSound

\* Writing one row at a free path of its writer.
LEMMA PlaceRow ==
    ASSUME NEW rows \in [Ids -> Row \cup {None}], NEW id \in Ids, NEW row,
           row = None \/ (row \in Row /\ row.path \in Authorized[id[1]]
                             /\ PathFree(rows, id, row.path)),
           Placed(rows)
    PROVE  Placed([rows EXCEPT ![id] = row])
<1> DEFINE new == [rows EXCEPT ![id] = row]
<1>1. new[id] = row /\ \A j \in Ids : j # id => new[j] = rows[j]
  OBVIOUS
<1> HIDE DEF new
<1>2. ASSUME NEW i \in Ids, new[i] # None
      PROVE  new[i].path \in Authorized[i[1]] /\ PathFree(new, i, new[i].path)
  <2>1. CASE i = id
    BY <1>1, <1>2, <2>1 DEF PathFree
  <2>2. CASE i # id
    BY <1>1, <1>2, <2>2 DEF Placed, PathFree
  <2> QED BY <2>1, <2>2
<1>3. Placed(new)
  BY <1>2 DEF Placed
<1> QED BY <1>3 DEF new

\* The steps of _put.
LEMMA PutCatalog ==
    ASSUME JournalSound, CatalogSound,
           NEW k \in Keys, NEW p \in Paths, NEW h \in Hashes, PutStep(k, p, h)
    PROVE  TablesSound' /\ StaysOwn
<1> DEFINE id == <<writer, k>>
<1>1. /\ id \in Ids /\ id[1] = writer /\ writer \in Writers /\ PlanSound /\ RowsSound
      /\ RecordsSound
  BY CatalogTypes DEF CatalogSound
<1>2. Head(todo) = PutOp(k, p, h) => Head(todo).kind = "put" /\ Head(todo).path = p
  BY DEF PutOp
<1>3. ASSUME work.rows[id] # None, pc \in {"next", "put_old"}
      PROVE  work.rows[id].path \in Authorized[writer]
  BY <1>1, <1>3 DEF RowsSound, Placed
<1>4. CASE PutUnchanged(k, p, h)
  <2>1. /\ pc = "next" /\ pc' = "put_row" /\ todo # <<>> /\ Head(todo) = PutOp(k, p, h)
        /\ p \in Authorized[writer] /\ work.rows[id] # None
        /\ UNCHANGED <<catalog, work, writer, ops, todo, moves>>
    BY <1>4 DEF PutUnchanged, Unchanged
  <2>2. StaysOwn
    <3>1. CASE UNCHANGED <<fs, journal>>
      BY <1>1, <2>1, <3>1, NoRecord DEF journal
    <3>2. CASE RenameTreeFile(work.rows[id].path, p)
      BY <1>1, <1>3, <2>1, <3>2, RenameOwn DEF Reach
    <3> QED BY <1>4, <3>1, <3>2 DEF PutUnchanged
  <2>3. PlanSound'
    BY <1>1, <1>2, <2>1 DEF PlanSound, Putting, Moving
  <2>4. ParkingSound'
    BY <2>1 DEF ParkingSound, Moving
  <2>5. RowsSound'
    BY <1>1, <2>1 DEF RowsSound, Placed, PathFree
  <2> QED BY <2>2, <2>3, <2>4, <2>5 DEF TablesSound
<1>5. CASE PutObject(k, p, h)
  <2> DEFINE o   == CHOOSE x \in Objs : UnusedObject(x)
             rec == [op |-> "object", source |-> None, target |-> None,
                     backup |-> None, obj |-> o]
  <2>1. /\ pc = "next" /\ pc' = "put_tree" /\ todo # <<>> /\ Head(todo) = PutOp(k, p, h)
        /\ p \in Authorized[writer] /\ o \in Objs
        /\ undo_stack' = Append(undo_stack, rec)
        /\ UNCHANGED <<catalog, work, fs, writer, ops, todo, moves>>
    BY <1>5 DEF PutObject
  <2> HIDE DEF o
  <2>2. rec \in UndoRecords /\ Own(writer, rec)
    BY <2>1 DEF UndoRecords, Own
  <2> HIDE DEF rec
  <2>3. StaysOwn
    BY <1>1, <2>1, <2>2, PushOwn DEF StaysOwn
  <2>4. PlanSound'
    BY <1>1, <1>2, <2>1 DEF PlanSound, Putting, Moving
  <2>5. ParkingSound'
    BY <2>1 DEF ParkingSound, Moving
  <2>6. RowsSound'
    BY <1>1, <2>1 DEF RowsSound, Placed, PathFree
  <2> QED BY <2>3, <2>4, <2>5, <2>6 DEF TablesSound
<1>6. CASE PutTree(k, p, h)
  <2>1. /\ pc = "put_tree" /\ pc' = "put_old" /\ Head(todo) = PutOp(k, p, h)
        /\ ReplaceTreeEntry(p, fresh) /\ fresh \in Objs
        /\ UNCHANGED <<catalog, work, writer, ops, todo, moves>>
    BY <1>6, LocalsHalf DEF PutTree, LocalsSound
  <2>2. p \in Authorized[writer]
    BY <1>1, <1>2, <2>1 DEF PlanSound, Putting
  <2>3. StaysOwn
    BY <1>1, <2>1, <2>2, ReplaceOwn
  <2>4. PlanSound'
    BY <1>1, <2>1 DEF PlanSound, Putting, Moving
  <2>5. ParkingSound'
    BY <2>1 DEF ParkingSound, Moving
  <2>6. RowsSound'
    BY <1>1, <2>1 DEF RowsSound, Placed, PathFree
  <2> QED BY <2>3, <2>4, <2>5, <2>6 DEF TablesSound
<1>7. CASE PutOldPath(k, p, h)
  <2>1. /\ pc = "put_old" /\ pc' = "put_row" /\ Head(todo) = PutOp(k, p, h)
        /\ UNCHANGED <<catalog, work, writer, ops, todo, moves>>
    BY <1>7 DEF PutOldPath
  <2>2. StaysOwn
    <3>1. CASE UNCHANGED <<fs, journal>>
      BY <1>1, <2>1, <3>1, NoRecord DEF journal
    <3>2. CASE Supersede(work.rows[id].obj) /\ UNCHANGED fs
      BY <1>1, <2>1, <3>2, NoRecord DEF Supersede
    <3>3. CASE work.rows[id] # None /\ RemoveTreeEntry(work.rows[id].path, work.rows[id].obj)
      BY <1>1, <1>3, <2>1, <3>3, RemoveOwn
    <3> QED BY <1>7, <3>1, <3>2, <3>3 DEF PutOldPath
  <2>3. PlanSound'
    BY <1>1, <2>1 DEF PlanSound, Putting, Moving
  <2>4. ParkingSound'
    BY <2>1 DEF ParkingSound, Moving
  <2>5. RowsSound'
    BY <1>1, <2>1 DEF RowsSound, Placed, PathFree
  <2> QED BY <2>2, <2>3, <2>4, <2>5 DEF TablesSound
<1>8. CASE PutRow(k, p, h)
  <2> DEFINE row == [path |-> p, hash |-> h,
                     obj |-> IF fresh # None THEN fresh ELSE work.rows[id].obj]
  <2>1. /\ pc = "put_row" /\ pc' = "next" /\ Head(todo) = PutOp(k, p, h)
        /\ PathFree(work.rows, id, p) /\ work' = [work EXCEPT !.rows[id] = row]
        /\ todo' = Tail(todo)
        /\ UNCHANGED <<catalog, fs, undo_stack, writer, ops, moves>>
    BY <1>8 DEF PutRow, journal
  <2>2. StaysOwn
    BY <1>1, <2>1, NoRecord
  <2>3. todo \in Seq(Operation) /\ todo # <<>> /\ p \in Authorized[writer]
    BY <1>1, <1>2, <2>1 DEF PlanSound, Putting
  <2>4. PlanSound'
    BY <1>1, <2>1, <2>3, TailHolds DEF PlanSound, Putting, Moving
  <2>5. ParkingSound'
    BY <2>1 DEF ParkingSound, Moving
  <2>6. row \in Row
    <3>1. fresh = None => work.rows[id] # None
      BY <2>1, LocalsHalf DEF LocalsSound
    <3>2. p \in Locations
      BY DEF Locations
    <3> QED BY <1>1, <3>1, <3>2, WorkRow, CatalogTypes DEF Row
  <2>7. Placed(work.rows)
    BY <1>1, <2>1 DEF RowsSound
  <2>8. work.rows \in [Ids -> Row \cup {None}] /\ row.path = p
    BY CatalogTypes DEF Tables
  <2>9. work'.rows = [work.rows EXCEPT ![id] = row]
    <3> HIDE DEF row, id
    <3> QED BY <2>1, CatalogTypes DEF Tables
  <2> HIDE DEF row, id
  <2>10. Placed(work'.rows)
    BY <1>1, <2>1, <2>3, <2>6, <2>7, <2>8, <2>9, PlaceRow
  <2>11. RowsSound'
    BY <1>1, <2>1, <2>10 DEF RowsSound, Placed, PathFree
  <2> QED BY <2>2, <2>4, <2>5, <2>11 DEF TablesSound
<1>9. CASE PutRaises(k, p, h)
  BY <1>9, RaiseCatalog DEF PutRaises
<1> QED BY <1>4, <1>5, <1>6, <1>7, <1>8, <1>9 DEF PutStep

\* The steps of _delete.
LEMMA DeleteCatalog ==
    ASSUME JournalSound, CatalogSound, NEW k \in Keys, DeleteStep(k)
    PROVE  TablesSound' /\ StaysOwn
<1> DEFINE id == <<writer, k>>
<1>1. /\ id \in Ids /\ id[1] = writer /\ writer \in Writers /\ PlanSound /\ RowsSound
      /\ RecordsSound /\ todo \in Seq(Operation)
  BY CatalogTypes DEF CatalogSound, PlanSound
<1>2. Head(todo) = DeleteOp(k) => Head(todo).kind = "delete"
  BY DEF DeleteOp
<1>3. CASE DeleteUnknown(k)
  <2>1. /\ pc = "next" /\ pc' = "next" /\ todo # <<>> /\ todo' = Tail(todo)
        /\ UNCHANGED <<catalog, work, fs, undo_stack, writer, ops, moves>>
    BY <1>3 DEF DeleteUnknown, data, journal
  <2>2. StaysOwn
    BY <1>1, <2>1, NoRecord
  <2>3. PlanSound'
    BY <1>1, <2>1, TailHolds DEF PlanSound, Putting, Moving
  <2>4. ParkingSound'
    BY <2>1 DEF ParkingSound, Moving
  <2>5. RowsSound'
    BY <1>1, <2>1 DEF RowsSound, Placed, PathFree
  <2> QED BY <2>2, <2>3, <2>4, <2>5 DEF TablesSound
<1>4. CASE DeleteTree(k)
  <2>1. /\ pc = "next" /\ pc' = "delete_row" /\ todo # <<>>
        /\ work.rows[id].path \in Authorized[writer]
        /\ RemoveTreeEntry(work.rows[id].path, None)
        /\ UNCHANGED <<catalog, work, writer, ops, todo, moves>>
    BY <1>4 DEF DeleteTree
  <2>2. StaysOwn
    BY <1>1, <2>1, RemoveOwn
  <2>3. PlanSound'
    BY <1>1, <2>1 DEF PlanSound, Putting, Moving
  <2>4. ParkingSound'
    BY <2>1 DEF ParkingSound, Moving
  <2>5. RowsSound'
    BY <1>1, <2>1 DEF RowsSound, Placed, PathFree
  <2> QED BY <2>2, <2>3, <2>4, <2>5 DEF TablesSound
<1>5. CASE DeleteRow(k)
  <2>1. /\ pc = "delete_row" /\ pc' = "next" /\ todo' = Tail(todo)
        /\ work' = [work EXCEPT !.rows[id] = None]
        /\ UNCHANGED <<catalog, fs, undo_stack, writer, ops, moves>>
    BY <1>5 DEF DeleteRow, journal
  <2>2. StaysOwn
    BY <1>1, <2>1, NoRecord
  <2>3. todo # <<>>
    BY <1>1, <2>1 DEF PlanSound
  <2>4. PlanSound'
    BY <1>1, <2>1, <2>3, TailHolds DEF PlanSound, Putting, Moving
  <2>5. ParkingSound'
    BY <2>1 DEF ParkingSound, Moving
  <2>6. Placed(work.rows) /\ work.rows \in [Ids -> Row \cup {None}]
    BY <1>1, <2>1, CatalogTypes DEF RowsSound, Tables
  <2>7. work'.rows = [work.rows EXCEPT ![id] = None]
    <3> HIDE DEF id
    <3> QED BY <2>1, CatalogTypes DEF Tables
  <2> HIDE DEF id
  <2>8. Placed(work'.rows)
    BY <1>1, <2>6, <2>7, PlaceRow
  <2>9. RowsSound'
    BY <1>1, <2>1, <2>8 DEF RowsSound, Placed, PathFree
  <2> QED BY <2>2, <2>4, <2>5, <2>9 DEF TablesSound
<1> QED BY <1>3, <1>4, <1>5 DEF DeleteStep

\* _decision does not touch the entries.
LEMMA DecisionCatalog ==
    ASSUME JournalSound, CatalogSound, NEW k \in Keys, NEW p, Decision(k, p)
    PROVE  TablesSound' /\ StaysOwn
<1>1. /\ pc = "next" /\ pc' = "next" /\ todo # <<>> /\ todo' = Tail(todo)
      /\ work' = [work EXCEPT !.decided = @ \cup {<<writer, k>>}]
      /\ UNCHANGED <<catalog, fs, undo_stack, writer, ops, moves>>
  BY DEF Decision, journal
<1>2. StaysOwn
  BY <1>1, NoRecord DEF CatalogSound
<1>3. PlanSound'
  BY <1>1, TailHolds DEF CatalogSound, PlanSound, Putting, Moving
<1>4. ParkingSound'
  BY <1>1 DEF ParkingSound, Moving
<1>5. work'.rows = work.rows
  BY <1>1, CatalogTypes DEF Tables
<1>6. RowsSound'
  BY <1>1, <1>5 DEF CatalogSound, RowsSound, Placed, PathFree
<1> QED BY <1>2, <1>3, <1>4, <1>6 DEF TablesSound

\* The moves of a batch and what they know of their rows.
MovePath(k) == work.rows[<<writer, k>>].path

MoveTargets ==
    [p \in {MovePath(op.key) : op \in ToSet(MovesAhead)} |->
        (CHOOSE op \in ToSet(MovesAhead) : MovePath(op.key) = p).path]

\* The run of moves that starts a _move_batch: moves between paths of the writer, and
\* the paths at which cycles are broken are among theirs.
LEMMA MovesAheadFacts ==
    ASSUME JournalSound, PlanSound, \A op \in ToSet(MovesAhead) : ValidMove(op)
    PROVE  LET starts == [i \in DOMAIN MovesAhead |-> MovePath(MovesAhead[i].key)]
           IN  /\ MovesAhead \in Seq(Operation)
               /\ ToSet(MovesAhead) = {op \in ToSet(todo) : op.kind = "move"}
               /\ \A op \in ToSet(MovesAhead) :
                      /\ op \in Operation /\ op.kind = "move"
                      /\ op.path \in Authorized[writer]
                      /\ MovePath(op.key) \in Authorized[writer]
               /\ MoveCycleBreaks(MoveTargets, starts)
                      \in Seq({MovePath(op.key) : op \in ToSet(MovesAhead)})
<1> DEFINE D == {MovePath(op.key) : op \in ToSet(MovesAhead)}
           R == Authorized[writer]
           starts == [i \in DOMAIN MovesAhead |-> MovePath(MovesAhead[i].key)]
<1>1. /\ MovesAhead \in Seq(Operation)
      /\ ToSet(MovesAhead) = {op \in ToSet(todo) : op.kind = "move"}
  BY KindsKept DEF MovesAhead, PlanSound
<1>2. \A i \in 1..Len(MovesAhead) : MovesAhead[i] \in ToSet(MovesAhead)
  BY <1>1 DEF ToSet
<1>3. \A op \in ToSet(MovesAhead) :
          op \in Operation /\ op.path \in R /\ MovePath(op.key) \in R
  BY <1>1 DEF ToSet, ValidMove, MovePath
<1>4. ASSUME NEW p \in D
      PROVE  (CHOOSE op \in ToSet(MovesAhead) : MovePath(op.key) = p).path \in R
  <2>1. \E op \in ToSet(MovesAhead) : MovePath(op.key) = p
    OBVIOUS
  <2> QED BY <1>3, <2>1
<1>5. MoveTargets \in [D -> R]
  BY <1>4 DEF MoveTargets
<1>6. starts \in Seq(D)
  <2>1. DOMAIN MovesAhead = 1..Len(MovesAhead) /\ Len(MovesAhead) \in Nat
    BY <1>1
  <2>2. \A i \in 1..Len(MovesAhead) : MovePath(MovesAhead[i].key) \in D
    BY <1>2
  <2> HIDE DEF D
  <2> QED BY <2>1, <2>2
<1> HIDE DEF D, R, starts
<1>7. MoveCycleBreaks(MoveTargets, starts) \in Seq(D \cap R)
  BY <1>5, <1>6, BreaksHold
<1>8. MoveCycleBreaks(MoveTargets, starts) \in Seq(D)
  BY <1>7
<1> QED BY <1>1, <1>3, <1>8 DEF D, R, starts

\* _move_batch validates its moves before it applies one.
LEMMA MoveBeginCatalog ==
    ASSUME JournalSound, CatalogSound, MoveBegin
    PROVE  TablesSound' /\ StaysOwn
<1> DEFINE starts == [i \in DOMAIN MovesAhead |-> MovePath(MovesAhead[i].key)]
<1>1. /\ pc = "next" /\ pc' = "breaks" /\ moves' = MovesAhead
      /\ todo' = SubSeq(todo, Len(MovesAhead) + 1, Len(todo))
      /\ temp' = [p \in Paths |-> None]
      /\ breaks' = MoveCycleBreaks(MoveTargets, starts)
      /\ from' = [k \in Keys |-> IF \E op \in ToSet(MovesAhead) : op.key = k
                                 THEN MovePath(k) ELSE None]
      /\ \A op \in ToSet(MovesAhead) : ValidMove(op)
      /\ UNCHANGED <<catalog, work, fs, undo_stack, writer, ops>>
  BY DEF MoveBegin, MoveTargets, MovePath, data, journal
<1>2. /\ MovesAhead \in Seq(Operation)
      /\ \A op \in ToSet(MovesAhead) :
             op.path \in Authorized[writer] /\ MovePath(op.key) \in Authorized[writer]
      /\ breaks' \in Seq({MovePath(op.key) : op \in ToSet(MovesAhead)})
      /\ ops \in Seq(Operation) /\ todo \in Seq(Operation)
  <2> HIDE DEF starts
  <2> QED BY <1>1, MovesAheadFacts DEF CatalogSound, PlanSound, starts
<1> HIDE DEF starts
<1>3. StaysOwn
  BY <1>1, NoRecord DEF CatalogSound
<1>4. todo' \in Seq(Operation)
  BY <1>1, <1>2
<1>5. PlanSound'
  BY <1>1, <1>2, <1>4 DEF PlanSound, Putting, Moving
<1>6. ASSUME NEW k \in Keys
      PROVE  /\ from'[k] \in Authorized[writer] \cup {None}
             /\ from'[k] # None => /\ work.rows[<<writer, k>>].path = from'[k]
                                   /\ \E op \in ToSet(moves') : op.key = k
  BY <1>1, <1>2 DEF MovePath
<1>7. breaks' \in Seq(Authorized[writer])
  <2>1. {MovePath(op.key) : op \in ToSet(MovesAhead)} \subseteq Authorized[writer]
    BY <1>2
  <2> QED BY <1>2, <2>1
<1>8. ParkingSound'
  BY <1>1, <1>6, <1>7 DEF ParkingSound, Moving
<1>9. RowsSound'
  BY <1>1 DEF CatalogSound, RowsSound, Placed, PathFree
<1> QED BY <1>3, <1>5, <1>8, <1>9 DEF TablesSound

\* Parking a file empties its path and fills a free journal name.
LEMMA ParkFacts ==
    ASSUME JournalSound, NEW p \in Paths, RenameTreeFile(p, JournalName(fs))
    PROVE  LET u == JournalName(fs)
           IN  /\ u \in UndoNames /\ fs[u] = None /\ u # p /\ fs[p] # None
               /\ fs' = [fs EXCEPT ![u] = fs[p], ![p] = None]
               /\ \A l \in Locations : l # u /\ l # p => fs'[l] = fs[l]
               /\ fs'[u] = fs[p] /\ fs'[p] = None
               /\ cleanup_stack' = Append(cleanup_stack, [backup |-> None, obj |-> None])
<1> DEFINE u == JournalName(fs)
<1>1. fs \in Files /\ fs[p] # None /\ \E x \in UndoNames : fs[x] = None
  BY JournalTypes DEF RenameTreeFile, Journal
<1>2. u \in UndoNames /\ fs[u] = None /\ u # p /\ p \in Locations /\ u \in Locations
  BY <1>1, FreeJournalName, StoreAssumption DEF Locations
<1>3. fs' = Rename(Backup(fs, u), p, u)
  BY DEF RenameTreeFile
<1>4. cleanup_stack' = Append(cleanup_stack, [backup |-> BackupName(fs, u), obj |-> None])
  BY DEF RenameTreeFile, Journal
<1> HIDE DEF u
<1>5. Backup(fs, u) = fs /\ BackupName(fs, u) = None
  BY <1>1, <1>2, BackupFacts
<1>6. fs' = [fs EXCEPT ![u] = fs[p], ![p] = None]
  BY <1>1, <1>2, <1>3, <1>5 DEF Rename
<1>7. /\ \A l \in Locations : l # u /\ l # p => fs'[l] = fs[l]
      /\ fs'[u] = fs[p] /\ fs'[p] = None
  BY <1>1, <1>2, <1>6 DEF Files
<1> QED BY <1>1, <1>2, <1>4, <1>5, <1>6, <1>7 DEF u

\* _break_move_cycles parks a file of the writer, each under a name of its own.
LEMMA BreakCycleCatalog ==
    ASSUME JournalSound, CatalogSound, NEW p \in Paths, BreakCycle(p)
    PROVE  TablesSound' /\ StaysOwn
<1>1. /\ pc = "breaks" /\ pc' = "breaks" /\ breaks # <<>> /\ Head(breaks) = p
      /\ breaks' = Tail(breaks)
      /\ UNCHANGED <<catalog, work, writer, ops, todo, moves, from>>
  BY DEF BreakCycle
<1>2. PlanSound /\ ParkingSound /\ RowsSound /\ RecordsSound /\ writer \in Writers
  BY CatalogTypes DEF CatalogSound
<1>3. PlanSound'
  BY <1>1, <1>2 DEF PlanSound, Putting, Moving
<1>4. RowsSound'
  BY <1>1, <1>2 DEF RowsSound, Placed, PathFree
<1>5. breaks \in Seq(Authorized[writer])
  BY <1>1, <1>2 DEF ParkingSound
<1>6. p \in Authorized[writer] /\ breaks' \in Seq(Authorized[writer])
  BY <1>1, <1>5, TailHolds
<1>7. CASE fs[p] = None
  <2>1. UNCHANGED <<fs, undo_stack, temp>>
    BY <1>7 DEF BreakCycle, journal
  <2>2. StaysOwn
    BY <1>1, <1>2, <2>1, NoRecord
  <2>3. ParkingSound'
    BY <1>1, <1>2, <1>6, <2>1 DEF ParkingSound, Moving
  <2> QED BY <1>3, <1>4, <2>2, <2>3 DEF TablesSound
<1>8. CASE fs[p] # None
  <2> DEFINE u == JournalName(fs)
  <2>1. RenameTreeFile(p, u) /\ temp' = [temp EXCEPT ![p] = u]
    BY <1>8 DEF BreakCycle
  <2>2. /\ u \in UndoNames /\ fs[u] = None /\ u # p /\ fs[p] # None
        /\ \A l \in Locations : l # u /\ l # p => fs'[l] = fs[l]
        /\ fs'[u] = fs[p] /\ fs'[p] = None
    BY <2>1, ParkFacts
  <2> HIDE DEF u
  <2>3. StaysOwn
    BY <1>1, <1>2, <1>6, <2>1, <2>2, RenameOwn DEF Reach
  <2>4. temp'[p] = u /\ \A q \in Paths : q # p => temp'[q] = temp[q]
    BY <2>1, CatalogTypes
  <2>5. \A q \in Paths : temp[q] # None =>
            temp[q] # u /\ temp[q] # p /\ temp[q] \in Locations /\ fs[temp[q]] # None
    BY <1>1, <1>2, <2>2, CatalogTypes, StoreAssumption DEF ParkingSound, Locations
  <2>6. ASSUME NEW q \in Paths, NEW r \in Paths, temp'[q] # None, temp'[q] = temp'[r]
        PROVE  q = r
    BY <1>1, <1>2, <2>4, <2>5, <2>6 DEF ParkingSound
  <2>7. ASSUME NEW q \in Paths, temp'[q] # None PROVE fs'[temp'[q]] # None
    BY <2>2, <2>4, <2>5, <2>7
  <2>8. \A k \in Keys : from'[k] \in Authorized[writer'] \cup {None}
    BY <1>1, <1>2 DEF ParkingSound, Moving
  <2>9. \A k \in Keys : from'[k] # None =>
                  /\ work'.rows[<<writer', k>>].path = from'[k]
                  /\ \E op \in ToSet(moves') : op.key = k
    BY <1>1, <1>2 DEF ParkingSound
  <2>10. ParkingSound'
    BY <1>1, <1>6, <2>6, <2>7, <2>8, <2>9 DEF ParkingSound
  <2> QED BY <1>3, <1>4, <2>3, <2>10 DEF TablesSound
<1> QED BY <1>7, <1>8

\* The rows of the parked files go to their temporary paths, no two to one.
LEMMA RekeyCatalog ==
    ASSUME JournalSound, CatalogSound, RekeyParked
    PROVE  TablesSound' /\ StaysOwn
<1> DEFINE parked(i) == i[1] = writer /\ from[i[2]] # None /\ temp[from[i[2]]] # None
           rows == [i \in Ids |-> IF parked(i)
                                  THEN [work.rows[i] EXCEPT !.path = temp[from[i[2]]]]
                                  ELSE work.rows[i]]
<1>1. /\ pc = "breaks" /\ pc' = "moves" /\ work' = [work EXCEPT !.rows = rows]
      /\ UNCHANGED <<catalog, fs, undo_stack, writer, ops, todo, moves, from, temp>>
  BY DEF RekeyParked, journal
<1>2. PlanSound /\ ParkingSound /\ RowsSound /\ RecordsSound /\ LocalsSound
  BY LocalsHalf DEF CatalogSound
<1>3. StaysOwn
  BY <1>1, <1>2, NoRecord
<1>4. PlanSound'
  BY <1>1, <1>2 DEF PlanSound, Putting, Moving
<1>5. ParkingSound'
  BY <1>1, <1>2 DEF ParkingSound, Moving
<1>6. work'.rows = rows
  <2> HIDE DEF rows
  <2> QED BY <1>1, CatalogTypes DEF Tables
<1>7. ASSUME NEW i \in Ids, parked(i)
      PROVE  /\ i[2] \in Keys /\ i = <<writer, i[2]>>
             /\ work.rows[i] # None /\ from[i[2]] \in Paths
             /\ work.rows[i].path = from[i[2]]
             /\ rows[i].path = temp[from[i[2]]]
             /\ temp[from[i[2]]] \in UndoNames
             /\ \E op \in ToSet(moves) : op.key = i[2]
  <2>1. i[2] \in Keys /\ i = <<writer, i[2]>>
    BY <1>7 DEF Ids
  <2>2. from[i[2]] \in Paths /\ temp[from[i[2]]] \in UndoNames
    BY <1>7, <2>1, CatalogTypes
  <2>3. work.rows[i] # None
    BY <1>1, <1>2, <1>7, <2>1 DEF LocalsSound
  <2>4. work.rows[i].path = from[i[2]] /\ \E op \in ToSet(moves) : op.key = i[2]
    BY <1>1, <1>2, <1>7, <2>1 DEF ParkingSound
  <2>5. rows[i].path = temp[from[i[2]]]
    BY <1>7, <2>3, WorkRow DEF Row
  <2> QED BY <2>1, <2>2, <2>3, <2>4, <2>5
<1>8. ASSUME NEW i \in Ids, ~parked(i) PROVE rows[i] = work.rows[i]
  BY <1>8
<1>9. Placed(work.rows)
  BY <1>1, <1>2 DEF RowsSound
<1>10. \A i \in Ids : Authorized[i[1]] \subseteq Paths
  BY GrantsAssumption DEF Ids
<1> HIDE DEF rows
<1>11. ASSUME NEW i \in Ids, NEW j \in Ids, i # j, rows[i] # None, rows[j] # None
       PROVE  rows[i].path # rows[j].path
  <2>1. CASE parked(i) /\ parked(j)
    <3>1. /\ rows[i].path = temp[from[i[2]]] /\ rows[j].path = temp[from[j[2]]]
          /\ from[i[2]] \in Paths /\ from[j[2]] \in Paths /\ temp[from[i[2]]] # None
          /\ work.rows[i] # None /\ work.rows[j] # None
          /\ work.rows[i].path = from[i[2]] /\ work.rows[j].path = from[j[2]]
      BY <1>7, <2>1
    <3>2. from[i[2]] # from[j[2]]
      BY <1>9, <1>11, <3>1 DEF Placed, PathFree
    <3> QED BY <1>1, <1>2, <3>1, <3>2 DEF ParkingSound
  <2>2. CASE parked(i) /\ ~parked(j)
    <3>1. rows[i].path \in UndoNames
      BY <1>7, <2>2
    <3>2. rows[j].path \in Paths
      BY <1>8, <1>9, <1>10, <1>11, <2>2 DEF Placed
    <3> QED BY <3>1, <3>2, StoreAssumption
  <2>3. CASE ~parked(i) /\ parked(j)
    <3>1. rows[j].path \in UndoNames
      BY <1>7, <2>3
    <3>2. rows[i].path \in Paths
      BY <1>8, <1>9, <1>10, <1>11, <2>3 DEF Placed
    <3> QED BY <3>1, <3>2, StoreAssumption
  <2>4. CASE ~parked(i) /\ ~parked(j)
    <3>1. rows[i] = work.rows[i] /\ rows[j] = work.rows[j]
      BY <1>8, <2>4
    <3> QED BY <1>9, <1>11, <3>1 DEF Placed, PathFree
  <2> HIDE DEF parked
  <2> QED BY <2>1, <2>2, <2>3, <2>4
<1>12. ASSUME NEW i \in Ids, rows[i] # None
       PROVE  \/ rows[i].path \in Authorized[i[1]]
              \/ /\ rows[i].path \in UndoNames /\ i[1] = writer
                 /\ \E op \in ToSet(moves) : op.key = i[2]
  <2>1. CASE parked(i)
    BY <1>7, <2>1
  <2>2. CASE ~parked(i)
    BY <1>8, <1>9, <1>12, <2>2 DEF Placed
  <2> QED BY <2>1, <2>2
<1>13. PlacedOrParked(rows, writer, moves)
  BY <1>11, <1>12 DEF PlacedOrParked, PathFree
<1>14. RowsSound'
  BY <1>1, <1>2, <1>6, <1>13 DEF RowsSound, Placed, PathFree
<1> QED BY <1>3, <1>4, <1>5, <1>14 DEF TablesSound

\* A move renames from the path its row had, or from where its file was parked.
LEMMA MoveFileCatalog ==
    ASSUME JournalSound, CatalogSound,
           NEW k \in Keys, NEW p \in Paths, NEW h \in Hashes, MoveFile(k, p, h)
    PROVE  TablesSound' /\ StaysOwn
<1>1. /\ pc = "moves" /\ pc' = "move_row" /\ moves # <<>> /\ Head(moves) = MoveOp(k, p, h)
      /\ from[k] # None
      /\ UNCHANGED <<catalog, work, writer, ops, todo, moves, from>>
  BY DEF MoveFile
<1>2. PlanSound /\ ParkingSound /\ RowsSound /\ RecordsSound /\ writer \in Writers
  BY CatalogTypes DEF CatalogSound
<1>3. p \in Authorized[writer]
  <2>1. Head(moves) \in ToSet(moves)
    BY <1>1, <1>2, TailHolds DEF PlanSound
  <2>2. Head(moves).path = p
    BY <1>1 DEF MoveOp
  <2> QED BY <1>1, <1>2, <2>1, <2>2 DEF PlanSound, Moving
<1>4. MoveSource(k) \in Reach(writer)
  <2>1. from[k] \in Authorized[writer] /\ from[k] \in Paths
    BY <1>1, <1>2, ReachFacts DEF ParkingSound, Moving
  <2>2. temp[from[k]] \in UndoNames \cup {None}
    BY <2>1, CatalogTypes
  <2> QED BY <2>1, <2>2 DEF MoveSource, Reach
<1>5. StaysOwn
  <2>1. CASE from[k] = p \/ fs[MoveSource(k)] = None
    BY <1>1, <1>2, <2>1, NoRecord DEF MoveFile, journal
  <2>2. CASE ~(from[k] = p \/ fs[MoveSource(k)] = None)
    <3>1. RenameTreeFile(MoveSource(k), p) /\ p \in Reach(writer)
      BY <1>3, <2>2 DEF MoveFile, Reach
    <3> QED BY <1>1, <1>2, <1>4, <3>1, RenameOwn
  <2> QED BY <2>1, <2>2
<1>6. PlanSound'
  BY <1>1, <1>2 DEF PlanSound, Putting, Moving
<1>7. ParkingSound'
  BY <1>1, <1>2 DEF ParkingSound, Moving
<1>8. RowsSound'
  BY <1>1, <1>2 DEF RowsSound, Placed, PlacedOrParked, PathFree
<1> QED BY <1>5, <1>6, <1>7, <1>8 DEF TablesSound

\* A row that has been moved is at a path of its writer that no other row has.
LEMMA MoveRowCatalog ==
    ASSUME JournalSound, CatalogSound,
           NEW k \in Keys, NEW p \in Paths, NEW h \in Hashes, MoveRow(k, p, h)
    PROVE  TablesSound' /\ StaysOwn
<1> DEFINE id  == <<writer, k>>
           row == [work.rows[id] EXCEPT !.path = p]
<1>1. /\ pc = "move_row" /\ pc' = "moves" /\ Head(moves) = MoveOp(k, p, h)
      /\ from[k] # None /\ PathFree(work.rows, id, p)
      /\ work' = [work EXCEPT !.rows[id] = row] /\ moves' = Tail(moves)
      /\ UNCHANGED <<catalog, fs, undo_stack, writer, ops, todo, from>>
  BY DEF MoveRow, journal
<1>2. /\ PlanSound /\ ParkingSound /\ RowsSound /\ RecordsSound /\ LocalsSound
      /\ writer \in Writers /\ id \in Ids /\ id[1] = writer /\ id[2] = k
  BY CatalogTypes, LocalsHalf DEF CatalogSound
<1>3. /\ moves' \in Seq(Operation) /\ ToSet(moves) = {Head(moves)} \cup ToSet(moves')
      /\ Head(moves).path = p /\ Head(moves).key = k
  BY <1>1, <1>2, TailHolds DEF PlanSound, MoveOp
<1>4. p \in Authorized[writer]
  BY <1>1, <1>2, <1>3 DEF PlanSound, Moving
<1>5. StaysOwn
  BY <1>1, <1>2, NoRecord
<1>6. PlanSound'
  BY <1>1, <1>2, <1>3 DEF PlanSound, Putting, Moving
<1>7. ParkingSound'
  BY <1>1, <1>2 DEF ParkingSound, Moving
<1>8. row.path = p
  <2>1. work.rows[id] # None
    BY <1>1, <1>2 DEF LocalsSound
  <2> QED BY <1>2, <2>1, WorkRow DEF Row
<1>9. work'.rows[id] = row /\ \A i \in Ids : i # id => work'.rows[i] = work.rows[i]
  <2> HIDE DEF row, id
  <2> QED BY <1>1, <1>2, CatalogTypes DEF Tables
<1>10. PlacedOrParked(work.rows, writer, moves)
  BY <1>1, <1>2 DEF RowsSound
<1> HIDE DEF row
<1>11. ASSUME NEW i \in Ids, work'.rows[i] # None
       PROVE  /\ PathFree(work'.rows, i, work'.rows[i].path)
              /\ \/ work'.rows[i].path \in Authorized[i[1]]
                 \/ /\ work'.rows[i].path \in UndoNames /\ i[1] = writer
                    /\ \E op \in ToSet(moves') : op.key = i[2]
  <2>1. CASE i = id
    <3> HIDE DEF id
    <3>1. work'.rows[i].path = p
      BY <1>8, <1>9, <2>1
    <3>2. PathFree(work'.rows, i, p)
      BY <1>1, <1>9, <2>1 DEF PathFree
    <3> QED BY <1>2, <1>4, <2>1, <3>1, <3>2
  <2>2. CASE i # id
    <3>1. work'.rows[i] = work.rows[i]
      BY <1>9, <2>2
    <3>2. /\ PathFree(work.rows, i, work.rows[i].path)
          /\ \/ work.rows[i].path \in Authorized[i[1]]
             \/ /\ work.rows[i].path \in UndoNames /\ i[1] = writer
                /\ \E op \in ToSet(moves) : op.key = i[2]
      BY <1>10, <1>11, <3>1 DEF PlacedOrParked
    <3>3. i[1] = writer => i[2] # k
      BY <2>2 DEF Ids
    <3>4. \A op \in ToSet(moves) : op.key # k => op \in ToSet(moves')
      BY <1>3
    <3>5. PathFree(work'.rows, i, work.rows[i].path)
      <4> HIDE DEF id
      <4>1. work.rows[i].path # p
        BY <1>1, <1>11, <2>2, <3>1 DEF PathFree
      <4> QED BY <1>8, <1>9, <3>2, <4>1 DEF PathFree
    <3> QED BY <3>1, <3>2, <3>3, <3>4, <3>5
  <2> QED BY <2>1, <2>2
<1>12. PlacedOrParked(work'.rows, writer, moves')
  BY <1>11 DEF PlacedOrParked
<1>13. RowsSound'
  BY <1>1, <1>2, <1>12 DEF RowsSound, Placed, PathFree
<1> QED BY <1>5, <1>6, <1>7, <1>13 DEF TablesSound

\* When no move is left, no row is left at a temporary path.
LEMMA MoveBatchDoneCatalog ==
    ASSUME JournalSound, CatalogSound, MoveBatchDone
    PROVE  TablesSound' /\ StaysOwn
<1>1. /\ pc = "moves" /\ pc' = "next" /\ moves = <<>>
      /\ UNCHANGED <<catalog, work, fs, undo_stack, writer, ops, todo, moves>>
  BY DEF MoveBatchDone, data, journal
<1>2. PlanSound /\ RowsSound /\ RecordsSound
  BY DEF CatalogSound
<1>3. StaysOwn
  BY <1>1, <1>2, NoRecord
<1>4. PlanSound'
  BY <1>1, <1>2 DEF PlanSound, Putting, Moving
<1>5. ParkingSound'
  BY <1>1 DEF ParkingSound, Moving
<1>6. ToSet(moves) = {}
  BY <1>1 DEF ToSet
<1>7. Placed(work.rows)
  BY <1>1, <1>2, <1>6 DEF RowsSound, PlacedOrParked, Placed
<1>8. RowsSound'
  BY <1>1, <1>2, <1>7 DEF RowsSound, Placed, PathFree
<1> QED BY <1>3, <1>4, <1>5, <1>8 DEF TablesSound

\* The steps of _move_batch.
LEMMA MoveCatalog ==
    ASSUME JournalSound, CatalogSound, MoveStep
    PROVE  TablesSound' /\ StaysOwn
<1>1. CASE MoveRaises
  BY <1>1, RaiseCatalog DEF MoveRaises
<1> QED BY <1>1, MoveBeginCatalog, BreakCycleCatalog, RekeyCatalog, MoveFileCatalog,
           MoveRowCatalog, MoveBatchDoneCatalog DEF MoveStep

\* The commit publishes the tables of the transaction.
LEMMA CommitCatalog ==
    ASSUME JournalSound, CatalogSound, Commit
    PROVE  TablesSound' /\ StaysOwn
<1>1. /\ pc = "next" /\ pc' = "cleanup" /\ catalog' = work
      /\ UNCHANGED <<work, fs, undo_stack, writer, ops, todo, moves>>
  BY DEF Commit, journal
<1>2. StaysOwn
  BY <1>1, NoRecord DEF CatalogSound
<1>3. PlanSound'
  BY <1>1 DEF CatalogSound, PlanSound, Putting, Moving
<1>4. ParkingSound'
  BY <1>1 DEF ParkingSound, Moving
<1>5. RowsSound'
  BY <1>1 DEF CatalogSound, RowsSound, Placed, PathFree
<1> QED BY <1>2, <1>3, <1>4, <1>5 DEF TablesSound

\* Popping a closure leaves the others.
LEMMA PopOwn ==
    ASSUME JournalSound, RecordsSound, undo_stack # <<>>,
           undo_stack' = Popped(undo_stack), UNCHANGED writer
    PROVE  RecordsSound'
<1>1. undo_stack \in Seq(UndoRecords)
  BY JournalTypes
<1>2. /\ Len(undo_stack) \in Nat /\ Len(undo_stack') = Len(undo_stack) - 1
      /\ \A i \in 1 .. Len(undo_stack) - 1 : undo_stack'[i] = undo_stack[i]
  BY <1>1, PoppedFacts
<1>3. \A i \in 1 .. Len(undo_stack) - 1 : i \in 1 .. Len(undo_stack)
  BY <1>2
<1> QED BY <1>2, <1>3 DEF RecordsSound

\* The rollback and the cleanup leave the tables alone and run the writer's closures.
LEMMA RollbackCatalog ==
    ASSUME JournalSound, CatalogSound,
           UndoLast \/ UndoRaises \/ MarkFailed \/ MarkFailedRaises
               \/ CleanupFirst \/ CleanupRaises \/ Return
    PROVE  TablesSound' /\ StaysOwn
<1>1. PlanSound /\ RowsSound /\ RecordsSound /\ writer \in Writers
  BY CatalogTypes DEF CatalogSound
<1>2. CASE MarkFailedRaises \/ Return
  <2>1. Forget /\ UNCHANGED <<catalog, fs>> /\ work' = catalog
    BY <1>1, <1>2 DEF MarkFailedRaises, Return, data, RowsSound
  <2> QED BY <2>1, ForgetCatalog
<1>3. CASE UndoLast \/ UndoRaises \/ MarkFailed \/ CleanupFirst \/ CleanupRaises
  <2>1. /\ pc \in {"undo", "cleanup"} /\ pc' \in {"undo", "cleanup"}
        /\ UNCHANGED <<catalog, work, writer, ops, todo, moves>>
    BY <1>3 DEF UndoLast, UndoRaises, MarkFailed, CleanupFirst, CleanupRaises, data, control
  <2>2. PlanSound'
    BY <1>1, <2>1 DEF PlanSound, Putting, Moving
  <2>3. ParkingSound'
    BY <2>1 DEF ParkingSound, Moving
  <2>4. RowsSound'
    BY <1>1, <2>1 DEF RowsSound, Placed, PathFree
  <2>5. StaysOwn
    <3>1. CASE UndoLast
      <4> DEFINE rec == undo_stack[Len(undo_stack)]
      <4>1. undo_stack # <<>> /\ undo_stack' = Popped(undo_stack) /\ fs' = Undo(rec, fs)
        BY <3>1 DEF UndoLast
      <4>2. RecordsSound'
        BY <1>1, <2>1, <4>1, PopOwn
      <4>3. rec \in UndoRecords /\ fs \in Files /\ Len(undo_stack) \in 1..Len(undo_stack)
        BY <4>1, JournalTypes
      <4>4. Own(writer, rec)
        BY <1>1, <4>3 DEF RecordsSound
      <4> HIDE DEF rec
      <4>5. ASSUME NEW p \in Paths, p \notin Authorized[writer] PROVE fs'[p] = fs[p]
        <5>1. p # rec.source /\ p # rec.target
          BY <1>1, <4>4, <4>5, ReachFacts, CatalogTypes DEF Own, Reach
        <5> QED BY <4>1, <4>3, <5>1, UndoElsewhere
      <4> QED BY <4>2, <4>5 DEF StaysOwn
    <3>2. CASE UndoRaises
      <4>1. undo_stack # <<>> /\ undo_stack' = Popped(undo_stack) /\ UNCHANGED fs
        BY <3>2 DEF UndoRaises, data
      <4> QED BY <1>1, <2>1, <4>1, PopOwn DEF StaysOwn
    <3>3. CASE MarkFailed \/ CleanupRaises
      BY <1>1, <2>1, <3>3, NoRecord DEF MarkFailed, CleanupRaises, data, journal
    <3>4. CASE CleanupFirst
      <4> DEFINE b == Head(cleanup_stack).backup
      <4>1. /\ fs' = IF b = None THEN fs ELSE [fs EXCEPT ![b] = None]
            /\ UNCHANGED undo_stack /\ cleanup_stack # <<>>
        BY <3>4 DEF CleanupFirst
      <4>2. b \in UndoNames \cup {None}
        <5>1. Head(cleanup_stack) \in CleanupRecords
          BY <4>1, JournalTypes, TailHolds
        <5> QED BY <5>1 DEF CleanupRecords
      <4> HIDE DEF b
      <4>3. ASSUME NEW p \in Paths PROVE fs'[p] = fs[p]
        BY <4>1, <4>2, JournalTypes, StoreAssumption DEF Files, Locations
      <4>4. RecordsSound'
        BY <1>1, <2>1, <4>1 DEF RecordsSound
      <4> QED BY <4>3, <4>4 DEF StaysOwn
    <3> QED BY <1>3, <3>1, <3>2, <3>3, <3>4
  <2> QED BY <2>2, <2>3, <2>4, <2>5 DEF TablesSound
<1> QED BY <1>2, <1>3

\* What the environment does to a submission.
LEMMA DisturbCatalog ==
    ASSUME JournalSound, CatalogSound, Disturb
    PROVE  TablesSound' /\ StaysOwn
<1>1. CASE Fault
  BY <1>1, RaiseCatalog DEF Fault
<1>2. CASE Crash
  BY <1>2, ForgetCatalog DEF Crash
<1>3. ASSUME NEW k \in Keys, NEW p \in Paths, NEW h \in Hashes, PutObjectTorn(k, p, h)
      PROVE  TablesSound' /\ StaysOwn
  <2>1. /\ pc' = "undo" /\ work' = catalog
        /\ UNCHANGED <<catalog, fs, undo_stack, writer, ops, todo, moves>>
    BY <1>3 DEF PutObjectTorn
  <2>2. StaysOwn
    BY <2>1, NoRecord DEF CatalogSound
  <2>3. PlanSound'
    BY <2>1 DEF CatalogSound, PlanSound, Putting, Moving
  <2>4. ParkingSound'
    BY <2>1 DEF ParkingSound, Moving
  <2>5. RowsSound'
    BY <2>1 DEF CatalogSound, RowsSound, Placed, PathFree
  <2> QED BY <2>2, <2>3, <2>4, <2>5 DEF TablesSound
<1> QED BY <1>1, <1>2, <1>3, RollbackCatalog DEF Disturb

\* A store opened on a catalog it wrote.
LEMMA InitCatalog == Init => CatalogSound
<1> SUFFICES ASSUME Init PROVE CatalogSound
  OBVIOUS
<1>1. /\ pc = "idle" /\ ops = <<>> /\ todo = <<>> /\ moves = <<>> /\ undo_stack = <<>>
      /\ work = catalog
  BY DEF Init
<1>2. PICK rows \in InitRows : catalog = [rows |-> rows, decided |-> {}]
  BY DEF Init
<1>3. Placed(catalog.rows)
  BY <1>2, InitRowsAssumption DEF Placed, PathFree
<1>4. PlanSound
  BY <1>1 DEF PlanSound, Putting, Moving
<1>5. ParkingSound /\ RecordsSound
  BY <1>1 DEF ParkingSound, RecordsSound, Moving
<1>6. RowsSound
  BY <1>1, <1>3 DEF RowsSound
<1> QED BY <1>4, <1>5, <1>6 DEF CatalogSound

\* Every step keeps the invariant, and stays within the reach of the writer.
LEMMA StepCatalog ==
    ASSUME JournalSound, CatalogSound, [Next]_vars
    PROVE  CatalogSound' /\ StaysOwn
<1>1. CASE UNCHANGED vars
  <2>1. StaysOwn
    BY <1>1, NoRecord DEF CatalogSound, vars, data, control, journal
  <2>2. TablesSound'
    BY <1>1 DEF CatalogSound, PlanSound, ParkingSound, RowsSound, TablesSound,
                Placed, PlacedOrParked, PathFree, vars, data, control, journal
  <2> QED BY <2>1, <2>2 DEF TablesSound, StaysOwn, CatalogSound
<1>2. CASE Next
  <2>1. TablesSound' /\ StaysOwn
    <3>1. CASE RejectPlan
      BY <3>1, RaiseCatalog DEF RejectPlan
    <3>2. CASE \E w \in Writers, batch \in Batches : Accept(w, batch)
      BY <3>2, AcceptCatalog
    <3>3. CASE Proceed
      BY <3>1, <3>3, PlanCatalog, PutCatalog, DeleteCatalog, DecisionCatalog, MoveCatalog,
         CommitCatalog, RollbackCatalog DEF Proceed
    <3>4. CASE Disturb
      BY <3>4, DisturbCatalog
    <3> QED BY <1>2, <3>2, <3>3, <3>4 DEF Next
  <2> QED BY <2>1 DEF TablesSound, StaysOwn, CatalogSound
<1> QED BY <1>1, <1>2

-----------------------------------------------------------------------------
(***************************************************************************)
(* What lies ahead of a submission: its moves come before all but the      *)
(* deletes, and, where the client sends no such move, none of them names   *)
(* the path that its row already has.                                      *)
(***************************************************************************)

InPlace(op, rows, w) == op.kind = "move" /\ op.path = RowPath(rows, <<w, op.key>>)

AheadSound ==
    /\ DeletesAndMovesFirst(todo)
    /\ pc \in Moving => \A op \in ToSet(todo) : op.kind # "move"
    /\ pc = "plan" => \A op \in ToSet(ops) : ~InPlace(op, catalog.rows, writer)
    /\ pc \in {"next", "delete_row"} \cup Putting =>
           \A op \in ToSet(todo) : ~InPlace(op, work.rows, writer)
    /\ pc \in Moving => \A op \in ToSet(moves) : op.path # from[op.key]

\* The rest of an ordered batch is ordered; after a put or a decision there is no move.
LEMMA TailFirst ==
    ASSUME NEW X, NEW s \in Seq(X), s # <<>>, DeletesAndMovesFirst(s)
    PROVE  /\ DeletesAndMovesFirst(Tail(s))
           /\ Head(s).kind \notin {"delete", "move"} =>
                  \A op \in ToSet(Tail(s)) : op.kind # "move"
<1>1. /\ Len(s) \in Nat /\ Len(s) > 0 /\ Head(s) = s[1] /\ Tail(s) \in Seq(X)
      /\ Len(Tail(s)) = Len(s) - 1
  OBVIOUS
<1>2. ASSUME NEW i \in 1..Len(Tail(s))
      PROVE  Tail(s)[i] = s[i + 1] /\ i + 1 \in 1..Len(s) /\ 1 < i + 1
  BY <1>1
<1>3. ASSUME NEW i \in 1..Len(Tail(s)), NEW j \in 1..Len(Tail(s)), i < j
      PROVE  /\ Tail(s)[j].kind = "move" => Tail(s)[i].kind \in {"delete", "move"}
             /\ Tail(s)[j].kind = "delete" => Tail(s)[i].kind = "delete"
  <2>1. i + 1 < j + 1
    BY <1>3
  <2> QED BY <1>2, <2>1 DEF DeletesAndMovesFirst
<1>4. ASSUME NEW i \in 1..Len(Tail(s)), Tail(s)[i].kind = "move"
      PROVE  Head(s).kind \in {"delete", "move"}
  <2>1. 1 \in 1..Len(s)
    BY <1>1
  <2> QED BY <1>1, <1>2, <1>4, <2>1 DEF DeletesAndMovesFirst
<1>5. \A op \in ToSet(Tail(s)) : \E i \in 1..Len(Tail(s)) : op = Tail(s)[i]
  BY <1>1 DEF ToSet
<1> QED BY <1>3, <1>4, <1>5 DEF DeletesAndMovesFirst

\* When a move is next, the moves ahead are the first of what is left: the batch that
\* _move_batch takes off leaves neither a move nor a delete.
LEMMA MoveRun ==
    ASSUME NEW X, NEW s \in Seq(X), s # <<>>, DeletesAndMovesFirst(s), Head(s).kind = "move"
    PROVE  LET m == Len(OfKind(s, "move"))
               rest == SubSeq(s, m + 1, Len(s))
           IN  /\ rest \in Seq(X) /\ \A op \in ToSet(rest) : op.kind \notin {"move", "delete"}
               /\ m \in 0..Len(s) /\ \A i \in 1..Len(s) : s[i].kind = "move" <=> i <= m
               /\ Len(rest) = Len(s) - m /\ \A i \in 1..Len(rest) : rest[i] = s[m + i]
<1> DEFINE N == Len(s)
           S == {op \in ToSet(s) : op.kind = "move"}
           Q == {n \in 0..N : \A i \in 1..N : s[i].kind = "move" => i <= n}
<1>1. N \in Nat /\ N > 0 /\ Head(s) = s[1]
  OBVIOUS
<1>2. PICK m \in 0..N : \A i \in 1..N : s[i].kind = "move" <=> i <= m
  <2>1. N \in Q
    BY <1>1
  <2>2. PICK n \in Q : \A x \in 0..(n - 1) : x \notin Q
    <3>1. Q \in SUBSET Nat
      OBVIOUS
    <3> HIDE DEF Q
    <3>2. \E n \in Q : \A x \in 0..(n - 1) : x \notin Q
      BY <2>1, <3>1, LeastNatural
    <3> QED BY <3>2
  <2>3. n \in 0..N /\ \A i \in 1..N : s[i].kind = "move" => i <= n
    OBVIOUS
  <2>4. n # 0
    BY <1>1, <2>3
  <2>5. s[n].kind = "move" /\ n \in 1..N
    <3>1. n - 1 \in 0..(n - 1) /\ n - 1 \in 0..N
      BY <1>1, <2>3, <2>4
    <3>2. PICK i \in 1..N : s[i].kind = "move" /\ ~(i <= n - 1)
      BY <2>2, <3>1
    <3>3. i = n
      BY <1>1, <2>3, <3>2
    <3> QED BY <3>2, <3>3
  <2>6. ASSUME NEW i \in 1..N, i <= n PROVE s[i].kind = "move"
    <3>1. CASE i = n
      BY <2>5, <3>1
    <3>2. CASE i # n
      <4>1. i < n
        BY <1>1, <2>3, <2>6, <3>2
      <4>2. s[i].kind \in {"delete", "move"}
        BY <2>5, <4>1 DEF DeletesAndMovesFirst
      <4>3. ASSUME s[i].kind = "delete" PROVE FALSE
        <5>1. CASE i = 1
          BY <1>1, <4>3, <5>1
        <5>2. CASE i # 1
          <6>1. 1 \in 1..N /\ 1 < i
            BY <1>1, <5>2
          <6> QED BY <1>1, <4>3, <6>1 DEF DeletesAndMovesFirst
        <5> QED BY <5>1, <5>2
      <4> QED BY <4>2, <4>3
    <3> QED BY <3>1, <3>2
  <2> QED BY <2>3, <2>6
<1>3. Len(OfKind(s, "move")) = m
  <2>1. OfKind(s, "move") = Keeping(S, s)
    BY DEF OfKind
  <2>2. \A i \in 1..N : s[i] \in ToSet(s)
    BY DEF ToSet
  <2>3. \A i \in 1..Len(s) : s[i] \in S <=> i <= m
    BY <1>2, <2>2
  <2> HIDE DEF S
  <2> QED BY <2>1, <2>3, KeepingFirst
<1> DEFINE rest == SubSeq(s, m + 1, N)
<1>4. rest \in Seq(X) /\ Len(rest) = N - m /\ \A i \in 1..N - m : rest[i] = s[m + i]
  BY <1>1
<1>5. ASSUME NEW i \in 1..N - m PROVE rest[i].kind \notin {"move", "delete"}
  <2>1. rest[i] = s[m + i] /\ m + i \in 1..N /\ ~(m + i <= m)
    BY <1>1, <1>4
  <2>2. s[m + i].kind # "move"
    BY <1>2, <2>1
  <2>3. ASSUME s[m + i].kind = "delete" PROVE FALSE
    <3>1. 1 \in 1..N /\ s[1].kind = "move"
      BY <1>1
    <3>2. 1 <= m
      BY <1>2, <3>1
    <3>3. 1 < m + i
      BY <1>1, <3>2
    <3> QED BY <2>1, <2>3, <3>1, <3>3 DEF DeletesAndMovesFirst
  <2> QED BY <2>1, <2>2, <2>3
<1>6. \A op \in ToSet(rest) : \E i \in 1..N - m : op = rest[i]
  <2> HIDE DEF rest
  <2> QED BY <1>4 DEF ToSet
<1> QED BY <1>2, <1>3, <1>4, <1>5, <1>6

\* The plan is over, or forgotten.
LEMMA EndsAhead ==
    ASSUME AheadSound, pc' \in {"idle", "undo", "cleanup"}, todo' = todo \/ todo' = <<>>
    PROVE  AheadSound'
<1>1. DeletesAndMovesFirst(<<>>)
  BY DEF DeletesAndMovesFirst
<1> QED BY <1>1 DEF AheadSound, Moving, Putting

\* A helper call or statement between two that finish an operation.
LEMMA SameAhead ==
    ASSUME AheadSound, UNCHANGED <<todo, work, writer>>,
           pc \in {"next", "delete_row"} \cup Putting, pc' \in {"delete_row"} \cup Putting
    PROVE  AheadSound'
BY DEF AheadSound, Moving, Putting, InPlace, RowPath

\* An operation is finished, and has left the rows of the moves to come as they were.
LEMMA NextAhead ==
    ASSUME CatalogSound, AheadSound, todo # <<>>, todo' = Tail(todo), UNCHANGED writer,
           pc \in {"next", "delete_row"} \cup Putting, pc' = "next",
           \A op \in ToSet(todo') : ~InPlace(op, work.rows, writer)
                                        => ~InPlace(op, work'.rows, writer)
    PROVE  AheadSound'
<1>1. todo \in Seq(Operation)
  BY DEF CatalogSound, PlanSound
<1>2. DeletesAndMovesFirst(todo') /\ ToSet(todo) = {Head(todo)} \cup ToSet(todo')
  BY <1>1, TailFirst, TailHolds DEF AheadSound
<1>3. \A op \in ToSet(todo') : ~InPlace(op, work'.rows, writer)
  BY <1>2 DEF AheadSound
<1> QED BY <1>2, <1>3 DEF AheadSound, Moving, Putting, InPlace, RowPath

\* A step within _move_batch.
LEMMA MovingAhead ==
    ASSUME AheadSound, UNCHANGED <<todo, from>>, ToSet(moves') \subseteq ToSet(moves),
           pc \in Moving, pc' \in Moving
    PROVE  AheadSound'
BY DEF AheadSound, Moving, Putting

\* A client that moves nothing in place.
LEMMA AcceptAhead ==
    ASSUME ~SelfMoves, AheadSound, NEW w \in Writers, NEW batch \in Batches, Accept(w, batch)
    PROVE  AheadSound'
<1>1. /\ ~MovesInPlace(w, batch) /\ pc' = "plan" /\ writer' = w /\ ops' = batch
      /\ UNCHANGED <<todo, catalog>>
  BY DEF Accept, data
<1>2. \A op \in ToSet(batch) : ~InPlace(op, catalog.rows, w)
  BY <1>1 DEF MovesInPlace, InPlace, ToSet
<1> QED BY <1>1, <1>2 DEF AheadSound, Moving, Putting, InPlace, RowPath

\* The planner puts the moves where _move_batch takes them off together.
LEMMA PlanAhead ==
    ASSUME CatalogSound, AheadSound, Plan
    PROVE  AheadSound'
<1>1. /\ pc = "plan" /\ pc' = "next"
      /\ todo' = OrderedOperations(ops, PathsBySource(catalog.rows), writer)
      /\ UNCHANGED <<catalog, work, writer>> /\ work = catalog
  BY DEF Plan, data, CatalogSound, RowsSound
<1>2. /\ ops \in Seq(Operation)
      /\ \A op \in Operation : op.kind \in {"put", "move", "delete", "decision"}
  BY DEF CatalogSound, PlanSound, Operation
<1>3. ToSet(todo') = ToSet(ops) /\ DeletesAndMovesFirst(todo')
  BY <1>1, <1>2, OrderedHolds, OrderedFirst
<1>4. \A op \in ToSet(todo') : ~InPlace(op, work'.rows, writer')
  BY <1>1, <1>3 DEF AheadSound
<1> QED BY <1>1, <1>3, <1>4 DEF AheadSound, Moving, Putting

\* The steps of _put, _delete and _decision.
LEMMA ApplyAhead ==
    ASSUME JournalSound, CatalogSound, AheadSound,
           \/ \E k \in Keys, p \in Paths, h \in Hashes : PutStep(k, p, h)
           \/ \E k \in Keys : DeleteStep(k)
           \/ \E k \in Keys, p \in Paths \cup {None} : Decision(k, p)
    PROVE  AheadSound'
<1>1. PlanSound /\ work \in Tables /\ todo \in Seq(Operation)
  BY CatalogTypes DEF CatalogSound, PlanSound
<1>2. ASSUME NEW k \in Keys, NEW p \in Paths, NEW h \in Hashes,
             \/ PutUnchanged(k, p, h) \/ PutObject(k, p, h) \/ PutTree(k, p, h)
             \/ PutOldPath(k, p, h)
      PROVE  AheadSound'
  <2>1. /\ UNCHANGED <<todo, work, writer>> /\ pc \in {"next"} \cup Putting /\ pc' \in Putting
    BY <1>2 DEF PutUnchanged, PutObject, PutTree, PutOldPath, Putting
  <2> QED BY <2>1, SameAhead
<1>3. ASSUME NEW k \in Keys, NEW p \in Paths, NEW h \in Hashes, PutRow(k, p, h)
      PROVE  AheadSound'
  <2>1. /\ pc = "put_row" /\ pc' = "next" /\ todo' = Tail(todo) /\ UNCHANGED writer
    BY <1>3 DEF PutRow
  <2>2. todo # <<>> /\ Head(todo).kind \notin {"delete", "move"}
    BY <1>1, <2>1 DEF PlanSound, Putting
  <2>3. \A op \in ToSet(todo') : op.kind # "move"
    BY <1>1, <2>1, <2>2, TailFirst DEF AheadSound
  <2> QED BY <2>1, <2>2, <2>3, NextAhead DEF InPlace, Putting
<1>4. ASSUME NEW k \in Keys, NEW p \in Paths, NEW h \in Hashes, PutRaises(k, p, h)
      PROVE  AheadSound'
  BY <1>4, EndsAhead DEF PutRaises, Raise
<1>5. ASSUME NEW k \in Keys, DeleteTree(k) PROVE AheadSound'
  BY <1>5, SameAhead DEF DeleteTree
<1>6. ASSUME NEW k \in Keys, DeleteUnknown(k) PROVE AheadSound'
  BY <1>6, NextAhead DEF DeleteUnknown, data
<1>7. ASSUME NEW k \in Keys, DeleteRow(k) PROVE AheadSound'
  <2>1. /\ pc = "delete_row" /\ pc' = "next" /\ todo' = Tail(todo) /\ UNCHANGED writer
        /\ work' = [work EXCEPT !.rows[<<writer, k>>] = None]
    BY <1>7 DEF DeleteRow
  <2>2. todo # <<>> /\ ToSet(todo) = {Head(todo)} \cup ToSet(todo')
    BY <1>1, <2>1, TailHolds DEF PlanSound
  <2>3. \A op \in ToSet(todo') : op \in Operation
    BY <1>1, <2>1, <2>2 DEF ToSet
  <2>4. ASSUME NEW op \in Operation
        PROVE  ~InPlace(op, work.rows, writer) => ~InPlace(op, work'.rows, writer)
    <3>1. <<writer, op.key>> \in Ids /\ (op.kind = "move" => op.path # None)
      BY CatalogTypes DEF Operation
    <3>2. \/ work'.rows[<<writer, op.key>>] = work.rows[<<writer, op.key>>]
          \/ work'.rows[<<writer, op.key>>] = None
      BY <1>1, <2>1, <3>1 DEF Tables
    <3> QED BY <3>1, <3>2 DEF InPlace, RowPath
  <2>5. \A op \in ToSet(todo') :
            ~InPlace(op, work.rows, writer) => ~InPlace(op, work'.rows, writer)
    BY <2>3, <2>4
  <2> QED BY <2>1, <2>2, <2>5, NextAhead
<1>8. ASSUME NEW k \in Keys, NEW p, Decision(k, p) PROVE AheadSound'
  <2>1. /\ pc = "next" /\ pc' = "next" /\ todo # <<>> /\ todo' = Tail(todo)
        /\ UNCHANGED writer /\ work'.rows = work.rows
    BY <1>1, <1>8 DEF Decision, Tables
  <2> QED BY <2>1, NextAhead
<1> QED BY <1>2, <1>3, <1>4, <1>5, <1>6, <1>7, <1>8 DEF PutStep, DeleteStep

\* The steps of _move_batch.
LEMMA MoveAhead ==
    ASSUME JournalSound, CatalogSound, AheadSound, MoveStep
    PROVE  AheadSound'
<1>1. PlanSound /\ todo \in Seq(Operation) /\ moves \in Seq(Operation)
  BY DEF CatalogSound, PlanSound
<1>2. CASE MoveBegin
  <2>1. /\ pc = "next" /\ pc' = "breaks" /\ todo # <<>> /\ Head(todo).kind = "move"
        /\ moves' = MovesAhead /\ todo' = SubSeq(todo, Len(MovesAhead) + 1, Len(todo))
        /\ from' = [k \in Keys |-> IF \E op \in ToSet(MovesAhead) : op.key = k
                                   THEN MovePath(k) ELSE None]
        /\ \A op \in ToSet(MovesAhead) : ValidMove(op)
    BY <1>2 DEF MoveBegin, MovePath
  <2>2. \A op \in ToSet(todo') : op.kind \notin {"move", "delete"}
    BY <1>1, <2>1, MoveRun DEF AheadSound, MovesAhead
  <2>3. todo' \in Seq(Operation)
    BY <1>1, <2>1, MoveRun DEF AheadSound, MovesAhead
  <2>4. DeletesAndMovesFirst(todo')
    <3>1. \A i \in 1..Len(todo') : todo'[i] \in ToSet(todo')
      BY <2>3 DEF ToSet
    <3> QED BY <2>2, <3>1 DEF DeletesAndMovesFirst
  <2>5. ASSUME NEW op \in ToSet(MovesAhead) PROVE op.path # from'[op.key]
    <3>1. op \in ToSet(todo) /\ op.kind = "move" /\ op \in Operation /\ ValidMove(op)
      BY <1>1, <2>1, MovesAheadFacts
    <3>2. from'[op.key] = MovePath(op.key)
      BY <2>1, <3>1 DEF Operation
    <3>3. ~InPlace(op, work.rows, writer)
      BY <2>1, <3>1 DEF AheadSound
    <3>4. MovePath(op.key) = RowPath(work.rows, <<writer, op.key>>)
      BY <3>1 DEF MovePath, RowPath, ValidMove
    <3> QED BY <3>1, <3>2, <3>3, <3>4 DEF InPlace
  <2> QED BY <2>1, <2>2, <2>4, <2>5 DEF AheadSound, Moving, Putting
<1>3. CASE RekeyParked \/ \E p \in Paths : BreakCycle(p)
  <2>1. pc \in Moving /\ pc' \in Moving /\ UNCHANGED <<todo, from, moves>>
    BY <1>3 DEF RekeyParked, BreakCycle, Moving
  <2> QED BY <2>1, MovingAhead
<1>4. ASSUME NEW k \in Keys, NEW p \in Paths, NEW h \in Hashes,
             MoveFile(k, p, h) \/ MoveRow(k, p, h)
      PROVE  AheadSound'
  <2>1. pc \in Moving /\ pc' \in Moving /\ UNCHANGED <<todo, from>>
    BY <1>4 DEF MoveFile, MoveRow, Moving
  <2>2. ToSet(moves') \subseteq ToSet(moves)
    <3>1. CASE UNCHANGED moves
      BY <3>1
    <3>2. CASE MoveRow(k, p, h)
      <4>1. moves # <<>> /\ moves' = Tail(moves)
        BY <1>1, <3>2 DEF MoveRow, PlanSound
      <4> QED BY <1>1, <4>1, TailHolds
    <3> QED BY <1>4, <3>1, <3>2 DEF MoveFile
  <2> QED BY <2>1, <2>2, MovingAhead
<1>5. CASE MoveBatchDone
  <2>1. pc = "moves" /\ pc' = "next" /\ UNCHANGED todo
    BY <1>5 DEF MoveBatchDone
  <2>2. \A op \in ToSet(todo) : op.kind # "move"
    BY <2>1 DEF AheadSound, Moving
  <2> QED BY <2>1, <2>2 DEF AheadSound, Moving, Putting, InPlace
<1>6. CASE MoveRaises
  BY <1>6, EndsAhead DEF MoveRaises, Raise
<1> QED BY <1>2, <1>3, <1>4, <1>5, <1>6 DEF MoveStep

\* Every step keeps the moves ahead sound.
LEMMA StepAhead ==
    ASSUME ~SelfMoves, JournalSound, CatalogSound, AheadSound, [Next]_vars
    PROVE  AheadSound'
<1>1. CASE UNCHANGED vars
  BY <1>1 DEF AheadSound, InPlace, RowPath, vars, data, control
<1>2. CASE \E w \in Writers, batch \in Batches : Accept(w, batch)
  BY <1>2, AcceptAhead
<1>3. CASE Proceed
  <2>1. CASE RejectPlan \/ Commit \/ UndoLast \/ MarkFailed \/ CleanupFirst \/ Return
    <3>1. pc' \in {"idle", "undo", "cleanup"} /\ (todo' = todo \/ todo' = <<>>)
      BY <2>1 DEF RejectPlan, Raise, Commit, UndoLast, MarkFailed, CleanupFirst, Return,
                  Forget, control
    <3> QED BY <3>1, EndsAhead
  <2> QED BY <1>3, <2>1, PlanAhead, ApplyAhead, MoveAhead DEF Proceed
<1>4. CASE Disturb
  <2>1. pc' \in {"idle", "undo", "cleanup"} /\ (todo' = todo \/ todo' = <<>>)
    BY <1>4 DEF Disturb, Fault, Raise, UndoRaises, MarkFailedRaises, CleanupRaises, Crash,
                Forget, PutObjectTorn, control
  <2> QED BY <2>1, EndsAhead
<1> QED BY <1>1, <1>2, <1>3, <1>4 DEF Next

-----------------------------------------------------------------------------
(***************************************************************************)
(* What is left in the journal directory: as long as no process died and   *)
(* no undo or cleanup raised, a file under undo/ is one that the cleanup   *)
(* will unlink, or is parked and its move is still to come.                *)
(***************************************************************************)

Linked(f) == {u \in UndoNames : f[u] # None}

Backed(stack) == {rec.backup : rec \in ToSet(stack)}

\* The moves whose file has still to be renamed.
ToCome == IF pc = "move_row" THEN Tail(moves) ELSE moves

Parked ==
    IF pc \in Moving
    THEN {temp[from[op.key]] : op \in {m \in ToSet(ToCome) : from[m.key] # None}}
    ELSE {}

Calm == crashes = 0 /\ undo_faults = 0

CalmSound ==
    /\ ~undo_failed
    /\ pc = "idle" => Linked(fs) = {}
    /\ pc \notin {"idle", "cleanup"} => Linked(before.fs) = {}
    /\ pc \notin {"idle", "undo"} => Linked(fs) \subseteq Backed(cleanup_stack) \cup Parked
    /\ pc = "breaks" =>
           /\ \A p \in Paths : temp[p] # None => fs[p] = None
           /\ breaks \in Seq({from[op.key] : op \in ToSet(moves)})

LeftoversSound ==
    /\ crashes \in Nat /\ undo_faults \in Nat
    /\ Calm => CalmSound

\* The journal gains only files that the cleanup will unlink.
Sweeps ==
    /\ Linked(fs') \subseteq Linked(fs) \cup Backed(cleanup_stack')
    /\ Backed(cleanup_stack) \subseteq Backed(cleanup_stack')

\* A pushed cleanup closure is added to the others.
LEMMA BackedGrows ==
    ASSUME NEW s \in Seq(CleanupRecords), NEW rec \in CleanupRecords
    PROVE  Backed(Append(s, rec)) = Backed(s) \cup {rec.backup}
BY AppendAdds DEF Backed

\* A step that touches neither the journal directory nor the cleanup stack.
LEMMA QuietSweeps ==
    ASSUME UNCHANGED <<fs, cleanup_stack>>
    PROVE  Sweeps
BY DEF Sweeps

\* A helper that pushes.
LEMMA JournalBacks ==
    ASSUME JournalSound, NEW rec \in UndoRecords, NEW obj \in Objs \cup {None}, Journal(rec, obj)
    PROVE  Backed(cleanup_stack') = Backed(cleanup_stack) \cup {rec.backup}
<1>1. [backup |-> rec.backup, obj |-> obj] \in CleanupRecords
  BY UndoShape DEF CleanupRecords
<1> QED BY <1>1, JournalTypes, BackedGrows DEF Journal

\* _backup_tree_entry links one file into the journal.
LEMMA BackupLinks ==
    ASSUME NEW f \in Files, NEW t \in Locations, \E u \in UndoNames : f[u] = None
    PROVE  Linked(Backup(f, t)) \subseteq Linked(f) \cup {BackupName(f, t)}
BY BackupFacts DEF Linked, Files, Locations

\* _replace_tree_entry
LEMMA ReplaceSweeps ==
    ASSUME JournalSound, NEW p \in Paths, NEW o \in Objs, ReplaceTreeEntry(p, o)
    PROVE  Sweeps
<1> DEFINE rec == [op |-> "replace", source |-> None, target |-> p,
                   backup |-> BackupName(fs, p), obj |-> None]
<1>1. /\ fs \in Files /\ \E u \in UndoNames : fs[u] = None
      /\ p \in Locations /\ p \notin UndoNames
  BY JournalTypes, StoreAssumption DEF ReplaceTreeEntry, Journal, Locations
<1>2. Journal(rec, None) /\ fs' = [Backup(fs, p) EXCEPT ![p] = o]
  BY DEF ReplaceTreeEntry
<1>3. rec \in UndoRecords /\ rec.backup = BackupName(fs, p)
  BY <1>1, BackupFacts DEF UndoRecords
<1> HIDE DEF rec
<1>4. Backed(cleanup_stack') = Backed(cleanup_stack) \cup {BackupName(fs, p)}
  BY <1>2, <1>3, JournalBacks
<1>5. Linked(fs') = Linked(Backup(fs, p))
  BY <1>1, <1>2, BackupFacts DEF Linked, Files
<1> QED BY <1>1, <1>4, <1>5, BackupLinks DEF Sweeps

\* _remove_tree_entry
LEMMA RemoveSweeps ==
    ASSUME JournalSound, NEW p \in Locations, NEW obj \in Objs \cup {None}, RemoveTreeEntry(p, obj)
    PROVE  Sweeps
<1> DEFINE rec == [op |-> "remove", source |-> None, target |-> p,
                   backup |-> BackupName(fs, p), obj |-> None]
<1>1. fs \in Files
  BY JournalTypes
<1>2. CASE fs[p] = None
  <2>1. UNCHANGED fs /\ Supersede(obj)
    BY <1>2 DEF RemoveTreeEntry
  <2>2. [backup |-> None, obj |-> obj] \in CleanupRecords
    BY DEF CleanupRecords
  <2>3. Backed(cleanup_stack) \subseteq Backed(cleanup_stack')
    BY <2>1, <2>2, BackedGrows, JournalTypes DEF Supersede
  <2> QED BY <2>1, <2>3 DEF Sweeps
<1>3. CASE fs[p] # None
  <2>1. Journal(rec, obj) /\ fs' = [Backup(fs, p) EXCEPT ![p] = None]
    BY <1>3 DEF RemoveTreeEntry
  <2>2. \E u \in UndoNames : fs[u] = None
    BY <2>1 DEF Journal
  <2>3. rec \in UndoRecords /\ rec.backup = BackupName(fs, p)
    BY <1>1, <2>2, BackupFacts DEF UndoRecords
  <2> HIDE DEF rec
  <2>4. Backed(cleanup_stack') = Backed(cleanup_stack) \cup {BackupName(fs, p)}
    BY <2>1, <2>3, JournalBacks
  <2>5. Linked(fs') \subseteq Linked(Backup(fs, p))
    BY <1>1, <2>1, <2>2, BackupFacts DEF Linked, Files
  <2> QED BY <1>1, <2>2, <2>4, <2>5, BackupLinks DEF Sweeps
<1> QED BY <1>2, <1>3

\* _rename_tree_file to a path empties its source, in the tree or in the journal.
LEMMA RenameSweeps ==
    ASSUME JournalSound, NEW s \in Locations, NEW t \in Paths, s # t, RenameTreeFile(s, t)
    PROVE  Sweeps /\ fs'[s] = None
<1> DEFINE rec == [op |-> "rename", source |-> s, target |-> t,
                   backup |-> BackupName(fs, t), obj |-> None]
           b == BackupName(fs, t)
           g == Backup(fs, t)
<1>1. /\ fs \in Files /\ Distinct(fs) /\ fs[s] # None /\ \E u \in UndoNames : fs[u] = None
      /\ t \in Locations /\ t \notin UndoNames
  BY JournalTypes, StoreAssumption DEF RenameTreeFile, Journal, Locations
<1>2. Journal(rec, None) /\ fs' = Rename(g, s, t)
  BY DEF RenameTreeFile
<1>3. rec \in UndoRecords /\ rec.backup = b
  BY <1>1, BackupFacts DEF UndoRecords
<1> HIDE DEF rec
<1>4. Backed(cleanup_stack') = Backed(cleanup_stack) \cup {b}
  BY <1>2, <1>3, JournalBacks
<1>5. g \in Files /\ g[s] = fs[s] /\ g[t] = fs[t]
  BY <1>1, BackupFacts DEF Files, Locations
<1>6. g[s] # None /\ g[s] # g[t]
  BY <1>1, <1>5 DEF Distinct
<1>7. Linked(g) \subseteq Linked(fs) \cup {b}
  BY <1>1, BackupLinks
<1> HIDE DEF g, b
<1>8. fs' = [g EXCEPT ![t] = g[s], ![s] = None]
  BY <1>2, <1>6 DEF Rename
<1>9. fs'[s] = None /\ Linked(fs') \subseteq Linked(g)
  BY <1>1, <1>5, <1>8 DEF Linked, Files, Locations
<1> QED BY <1>4, <1>7, <1>9 DEF Sweeps

\* A step of _put, _delete or _decision, or the planning, that sweeps.
LEMMA ApplyLeftovers ==
    ASSUME LeftoversSound, Sweeps,
           UNCHANGED <<undo_failed, before, crashes, undo_faults>>,
           pc \notin Moving \cup {"idle", "undo", "cleanup"},
           pc' \notin Moving \cup {"idle", "undo"}
    PROVE  LeftoversSound'
<1>1. Parked = {} /\ Parked' = {}
  BY DEF Parked, Moving
<1>2. CASE Calm'
  <2>1. Calm /\ CalmSound
    BY <1>2 DEF Calm, LeftoversSound
  <2>2. Linked(fs') \subseteq Backed(cleanup_stack') \cup Parked'
    BY <1>1, <2>1 DEF CalmSound, Sweeps
  <2>3. CalmSound'
    BY <2>1, <2>2 DEF CalmSound, Moving
  <2> QED BY <2>3 DEF LeftoversSound
<1> QED BY <1>2 DEF LeftoversSound

\* A step to the rollback.
LEMMA RaiseLeftovers ==
    ASSUME LeftoversSound, UNCHANGED <<undo_failed, crashes, undo_faults>>, before'.fs = before.fs,
           pc \notin {"idle", "cleanup"}, pc' = "undo"
    PROVE  LeftoversSound'
BY DEF LeftoversSound, CalmSound, Calm

\* The steps of _put, _delete and _decision.
LEMMA PutLeftovers ==
    ASSUME JournalSound, LeftoversSound,
           NEW k \in Keys, NEW p \in Paths, NEW h \in Hashes, PutStep(k, p, h)
    PROVE  LeftoversSound'
<1> DEFINE id == <<writer, k>>
<1>1. id \in Ids /\ p \in Locations
  BY CatalogTypes DEF Locations
<1>2. CASE PutRaises(k, p, h)
  <2>1. /\ UNCHANGED <<undo_failed, before, crashes, undo_faults>> /\ pc' = "undo"
        /\ pc \notin {"idle", "cleanup"}
    BY <1>2 DEF PutRaises, Raise, journal, bounds
  <2> QED BY <2>1, RaiseLeftovers
<1>3. CASE ~PutRaises(k, p, h)
  <2>1. /\ UNCHANGED <<undo_failed, before, crashes, undo_faults>>
        /\ pc \in {"next", "put_tree", "put_old", "put_row"}
        /\ pc' \in {"next", "put_tree", "put_old", "put_row"}
    BY <1>3 DEF PutStep, PutUnchanged, PutObject, PutTree, PutOldPath, PutRow, journal, bounds,
                RenameTreeFile, ReplaceTreeEntry, RemoveTreeEntry, Supersede, Journal
  <2>2. Sweeps
    <3>1. CASE PutUnchanged(k, p, h)
      <4>1. work.rows[id] # None
        BY <3>1 DEF PutUnchanged, Unchanged
      <4>2. CASE UNCHANGED <<fs, journal>>
        BY <4>2, QuietSweeps DEF journal
      <4>3. CASE work.rows[id].path # p /\ RenameTreeFile(work.rows[id].path, p)
        BY <1>1, <4>1, <4>3, WorkRow, RenameSweeps
      <4> QED BY <3>1, <4>2, <4>3 DEF PutUnchanged
    <3>2. CASE PutObject(k, p, h)
      BY <3>2, QuietSweeps DEF PutObject
    <3>3. CASE PutTree(k, p, h)
      BY <3>3, LocalsHalf, ReplaceSweeps DEF PutTree, LocalsSound
    <3>4. CASE PutOldPath(k, p, h)
      <4>1. CASE UNCHANGED <<fs, journal>>
        BY <4>1, QuietSweeps DEF journal
      <4>2. CASE work.rows[id] # None /\ Supersede(work.rows[id].obj) /\ UNCHANGED fs
        <5>1. [backup |-> None, obj |-> work.rows[id].obj] \in CleanupRecords
          BY <1>1, <4>2, WorkRow DEF CleanupRecords
        <5>2. Backed(cleanup_stack) \subseteq Backed(cleanup_stack')
          BY <4>2, <5>1, BackedGrows, JournalTypes DEF Supersede
        <5> QED BY <4>2, <5>2 DEF Sweeps
      <4>3. CASE work.rows[id] # None /\ RemoveTreeEntry(work.rows[id].path, work.rows[id].obj)
        BY <1>1, <4>3, WorkRow, RemoveSweeps
      <4> QED BY <3>4, <4>1, <4>2, <4>3 DEF PutOldPath
    <3>5. CASE PutRow(k, p, h)
      BY <3>5, QuietSweeps DEF PutRow, journal
    <3> QED BY <1>3, <3>1, <3>2, <3>3, <3>4, <3>5 DEF PutStep
  <2> QED BY <2>1, <2>2, ApplyLeftovers DEF Moving
<1> QED BY <1>2, <1>3

LEMMA DeleteLeftovers ==
    ASSUME JournalSound, LeftoversSound, NEW k \in Keys, DeleteStep(k)
    PROVE  LeftoversSound'
<1> DEFINE id == <<writer, k>>
<1>1. id \in Ids /\ None \in Objs \cup {None}
  BY CatalogTypes
<1>2. /\ UNCHANGED <<undo_failed, before, crashes, undo_faults>>
      /\ pc \in {"next", "delete_row"} /\ pc' \in {"next", "delete_row"}
  BY DEF DeleteStep, DeleteUnknown, DeleteTree, DeleteRow, journal, bounds,
         RemoveTreeEntry, Supersede, Journal
<1>3. Sweeps
  <2>1. CASE DeleteUnknown(k) \/ DeleteRow(k)
    BY <2>1, QuietSweeps DEF DeleteUnknown, DeleteRow, data, journal
  <2>2. CASE DeleteTree(k)
    BY <1>1, <2>2, WorkRow, RemoveSweeps DEF DeleteTree
  <2> QED BY <2>1, <2>2 DEF DeleteStep
<1> QED BY <1>2, <1>3, ApplyLeftovers DEF Moving

\* Planning, decisions and the commit leave the journal directory alone.
LEMMA OtherLeftovers ==
    ASSUME LeftoversSound, Plan \/ Commit \/ \E k \in Keys, p \in Paths \cup {None} : Decision(k, p)
    PROVE  LeftoversSound'
<1>1. /\ UNCHANGED <<fs, cleanup_stack, undo_failed, before, crashes, undo_faults>>
      /\ pc \in {"plan", "next"} /\ pc' \in {"next", "cleanup"}
  BY DEF Plan, Commit, Decision, data, journal, bounds
<1> QED BY <1>1, QuietSweeps, ApplyLeftovers DEF Moving

\* The steps of _move_batch.
LEMMA MoveBeginLeftovers ==
    ASSUME JournalSound, CatalogSound, LeftoversSound, MoveBegin
    PROVE  LeftoversSound'
<1> DEFINE starts == [i \in DOMAIN MovesAhead |-> MovePath(MovesAhead[i].key)]
<1>1. /\ pc = "next" /\ pc' = "breaks" /\ moves' = MovesAhead /\ temp' = [p \in Paths |-> None]
      /\ breaks' = MoveCycleBreaks(MoveTargets, starts)
      /\ from' = [k \in Keys |-> IF \E op \in ToSet(MovesAhead) : op.key = k
                                 THEN MovePath(k) ELSE None]
      /\ \A op \in ToSet(MovesAhead) : ValidMove(op)
      /\ UNCHANGED <<fs, cleanup_stack, undo_failed, before, crashes, undo_faults>>
  BY DEF MoveBegin, MoveTargets, MovePath, data, journal, bounds
<1>2. /\ breaks' \in Seq({MovePath(op.key) : op \in ToSet(MovesAhead)})
      /\ \A op \in ToSet(MovesAhead) : op.key \in Keys
  <2>1. \A op \in Operation : op.key \in Keys
    BY DEF Operation
  <2> HIDE DEF starts
  <2> QED BY <1>1, <2>1, MovesAheadFacts DEF CatalogSound, starts
<1> HIDE DEF starts
<1>3. ASSUME NEW op \in ToSet(MovesAhead)
      PROVE  MovePath(op.key) \in {from'[m.key] : m \in ToSet(moves')}
  <2>1. op.key \in Keys /\ \E m \in ToSet(MovesAhead) : m.key = op.key
    BY <1>2
  <2>2. from'[op.key] = MovePath(op.key)
    BY <1>1, <2>1
  <2> QED BY <1>1, <2>2
<1>4. breaks' \in Seq({from'[op.key] : op \in ToSet(moves')})
  <2> DEFINE A == {MovePath(op.key) : op \in ToSet(MovesAhead)}
             B == {from'[op.key] : op \in ToSet(moves')}
  <2>1. A \subseteq B
    BY <1>3
  <2>2. breaks' \in Seq(A)
    BY <1>2
  <2>3. breaks' \in Seq(B)
    <3> HIDE DEF A, B
    <3> QED BY <2>1, <2>2
  <2> QED BY <2>3
<1>5. CASE Calm'
  <2>1. Calm /\ CalmSound /\ Parked = {}
    BY <1>1, <1>5 DEF Calm, LeftoversSound, Parked, Moving
  <2>2. Linked(fs') \subseteq Backed(cleanup_stack') \cup Parked'
    BY <1>1, <2>1 DEF CalmSound
  <2>3. CalmSound'
    BY <1>1, <1>4, <2>1, <2>2 DEF CalmSound
  <2> QED BY <1>1, <2>3 DEF LeftoversSound
<1> QED BY <1>1, <1>5 DEF LeftoversSound

\* A parked file waits for the move of its row.
LEMMA BreakCycleLeftovers ==
    ASSUME JournalSound, CatalogSound, LeftoversSound, NEW p \in Paths, BreakCycle(p)
    PROVE  LeftoversSound'
<1>1. /\ pc = "breaks" /\ pc' = "breaks" /\ breaks # <<>> /\ Head(breaks) = p
      /\ breaks' = Tail(breaks) /\ UNCHANGED <<moves, from, crashes, undo_faults>>
  BY DEF BreakCycle, bounds
<1>2. SUFFICES ASSUME Calm PROVE CalmSound'
  BY <1>1 DEF LeftoversSound, Calm
<1>3. CalmSound /\ breaks \in Seq({from[op.key] : op \in ToSet(moves)})
  BY <1>1, <1>2 DEF LeftoversSound, CalmSound
<1>4. /\ breaks' \in Seq({from[op.key] : op \in ToSet(moves)})
      /\ \E op \in ToSet(moves) : from[op.key] = p
  <2>1. p \in {from[op.key] : op \in ToSet(moves)}
    BY <1>1, <1>3, TailHolds
  <2> QED BY <1>1, <1>3, <2>1, TailHolds
<1>5. CASE fs[p] = None
  <2>1. UNCHANGED <<fs, temp, cleanup_stack, undo_failed, before>>
    BY <1>5 DEF BreakCycle, journal
  <2>2. Parked' = Parked
    BY <1>1, <2>1 DEF Parked, ToCome
  <2> QED BY <1>1, <1>3, <1>4, <2>1, <2>2 DEF CalmSound
<1>6. CASE fs[p] # None
  <2> DEFINE u == JournalName(fs)
  <2>1. RenameTreeFile(p, u) /\ temp' = [temp EXCEPT ![p] = u]
    BY <1>6 DEF BreakCycle
  <2>2. /\ u \in UndoNames /\ u # p
        /\ \A l \in Locations : l # u /\ l # p => fs'[l] = fs[l]
        /\ fs'[p] = None
        /\ cleanup_stack' = Append(cleanup_stack, [backup |-> None, obj |-> None])
    BY <2>1, ParkFacts
  <2>3. UNCHANGED <<undo_failed, before>>
    BY <2>1 DEF RenameTreeFile, Journal
  <2> HIDE DEF u
  <2>4. Backed(cleanup_stack) \subseteq Backed(cleanup_stack')
    <3>1. [backup |-> None, obj |-> None] \in CleanupRecords
      BY DEF CleanupRecords
    <3> QED BY <2>2, <3>1, BackedGrows, JournalTypes
  <2>5. temp'[p] = u /\ \A q \in Paths : q # p => temp'[q] = temp[q]
    BY <2>1, CatalogTypes
  <2>6. temp[p] = None
    BY <1>1, <1>3, <1>6 DEF CalmSound
  <2>7. u \in Parked'
    <3>1. PICK op \in ToSet(moves) : from[op.key] = p
      BY <1>4
    <3>2. from[op.key] # None
      BY <3>1, CatalogTypes
    <3> QED BY <1>1, <2>5, <3>1, <3>2 DEF Parked, ToCome, Moving
  <2>8. \A x \in Parked : x # None => x \in Parked'
    <3> SUFFICES ASSUME NEW op \in ToSet(moves), from[op.key] # None, temp[from[op.key]] # None
                 PROVE  temp[from[op.key]] \in Parked'
      BY <1>1 DEF Parked, ToCome, Moving
    <3>1. op \in Operation
      BY DEF CatalogSound, PlanSound, ToSet
    <3>2. from[op.key] \in Paths /\ from[op.key] # p
      BY <2>6, <3>1, CatalogTypes DEF Operation
    <3>3. temp'[from[op.key]] = temp[from[op.key]]
      BY <2>5, <3>2
    <3> QED BY <1>1, <3>3 DEF Parked, ToCome, Moving
  <2>9. Linked(fs') \subseteq Backed(cleanup_stack') \cup Parked'
    <3> SUFFICES ASSUME NEW x \in UndoNames, fs'[x] # None, x # u
                 PROVE  x \in Backed(cleanup_stack') \cup Parked'
      BY <2>7 DEF Linked
    <3>1. x # None /\ x \in Linked(fs)
      BY <2>2, CatalogTypes DEF Linked, Locations
    <3>2. x \in Backed(cleanup_stack) \cup Parked
      BY <1>1, <1>3, <3>1 DEF CalmSound
    <3> QED BY <2>4, <2>8, <3>1, <3>2
  <2>10. ASSUME NEW q \in Paths, temp'[q] # None PROVE fs'[q] = None
    <3>1. CASE q = p
      BY <2>2, <3>1
    <3>2. CASE q # p
      <4>1. q \in Locations /\ q # u
        BY <2>2, StoreAssumption DEF Locations
      <4> QED BY <1>1, <1>3, <2>2, <2>5, <2>10, <3>2, <4>1 DEF CalmSound
    <3> QED BY <3>1, <3>2
  <2> QED BY <1>1, <1>3, <1>4, <2>3, <2>9, <2>10 DEF CalmSound
<1> QED BY <1>5, <1>6

\* Each rename out of the journal takes the file of its move, and no other.
LEMMA MoveFileLeftovers ==
    ASSUME JournalSound, CatalogSound, AheadSound, LeftoversSound,
           NEW k \in Keys, NEW p \in Paths, NEW h \in Hashes, MoveFile(k, p, h)
    PROVE  LeftoversSound'
<1>1. /\ pc = "moves" /\ pc' = "move_row" /\ moves # <<>> /\ Head(moves) = MoveOp(k, p, h)
      /\ from[k] # None /\ UNCHANGED <<moves, from, temp, crashes, undo_faults>>
  BY DEF MoveFile, bounds
<1>2. SUFFICES ASSUME Calm PROVE CalmSound'
  BY <1>1 DEF LeftoversSound, Calm
<1>3. CalmSound
  BY <1>2 DEF LeftoversSound
<1>4. /\ moves \in Seq(Operation) /\ ToSet(moves) = {Head(moves)} \cup ToSet(Tail(moves))
      /\ Head(moves).key = k /\ Head(moves).path = p
  BY <1>1, TailHolds DEF CatalogSound, PlanSound, MoveOp
<1>5. from[k] # p
  BY <1>1, <1>4 DEF AheadSound, Moving
<1>6. from[k] \in Paths /\ temp[from[k]] \in UndoNames \cup {None}
  BY <1>1, CatalogTypes
<1>7. /\ Sweeps /\ (temp[from[k]] # None => fs'[temp[from[k]]] = None)
      /\ UNCHANGED <<undo_failed, before>>
  <2>1. CASE fs[MoveSource(k)] = None
    <3>1. UNCHANGED <<fs, cleanup_stack, undo_failed, before>>
      BY <2>1 DEF MoveFile, journal
    <3> QED BY <2>1, <3>1, QuietSweeps DEF MoveSource
  <2>2. CASE fs[MoveSource(k)] # None
    <3>1. RenameTreeFile(MoveSource(k), p)
      BY <1>5, <2>2 DEF MoveFile
    <3>2. MoveSource(k) \in Locations /\ MoveSource(k) # p
      BY <1>5, <1>6, StoreAssumption DEF MoveSource, Locations
    <3>3. Sweeps /\ fs'[MoveSource(k)] = None
      BY <3>1, <3>2, RenameSweeps
    <3>4. UNCHANGED <<undo_failed, before>>
      BY <3>1 DEF RenameTreeFile, Journal
    <3> QED BY <3>3, <3>4 DEF MoveSource
  <2> QED BY <2>1, <2>2
<1>8. Parked \subseteq Parked' \cup {temp[from[k]]}
  <2>1. Parked = {temp[from[op.key]] : op \in {m \in ToSet(moves) : from[m.key] # None}}
    BY <1>1 DEF Parked, ToCome, Moving
  <2>2. Parked' = {temp[from[op.key]] : op \in {m \in ToSet(Tail(moves)) : from[m.key] # None}}
    BY <1>1 DEF Parked, ToCome, Moving
  <2> QED BY <1>4, <2>1, <2>2
<1>9. Linked(fs') \subseteq Backed(cleanup_stack') \cup Parked'
  <2> SUFFICES ASSUME NEW x \in UndoNames, fs'[x] # None
               PROVE  x \in Backed(cleanup_stack') \cup Parked'
    BY DEF Linked
  <2>1. x # None /\ x # temp[from[k]]
    BY <1>7, CatalogTypes
  <2>2. x \in Linked(fs) \cup Backed(cleanup_stack')
    BY <1>7 DEF Sweeps, Linked
  <2>3. CASE x \in Linked(fs)
    <3>1. x \in Backed(cleanup_stack) \cup Parked
      BY <1>1, <1>3, <2>3 DEF CalmSound
    <3> QED BY <1>7, <1>8, <2>1, <3>1 DEF Sweeps
  <2> QED BY <2>2, <2>3
<1> QED BY <1>1, <1>3, <1>7, <1>9 DEF CalmSound

\* Re-keyed and moved rows, and the end of _move_batch.
LEMMA MoveRowsLeftovers ==
    ASSUME LeftoversSound,
           \/ RekeyParked \/ MoveBatchDone
           \/ \E k \in Keys, p \in Paths, h \in Hashes : MoveRow(k, p, h)
    PROVE  LeftoversSound'
<1>1. /\ UNCHANGED <<fs, cleanup_stack, undo_failed, before, crashes, undo_faults, from, temp>>
      /\ pc \in Moving /\ pc' \in {"next", "moves"}
  BY DEF RekeyParked, MoveBatchDone, MoveRow, data, journal, bounds, Moving
<1>2. Parked' = Parked
  <2>1. CASE RekeyParked
    <3>1. pc = "breaks" /\ pc' = "moves" /\ UNCHANGED moves
      BY <2>1 DEF RekeyParked
    <3> QED BY <1>1, <3>1 DEF Parked, ToCome, Moving
  <2>2. CASE \E k \in Keys, p \in Paths, h \in Hashes : MoveRow(k, p, h)
    <3>1. pc = "move_row" /\ pc' = "moves" /\ moves' = Tail(moves)
      BY <2>2 DEF MoveRow
    <3> QED BY <1>1, <3>1 DEF Parked, ToCome, Moving
  <2>3. CASE MoveBatchDone
    <3>1. pc = "moves" /\ pc' = "next" /\ moves = <<>>
      BY <2>3 DEF MoveBatchDone
    <3>2. ToSet(moves) = {}
      BY <3>1 DEF ToSet
    <3> QED BY <3>1, <3>2 DEF Parked, ToCome, Moving
  <2> QED BY <2>1, <2>2, <2>3
<1> QED BY <1>1, <1>2 DEF LeftoversSound, CalmSound, Calm, Moving

\* The steps of _move_batch.
LEMMA MoveLeftovers ==
    ASSUME JournalSound, CatalogSound, AheadSound, LeftoversSound, MoveStep
    PROVE  LeftoversSound'
<1>1. CASE MoveRaises
  <2>1. /\ UNCHANGED <<undo_failed, before, crashes, undo_faults>> /\ pc' = "undo"
        /\ pc \notin {"idle", "cleanup"}
    BY <1>1 DEF MoveRaises, Raise, journal, bounds
  <2> QED BY <2>1, RaiseLeftovers
<1> QED BY <1>1, MoveBeginLeftovers, BreakCycleLeftovers, MoveFileLeftovers,
           MoveRowsLeftovers DEF MoveStep

\* The rollback puts the journal directory back as it was found; the cleanup unlinks
\* the backups, one by one.
LEMMA RollbackLeftovers ==
    ASSUME JournalSound, LeftoversSound,
           UndoLast \/ MarkFailed \/ MarkFailedRaises \/ CleanupFirst \/ Return
    PROVE  LeftoversSound'
<1>1. UNCHANGED <<crashes, undo_faults>>
  BY DEF UndoLast, MarkFailed, MarkFailedRaises, CleanupFirst, Return, bounds
<1>2. SUFFICES ASSUME Calm PROVE CalmSound'
  BY <1>1 DEF LeftoversSound, Calm
<1>3. CalmSound
  BY <1>2 DEF LeftoversSound
<1>4. CASE UndoLast
  <2>1. pc = "undo" /\ pc' = "undo" /\ UNCHANGED <<undo_failed, before>>
    BY <1>4 DEF UndoLast, control
  <2> QED BY <1>3, <2>1 DEF CalmSound
<1>5. CASE MarkFailed \/ MarkFailedRaises
  <2>1. /\ pc = "undo" /\ undo_stack = <<>> /\ pc' \in {"cleanup", "idle"}
        /\ UNCHANGED <<fs, before>> /\ ~undo_failed'
    BY <1>3, <1>5 DEF MarkFailed, MarkFailedRaises, Forget, CalmSound, data, journal
  <2>2. fs = before.fs
    BY <1>3, <2>1 DEF JournalSound, TrailSound, CalmSound
  <2>3. Linked(fs') = {}
    BY <1>3, <2>1, <2>2 DEF CalmSound
  <2> QED BY <2>1, <2>3 DEF CalmSound
<1>6. CASE CleanupFirst
  <2> DEFINE b == Head(cleanup_stack).backup
  <2>1. /\ pc = "cleanup" /\ pc' = "cleanup" /\ cleanup_stack # <<>>
        /\ fs' = IF b = None THEN fs ELSE [fs EXCEPT ![b] = None]
        /\ cleanup_stack' = Tail(cleanup_stack) /\ UNCHANGED <<undo_failed, before>>
    BY <1>6 DEF CleanupFirst, control
  <2>2. /\ ToSet(cleanup_stack) = {Head(cleanup_stack)} \cup ToSet(cleanup_stack')
    BY <2>1, JournalTypes, TailHolds
  <2>3. Backed(cleanup_stack) = {b} \cup Backed(cleanup_stack')
    BY <2>2 DEF Backed
  <2> HIDE DEF b
  <2>4. Linked(fs') \subseteq Linked(fs) \ {b}
    BY <2>1, CatalogTypes DEF Linked, Files, Locations
  <2>5. Parked = {} /\ Parked' = {}
    BY <2>1 DEF Parked, Moving
  <2> QED BY <1>3, <2>1, <2>3, <2>4, <2>5 DEF CalmSound
<1>7. CASE Return
  <2>1. pc = "cleanup" /\ cleanup_stack = <<>> /\ pc' = "idle" /\ UNCHANGED fs /\ ~undo_failed'
    BY <1>7 DEF Return, Forget, data
  <2>2. Backed(cleanup_stack) = {} /\ Parked = {}
    BY <2>1 DEF Backed, ToSet, Parked, Moving
  <2> QED BY <1>3, <2>1, <2>2 DEF CalmSound
<1> QED BY <1>4, <1>5, <1>6, <1>7

\* Every step keeps the leftovers accounted for.
LEMMA StepLeftovers ==
    ASSUME JournalSound, CatalogSound, AheadSound, LeftoversSound, [Next]_vars
    PROVE  LeftoversSound'
<1>1. CASE UNCHANGED vars
  BY <1>1 DEF LeftoversSound, CalmSound, Calm, Parked, ToCome, vars, data, control, journal,
              bounds
<1>2. CASE \E w \in Writers, batch \in Batches : Accept(w, batch)
  <2>1. /\ pc = "idle" /\ pc' = "plan" /\ undo_failed' = FALSE /\ before'.fs = fs
        /\ UNCHANGED <<fs, crashes, undo_faults>>
    BY <1>2 DEF Accept, data
  <2> QED BY <2>1 DEF LeftoversSound, CalmSound, Calm
<1>3. CASE Proceed
  <2>1. CASE RejectPlan
    <3>1. /\ UNCHANGED <<undo_failed, before, crashes, undo_faults>> /\ pc' = "undo"
          /\ pc = "plan"
      BY <2>1 DEF RejectPlan, Raise, journal, bounds
    <3> QED BY <3>1, RaiseLeftovers
  <2> QED BY <1>3, <2>1, PutLeftovers, DeleteLeftovers, OtherLeftovers, MoveLeftovers,
             RollbackLeftovers DEF Proceed
<1>4. CASE Disturb
  <2>1. CASE Fault \/ \E k \in Keys, p \in Paths, h \in Hashes : PutObjectTorn(k, p, h)
    <3>1. /\ UNCHANGED <<undo_failed, crashes, undo_faults>> /\ before'.fs = before.fs
          /\ pc' = "undo" /\ pc \notin {"idle", "cleanup"}
      BY <2>1 DEF Fault, Raise, PutObjectTorn, journal, JournalSound, TypeOK
    <3> QED BY <3>1, RaiseLeftovers
  <2>2. CASE UndoRaises \/ CleanupRaises \/ Crash
    <3>1. /\ crashes' \in Nat /\ undo_faults' \in Nat
          /\ crashes' = crashes + 1 \/ undo_faults' = undo_faults + 1
      <4>1. CASE UndoRaises \/ CleanupRaises
        BY <4>1 DEF UndoRaises, CleanupRaises, LeftoversSound
      <4>2. CASE Crash
        BY <4>2 DEF Crash, LeftoversSound
      <4> QED BY <2>2, <4>1, <4>2
    <3>2. crashes' # 0 \/ undo_faults' # 0
      BY <3>1 DEF LeftoversSound
    <3> QED BY <3>1, <3>2 DEF LeftoversSound, Calm
  <2> QED BY <1>4, <2>1, <2>2, RollbackLeftovers DEF Disturb
<1> QED BY <1>1, <1>2, <1>3, <1>4 DEF Next

\* A store is opened with an empty journal directory.
LEMMA InitLeftovers == Init => AheadSound /\ LeftoversSound
<1> SUFFICES ASSUME Init PROVE AheadSound /\ LeftoversSound
  OBVIOUS
<1>1. pc = "idle" /\ todo = <<>> /\ crashes = 0 /\ undo_faults = 0 /\ undo_failed = FALSE
  BY DEF Init
<1>2. AheadSound
  BY <1>1 DEF AheadSound, DeletesAndMovesFirst, Moving, Putting
<1>3. PICK rows \in InitRows :
          fs = [l \in Locations |->
                   LET at == {id \in Ids : rows[id] # None /\ rows[id].path = l}
                   IN  IF at = {} THEN None ELSE rows[CHOOSE id \in at : TRUE].obj]
  BY DEF Init
<1>4. ASSUME NEW u \in UndoNames PROVE fs[u] = None
  <2>1. ASSUME NEW id \in Ids, rows[id] # None PROVE rows[id].path # u
    BY <2>1, InitRowsAssumption, GrantsAssumption, StoreAssumption DEF Ids
  <2>2. u \in Locations /\ {id \in Ids : rows[id] # None /\ rows[id].path = u} = {}
    BY <2>1 DEF Locations
  <2> QED BY <1>3, <2>2
<1>5. LeftoversSound
  BY <1>1, <1>4 DEF LeftoversSound, CalmSound, Linked
<1> QED BY <1>2, <1>5

-----------------------------------------------------------------------------
(***************************************************************************)
(* The documents of a store that was interrupted.  A batch that passes the *)
(* simulation names no path of a document it does not name, so neither its *)
(* helpers nor its undo closures touch one; and each document it does name *)
(* has its file where the next statement or rename looks for it, unless an *)
(* interrupted batch named it before.                                      *)
(***************************************************************************)

\* The file of a row is at l, with its content.
Intact(row, l, f, bytes) == f[l] = row.obj /\ bytes[row.obj] = row.hash

AllIntact(rows, ids, f, bytes) ==
    \A id \in ids : rows[id] # None => Intact(rows[id], rows[id].path, f, bytes)

Safe == Ids \ interrupted

\* The documents the batch does not name, and their paths.
Strangers == Ids \ BatchIds

TheirPaths == {catalog.rows[id].path : id \in {i \in Strangers : catalog.rows[i] # None}}

\* Every inode of f still has a link in g.
KeepsLinks(f, g) == \A l \in Locations : f[l] # None => \E m \in Locations : g[m] = f[l]

\* Before the rollback or the commit.
Applying == pc \notin {"idle", "undo", "cleanup"}

Avoids(rec) == rec.source \notin TheirPaths /\ rec.target \notin TheirPaths

\* What is committed is intact, in the files there are or in those to go back to; what
\* the batch does not name is intact at every step, and no undo closure is about it.
FoundSound ==
    /\ pc \in {"idle", "cleanup"} => AllIntact(catalog.rows, Safe, fs, content)
    /\ Uncommitted =>
           /\ AllIntact(catalog.rows, Safe, before.fs, content)
           /\ AllIntact(catalog.rows, Safe \ BatchIds, fs, content)
           /\ undo_failed => BatchIds \subseteq interrupted
           /\ \A i \in 1..Len(undo_stack) : Avoids(undo_stack[i])
    /\ Applying => ~undo_failed /\ KeepsLinks(before.fs, fs)

\* An operation of the batch, away from the documents it does not name.
Within(op) ==
    /\ <<writer, op.key>> \in BatchIds
    /\ op.kind \in {"put", "move"} => op.path \notin TheirPaths

\* The moves of a list are of different sources.
OtherSource ==
    {pair \in Operation \X Operation :
        (pair[1].kind = "move" /\ pair[2].kind = "move") => pair[1].key # pair[2].key}

\* What is left of the plan, and the rows of the documents that it does not name.
ApartSound ==
    /\ (Applying /\ pc # "plan") =>
           /\ \A op \in ToSet(todo) : Within(op)
           /\ InTurn(OtherSource, todo)
           /\ \A id \in Strangers : work.rows[id] = catalog.rows[id]
    /\ pc \in Moving => /\ \A op \in ToSet(moves) : Within(op) /\ op.kind = "move"
                        /\ InTurn(OtherSource, moves)

\* The document that the running _put or _delete is about.
Current == <<writer, Head(todo).key>>

\* Where the file of a row is while cycles are broken.
Place(row) == IF temp[row.path] # None THEN temp[row.path] ELSE row.path

\* Rows other than the current one, unless the current operation is taking their path.
OthersIntact(current, p) ==
    \A id \in Safe \ {current} : (work.rows[id] # None /\ work.rows[id].path # p) =>
        Intact(work.rows[id], work.rows[id].path, fs, content)

\* The rows of the transaction and the files, between any two helpers of _put and _delete.
ApplySound ==
    /\ pc \in {"plan", "next", "put_tree"} => AllIntact(work.rows, Safe, fs, content)
    /\ pc \in {"put_tree", "put_old"} => content[fresh] = Head(todo).hash
    /\ pc = "put_old" =>
           /\ fs[Head(todo).path] = fresh
           /\ OthersIntact(None, Head(todo).path)
    /\ pc = "put_row" =>
           /\ OthersIntact(Current, Head(todo).path)
           /\ fresh # None =>
                  fs[Head(todo).path] = fresh /\ content[fresh] = Head(todo).hash
           /\ fresh = None =>
                  /\ work.rows[Current].hash = Head(todo).hash
                  /\ Current \in Safe =>
                         Intact(work.rows[Current], Head(todo).path, fs, content)
    /\ pc = "delete_row" => AllIntact(work.rows, Safe \ {Current}, fs, content)

\* The same for _move_batch: only files of its moves are parked, and a parked file is
\* where its move looks for it.
MovingSound ==
    /\ pc = "breaks" =>
           /\ \A id \in Safe : work.rows[id] # None =>
                  Intact(work.rows[id], Place(work.rows[id]), fs, content)
           /\ \A p \in Paths : temp[p] # None => fs[p] = None /\ \E k \in Keys : from[k] = p
           /\ \A p \in ToSet(breaks) : \E k \in Keys : from[k] = p
    /\ pc \in Moving => \A op \in ToSet(moves) : from[op.key] # None
    /\ pc \in {"moves", "move_row"} =>
           \A op \in ToSet(ToCome) : work.rows[<<writer, op.key>>].path = MoveSource(op.key)
    /\ pc = "moves" => AllIntact(work.rows, Safe, fs, content)
    /\ pc = "move_row" =>
           LET id == <<writer, Head(moves).key>>
           IN  /\ OthersIntact(id, Head(moves).path)
               /\ id \in Safe => Intact(work.rows[id], Head(moves).path, fs, content)

DamageSound == FoundSound /\ ApartSound /\ ApplySound /\ MovingSound

-----------------------------------------------------------------------------
(***************************************************************************)
(* The simulation refuses a batch that names the path of a document that   *)
(* it does not name.                                                       *)
(***************************************************************************)

\* The two maps of the simulation.
Simulation ==
    [ok : BOOLEAN, paths : [Ids -> Paths \cup {None}], sources : [Paths -> Ids \cup {None}]]

\* The document of id is at q in the simulation, and no other is.
Holds(sim, id, q) == sim.sources[q] = id /\ \A j \in Ids : j # id => sim.paths[j] # q

\* Re-keying another document, to another path, leaves it there.
LEMMA ResettleHolds ==
    ASSUME NEW sim \in Simulation, NEW id \in Ids, NEW q \in Paths, Holds(sim, id, q),
           NEW other \in Ids, other # id, NEW p \in Paths, p # q
    PROVE  /\ Resettle(sim, other, p) \in Simulation /\ Holds(Resettle(sim, other, p), id, q)
           /\ Resettle(sim, other, p).ok = sim.ok
<1> DEFINE old == sim.paths[other]
           vacated == IF old \in Paths /\ old # p
                      THEN [sim.sources EXCEPT ![old] = None] ELSE sim.sources
           sources == [vacated EXCEPT ![p] = other]
           paths == [sim.paths EXCEPT ![other] = p]
<1>1. /\ sim.ok \in BOOLEAN /\ sim.paths \in [Ids -> Paths \cup {None}]
      /\ sim.sources \in [Paths -> Ids \cup {None}]
      /\ sim = [ok |-> sim.ok, paths |-> sim.paths, sources |-> sim.sources]
  BY DEF Simulation
<1>2. Resettle(sim, other, p) = [sim EXCEPT !.paths[other] = p, !.sources = sources]
  BY DEF Resettle
<1>3. old # q /\ sim.sources[q] = id
  BY DEF Holds
<1>4. /\ vacated \in [Paths -> Ids \cup {None}] /\ vacated[q] = id
  BY <1>1, <1>3
<1> HIDE DEF vacated
<1>5. sources \in [Paths -> Ids \cup {None}] /\ sources[q] = id
  BY <1>4
<1>6. paths \in [Ids -> Paths \cup {None}] /\ \A j \in Ids : j # id => paths[j] # q
  BY <1>1 DEF Holds
<1> HIDE DEF sources
<1> DEFINE after == [sim EXCEPT !.paths[other] = p, !.sources = sources]
<1>7. /\ after \in Simulation /\ after.ok = sim.ok
      /\ after.paths = paths /\ after.sources = sources
  BY <1>5 DEF Simulation
<1> HIDE DEF after, paths
<1>8. Resettle(sim, other, p) = after
  BY <1>2 DEF after
<1> QED BY <1>5, <1>6, <1>7, <1>8 DEF Holds

\* One operation of the simulation, of another document.
LEMMA PreflightStepHolds ==
    ASSUME NEW sim \in Simulation, NEW id \in Ids, NEW q \in Paths,
           sim.ok => Holds(sim, id, q),
           NEW w \in Writers, NEW op \in Operation, <<w, op.key>> # id,
           NEW moving, id \notin moving
    PROVE  LET after == PreflightStep(sim, w, op, moving)
           IN  /\ after \in Simulation
               /\ after.ok => /\ sim.ok /\ Holds(after, id, q)
                              /\ op.kind \in {"put", "move"} => op.path # q
<1> DEFINE other == <<w, op.key>>
           after == PreflightStep(sim, w, op, moving)
           old == sim.paths[other]
           failed == [sim EXCEPT !.ok = FALSE]
<1>1. /\ op.key \in Keys /\ other \in Ids /\ id # None /\ None \notin Paths
      /\ op.kind \in {"put", "move", "delete", "decision"}
      /\ op.kind \in {"put", "move"} => op.path \in Paths
  BY GrantsAssumption, StoreAssumption DEF Operation, Ids
<1>2. /\ failed \in Simulation /\ ~failed.ok
  BY DEF Simulation
<1> DEFINE Good(r) == /\ r \in Simulation
                      /\ r.ok => /\ sim.ok /\ Holds(r, id, q)
                                 /\ op.kind \in {"put", "move"} => op.path # q
<1>3. Good(failed)
  BY <1>2
<1> HIDE DEF failed
<1>4. CASE ~sim.ok
  <2>1. after = sim
    BY <1>4 DEF PreflightStep
  <2> QED BY <1>4, <2>1
<1>5. CASE sim.ok
  <2>1. Holds(sim, id, q) /\ sim.sources[q] = id
    BY <1>5 DEF Holds
  <2>2. CASE op.kind = "put"
    <3>1. after = PreflightPut(sim, w, op)
      BY <1>5, <2>2 DEF PreflightStep
    <3>2. CASE op.path \in Authorized[w] /\ sim.sources[op.path] \in {None, other}
      <4>1. after = Resettle(sim, other, op.path)
        BY <3>1, <3>2 DEF PreflightPut
      <4>2. op.path # q /\ op.path \in Paths
        BY <1>1, <2>1, <2>2, <3>2
      <4> HIDE DEF other, after
      <4> QED BY <1>1, <1>5, <2>1, <4>1, <4>2, ResettleHolds DEF other, after
    <3>3. CASE ~(op.path \in Authorized[w] /\ sim.sources[op.path] \in {None, other})
      <4>1. after = failed
        BY <3>1, <3>3 DEF PreflightPut, failed
      <4> QED BY <1>3, <4>1
    <3> QED BY <3>2, <3>3
  <2>3. CASE op.kind = "move"
    <3> DEFINE fits == /\ op.path \in Authorized[w]
                       /\ old # None
                       /\ old \in Authorized[w]
                       /\ sim.sources[op.path] \in {None, other} \cup moving
    <3>1. after = PreflightMove(sim, w, op, moving)
      BY <1>5, <2>3 DEF PreflightStep
    <3>2. after = IF fits THEN IF old = op.path THEN sim ELSE Resettle(sim, other, op.path)
                  ELSE failed
      BY <3>1 DEF PreflightMove, failed
    <3>3. CASE fits
      <4>1. op.path # q /\ op.path \in Paths
        BY <1>1, <2>1, <2>3, <3>3
      <4>2. CASE old = op.path
        <5>1. after = sim
          BY <3>2, <3>3, <4>2
        <5> QED BY <1>5, <2>1, <4>1, <5>1
      <4>3. CASE old # op.path
        <5>1. after = Resettle(sim, other, op.path)
          BY <3>2, <3>3, <4>3
        <5> HIDE DEF other, after
        <5> QED BY <1>1, <1>5, <2>1, <4>1, <5>1, ResettleHolds DEF other, after
      <4> QED BY <4>2, <4>3
    <3>4. CASE ~fits
      <4>1. after = failed
        BY <3>2, <3>4
      <4> QED BY <1>3, <4>1
    <3> QED BY <3>3, <3>4
  <2>4. CASE op.kind = "delete"
    <3>1. after = PreflightDelete(sim, w, op)
      BY <1>5, <2>4 DEF PreflightStep
    <3>2. CASE old = None
      <4>1. after = sim
        BY <3>1, <3>2 DEF PreflightDelete
      <4> QED BY <1>5, <2>1, <2>4, <4>1
    <3>3. CASE old # None /\ old \notin Authorized[w]
      <4>1. after = failed
        BY <3>1, <3>3 DEF PreflightDelete, failed
      <4> QED BY <1>3, <4>1
    <3>4. CASE old # None /\ old \in Authorized[w]
      <4> DEFINE paths == [sim.paths EXCEPT ![other] = None]
                 sources == [sim.sources EXCEPT ![old] = None]
      <4>1. after = [sim EXCEPT !.paths[other] = None, !.sources[old] = None]
        BY <3>1, <3>4 DEF PreflightDelete
      <4>2. after = [ok |-> sim.ok, paths |-> paths, sources |-> sources]
        <5> HIDE DEF other, old, after
        <5> QED BY <4>1 DEF Simulation
      <4>3. /\ sim.paths \in [Ids -> Paths \cup {None}]
            /\ sim.sources \in [Paths -> Ids \cup {None}]
        BY DEF Simulation
      <4>4. old # q
        BY <1>1, <2>1 DEF Holds
      <4>5. sources \in [Paths -> Ids \cup {None}] /\ sources[q] = id
        BY <2>1, <4>3, <4>4
      <4>6. paths \in [Ids -> Paths \cup {None}] /\ \A j \in Ids : j # id => paths[j] # q
        BY <1>1, <2>1, <4>3 DEF Holds
      <4> HIDE DEF paths, sources, after, old, other
      <4>7. after \in Simulation /\ Holds(after, id, q)
        BY <1>5, <4>2, <4>5, <4>6 DEF Simulation, Holds
      <4> QED BY <1>5, <2>4, <4>7 DEF after
    <3> QED BY <3>2, <3>3, <3>4
  <2>5. CASE op.kind = "decision"
    <3>1. after = PreflightDecision(sim, w, op)
      BY <1>5, <2>5 DEF PreflightStep
    <3>2. after = sim \/ after = failed
      BY <3>1 DEF PreflightDecision, failed
    <3>3. CASE after = sim
      BY <1>5, <2>1, <2>5, <3>3
    <3>4. CASE after = failed
      BY <1>3, <3>4
    <3> QED BY <3>2, <3>3, <3>4
  <2> QED BY <1>1, <2>2, <2>3, <2>4, <2>5
<1> QED BY <1>4, <1>5

\* What Preflight says of a document that the batch does not name.
LEMMA PreflightApart ==
    ASSUME NEW rows \in [Ids -> Row \cup {None}], Placed(rows), NEW w \in Writers,
           NEW ordered \in Seq(Operation), Preflight(ordered, rows, w),
           NEW id \in Ids, rows[id] # None,
           \A op \in ToSet(ordered) : <<w, op.key>> # id
    PROVE  \A op \in ToSet(ordered) : op.kind \in {"put", "move"} => op.path # rows[id].path
<1> DEFINE q == rows[id].path
           N == Len(ordered)
           V == Simulation
           first == [ok |-> TRUE, paths |-> PathsBySource(rows), sources |-> SourcesByPath(rows)]
           moving == {<<w, op.key>> : op \in ToSet(OfKind(ordered, "move"))}
           Step(k, n) == PreflightStep(k, w, ordered[n], moving)
           Eqn(a) == a = [n \in 0..N |->
               IF n = 0 THEN first ELSE CHOOSE r \in {Step(k, n) : k \in {a[n - 1]}} : TRUE]
           F == CHOOSE a : Eqn(a)
           Past(n) == \A i \in 1..n :
                          ordered[i].kind \in {"put", "move"} => ordered[i].path # q
           After(n) == {k \in V : k.ok => Holds(k, id, q) /\ Past(n)}
<1>1. Preflight(ordered, rows, w) = F[N].ok
  BY DEF Preflight, Iterate
<1>2. N \in Nat
  OBVIOUS
<1>3. \A n \in 1..N : ordered[n] \in Operation /\ ordered[n] \in ToSet(ordered)
  BY DEF ToSet
<1>4. id \notin moving
  <2>1. ToSet(OfKind(ordered, "move")) = {op \in ToSet(ordered) : op.kind = "move"}
    BY KindsKept
  <2> QED BY <2>1
<1>5. \A i \in Ids : rows[i] # None => rows[i].path \in Paths
  BY GrantsAssumption DEF Placed, Ids
<1>6. q \in Paths
  BY <1>5
<1>7. \A j \in Ids : (j # id /\ rows[j] # None) => rows[j].path # q
  BY DEF Placed, PathFree
<1> HIDE DEF moving
<1>8. first \in After(0)
  <2>1. PathsBySource(rows) \in [Ids -> Paths \cup {None}]
    BY <1>5 DEF PathsBySource
  <2>2. SourcesByPath(rows) \in [Paths -> Ids \cup {None}]
    BY DEF SourcesByPath
  <2>3. \A j \in Ids : j # id => PathsBySource(rows)[j] # q
    BY <1>6, <1>7, GrantsAssumption DEF PathsBySource
  <2>4. {i \in Ids : rows[i] # None /\ rows[i].path = q} = {id}
    BY <1>7
  <2>5. SourcesByPath(rows)[q] = id
    BY <1>6, <2>4 DEF SourcesByPath
  <2> HIDE DEF q
  <2> QED BY <2>1, <2>2, <2>3, <2>5 DEF Simulation, Holds
<1> HIDE DEF q
<1>9. ASSUME NEW n \in 1..N, NEW k \in After(n - 1) PROVE Step(k, n) \in After(n)
  <2>1. /\ k \in Simulation
        /\ k.ok => /\ Holds(k, id, q)
                   /\ \A i \in 1..(n - 1) :
                          ordered[i].kind \in {"put", "move"} => ordered[i].path # q
    OBVIOUS
  <2>2. /\ Step(k, n) \in Simulation
        /\ Step(k, n).ok =>
               /\ k.ok /\ Holds(Step(k, n), id, q)
               /\ ordered[n].kind \in {"put", "move"} => ordered[n].path # q
    BY <1>3, <1>4, <1>6, <2>1, PreflightStepHolds
  <2>3. \A i \in 1..n : i \in 1..(n - 1) \/ i = n
    OBVIOUS
  <2> HIDE DEF Step
  <2> QED BY <2>1, <2>2, <2>3
<1>10. \E a : Eqn(a)
  <2> DEFINE A == [n \in 0..N |-> After(n)]
             f == [n \in 1..N |-> [k \in V |-> Step(k, n)]]
  <2>1. \A n \in 0..N : After(n) \subseteq V
    OBVIOUS
  <2> HIDE DEF N, Step, After, V, first
  <2>2. A \in [0..N -> SUBSET V] /\ \A n \in 0..N : A[n] = After(n)
    BY <2>1
  <2>3. \A n \in 1..N : \A k \in V : f[n][k] = Step(k, n)
    OBVIOUS
  <2>4. 0 \in 0..N /\ \A n \in 1..N : n \in 0..N /\ n - 1 \in 0..N
    BY <1>2
  <2> HIDE DEF A, f
  <2>5. \A n \in 1..N : \A k \in A[n - 1] : f[n][k] \in A[n]
    BY <1>9, <2>1, <2>2, <2>3, <2>4
  <2>6. first \in A[0]
    BY <1>8, <2>2, <2>4
  <2>7. PICK g \in [0..N -> V] : g[0] = first /\ \A n \in 1..N : g[n] = f[n][g[n - 1]]
    <3>1. Closed(N, A, f)
      BY <2>5 DEF Closed
    <3>2. Solved(N, V, first, f)
      BY <1>2, <2>2, <2>6, <3>1, Accumulates
    <3> QED BY <3>2 DEF Solved
  <2>8. ASSUME NEW n \in 0..N
        PROVE  g[n] = IF n = 0 THEN first
                      ELSE CHOOSE r \in {Step(k, n) : k \in {g[n - 1]}} : TRUE
    <3>1. CASE n = 0
      BY <2>7, <3>1
    <3>2. CASE n \in 1..N
      <4>1. g[n - 1] \in V
        BY <2>4, <3>2
      <4>2. {Step(k, n) : k \in {g[n - 1]}} = {Step(g[n - 1], n)}
        OBVIOUS
      <4>3. (CHOOSE r \in {Step(g[n - 1], n)} : TRUE) = Step(g[n - 1], n)
        OBVIOUS
      <4> QED BY <1>2, <2>3, <2>7, <3>2, <4>1, <4>2, <4>3
    <3> QED BY <1>2, <3>1, <3>2
  <2>9. Eqn(g)
    BY <2>8
  <2> QED BY <2>9
<1>11. Eqn(F)
  BY <1>10
<1>12. F[0] = first /\ \A n \in 1..N : F[n] = Step(F[n - 1], n)
  <2> HIDE DEF Step, F, N, first
  <2> QED BY <1>2, <1>11
<1>13. \A n \in 0..N : F[n] \in After(n)
  <2> DEFINE Done == {n \in 0..N : F[n] \in After(n)}
  <2> HIDE DEF F, N, After, Step, first
  <2>1. 0 \in 0..N /\ \A n \in 1..N : n \in 0..N /\ n - 1 \in 0..N
    BY <1>2
  <2>2. 0 \in Done
    BY <1>8, <1>12, <2>1
  <2>3. \A n \in 1..N : n - 1 \in Done => n \in Done
    BY <1>9, <1>12, <2>1
  <2>4. \A n \in 0..N : n \in Done
    <3> HIDE DEF Done
    <3> QED BY <1>2, <2>2, <2>3, Upward
  <2> QED BY <2>4
<1>14. \A i \in 1..N : ordered[i].kind \in {"put", "move"} => ordered[i].path # q
  <2>1. F[N] \in After(N) /\ F[N].ok
    <3> HIDE DEF F, N, After
    <3>1. N \in 0..N
      BY <1>2
    <3>2. F[N].ok
      BY <1>1, Zenon
    <3> QED BY <1>13, <3>1, <3>2
  <2> HIDE DEF F
  <2> QED BY <2>1
<1> QED BY <1>14 DEF q, ToSet

-----------------------------------------------------------------------------
(***************************************************************************)
(* What the helpers leave alone.                                           *)
(***************************************************************************)

\* A helper changes no file but those at T, unlinks no inode for good, and pushes at
\* most one closure, about T.
Touches(T) ==
    /\ \A l \in Locations : (l \notin T /\ fs[l] # None) => fs'[l] = fs[l]
    /\ KeepsLinks(fs, fs')
    /\ \/ undo_stack' = undo_stack
       \/ \E rec \in UndoRecords : /\ undo_stack' = Append(undo_stack, rec)
                                   /\ {rec.source, rec.target} \subseteq T \cup {None}
    /\ UNCHANGED <<undo_failed, before, interrupted>>

\* A step without a helper.
LEMMA NothingTouched ==
    ASSUME UNCHANGED <<fs, undo_stack, undo_failed, before, interrupted>>, NEW T
    PROVE  Touches(T)
BY DEF Touches, KeepsLinks

\* _replace_tree_entry
LEMMA ReplaceTouches ==
    ASSUME JournalSound, NEW p \in Paths, NEW o \in Objs, ReplaceTreeEntry(p, o)
    PROVE  fs'[p] = o /\ Touches({p})
<1> DEFINE rec == [op |-> "replace", source |-> None, target |-> p,
                   backup |-> BackupName(fs, p), obj |-> None]
<1>1. /\ fs \in Files /\ p \in Locations /\ p \notin UndoNames /\ UndoNames \subseteq Locations
      /\ \E u \in UndoNames : fs[u] = None
  BY JournalTypes, StoreAssumption DEF ReplaceTreeEntry, Journal, Locations
<1>2. /\ undo_stack' = Append(undo_stack, rec) /\ fs' = [Backup(fs, p) EXCEPT ![p] = o]
      /\ UNCHANGED <<undo_failed, before, interrupted>>
  BY DEF ReplaceTreeEntry, Journal
<1>3. rec \in UndoRecords /\ {rec.source, rec.target} \subseteq {p} \cup {None}
  BY <1>1, BackupFacts DEF UndoRecords
<1>4. fs'[p] = o /\ \A l \in Locations : l # p => fs'[l] = Backup(fs, p)[l]
  BY <1>1, <1>2, BackupFacts DEF Files
<1>5. \A l \in Locations : (l # p /\ fs[l] # None) => fs'[l] = fs[l]
  BY <1>1, <1>4, BackupFacts DEF Files
<1>6. fs[p] # None => \E m \in Locations : fs'[m] = fs[p]
  <2>1. fs[p] # None => /\ BackupName(fs, p) \in UndoNames
                        /\ Backup(fs, p)[BackupName(fs, p)] = fs[p]
    BY <1>1, BackupFacts DEF Files
  <2> QED BY <1>1, <1>4, <2>1
<1>7. KeepsLinks(fs, fs')
  BY <1>5, <1>6 DEF KeepsLinks
<1> HIDE DEF rec
<1> QED BY <1>2, <1>3, <1>4, <1>5, <1>7 DEF Touches

\* _rename_tree_file
LEMMA RenameTouches ==
    ASSUME JournalSound, NEW s \in Locations, NEW t \in Locations, s # t, RenameTreeFile(s, t)
    PROVE  fs'[t] = fs[s] /\ Touches({s, t})
<1> DEFINE rec == [op |-> "rename", source |-> s, target |-> t,
                   backup |-> BackupName(fs, t), obj |-> None]
           f == Backup(fs, t)
<1>1. /\ fs \in Files /\ Distinct(fs) /\ fs[s] # None /\ UndoNames \subseteq Locations
      /\ \E u \in UndoNames : fs[u] = None
  BY JournalTypes DEF RenameTreeFile, Journal, Locations, JournalSound
<1>2. /\ undo_stack' = Append(undo_stack, rec) /\ fs' = Rename(f, s, t)
      /\ UNCHANGED <<undo_failed, before, interrupted>>
  BY DEF RenameTreeFile, Journal
<1>3. rec \in UndoRecords /\ {rec.source, rec.target} \subseteq {s, t} \cup {None}
  BY <1>1, BackupFacts DEF UndoRecords
<1>4. /\ f \in Files /\ \A l \in Locations : fs[l] # None => f[l] = fs[l]
      /\ fs[t] = None => f = fs
      /\ fs[t] # None => \E u \in UndoNames : fs[u] = None /\ f[u] = fs[t]
  BY <1>1, BackupFacts DEF Files
<1> HIDE DEF f, rec
<1>5. f[s] = fs[s] /\ f[t] = fs[t] /\ fs[s] # fs[t]
  BY <1>1, <1>4 DEF Distinct
<1>6. fs' = [f EXCEPT ![t] = f[s], ![s] = None]
  BY <1>1, <1>2, <1>5 DEF Rename
<1>7. /\ fs'[t] = fs[s]
      /\ \A l \in Locations : (l # s /\ l # t) => fs'[l] = f[l]
  BY <1>4, <1>5, <1>6 DEF Files
<1>8. \A l \in Locations : (l # s /\ l # t /\ fs[l] # None) => fs'[l] = fs[l]
  BY <1>4, <1>7
<1>9. fs[t] # None => \E m \in Locations : fs'[m] = fs[t]
  BY <1>1, <1>4, <1>7
<1>10. KeepsLinks(fs, fs')
  BY <1>7, <1>8, <1>9 DEF KeepsLinks
<1> QED BY <1>2, <1>3, <1>7, <1>8, <1>10 DEF Touches

\* _remove_tree_entry
LEMMA RemoveTouches ==
    ASSUME JournalSound, NEW p \in Paths, NEW obj, RemoveTreeEntry(p, obj)
    PROVE  Touches({p})
<1> DEFINE rec == [op |-> "remove", source |-> None, target |-> p,
                   backup |-> BackupName(fs, p), obj |-> None]
<1>1. fs \in Files /\ p \in Locations /\ p \notin UndoNames /\ UndoNames \subseteq Locations
  BY JournalTypes, StoreAssumption DEF Locations
<1>2. CASE fs[p] = None
  <2>1. UNCHANGED <<fs, undo_stack, undo_failed, before, interrupted>>
    BY <1>2 DEF RemoveTreeEntry, Supersede
  <2> QED BY <2>1, NothingTouched
<1>3. CASE fs[p] # None
  <2>1. /\ undo_stack' = Append(undo_stack, rec) /\ fs' = [Backup(fs, p) EXCEPT ![p] = None]
        /\ UNCHANGED <<undo_failed, before, interrupted>>
        /\ \E u \in UndoNames : fs[u] = None
    BY <1>3 DEF RemoveTreeEntry, Journal
  <2>2. rec \in UndoRecords /\ {rec.source, rec.target} \subseteq {p} \cup {None}
    BY <1>1, <2>1, BackupFacts DEF UndoRecords
  <2>3. \A l \in Locations : l # p => fs'[l] = Backup(fs, p)[l]
    BY <1>1, <2>1, BackupFacts DEF Files
  <2>4. \A l \in Locations : (l # p /\ fs[l] # None) => fs'[l] = fs[l]
    BY <1>1, <2>1, <2>3, BackupFacts DEF Files
  <2>5. \E m \in Locations : fs'[m] = fs[p]
    <3>1. /\ BackupName(fs, p) \in UndoNames
          /\ Backup(fs, p)[BackupName(fs, p)] = fs[p]
      BY <1>1, <1>3, <2>1, BackupFacts DEF Files
    <3> QED BY <1>1, <2>3, <3>1
  <2>6. KeepsLinks(fs, fs')
    BY <2>4, <2>5 DEF KeepsLinks
  <2> HIDE DEF rec
  <2> QED BY <2>1, <2>2, <2>4, <2>6 DEF Touches
<1> QED BY <1>2, <1>3

\* The documents that a batch does not name are in the tree.
LEMMA TheirFacts ==
    ASSUME CatalogSound
    PROVE  /\ TheirPaths \subseteq Paths /\ None \notin TheirPaths
           /\ \A id \in Strangers : catalog.rows[id] # None =>
                  id \in Ids /\ catalog.rows[id].path \in TheirPaths
<1>1. \A id \in Ids : catalog.rows[id] # None => catalog.rows[id].path \in Paths
  BY GrantsAssumption DEF CatalogSound, RowsSound, Placed, Ids
<1>2. \A q \in TheirPaths : \E id \in Ids : catalog.rows[id] # None /\ q = catalog.rows[id].path
  BY DEF TheirPaths, Strangers
<1> QED BY <1>1, <1>2, GrantsAssumption DEF TheirPaths, Strangers

\* A row of a table, and the file it says it has.
LEMMA RowFacts ==
    ASSUME NEW table \in Tables, NEW id \in Ids, table.rows[id] # None
    PROVE  /\ table.rows[id].path \in Locations /\ table.rows[id].obj \in Objs
           /\ table.rows[id].obj # None
BY StoreAssumption DEF Tables, Row

\* What a helper does not touch stays where it was.
LEMMA UntouchedIntact ==
    ASSUME NEW T, Touches(T), NEW row, NEW l \in Locations, l \notin T, row.obj # None,
           Intact(row, l, fs, content)
    PROVE  Intact(row, l, fs', content)
BY DEF Touches, Intact

\* A step of the batch that touches only what is not the others'.
LEMMA ApplyFound ==
    ASSUME JournalSound, CatalogSound, FoundSound, Applying, Applying',
           UNCHANGED <<catalog, writer, ops, content>>,
           NEW T, Touches(T), T \cap TheirPaths = {}
    PROVE  FoundSound'
<1>1. /\ TheirPaths' = TheirPaths /\ BatchIds' = BatchIds /\ Safe' = Safe
      /\ UNCHANGED <<before, undo_failed>>
  BY DEF TheirPaths, BatchIds, Safe, Strangers, Touches
<1>2. catalog \in Tables /\ undo_stack \in Seq(UndoRecords)
  BY JournalTypes, CatalogTypes
<1>3. Uncommitted /\ pc # "undo" /\ Uncommitted' /\ pc' # "undo"
  BY DEF Applying, Uncommitted
<1>4. ASSUME NEW id \in Safe \ BatchIds, catalog.rows[id] # None
      PROVE  Intact(catalog.rows[id], catalog.rows[id].path, fs', content)
  <2>1. id \in Strangers /\ id \in Ids
    BY DEF Safe, Strangers
  <2>2. catalog.rows[id].path \notin T
    BY <1>4, <2>1, TheirFacts
  <2>3. Intact(catalog.rows[id], catalog.rows[id].path, fs, content)
    BY <1>3, <1>4 DEF FoundSound, AllIntact
  <2> QED BY <1>2, <1>4, <2>1, <2>2, <2>3, RowFacts, UntouchedIntact
<1>5. ASSUME NEW i \in 1..Len(undo_stack') PROVE Avoids(undo_stack[i])'
  <2>1. \A j \in 1..Len(undo_stack) : Avoids(undo_stack[j])
    BY <1>3 DEF FoundSound
  <2>2. CASE undo_stack' = undo_stack
    BY <1>1, <2>1, <2>2 DEF Avoids
  <2>3. ASSUME NEW rec \in UndoRecords, undo_stack' = Append(undo_stack, rec),
               {rec.source, rec.target} \subseteq T \cup {None}
        PROVE  Avoids(undo_stack[i])'
    <3>1. rec.source \notin TheirPaths /\ rec.target \notin TheirPaths
      BY <2>3, TheirFacts
    <3>2. CASE i \in 1..Len(undo_stack)
      <4>1. undo_stack'[i] = undo_stack[i]
        BY <1>2, <2>3, <3>2
      <4> QED BY <1>1, <2>1, <3>2, <4>1 DEF Avoids
    <3>3. CASE i = Len(undo_stack) + 1
      <4>1. undo_stack'[i] = rec
        BY <1>2, <2>3, <3>3
      <4> QED BY <1>1, <3>1, <4>1 DEF Avoids
    <3> QED BY <1>2, <2>3, <3>2, <3>3
  <2> QED BY <2>2, <2>3 DEF Touches
<1>6. KeepsLinks(before.fs, fs')
  <2>1. KeepsLinks(before.fs, fs) /\ KeepsLinks(fs, fs')
    BY DEF FoundSound, Touches
  <2> QED BY <2>1 DEF KeepsLinks
<1>7. AllIntact(catalog.rows, Safe \ BatchIds, fs', content)
  BY <1>4 DEF AllIntact
<1> QED BY <1>1, <1>3, <1>5, <1>6, <1>7 DEF FoundSound, AllIntact, Applying

-----------------------------------------------------------------------------
(***************************************************************************)
(* The plan and the transaction stay away from the documents that the      *)
(* batch does not name.                                                    *)
(***************************************************************************)

\* The rest of a list is in order when the list is.
LEMMA TailInTurn ==
    ASSUME NEW X, NEW s \in Seq(X), s # <<>>, NEW R, InTurn(R, s)
    PROVE  InTurn(R, Tail(s))
<1>1. Len(Tail(s)) = Len(s) - 1 /\ Len(s) \in Nat
  OBVIOUS
<1>2. \A i \in 1..Len(Tail(s)) : Tail(s)[i] = s[i + 1] /\ i + 1 \in 1..Len(s)
  BY <1>1
<1>3. ASSUME NEW i \in 1..Len(Tail(s)), NEW j \in 1..Len(Tail(s)), i < j
      PROVE  <<Tail(s)[i], Tail(s)[j]>> \in R
  <2>1. i + 1 < j + 1
    BY <1>1, <1>3
  <2> QED BY <1>2, <2>1 DEF InTurn
<1> QED BY <1>3 DEF InTurn

\* The path of a row of the batch is no other document's.
LEMMA OwnPath ==
    ASSUME JournalSound, CatalogSound, ApartSound, Applying, pc # "plan",
           NEW id \in BatchIds, id \in Ids, work.rows[id] # None
    PROVE  work.rows[id].path \notin TheirPaths
<1>1. PathFree(work.rows, id, work.rows[id].path)
  BY DEF CatalogSound, RowsSound, Placed, PlacedOrParked
<1>2. \A i \in Strangers : work.rows[i] = catalog.rows[i] /\ i \in Ids /\ i # id
  BY DEF ApartSound, Strangers
<1> QED BY <1>1, <1>2 DEF PathFree, TheirPaths

\* The operation that is next, or running.
LEMMA HeadWithin ==
    ASSUME JournalSound, CatalogSound, ApartSound, Applying, pc # "plan", todo # <<>>
    PROVE  /\ Head(todo) \in Operation /\ Within(Head(todo)) /\ todo \in Seq(Operation)
           /\ Current \in BatchIds /\ Current \in Ids
<1>1. todo \in Seq(Operation)
  BY DEF CatalogSound, PlanSound
<1>2. Head(todo) \in ToSet(todo) /\ Head(todo) \in Operation
  BY <1>1, TailHolds
<1>3. Within(Head(todo))
  BY <1>2 DEF ApartSound
<1>4. Head(todo).key \in Keys
  BY <1>2 DEF Operation
<1> QED BY <1>1, <1>2, <1>3, <1>4, CatalogTypes DEF Within, Current

\* A helper call within an operation.
LEMMA SameApart ==
    ASSUME ApartSound, Applying, pc # "plan", Applying', pc' # "plan",
           UNCHANGED <<catalog, work, writer, ops, todo, moves>>, pc' \in Moving => pc \in Moving
    PROVE  ApartSound'
<1>1. /\ TheirPaths' = TheirPaths /\ BatchIds' = BatchIds /\ Strangers' = Strangers
      /\ \A op : Within(op)' <=> Within(op)
  BY DEF TheirPaths, BatchIds, Strangers, Within
<1>2. /\ \A op \in ToSet(todo') : Within(op)'
      /\ InTurn(OtherSource, todo)'
      /\ \A id \in Strangers' : work'.rows[id] = catalog'.rows[id]
  BY <1>1 DEF ApartSound, InTurn
<1>3. pc' \in Moving => /\ \A op \in ToSet(moves') : Within(op)' /\ op.kind = "move"
                        /\ InTurn(OtherSource, moves)'
  BY <1>1 DEF ApartSound, InTurn
<1> QED BY <1>2, <1>3 DEF ApartSound

\* An operation is finished; it wrote no row but its own.
LEMMA NextApart ==
    ASSUME JournalSound, CatalogSound, ApartSound, Applying, pc # "plan", pc' = "next",
           todo # <<>>, todo' = Tail(todo), UNCHANGED <<catalog, writer, ops>>,
           \A id \in Ids : id # Current => work'.rows[id] = work.rows[id]
    PROVE  ApartSound'
<1>1. /\ TheirPaths' = TheirPaths /\ BatchIds' = BatchIds /\ Strangers' = Strangers
      /\ \A op : Within(op)' <=> Within(op)
  BY DEF TheirPaths, BatchIds, Strangers, Within
<1>2. /\ todo \in Seq(Operation) /\ Current \in BatchIds
      /\ ToSet(todo) = {Head(todo)} \cup ToSet(todo')
  BY HeadWithin, TailHolds
<1>3. \A op \in ToSet(todo') : Within(op)'
  BY <1>1, <1>2 DEF ApartSound
<1>4. InTurn(OtherSource, todo)'
  <2>1. InTurn(OtherSource, Tail(todo))
    BY <1>2, TailInTurn DEF ApartSound
  <2> QED BY <2>1 DEF InTurn
<1>5. \A id \in Strangers' : work'.rows[id] = catalog'.rows[id]
  BY <1>1, <1>2 DEF ApartSound, Strangers
<1> QED BY <1>3, <1>4, <1>5 DEF ApartSound, Moving

\* _preflight_operations lets through no batch that names another document's path.
LEMMA PlanApart ==
    ASSUME JournalSound, CatalogSound, Plan
    PROVE  ApartSound'
<1> DEFINE ordered == OrderedOperations(ops, PathsBySource(catalog.rows), writer)
<1>1. /\ pc = "plan" /\ pc' = "next" /\ todo' = ordered /\ ~DuplicateMoveSources(ops)
      /\ Preflight(ordered, catalog.rows, writer)
      /\ UNCHANGED <<catalog, work, writer, ops>> /\ work = catalog
  BY DEF Plan, data, CatalogSound, RowsSound
<1>2. /\ ops \in Seq(Operation) /\ writer \in Writers
      /\ catalog.rows \in [Ids -> Row \cup {None}] /\ Placed(catalog.rows)
      /\ \A op \in Operation : op.kind \in {"put", "move", "delete", "decision"}
  BY CatalogTypes DEF CatalogSound, PlanSound, RowsSound, Operation, Tables
<1>3. ordered \in Seq(Operation) /\ ToSet(ordered) = ToSet(ops)
  BY <1>2, OrderedHolds
<1>4. InTurn(OtherSource, ordered)
  <2>1. \A x, y \in Operation :
            (x.kind = "move" /\ y.kind = "move" => x.key # y.key) => <<x, y>> \in OtherSource
    BY DEF OtherSource
  <2> QED BY <1>1, <1>2, <2>1, OrderedOnce
<1> HIDE DEF ordered
<1>5. \A op \in ToSet(ordered) : <<writer, op.key>> \in BatchIds
  BY <1>3 DEF ToSet, BatchIds
<1>6. ASSUME NEW op \in ToSet(ordered), op.kind \in {"put", "move"} PROVE op.path \notin TheirPaths
  <2>1. ASSUME NEW id \in Strangers, catalog.rows[id] # None PROVE op.path # catalog.rows[id].path
    <3>1. id \in Ids /\ \A x \in ToSet(ordered) : <<writer, x.key>> # id
      BY <1>5 DEF Strangers
    <3>2. \A x \in ToSet(ordered) : x.kind \in {"put", "move"} => x.path # catalog.rows[id].path
      BY <1>1, <1>2, <1>3, <2>1, <3>1, PreflightApart
    <3> QED BY <1>6, <3>2
  <2> QED BY <2>1 DEF TheirPaths
<1>7. \A op \in ToSet(ordered) : Within(op)
  BY <1>5, <1>6 DEF Within
<1>8. /\ Strangers' = Strangers /\ \A op : Within(op)' <=> Within(op)
  BY <1>1 DEF TheirPaths, BatchIds, Strangers, Within
<1>9. InTurn(OtherSource, todo)'
  BY <1>1, <1>4 DEF InTurn
<1>10. \A op \in ToSet(todo') : Within(op)'
  BY <1>1, <1>7, <1>8
<1> QED BY <1>1, <1>9, <1>10 DEF ApartSound, Moving

-----------------------------------------------------------------------------
(***************************************************************************)
(* DamageSound is inductive: _put, _delete and _decision.                  *)
(***************************************************************************)

\* Before the plan, and between two operations.
LEMMA BetweenDamage ==
    ASSUME FoundSound', ApartSound', pc' \in {"plan", "next"},
           AllIntact(work'.rows, Safe', fs', content')
    PROVE  DamageSound'
<1>1. ApplySound'
  BY DEF ApplySound, AllIntact, Intact
<1>2. MovingSound'
  BY DEF MovingSound, Moving
<1> QED BY <1>1, <1>2 DEF DamageSound

\* A row of another document, when a helper touches only T.
LEMMA OtherKept ==
    ASSUME JournalSound, UNCHANGED <<work, content>>, NEW T, Touches(T), NEW id \in Ids,
           work.rows[id] # None, work.rows[id].path \notin T,
           Intact(work.rows[id], work.rows[id].path, fs, content)
    PROVE  Intact(work'.rows[id], work'.rows[id].path, fs', content')
<1>1. work \in Tables
  BY CatalogTypes
<1> QED BY <1>1, RowFacts, UntouchedIntact

\* _put of the stored content follows the path.
LEMMA PutUnchangedDamage ==
    ASSUME JournalSound, CatalogSound, DamageSound,
           NEW k \in Keys, NEW p \in Paths, NEW h \in Hashes, PutUnchanged(k, p, h)
    PROVE  DamageSound'
<1> DEFINE id == <<writer, k>>
           row == work.rows[id]
           T == {row.path, p}
<1>1. /\ pc = "next" /\ pc' = "put_row" /\ todo # <<>> /\ Head(todo) = PutOp(k, p, h)
      /\ row # None /\ row.hash = h /\ fresh' = None
      /\ UNCHANGED <<catalog, work, content, writer, ops, todo, moves>>
  BY DEF PutUnchanged, Unchanged
<1>2. Head(todo).key = k /\ Head(todo).path = p /\ Head(todo).hash = h /\ Head(todo).kind = "put"
  BY <1>1 DEF PutOp
<1>3. /\ FoundSound /\ ApartSound /\ ApplySound /\ Applying /\ Applying' /\ pc # "plan"
      /\ work \in Tables /\ Placed(work.rows)
  BY <1>1, CatalogTypes DEF DamageSound, Applying, CatalogSound, RowsSound
<1>4. id \in Ids /\ Current = id /\ id \in BatchIds /\ p \notin TheirPaths
  BY <1>1, <1>2, <1>3, HeadWithin, CatalogTypes DEF Current, Within
<1>5. row.path \notin TheirPaths /\ row.path \in Locations /\ p \in Locations
  BY <1>1, <1>3, <1>4, OwnPath, RowFacts DEF Locations
<1> HIDE DEF id
<1>6. Touches(T) /\ fs'[p] = fs[row.path]
  <2>1. CASE row.path = p /\ UNCHANGED <<fs, journal>>
    BY <2>1, NothingTouched DEF journal
  <2>2. CASE row.path # p /\ RenameTreeFile(row.path, p)
    <3> HIDE DEF row
    <3> QED BY <1>5, <2>2, RenameTouches
  <2> QED BY <2>1, <2>2 DEF PutUnchanged, id
<1>7. FoundSound'
  <2>1. T \cap TheirPaths = {}
    BY <1>4, <1>5
  <2> HIDE DEF T
  <2> QED BY <1>1, <1>3, <1>6, <2>1, ApplyFound
<1>8. ApartSound'
  BY <1>1, <1>3, SameApart DEF Moving
<1>9. /\ AllIntact(work.rows, Safe, fs, content) /\ Safe' = Safe /\ Safe \subseteq Ids
  BY <1>1, <1>3, <1>6 DEF ApplySound, Safe, Touches
<1>10. ASSUME NEW i \in Safe \ {id}, work.rows[i] # None, work.rows[i].path # p
       PROVE  Intact(work'.rows[i], work'.rows[i].path, fs', content')
  <2>1. i \in Ids /\ Intact(work.rows[i], work.rows[i].path, fs, content)
    BY <1>9, <1>10 DEF AllIntact
  <2>2. work.rows[i].path \notin T
    BY <1>1, <1>3, <1>4, <1>10, <2>1 DEF Placed, PathFree
  <2> HIDE DEF T
  <2> QED BY <1>1, <1>6, <1>10, <2>1, <2>2, OtherKept
<1>11. id \in Safe => Intact(row, p, fs', content')
  BY <1>1, <1>6, <1>9 DEF AllIntact, Intact
<1>12. Current' = id /\ Head(todo)' = Head(todo) /\ work' = work
  BY <1>1, <1>4 DEF Current
<1>13. OthersIntact(Current, Head(todo).path)'
  BY <1>2, <1>9, <1>10, <1>12 DEF OthersIntact
<1>14. ApplySound'
  <2>1. /\ work'.rows[Current'].hash = Head(todo)'.hash
        /\ Current' \in Safe' => Intact(work'.rows[Current'], Head(todo)'.path, fs', content')
    BY <1>1, <1>2, <1>9, <1>11, <1>12
  <2> QED BY <1>1, <1>13, <2>1 DEF ApplySound
<1>15. MovingSound'
  BY <1>1 DEF MovingSound, Moving
<1> QED BY <1>7, <1>8, <1>14, <1>15 DEF DamageSound

\* A new object has an id that no document's file has.
LEMMA PutObjectDamage ==
    ASSUME JournalSound, CatalogSound, DamageSound,
           NEW k \in Keys, NEW p \in Paths, NEW h \in Hashes, PutObject(k, p, h)
    PROVE  DamageSound'
<1> DEFINE o == CHOOSE x \in Objs : UnusedObject(x)
           rec == [op |-> "object", source |-> None, target |-> None, backup |-> None, obj |-> o]
<1>1. /\ pc = "next" /\ pc' = "put_tree" /\ todo # <<>> /\ Head(todo) = PutOp(k, p, h)
      /\ \E x \in Objs : UnusedObject(x)
      /\ fresh' = o /\ content' = [content EXCEPT ![o] = h]
      /\ undo_stack' = Append(undo_stack, rec)
      /\ UNCHANGED <<catalog, work, fs, undo_failed, before, interrupted>>
      /\ UNCHANGED <<writer, ops, todo, moves>>
  BY DEF PutObject
<1>2. o \in Objs /\ UnusedObject(o)
  BY <1>1
<1>3. rec.source = None /\ rec.target = None
  OBVIOUS
<1> HIDE DEF o, rec
<1>4. /\ FoundSound /\ ApartSound /\ ApplySound /\ Applying /\ Applying' /\ pc # "plan"
      /\ Uncommitted /\ work \in Tables /\ catalog \in Tables /\ content \in [Objs -> Hashes]
      /\ undo_stack \in Seq(UndoRecords) /\ before.fs \in Files
  BY <1>1, CatalogTypes, JournalTypes DEF DamageSound, Applying, Uncommitted, JournalSound,
                                          TypeOK, Files
<1>5. content'[o] = h /\ \A x \in Objs : x # o => content'[x] = content[x]
  BY <1>1, <1>2, <1>4
<1>6. /\ Safe' = Safe /\ BatchIds' = BatchIds /\ TheirPaths' = TheirPaths /\ Safe \subseteq Ids
  BY <1>1 DEF Safe, BatchIds, TheirPaths, Strangers
<1>7. ASSUME NEW i \in Safe, catalog.rows[i] # None
      PROVE  Intact(catalog.rows[i], catalog.rows[i].path, before.fs, content')
  <2>1. /\ i \in Ids /\ catalog.rows[i].path \in Locations /\ catalog.rows[i].obj \in Objs
        /\ catalog.rows[i].obj # None
    BY <1>4, <1>6, <1>7, RowFacts
  <2>2. Intact(catalog.rows[i], catalog.rows[i].path, before.fs, content)
    BY <1>4, <1>7 DEF FoundSound, AllIntact
  <2>3. catalog.rows[i].obj # o
    <3>1. \E m \in Locations : fs[m] = before.fs[catalog.rows[i].path]
      BY <1>4, <2>1, <2>2 DEF FoundSound, KeepsLinks, Intact
    <3> QED BY <1>2, <2>2, <3>1 DEF UnusedObject, Intact
  <2> QED BY <1>5, <2>1, <2>2, <2>3 DEF Intact
<1>8. ASSUME NEW i \in Safe \ BatchIds, catalog.rows[i] # None
      PROVE  Intact(catalog.rows[i], catalog.rows[i].path, fs, content')
  <2>1. i \in Ids /\ catalog.rows[i].path \in Locations /\ catalog.rows[i].obj \in Objs
    BY <1>4, <1>6, <1>8, RowFacts
  <2>2. Intact(catalog.rows[i], catalog.rows[i].path, fs, content)
    BY <1>4, <1>8 DEF FoundSound, AllIntact
  <2>3. catalog.rows[i].obj # o
    BY <1>2, <2>1, <2>2 DEF UnusedObject, Intact
  <2> QED BY <1>5, <2>1, <2>2, <2>3 DEF Intact
<1>9. ASSUME NEW i \in Safe, work.rows[i] # None
      PROVE  Intact(work.rows[i], work.rows[i].path, fs, content')
  <2>1. i \in Ids /\ work.rows[i].obj \in Objs /\ work.rows[i].obj # o
    BY <1>2, <1>4, <1>6, <1>9, RowFacts DEF UnusedObject
  <2>2. Intact(work.rows[i], work.rows[i].path, fs, content)
    BY <1>1, <1>4, <1>9 DEF ApplySound, AllIntact
  <2> QED BY <1>5, <2>1, <2>2 DEF Intact
<1>10. ASSUME NEW i \in 1..Len(undo_stack') PROVE Avoids(undo_stack[i])'
  <2>1. \A j \in 1..Len(undo_stack) : Avoids(undo_stack[j])
    BY <1>4 DEF FoundSound
  <2>2. CASE i \in 1..Len(undo_stack)
    <3>1. undo_stack'[i] = undo_stack[i]
      BY <1>1, <1>4, <2>2
    <3> QED BY <1>6, <2>1, <2>2, <3>1 DEF Avoids
  <2>3. CASE i = Len(undo_stack) + 1
    <3>1. undo_stack'[i] = rec
      BY <1>1, <1>4, <2>3
    <3> QED BY <1>3, <1>6, <3>1, TheirFacts DEF Avoids
  <2> QED BY <1>1, <1>4, <2>2, <2>3
<1>11. FoundSound'
  <2>1. KeepsLinks(before.fs, fs) /\ ~undo_failed
    BY <1>4 DEF FoundSound
  <2>2. /\ AllIntact(catalog.rows, Safe, before.fs, content')
        /\ AllIntact(catalog.rows, Safe \ BatchIds, fs, content')
    BY <1>7, <1>8 DEF AllIntact
  <2> QED BY <1>1, <1>6, <1>10, <2>1, <2>2 DEF FoundSound, Applying, Uncommitted
<1>12. ApartSound'
  BY <1>1, <1>4, SameApart DEF Moving
<1>13. ApplySound'
  <2>1. AllIntact(work.rows, Safe, fs, content')
    BY <1>9 DEF AllIntact
  <2>2. content'[fresh'] = Head(todo).hash
    BY <1>1, <1>5 DEF PutOp
  <2> QED BY <1>1, <1>6, <2>1, <2>2 DEF ApplySound
<1>14. MovingSound'
  BY <1>1 DEF MovingSound, Moving
<1> QED BY <1>11, <1>12, <1>13, <1>14 DEF DamageSound

\* The new file takes its path from whatever was there.
LEMMA PutTreeDamage ==
    ASSUME JournalSound, CatalogSound, DamageSound,
           NEW k \in Keys, NEW p \in Paths, NEW h \in Hashes, PutTree(k, p, h)
    PROVE  DamageSound'
<1>1. /\ pc = "put_tree" /\ pc' = "put_old" /\ Head(todo) = PutOp(k, p, h)
      /\ ReplaceTreeEntry(p, fresh)
      /\ UNCHANGED <<catalog, work, content, writer, ops, todo, moves, fresh>>
  BY DEF PutTree
<1>2. /\ FoundSound /\ ApartSound /\ ApplySound /\ Applying /\ Applying' /\ pc # "plan"
      /\ todo # <<>> /\ fresh \in Objs
  BY <1>1 DEF DamageSound, Applying, CatalogSound, PlanSound, Putting, JournalSound, LocalsSound
<1>3. Head(todo).path = p /\ Head(todo).kind = "put"
  BY <1>1 DEF PutOp
<1>4. p \notin TheirPaths
  BY <1>2, <1>3, HeadWithin DEF Within
<1>5. Touches({p}) /\ fs'[p] = fresh
  BY <1>1, <1>2, ReplaceTouches
<1>6. FoundSound'
  <2>1. {p} \cap TheirPaths = {}
    BY <1>4
  <2> QED BY <1>1, <1>2, <1>5, <2>1, ApplyFound
<1>7. ApartSound'
  BY <1>1, <1>2, SameApart DEF Moving
<1>8. /\ AllIntact(work.rows, Safe, fs, content) /\ Safe' = Safe /\ Safe \subseteq Ids
      /\ content[fresh] = Head(todo).hash
  BY <1>1, <1>2, <1>5 DEF ApplySound, Safe, Touches
<1>9. ASSUME NEW i \in Safe, work.rows[i] # None, work.rows[i].path # p
      PROVE  Intact(work'.rows[i], work'.rows[i].path, fs', content')
  <2>1. i \in Ids /\ Intact(work.rows[i], work.rows[i].path, fs, content)
    BY <1>8, <1>9 DEF AllIntact
  <2> QED BY <1>1, <1>5, <1>9, <2>1, OtherKept
<1>10. OthersIntact(None, Head(todo).path)'
  BY <1>1, <1>3, <1>8, <1>9 DEF OthersIntact
<1>11. ApplySound'
  BY <1>1, <1>3, <1>5, <1>8, <1>10 DEF ApplySound
<1>12. MovingSound'
  BY <1>1 DEF MovingSound, Moving
<1> QED BY <1>6, <1>7, <1>11, <1>12 DEF DamageSound

\* The old file of the document, at a path that is no other's.
LEMMA PutOldPathDamage ==
    ASSUME JournalSound, CatalogSound, DamageSound,
           NEW k \in Keys, NEW p \in Paths, NEW h \in Hashes, PutOldPath(k, p, h)
    PROVE  DamageSound'
<1> DEFINE id == <<writer, k>>
           old == work.rows[id]
           T == IF old # None /\ old.path # p THEN {old.path} ELSE {}
<1>1. /\ pc = "put_old" /\ pc' = "put_row" /\ Head(todo) = PutOp(k, p, h)
      /\ UNCHANGED <<catalog, work, content, writer, ops, todo, moves, fresh>>
      /\ \/ old = None /\ UNCHANGED <<fs, journal>>
         \/ old # None /\ old.path = p /\ Supersede(old.obj) /\ UNCHANGED fs
         \/ old # None /\ old.path # p /\ RemoveTreeEntry(old.path, old.obj)
  BY DEF PutOldPath
<1>2. Head(todo).key = k /\ Head(todo).path = p /\ Head(todo).kind = "put"
  BY <1>1 DEF PutOp
<1>3. /\ FoundSound /\ ApartSound /\ ApplySound /\ Applying /\ Applying' /\ pc # "plan"
      /\ todo # <<>> /\ fresh \in Objs /\ work \in Tables /\ Placed(work.rows)
  BY <1>1, CatalogTypes DEF DamageSound, Applying, CatalogSound, RowsSound, PlanSound, Putting,
                            JournalSound, LocalsSound
<1>4. id \in Ids /\ Current = id /\ id \in BatchIds /\ p \in Locations
  BY <1>2, <1>3, HeadWithin, CatalogTypes DEF Current, Locations
<1>5. old # None => old.path \notin TheirPaths /\ old.path \in Paths
  <2>1. old # None => old.path \in Authorized[writer]
    BY <1>3, <1>4 DEF Placed
  <2> QED BY <1>3, <1>4, <2>1, OwnPath, CatalogTypes, ReachFacts
<1> HIDE DEF id, old
<1>6. Touches(T)
  <2>1. CASE old = None \/ old.path = p
    <3>1. UNCHANGED <<fs, undo_stack, undo_failed, before, interrupted>>
      BY <1>1, <2>1 DEF journal, Supersede
    <3> QED BY <3>1, NothingTouched
  <2>2. CASE old # None /\ old.path # p
    BY <1>1, <1>5, <2>2, RemoveTouches
  <2> QED BY <2>1, <2>2
<1>7. T \cap TheirPaths = {} /\ p \notin T
  BY <1>5
<1>8. ASSUME NEW i \in Ids, i # id, work.rows[i] # None PROVE work.rows[i].path \notin T
  BY <1>3, <1>4, <1>8 DEF Placed, PathFree, old
<1> HIDE DEF T
<1>9. FoundSound'
  BY <1>1, <1>3, <1>6, <1>7, ApplyFound
<1>10. ApartSound'
  BY <1>1, <1>3, SameApart DEF Moving
<1>11. /\ OthersIntact(None, p) /\ Safe' = Safe /\ Safe \subseteq Ids
       /\ fs[p] = fresh /\ content[fresh] = Head(todo).hash
  BY <1>1, <1>2, <1>3, <1>6 DEF ApplySound, Safe, Touches
<1>12. fs'[p] = fresh /\ fresh # None
  BY <1>3, <1>4, <1>6, <1>7, <1>11, StoreAssumption DEF Touches
<1>13. ASSUME NEW i \in Safe \ {id}, work.rows[i] # None, work.rows[i].path # p
       PROVE  Intact(work'.rows[i], work'.rows[i].path, fs', content')
  <2>1. i \in Ids /\ Intact(work.rows[i], work.rows[i].path, fs, content)
    BY <1>11, <1>13, StoreAssumption DEF OthersIntact
  <2>2. work.rows[i].path \notin T
    BY <1>8, <1>13, <2>1
  <2> QED BY <1>1, <1>6, <1>13, <2>1, <2>2, OtherKept
<1>14. Current' = id /\ Head(todo)' = Head(todo) /\ work' = work /\ fresh' = fresh
  BY <1>1, <1>4 DEF Current
<1>15. OthersIntact(Current, Head(todo).path)'
  BY <1>2, <1>11, <1>13, <1>14 DEF OthersIntact
<1>16. ApplySound'
  BY <1>1, <1>2, <1>11, <1>12, <1>14, <1>15 DEF ApplySound
<1>17. MovingSound'
  BY <1>1 DEF MovingSound, Moving
<1> QED BY <1>9, <1>10, <1>16, <1>17 DEF DamageSound

\* The upsert: no other row has the path, so no other file was at it.
LEMMA PutRowDamage ==
    ASSUME JournalSound, CatalogSound, DamageSound,
           NEW k \in Keys, NEW p \in Paths, NEW h \in Hashes, PutRow(k, p, h)
    PROVE  DamageSound'
<1> DEFINE id == <<writer, k>>
           row == [path |-> p, hash |-> h,
                   obj |-> IF fresh # None THEN fresh ELSE work.rows[id].obj]
<1>1. /\ pc = "put_row" /\ pc' = "next" /\ Head(todo) = PutOp(k, p, h)
      /\ PathFree(work.rows, id, p) /\ work' = [work EXCEPT !.rows[id] = row]
      /\ todo' = Tail(todo)
      /\ UNCHANGED <<catalog, fs, content, writer, ops, fresh>>
      /\ UNCHANGED <<undo_stack, undo_failed, before, interrupted>>
  BY DEF PutRow, journal
<1>2. /\ Head(todo).key = k /\ Head(todo).path = p /\ Head(todo).hash = h
  BY <1>1 DEF PutOp
<1>3. /\ FoundSound /\ ApartSound /\ ApplySound /\ Applying /\ Applying' /\ pc # "plan"
      /\ todo # <<>> /\ work \in Tables
  BY <1>1, CatalogTypes DEF DamageSound, Applying, CatalogSound, PlanSound, Putting
<1>4. id \in Ids /\ Current = id
  BY <1>2, <1>3, HeadWithin, CatalogTypes DEF Current
<1>5. row.path = p /\ row.hash = h
      /\ row.obj = IF fresh # None THEN fresh ELSE work.rows[id].obj
  OBVIOUS
<1> HIDE DEF id, row
<1>6. work'.rows[id] = row /\ \A i \in Ids : i # id => work'.rows[i] = work.rows[i]
  BY <1>1, <1>3, <1>4 DEF Tables
<1>7. FoundSound'
  <2>1. Touches({})
    BY <1>1, NothingTouched
  <2> QED BY <1>1, <1>3, <2>1, ApplyFound
<1>8. ApartSound'
  BY <1>1, <1>3, <1>4, <1>6, NextApart
<1>9. Safe' = Safe /\ Safe \subseteq Ids
  BY <1>1 DEF Safe
<1>10. ASSUME NEW i \in Safe, work'.rows[i] # None
       PROVE  Intact(work'.rows[i], work'.rows[i].path, fs', content')
  <2>1. CASE i = id
    <3>1. CASE fresh # None
      BY <1>1, <1>2, <1>3, <1>4, <1>5, <1>6, <2>1, <3>1 DEF ApplySound, Intact
    <3>2. CASE fresh = None
      BY <1>1, <1>2, <1>3, <1>4, <1>5, <1>6, <2>1, <1>10, <3>2 DEF ApplySound, Intact
    <3> QED BY <3>1, <3>2
  <2>2. CASE i # id
    <3>1. work'.rows[i] = work.rows[i] /\ work.rows[i] # None /\ work.rows[i].path # p
      BY <1>1, <1>6, <1>9, <1>10, <2>2 DEF PathFree
    <3>2. OthersIntact(id, p)
      BY <1>1, <1>2, <1>3, <1>4 DEF ApplySound
    <3> QED BY <1>1, <1>10, <2>2, <3>1, <3>2 DEF OthersIntact
  <2> QED BY <2>1, <2>2
<1>11. AllIntact(work'.rows, Safe', fs', content')
  BY <1>9, <1>10 DEF AllIntact
<1> QED BY <1>1, <1>7, <1>8, <1>11, BetweenDamage

\* An exception: what it takes to go back is still there.
LEMMA RaiseDamage ==
    ASSUME FoundSound, Applying, pc' = "undo",
           UNCHANGED <<catalog, fs, content, writer, ops>>,
           UNCHANGED <<undo_stack, undo_failed, interrupted>>, before'.fs = before.fs
    PROVE  DamageSound'
<1>1. /\ TheirPaths' = TheirPaths /\ BatchIds' = BatchIds /\ Safe' = Safe
      /\ \A rec : Avoids(rec)' <=> Avoids(rec)
  BY DEF TheirPaths, BatchIds, Safe, Strangers, Avoids
<1>2. Uncommitted
  BY DEF Applying, Uncommitted
<1>3. FoundSound'
  <2>1. /\ AllIntact(catalog.rows, Safe, before.fs, content)
        /\ AllIntact(catalog.rows, Safe \ BatchIds, fs, content)
        /\ undo_failed => BatchIds \subseteq interrupted
        /\ \A i \in 1..Len(undo_stack) : Avoids(undo_stack[i])
    BY <1>2 DEF FoundSound
  <2>2. \A i \in 1..Len(undo_stack') : Avoids(undo_stack[i])'
    BY <1>1, <2>1 DEF Avoids
  <2> QED BY <1>1, <2>1, <2>2 DEF FoundSound, Applying
<1>4. ApartSound' /\ ApplySound' /\ MovingSound'
  BY DEF ApartSound, ApplySound, MovingSound, Applying, Moving
<1> QED BY <1>3, <1>4 DEF DamageSound

\* The steps of _put.
LEMMA PutDamage ==
    ASSUME JournalSound, CatalogSound, DamageSound,
           NEW k \in Keys, NEW p \in Paths, NEW h \in Hashes, PutStep(k, p, h)
    PROVE  DamageSound'
<1>1. CASE PutRaises(k, p, h)
  <2>1. Raise /\ Applying /\ FoundSound
    BY <1>1 DEF PutRaises, Applying, DamageSound
  <2> QED BY <2>1, RaiseDamage DEF Raise, journal
<1> QED BY <1>1, PutUnchangedDamage, PutObjectDamage, PutTreeDamage, PutOldPathDamage,
           PutRowDamage DEF PutStep

\* The steps of _delete.
LEMMA DeleteDamage ==
    ASSUME JournalSound, CatalogSound, DamageSound, NEW k \in Keys, DeleteStep(k)
    PROVE  DamageSound'
<1> DEFINE id == <<writer, k>>
<1>1. Head(todo) = DeleteOp(k) => Head(todo).key = k
  BY DEF DeleteOp
<1>2. FoundSound /\ ApartSound /\ ApplySound /\ work \in Tables /\ id \in Ids
  BY CatalogTypes DEF DamageSound
<1>3. CASE DeleteUnknown(k)
  <2>1. /\ pc = "next" /\ pc' = "next" /\ todo # <<>> /\ todo' = Tail(todo)
        /\ UNCHANGED <<catalog, work, fs, content, writer, ops>>
        /\ UNCHANGED <<undo_stack, undo_failed, before, interrupted>>
    BY <1>3 DEF DeleteUnknown, data, journal
  <2>2. Applying /\ Applying' /\ Touches({})
    BY <2>1, NothingTouched DEF Applying
  <2>3. FoundSound'
    BY <1>2, <2>1, <2>2, ApplyFound
  <2>4. ApartSound'
    BY <1>2, <2>1, <2>2, NextApart
  <2>5. AllIntact(work'.rows, Safe', fs', content')
    BY <1>2, <2>1 DEF ApplySound, AllIntact, Safe
  <2> QED BY <2>1, <2>3, <2>4, <2>5, BetweenDamage
<1>4. CASE DeleteTree(k)
  <2> DEFINE path == work.rows[id].path
  <2>1. /\ pc = "next" /\ pc' = "delete_row" /\ todo # <<>> /\ Head(todo) = DeleteOp(k)
        /\ work.rows[id] # None /\ path \in Authorized[writer] /\ RemoveTreeEntry(path, None)
        /\ UNCHANGED <<catalog, work, content, writer, ops, todo, moves>>
    BY <1>4 DEF DeleteTree
  <2>2. Applying /\ Applying' /\ pc # "plan" /\ Placed(work.rows)
    BY <2>1 DEF Applying, CatalogSound, RowsSound
  <2>3. Current = id /\ id \in BatchIds
    BY <1>1, <1>2, <2>1, <2>2, HeadWithin DEF Current
  <2>4. path \notin TheirPaths /\ path \in Paths
    BY <1>2, <2>1, <2>2, <2>3, OwnPath, CatalogTypes, ReachFacts
  <2> HIDE DEF id, path
  <2>5. Touches({path}) /\ {path} \cap TheirPaths = {}
    BY <2>1, <2>4, RemoveTouches
  <2>6. FoundSound'
    BY <1>2, <2>1, <2>2, <2>5, ApplyFound
  <2>7. ApartSound'
    BY <1>2, <2>1, <2>2, SameApart DEF Moving
  <2>8. AllIntact(work.rows, Safe, fs, content) /\ Safe' = Safe /\ Safe \subseteq Ids
    BY <1>2, <2>1, <2>5 DEF ApplySound, Safe, Touches
  <2>9. ASSUME NEW i \in Safe \ {id}, work.rows[i] # None
        PROVE  Intact(work'.rows[i], work'.rows[i].path, fs', content')
    <3>1. i \in Ids /\ Intact(work.rows[i], work.rows[i].path, fs, content)
      BY <2>8, <2>9 DEF AllIntact
    <3>2. work.rows[i].path \notin {path}
      BY <1>2, <2>1, <2>2, <2>9, <3>1 DEF Placed, PathFree, path
    <3> QED BY <2>1, <2>5, <2>9, <3>1, <3>2, OtherKept
  <2>10. Current' = id /\ work' = work
    BY <2>1, <2>3 DEF Current
  <2>11. ApplySound'
    <3>1. AllIntact(work'.rows, Safe' \ {Current'}, fs', content')
      BY <2>8, <2>9, <2>10 DEF AllIntact
    <3> QED BY <2>1, <3>1 DEF ApplySound
  <2>12. MovingSound'
    BY <2>1 DEF MovingSound, Moving
  <2> QED BY <2>6, <2>7, <2>11, <2>12 DEF DamageSound
<1>5. CASE DeleteRow(k)
  <2>1. /\ pc = "delete_row" /\ pc' = "next" /\ Head(todo) = DeleteOp(k) /\ todo' = Tail(todo)
        /\ work' = [work EXCEPT !.rows[id] = None]
        /\ UNCHANGED <<catalog, fs, content, writer, ops>>
        /\ UNCHANGED <<undo_stack, undo_failed, before, interrupted>>
    BY <1>5 DEF DeleteRow, journal
  <2>2. Applying /\ Applying' /\ Touches({}) /\ todo # <<>>
    BY <2>1, NothingTouched DEF Applying, CatalogSound, PlanSound
  <2>3. Current = id
    BY <1>1, <2>1 DEF Current
  <2>4. work'.rows[id] = None /\ \A i \in Ids : i # id => work'.rows[i] = work.rows[i]
    BY <1>2, <2>1 DEF Tables
  <2> HIDE DEF id
  <2>5. FoundSound'
    BY <1>2, <2>1, <2>2, ApplyFound
  <2>6. ApartSound'
    BY <1>2, <2>1, <2>2, <2>3, <2>4, NextApart
  <2>7. AllIntact(work.rows, Safe \ {id}, fs, content) /\ Safe' = Safe /\ Safe \subseteq Ids
    BY <1>2, <2>1, <2>3 DEF ApplySound, Safe
  <2>8. AllIntact(work'.rows, Safe', fs', content')
    BY <2>1, <2>4, <2>7 DEF AllIntact
  <2> QED BY <2>1, <2>5, <2>6, <2>8, BetweenDamage
<1> QED BY <1>3, <1>4, <1>5 DEF DeleteStep

\* _decision writes no document.
LEMMA DecisionDamage ==
    ASSUME JournalSound, CatalogSound, DamageSound, NEW k \in Keys, NEW p, Decision(k, p)
    PROVE  DamageSound'
<1>1. /\ pc = "next" /\ pc' = "next" /\ todo # <<>> /\ todo' = Tail(todo)
      /\ UNCHANGED <<catalog, fs, content, writer, ops>>
      /\ UNCHANGED <<undo_stack, undo_failed, before, interrupted>>
      /\ work' = [work EXCEPT !.decided = @ \cup {<<writer, k>>}]
  BY DEF Decision, journal
<1>2. FoundSound /\ ApartSound /\ ApplySound /\ work \in Tables
  BY CatalogTypes DEF DamageSound
<1>3. work'.rows = work.rows
  BY <1>1, <1>2 DEF Tables
<1>4. Applying /\ Applying' /\ Touches({})
  BY <1>1, NothingTouched DEF Applying
<1>5. FoundSound'
  BY <1>1, <1>2, <1>4, ApplyFound
<1>6. ApartSound'
  BY <1>1, <1>2, <1>3, <1>4, NextApart
<1>7. AllIntact(work'.rows, Safe', fs', content')
  BY <1>1, <1>2, <1>3 DEF ApplySound, AllIntact, Safe
<1> QED BY <1>1, <1>5, <1>6, <1>7, BetweenDamage

-----------------------------------------------------------------------------
(***************************************************************************)
(* DamageSound is inductive: _move_batch.                                  *)
(***************************************************************************)

\* What is left of a list after its first operations.
LEMMA RestInTurn ==
    ASSUME NEW X, NEW s \in Seq(X), NEW m \in Nat, NEW R, InTurn(R, s)
    PROVE  LET rest == SubSeq(s, m + 1, Len(s))
           IN  ToSet(rest) \subseteq ToSet(s) /\ InTurn(R, rest)
<1> DEFINE rest == SubSeq(s, m + 1, Len(s))
<1>1. /\ rest \in Seq(X) /\ Len(s) \in Nat /\ Len(rest) \in Nat
      /\ \A i \in 1..Len(rest) : rest[i] = s[m + i] /\ m + i \in 1..Len(s)
  OBVIOUS
<1> HIDE DEF rest
<1>2. ToSet(rest) \subseteq ToSet(s)
  BY <1>1 DEF ToSet
<1>3. ASSUME NEW i \in 1..Len(rest), NEW j \in 1..Len(rest), i < j
      PROVE  <<rest[i], rest[j]>> \in R
  <2>1. m + i < m + j
    BY <1>1, <1>3
  <2> QED BY <1>1, <2>1 DEF InTurn
<1>4. InTurn(R, rest)
  BY <1>3 DEF InTurn
<1> QED BY <1>2, <1>4 DEF rest

\* The run of moves is taken off the plan.
LEMMA MoveBeginDamage ==
    ASSUME JournalSound, CatalogSound, DamageSound, MoveBegin
    PROVE  DamageSound'
<1> DEFINE starts == [i \in DOMAIN MovesAhead |-> MovePath(MovesAhead[i].key)]
<1>1. /\ pc = "next" /\ pc' = "breaks" /\ moves' = MovesAhead
      /\ todo' = SubSeq(todo, Len(MovesAhead) + 1, Len(todo))
      /\ temp' = [p \in Paths |-> None]
      /\ breaks' = MoveCycleBreaks(MoveTargets, starts)
      /\ from' = [k \in Keys |-> IF \E op \in ToSet(MovesAhead) : op.key = k
                                 THEN MovePath(k) ELSE None]
      /\ \A op \in ToSet(MovesAhead) : ValidMove(op)
      /\ UNCHANGED <<catalog, work, fs, content, writer, ops>>
      /\ UNCHANGED <<undo_stack, undo_failed, before, interrupted>>
  BY DEF MoveBegin, MoveTargets, MovePath, data, journal
<1>2. /\ MovesAhead \in Seq(Operation)
      /\ ToSet(MovesAhead) = {op \in ToSet(todo) : op.kind = "move"}
      /\ \A op \in ToSet(MovesAhead) :
             op \in Operation /\ op.kind = "move" /\ MovePath(op.key) \in Authorized[writer]
      /\ breaks' \in Seq({MovePath(op.key) : op \in ToSet(MovesAhead)})
      /\ todo \in Seq(Operation)
  <2> HIDE DEF starts
  <2> QED BY <1>1, MovesAheadFacts DEF CatalogSound, PlanSound, starts
<1> HIDE DEF starts
<1>3. /\ FoundSound /\ ApartSound /\ ApplySound /\ Applying /\ Applying' /\ pc # "plan"
      /\ work \in Tables /\ Placed(work.rows) /\ writer \in Writers
  BY <1>1, CatalogTypes DEF DamageSound, Applying, CatalogSound, RowsSound
<1>4. FoundSound'
  <2>1. Touches({})
    BY <1>1, NothingTouched
  <2> QED BY <1>1, <1>3, <2>1, ApplyFound
<1>5. ApartSound'
  <2>1. Strangers' = Strangers /\ \A op : Within(op)' <=> Within(op)
    BY <1>1 DEF TheirPaths, BatchIds, Strangers, Within
  <2>2. InTurn(OtherSource, todo) /\ \A op \in ToSet(todo) : Within(op)
    BY <1>3 DEF ApartSound
  <2>3. /\ ToSet(todo') \subseteq ToSet(todo) /\ InTurn(OtherSource, todo')
    <3>1. Len(MovesAhead) \in Nat
      BY <1>2
    <3> QED BY <1>1, <1>2, <2>2, <3>1, RestInTurn
  <2>4. InTurn(OtherSource, moves')
    BY <1>1, <1>2, <2>2, KeepingInTurn DEF MovesAhead, OfKind
  <2>5. \A op \in ToSet(todo') : Within(op)'
    BY <2>1, <2>2, <2>3
  <2>6. \A op \in ToSet(moves') : Within(op)' /\ op.kind = "move"
    BY <1>1, <1>2, <2>1, <2>2
  <2>7. \A id \in Strangers' : work'.rows[id] = catalog'.rows[id]
    BY <1>1, <1>3, <2>1 DEF ApartSound
  <2> QED BY <2>3, <2>4, <2>5, <2>6, <2>7 DEF ApartSound, InTurn
<1>6. ApplySound'
  BY <1>1 DEF ApplySound
<1>7. \A op \in ToSet(moves') : op.key \in Keys /\ from'[op.key] = MovePath(op.key)
                                /\ from'[op.key] # None
  <2>1. \A op \in ToSet(MovesAhead) : op.key \in Keys
    BY <1>2 DEF Operation
  <2>2. None \notin Authorized[writer]
    BY <1>3, ReachFacts DEF Reach
  <2> QED BY <1>1, <1>2, <2>1, <2>2
<1>8. Safe' = Safe /\ Safe \subseteq Ids /\ AllIntact(work.rows, Safe, fs, content)
  BY <1>1, <1>3 DEF Safe, ApplySound
<1>9. ASSUME NEW id \in Safe, work.rows[id] # None
      PROVE  Intact(work'.rows[id], Place(work.rows[id])', fs', content')
  <2>1. work.rows[id].path \in Paths
    BY <1>3, <1>8, <1>9, GrantsAssumption DEF Placed, Ids
  <2>2. Place(work.rows[id])' = work.rows[id].path
    BY <1>1, <2>1 DEF Place
  <2> QED BY <1>1, <1>8, <1>9, <2>2 DEF AllIntact
<1>10. ASSUME NEW p \in ToSet(breaks') PROVE \E k \in Keys : from'[k] = p
  <2> DEFINE D == {MovePath(op.key) : op \in ToSet(MovesAhead)}
  <2>1. breaks' \in Seq(D)
    BY <1>2
  <2> HIDE DEF D
  <2>2. p \in D
    BY <2>1 DEF ToSet
  <2> QED BY <1>1, <1>7, <2>2 DEF D
<1>11. MovingSound'
  BY <1>1, <1>7, <1>8, <1>9, <1>10 DEF MovingSound, Moving
<1> QED BY <1>4, <1>5, <1>6, <1>11 DEF DamageSound

\* Parking the file of a move that is to come.
LEMMA BreakCycleDamage ==
    ASSUME JournalSound, CatalogSound, DamageSound, NEW p \in Paths, BreakCycle(p)
    PROVE  DamageSound'
<1>1. /\ pc = "breaks" /\ pc' = "breaks" /\ breaks # <<>> /\ Head(breaks) = p
      /\ breaks' = Tail(breaks)
      /\ UNCHANGED <<catalog, work, content, writer, ops, todo, moves, from>>
  BY DEF BreakCycle
<1>2. /\ FoundSound /\ ApartSound /\ MovingSound /\ Applying /\ Applying' /\ pc # "plan"
      /\ ParkingSound /\ work \in Tables /\ Placed(work.rows) /\ writer \in Writers
      /\ temp \in [Paths -> UndoNames \cup {None}] /\ None \notin UndoNames /\ fs \in Files
  BY <1>1, CatalogTypes DEF DamageSound, Applying, CatalogSound, RowsSound
<1>3. /\ breaks \in Seq(Authorized[writer])
      /\ ToSet(breaks) = {p} \cup ToSet(breaks')
  BY <1>1, <1>2, TailHolds DEF ParkingSound
<1>4. PICK k \in Keys : from[k] = p
  BY <1>1, <1>2, <1>3 DEF MovingSound
<1>5. p \notin TheirPaths
  <2>1. from[k] # None
    BY <1>4, CatalogTypes
  <2>2. /\ work.rows[<<writer, k>>].path = p
        /\ \E op \in ToSet(moves) : op.key = k
    BY <1>1, <1>2, <1>4, <2>1 DEF ParkingSound
  <2>3. <<writer, k>> \in BatchIds /\ <<writer, k>> \in Ids
    BY <1>1, <1>2, <2>2, CatalogTypes DEF ApartSound, Moving, Within
  <2>4. work.rows[<<writer, k>>] # None
    BY <1>1, <2>1 DEF JournalSound, LocalsSound
  <2> QED BY <1>2, <2>2, <2>3, <2>4, OwnPath
<1>6. ApartSound'
  BY <1>1, <1>2, SameApart DEF Moving
<1>7. ApplySound'
  BY <1>1 DEF ApplySound
<1>8. \A op \in ToSet(moves') : from'[op.key] # None
  BY <1>1, <1>2 DEF MovingSound, Moving
<1>9. \A q \in ToSet(breaks') : \E j \in Keys : from'[j] = q
  BY <1>1, <1>2, <1>3 DEF MovingSound
<1>10. CASE fs[p] = None
  <2>1. UNCHANGED <<fs, undo_stack, undo_failed, before, interrupted, temp>>
    BY <1>10 DEF BreakCycle, journal
  <2>2. FoundSound'
    <3>1. Touches({})
      BY <2>1, NothingTouched
    <3> QED BY <1>1, <1>2, <3>1, ApplyFound
  <2>3. Safe' = Safe /\ \A row : Place(row)' = Place(row)
    BY <2>1 DEF Safe, Place
  <2>4. /\ \A id \in Safe : work.rows[id] # None =>
               Intact(work.rows[id], Place(work.rows[id]), fs, content)
        /\ \A q \in Paths : temp[q] # None => fs[q] = None /\ \E j \in Keys : from[j] = q
    BY <1>1, <1>2 DEF MovingSound
  <2>5. MovingSound'
    BY <1>1, <1>8, <1>9, <2>1, <2>3, <2>4 DEF MovingSound, Moving, Place
  <2> QED BY <1>6, <1>7, <2>2, <2>5 DEF DamageSound
<1>11. CASE fs[p] # None
  <2> DEFINE u == JournalName(fs)
  <2>1. RenameTreeFile(p, u) /\ temp' = [temp EXCEPT ![p] = u]
    BY <1>11 DEF BreakCycle
  <2>2. /\ u \in UndoNames /\ fs[u] = None /\ u # p /\ fs[p] # None
        /\ \A l \in Locations : l # u /\ l # p => fs'[l] = fs[l]
        /\ fs'[u] = fs[p] /\ fs'[p] = None
    BY <2>1, ParkFacts
  <2> HIDE DEF u
  <2>3. Touches({p, u})
    <3>1. p \in Locations /\ u \in Locations
      BY <2>2 DEF Locations
    <3> QED BY <2>1, <2>2, <3>1, RenameTouches
  <2>4. FoundSound'
    <3>1. {p, u} \cap TheirPaths = {}
      BY <1>5, <2>2, TheirFacts, StoreAssumption
    <3> QED BY <1>1, <1>2, <2>3, <3>1, ApplyFound
  <2>5. temp'[p] = u /\ \A q \in Paths : q # p => temp'[q] = temp[q]
    BY <1>2, <2>1
  <2>6. Safe' = Safe /\ Safe \subseteq Ids
    BY <2>3 DEF Touches, Safe
  <2>7. ASSUME NEW id \in Safe, work.rows[id] # None
        PROVE  Intact(work.rows[id], Place(work.rows[id])', fs', content')
    <3> DEFINE q == work.rows[id].path
    <3>1. q \in Paths /\ q \in Locations
      BY <1>2, <2>6, <2>7, GrantsAssumption DEF Placed, Ids, Locations
    <3>2. Intact(work.rows[id], Place(work.rows[id]), fs, content)
      BY <1>1, <1>2, <2>7 DEF MovingSound
    <3>3. work.rows[id].obj # None
      BY <1>2, <2>6, <2>7, RowFacts
    <3>4. CASE q = p
      <4>1. temp[p] = None
        BY <1>1, <1>2, <2>2 DEF MovingSound
      <4>2. Place(work.rows[id]) = p /\ Place(work.rows[id])' = u
        BY <1>1, <1>2, <2>2, <2>5, <3>4, <4>1 DEF Place
      <4> QED BY <1>1, <2>2, <3>2, <4>2 DEF Intact
    <3>5. CASE q # p
      <4> DEFINE l == Place(work.rows[id])
      <4>1. Place(work.rows[id])' = l
        BY <1>1, <2>5, <3>1, <3>5 DEF Place
      <4>2. l \in Locations /\ l # p
        BY <1>2, <3>1, <3>5, StoreAssumption DEF Place, Locations
      <4>3. l # u
        BY <2>2, <3>2, <3>3 DEF Intact
      <4> HIDE DEF l
      <4> QED BY <1>1, <2>2, <3>2, <4>1, <4>2, <4>3 DEF Intact, l
    <3> QED BY <3>4, <3>5
  <2>8. ASSUME NEW q \in Paths, temp'[q] # None
        PROVE  fs'[q] = None /\ \E j \in Keys : from'[j] = q
    <3>1. CASE q = p
      BY <1>1, <1>4, <2>2, <3>1
    <3>2. CASE q # p
      <4>1. temp[q] # None /\ q \in Locations /\ q # u
        BY <2>2, <2>5, <2>8, <3>2, StoreAssumption DEF Locations
      <4>2. fs[q] = None /\ \E j \in Keys : from[j] = q
        BY <1>1, <1>2, <4>1 DEF MovingSound
      <4> QED BY <1>1, <2>2, <3>2, <4>1, <4>2
    <3> QED BY <3>1, <3>2
  <2>9. \A id \in Safe' : work'.rows[id] # None =>
            Intact(work'.rows[id], Place(work.rows[id])', fs', content')
    BY <1>1, <2>6, <2>7
  <2>10. MovingSound'
    BY <1>1, <1>8, <1>9, <2>8, <2>9 DEF MovingSound, Moving
  <2> QED BY <1>6, <1>7, <2>4, <2>10 DEF DamageSound
<1> QED BY <1>10, <1>11

\* The row of a parked file gets the name it was parked under.
LEMMA RekeyDamage ==
    ASSUME JournalSound, CatalogSound, DamageSound, RekeyParked
    PROVE  DamageSound'
<1> DEFINE parked(id) == id[1] = writer /\ from[id[2]] # None /\ temp[from[id[2]]] # None
<1>1. /\ pc = "breaks" /\ pc' = "moves"
      /\ work' = [work EXCEPT !.rows =
                     [id \in Ids |-> IF parked(id)
                                     THEN [work.rows[id] EXCEPT !.path = temp[from[id[2]]]]
                                     ELSE work.rows[id]]]
      /\ UNCHANGED <<catalog, fs, content, writer, ops, todo, moves, from, temp>>
      /\ UNCHANGED <<undo_stack, undo_failed, before, interrupted>>
  BY DEF RekeyParked, journal
<1>2. /\ FoundSound /\ ApartSound /\ MovingSound /\ Applying /\ Applying' /\ pc # "plan"
      /\ ParkingSound /\ work \in Tables /\ Placed(work.rows) /\ writer \in Writers
  BY <1>1, CatalogTypes DEF DamageSound, Applying, CatalogSound, RowsSound
<1>3. \A id \in Ids : work'.rows[id] =
          IF parked(id) THEN [work.rows[id] EXCEPT !.path = temp[from[id[2]]]] ELSE work.rows[id]
  BY <1>1, <1>2 DEF Tables
<1>4. \A id \in Ids : id = <<id[1], id[2]>> /\ id[1] \in Writers /\ id[2] \in Keys
  BY DEF Ids
<1>5. ASSUME NEW id \in Ids, parked(id)
      PROVE  /\ work.rows[id] # None /\ work.rows[id].path = from[id[2]]
             /\ from[id[2]] \in Paths /\ id \in BatchIds
             /\ work'.rows[id].path = temp[from[id[2]]]
             /\ work'.rows[id].obj = work.rows[id].obj /\ work'.rows[id].hash = work.rows[id].hash
  <2>1. id[2] \in Keys /\ id = <<writer, id[2]>> /\ from[id[2]] # None
    BY <1>4, <1>5
  <2>2. work.rows[id] # None
    BY <1>1, <2>1 DEF JournalSound, LocalsSound
  <2>3. work.rows[id].path = from[id[2]] /\ \E op \in ToSet(moves) : op.key = id[2]
    BY <1>1, <1>2, <2>1 DEF ParkingSound
  <2>4. id \in BatchIds
    BY <1>1, <1>2, <2>1, <2>3 DEF ApartSound, Moving, Within
  <2>5. from[id[2]] \in Paths
    BY <2>1, CatalogTypes
  <2>6. work.rows[id] \in Row
    BY <1>2, <2>2 DEF Tables
  <2>7. work'.rows[id] = [work.rows[id] EXCEPT !.path = temp[from[id[2]]]]
    BY <1>3, <1>5
  <2> HIDE DEF parked
  <2> QED BY <2>2, <2>3, <2>4, <2>5, <2>6, <2>7 DEF Row
<1>6. ASSUME NEW id \in Ids, ~parked(id) PROVE work'.rows[id] = work.rows[id]
  BY <1>3, <1>6
<1>7. FoundSound'
  <2>1. Touches({})
    BY <1>1, NothingTouched
  <2> QED BY <1>1, <1>2, <2>1, ApplyFound
<1>8. ApartSound'
  <2>1. Strangers' = Strangers /\ \A op : Within(op)' <=> Within(op)
    BY <1>1 DEF TheirPaths, BatchIds, Strangers, Within
  <2>2. \A id \in Strangers : work'.rows[id] = work.rows[id]
    <3> HIDE DEF parked
    <3> QED BY <1>5, <1>6 DEF Strangers
  <2>3. /\ \A op \in ToSet(todo') : Within(op)'
        /\ InTurn(OtherSource, todo)'
        /\ \A id \in Strangers' : work'.rows[id] = catalog'.rows[id]
    BY <1>1, <1>2, <2>1, <2>2 DEF ApartSound, InTurn
  <2>4. /\ \A op \in ToSet(moves') : Within(op)' /\ op.kind = "move"
        /\ InTurn(OtherSource, moves)'
    BY <1>1, <1>2, <2>1 DEF ApartSound, InTurn, Moving
  <2> QED BY <2>3, <2>4 DEF ApartSound
<1>9. ApplySound'
  BY <1>1 DEF ApplySound
<1>10. Safe' = Safe /\ Safe \subseteq Ids
  BY <1>1 DEF Safe
<1>11. ASSUME NEW id \in Safe, work'.rows[id] # None
       PROVE  Intact(work'.rows[id], work'.rows[id].path, fs', content')
  <2>1. id \in Ids
    BY <1>10
  <2>2. CASE parked(id)
    <3>1. Intact(work.rows[id], Place(work.rows[id]), fs, content)
      BY <1>1, <1>2, <1>5, <2>1, <2>2 DEF MovingSound
    <3>2. Place(work.rows[id]) = work'.rows[id].path
      BY <1>5, <2>1, <2>2 DEF Place
    <3> HIDE DEF parked
    <3> QED BY <1>1, <1>5, <2>1, <2>2, <3>1, <3>2 DEF Intact
  <2>3. CASE ~parked(id)
    <3>1. work'.rows[id] = work.rows[id] /\ work.rows[id] # None
      BY <1>6, <1>11, <2>1, <2>3
    <3>2. Intact(work.rows[id], Place(work.rows[id]), fs, content)
      BY <1>1, <1>2, <3>1 DEF MovingSound
    <3>3. work.rows[id].path \in Paths /\ PathFree(work.rows, id, work.rows[id].path)
      BY <1>2, <2>1, <3>1, GrantsAssumption DEF Placed, Ids
    <3>4. temp[work.rows[id].path] = None
      <4> SUFFICES ASSUME temp[work.rows[id].path] # None PROVE FALSE
        OBVIOUS
      <4>1. PICK k \in Keys : from[k] = work.rows[id].path
        BY <1>1, <1>2, <3>3 DEF MovingSound
      <4>2. from[k] # None
        BY <3>3, <4>1, CatalogTypes
      <4>3. /\ work.rows[<<writer, k>>].path = from[k] /\ work.rows[<<writer, k>>] # None
            /\ <<writer, k>> \in Ids
        BY <1>1, <1>2, <4>2, CatalogTypes DEF ParkingSound, JournalSound, LocalsSound
      <4>4. id = <<writer, k>>
        BY <3>3, <4>1, <4>3 DEF PathFree
      <4> QED BY <2>3, <4>1, <4>2, <4>4
    <3>5. Place(work.rows[id]) = work.rows[id].path
      BY <3>4 DEF Place
    <3> QED BY <1>1, <3>1, <3>2, <3>5 DEF Intact
  <2> QED BY <2>2, <2>3
<1>12. ASSUME NEW op \in ToSet(moves)
       PROVE  from[op.key] # None /\ work'.rows[<<writer, op.key>>].path = MoveSource(op.key)
  <2>1. op.key \in Keys
    <3>1. moves \in Seq(Operation)
      BY DEF CatalogSound, PlanSound
    <3>2. op \in Operation
      BY <3>1 DEF ToSet
    <3> QED BY <3>2 DEF Operation
  <2>2. from[op.key] # None
    BY <1>1, <1>2 DEF MovingSound, Moving
  <2>3. <<writer, op.key>> \in Ids /\ work.rows[<<writer, op.key>>].path = from[op.key]
    BY <1>1, <1>2, <2>1, <2>2, CatalogTypes DEF ParkingSound
  <2>4. parked(<<writer, op.key>>) <=> temp[from[op.key]] # None
    BY <2>2
  <2>5. CASE temp[from[op.key]] # None
    <3>1. work'.rows[<<writer, op.key>>].path = temp[from[op.key]]
      BY <1>5, <2>3, <2>4, <2>5
    <3> QED BY <2>2, <2>5, <3>1 DEF MoveSource
  <2>6. CASE temp[from[op.key]] = None
    BY <1>6, <2>2, <2>3, <2>4, <2>6 DEF MoveSource
  <2> QED BY <2>5, <2>6
<1>13. MovingSound'
  <2>1. \A op \in ToSet(ToCome') : work'.rows[<<writer', op.key>>].path = MoveSource(op.key)'
    BY <1>1, <1>12 DEF ToCome, MoveSource
  <2>2. \A op \in ToSet(moves') : from'[op.key] # None
    BY <1>1, <1>12
  <2>3. AllIntact(work'.rows, Safe', fs', content')
    BY <1>10, <1>11 DEF AllIntact
  <2> QED BY <1>1, <2>1, <2>2, <2>3 DEF MovingSound
<1> QED BY <1>7, <1>8, <1>9, <1>13 DEF DamageSound

\* The move that is next, or running.
LEMMA MoveWithin ==
    ASSUME JournalSound, CatalogSound, ApartSound, MovingSound,
           pc \in {"moves", "move_row"}, moves # <<>>
    PROVE  /\ moves \in Seq(Operation) /\ ToSet(moves) = {Head(moves)} \cup ToSet(Tail(moves))
           /\ Head(moves).key \in Keys /\ <<writer, Head(moves).key>> \in BatchIds
           /\ <<writer, Head(moves).key>> \in Ids
           /\ Head(moves).path \notin TheirPaths /\ from[Head(moves).key] # None
           /\ work.rows[<<writer, Head(moves).key>>] # None
<1>1. moves \in Seq(Operation)
  BY DEF CatalogSound, PlanSound
<1>2. /\ ToSet(moves) = {Head(moves)} \cup ToSet(Tail(moves)) /\ Head(moves) \in Operation
  BY <1>1, TailHolds
<1>3. Head(moves).key \in Keys
  BY <1>2 DEF Operation
<1>4. Within(Head(moves)) /\ Head(moves).kind = "move" /\ from[Head(moves).key] # None
  BY <1>2 DEF ApartSound, MovingSound, Moving
<1>5. work.rows[<<writer, Head(moves).key>>] # None
  BY <1>3, <1>4 DEF JournalSound, LocalsSound
<1> QED BY <1>1, <1>2, <1>3, <1>4, <1>5, CatalogTypes DEF Within

\* The rename of one move: from where its row says, to a path that is not that.
LEMMA MoveFileDamage ==
    ASSUME JournalSound, CatalogSound, AheadSound, DamageSound,
           NEW k \in Keys, NEW p \in Paths, NEW h \in Hashes, MoveFile(k, p, h)
    PROVE  DamageSound'
<1> DEFINE id == <<writer, k>>
           src == MoveSource(k)
           T == {src, p}
<1>1. /\ pc = "moves" /\ pc' = "move_row" /\ moves # <<>> /\ Head(moves) = MoveOp(k, p, h)
      /\ IF from[k] = p \/ fs[src] = None THEN UNCHANGED <<fs, journal>>
         ELSE RenameTreeFile(src, p)
      /\ UNCHANGED <<catalog, work, content, writer, ops, todo, moves, from, temp>>
  BY DEF MoveFile
<1>2. Head(moves).key = k /\ Head(moves).path = p
  BY <1>1 DEF MoveOp
<1>3. /\ FoundSound /\ ApartSound /\ MovingSound /\ Applying /\ Applying' /\ pc # "plan"
      /\ work \in Tables /\ PlacedOrParked(work.rows, writer, moves)
      /\ temp \in [Paths -> UndoNames \cup {None}]
  BY <1>1, CatalogTypes DEF DamageSound, Applying, CatalogSound, RowsSound
<1>4. /\ id \in Ids /\ id \in BatchIds /\ p \notin TheirPaths /\ work.rows[id] # None
      /\ ToSet(moves) = {Head(moves)} \cup ToSet(Tail(moves)) /\ from[k] # None
  BY <1>1, <1>2, <1>3, MoveWithin
<1>5. from[k] # p
  BY <1>1, <1>2, <1>4 DEF AheadSound, Moving
<1>6. work.rows[id].path = src
  BY <1>1, <1>2, <1>3, <1>4 DEF MovingSound, ToCome
<1>7. src # p /\ src \in Locations /\ p \in Locations /\ src \notin TheirPaths
  <2>1. src \in Locations /\ src \notin TheirPaths
    BY <1>3, <1>4, <1>6, OwnPath, RowFacts
  <2>2. src # p
    BY <1>3, <1>4, <1>5, CatalogTypes, StoreAssumption DEF MoveSource
  <2> QED BY <2>1, <2>2 DEF Locations
<1> HIDE DEF id, src
<1>8. Touches(T) /\ (fs[src] # None => fs'[p] = fs[src])
  <2>1. CASE fs[src] = None
    <3>1. UNCHANGED <<fs, undo_stack, undo_failed, before, interrupted>>
      BY <1>1, <2>1 DEF journal
    <3> QED BY <2>1, <3>1, NothingTouched
  <2>2. CASE fs[src] # None
    BY <1>1, <1>5, <1>7, <2>2, RenameTouches
  <2> QED BY <2>1, <2>2
<1>9. FoundSound'
  <2>1. T \cap TheirPaths = {}
    BY <1>4, <1>7
  <2> HIDE DEF T
  <2> QED BY <1>1, <1>3, <1>8, <2>1, ApplyFound
<1>10. ApartSound'
  BY <1>1, <1>3, SameApart DEF Moving
<1>11. ApplySound'
  BY <1>1 DEF ApplySound
<1>12. Safe' = Safe /\ Safe \subseteq Ids /\ AllIntact(work.rows, Safe, fs, content)
  BY <1>1, <1>3, <1>8 DEF Safe, Touches, MovingSound
<1>13. ASSUME NEW i \in Safe \ {id}, work.rows[i] # None, work.rows[i].path # p
       PROVE  Intact(work'.rows[i], work'.rows[i].path, fs', content')
  <2>1. i \in Ids /\ Intact(work.rows[i], work.rows[i].path, fs, content)
    BY <1>12, <1>13 DEF AllIntact
  <2>2. work.rows[i].path \notin T
    BY <1>3, <1>4, <1>6, <1>13, <2>1 DEF PlacedOrParked, PathFree
  <2> HIDE DEF T
  <2> QED BY <1>1, <1>8, <1>13, <2>1, <2>2, OtherKept
<1>14. id \in Safe => Intact(work.rows[id], p, fs', content')
  <2>1. work.rows[id].obj # None
    BY <1>3, <1>4, RowFacts
  <2> QED BY <1>1, <1>4, <1>6, <1>8, <1>12, <2>1 DEF AllIntact, Intact
<1>15. MovingSound'
  <2>1. <<writer', Head(moves').key>> = id /\ Head(moves').path = p /\ work' = work
    BY <1>1, <1>2 DEF id
  <2>2. OthersIntact(<<writer, Head(moves).key>>, Head(moves).path)'
    BY <1>12, <1>13, <2>1 DEF OthersIntact
  <2>3. \A op \in ToSet(moves') : from'[op.key] # None
    BY <1>1, <1>3 DEF MovingSound, Moving
  <2>4. \A op \in ToSet(ToCome') : work'.rows[<<writer', op.key>>].path = MoveSource(op.key)'
    <3>1. ToCome' = Tail(moves) /\ ToCome = moves
      BY <1>1 DEF ToCome
    <3>2. \A op \in ToSet(moves) : work.rows[<<writer, op.key>>].path = MoveSource(op.key)
      BY <1>1, <1>3, <3>1 DEF MovingSound
    <3> QED BY <1>1, <1>4, <3>1, <3>2 DEF MoveSource
  <2> QED BY <1>1, <1>12, <1>14, <2>1, <2>2, <2>3, <2>4 DEF MovingSound
<1> QED BY <1>9, <1>10, <1>11, <1>15 DEF DamageSound

\* The row of one move follows its file, and the rows of the other moves wait.
LEMMA MoveRowDamage ==
    ASSUME JournalSound, CatalogSound, DamageSound,
           NEW k \in Keys, NEW p \in Paths, NEW h \in Hashes, MoveRow(k, p, h)
    PROVE  DamageSound'
<1> DEFINE id == <<writer, k>>
<1>1. /\ pc = "move_row" /\ pc' = "moves" /\ Head(moves) = MoveOp(k, p, h)
      /\ moves' = Tail(moves) /\ PathFree(work.rows, id, p)
      /\ work' = [work EXCEPT !.rows[id].path = p]
      /\ UNCHANGED <<catalog, fs, content, writer, ops, todo, from, temp>>
      /\ UNCHANGED <<undo_stack, undo_failed, before, interrupted>>
  BY DEF MoveRow, journal
<1>2. Head(moves).key = k /\ Head(moves).path = p /\ Head(moves).kind = "move"
  BY <1>1 DEF MoveOp
<1>3. /\ FoundSound /\ ApartSound /\ MovingSound /\ Applying /\ Applying' /\ pc # "plan"
      /\ work \in Tables /\ moves # <<>>
  BY <1>1, CatalogTypes DEF DamageSound, Applying, CatalogSound, PlanSound
<1>4. /\ id \in Ids /\ id \in BatchIds /\ work.rows[id] # None /\ moves \in Seq(Operation)
      /\ ToSet(moves) = {Head(moves)} \cup ToSet(Tail(moves))
  BY <1>1, <1>2, <1>3, MoveWithin
<1>5. work.rows[id] \in Row
  BY <1>3, <1>4 DEF Tables
<1>6. /\ work'.rows[id] = [work.rows[id] EXCEPT !.path = p]
      /\ \A i \in Ids : i # id => work'.rows[i] = work.rows[i]
  BY <1>1, <1>3, <1>4 DEF Tables
<1>7. /\ work'.rows[id].path = p /\ work'.rows[id].obj = work.rows[id].obj
      /\ work'.rows[id].hash = work.rows[id].hash
  BY <1>5, <1>6 DEF Row
<1>8. FoundSound'
  <2>1. Touches({})
    BY <1>1, NothingTouched
  <2> QED BY <1>1, <1>3, <2>1, ApplyFound
<1>9. InTurn(OtherSource, moves')
  BY <1>1, <1>3, <1>4, TailInTurn DEF ApartSound, Moving
<1>10. ASSUME NEW op \in ToSet(moves') PROVE op.kind = "move" /\ op.key # k
  <2>1. op.kind = "move"
    BY <1>1, <1>3, <1>4 DEF ApartSound, Moving
  <2>2. Tail(moves) \in Seq(Operation) /\ Len(Tail(moves)) = Len(moves) - 1
    BY <1>3, <1>4
  <2>3. PICK i \in 1..Len(Tail(moves)) : op = Tail(moves)[i]
    BY <1>1, <2>2 DEF ToSet
  <2>4. op = moves[i + 1] /\ Head(moves) = moves[1] /\ 1 \in 1..Len(moves)
        /\ i + 1 \in 1..Len(moves) /\ 1 < i + 1
    BY <1>3, <1>4, <2>2, <2>3
  <2>5. <<Head(moves), op>> \in OtherSource
    <3>1. InTurn(OtherSource, moves)
      BY <1>1, <1>3 DEF ApartSound, Moving
    <3> QED BY <2>4, <3>1 DEF InTurn
  <2> QED BY <1>2, <2>1, <2>5 DEF OtherSource
<1> HIDE DEF id
<1>11. ApartSound'
  <2>1. Strangers' = Strangers /\ \A op : Within(op)' <=> Within(op)
    BY <1>1 DEF TheirPaths, BatchIds, Strangers, Within
  <2>2. \A i \in Strangers : work'.rows[i] = work.rows[i]
    BY <1>4, <1>6 DEF Strangers
  <2>3. /\ \A op \in ToSet(todo') : Within(op)'
        /\ InTurn(OtherSource, todo)'
        /\ \A i \in Strangers' : work'.rows[i] = catalog'.rows[i]
    BY <1>1, <1>3, <2>1, <2>2 DEF ApartSound, InTurn
  <2>4. \A op \in ToSet(moves') : Within(op)' /\ op.kind = "move"
    BY <1>1, <1>3, <1>4, <2>1 DEF ApartSound, Moving
  <2> QED BY <1>9, <2>3, <2>4 DEF ApartSound, InTurn
<1>12. ApplySound'
  BY <1>1 DEF ApplySound
<1>13. Safe' = Safe /\ Safe \subseteq Ids
  BY <1>1 DEF Safe
<1>14. /\ OthersIntact(id, p) /\ (id \in Safe => Intact(work.rows[id], p, fs, content))
  BY <1>1, <1>2, <1>3 DEF MovingSound, id
<1>15. ASSUME NEW i \in Safe, work'.rows[i] # None
       PROVE  Intact(work'.rows[i], work'.rows[i].path, fs', content')
  <2>1. CASE i = id
    BY <1>1, <1>7, <1>14, <1>15, <2>1 DEF Intact
  <2>2. CASE i # id
    <3>1. work'.rows[i] = work.rows[i] /\ work.rows[i] # None /\ work.rows[i].path # p
      BY <1>1, <1>6, <1>13, <1>15, <2>2 DEF PathFree
    <3> QED BY <1>1, <1>14, <1>15, <2>2, <3>1 DEF OthersIntact
  <2> QED BY <2>1, <2>2
<1>16. MovingSound'
  <2>1. \A op \in ToSet(moves') : from'[op.key] # None
    BY <1>1, <1>3, <1>4 DEF MovingSound, Moving
  <2>2. ASSUME NEW op \in ToSet(moves')
        PROVE  work'.rows[<<writer, op.key>>].path = MoveSource(op.key)
    <3>1. op.key \in Keys /\ <<writer, op.key>> \in Ids
      <4>1. Tail(moves) \in Seq(Operation)
        BY <1>3, <1>4
      <4>2. op \in Operation
        BY <1>1, <4>1 DEF ToSet
      <4> QED BY <4>2, CatalogTypes DEF Operation
    <3>2. <<writer, op.key>> # id
      BY <1>10 DEF id
    <3>3. work.rows[<<writer, op.key>>].path = MoveSource(op.key)
      BY <1>1, <1>3 DEF MovingSound, ToCome
    <3> QED BY <1>6, <3>1, <3>2, <3>3
  <2>3. \A op \in ToSet(ToCome') : work'.rows[<<writer', op.key>>].path = MoveSource(op.key)'
    BY <1>1, <2>2 DEF ToCome, MoveSource
  <2>4. AllIntact(work'.rows, Safe', fs', content')
    BY <1>13, <1>15 DEF AllIntact
  <2> QED BY <1>1, <2>1, <2>3, <2>4 DEF MovingSound
<1> QED BY <1>8, <1>11, <1>12, <1>16 DEF DamageSound

\* The steps of _move_batch.
LEMMA MoveDamage ==
    ASSUME JournalSound, CatalogSound, AheadSound, DamageSound, MoveStep
    PROVE  DamageSound'
<1>1. CASE MoveBatchDone
  <2>1. /\ pc = "moves" /\ pc' = "next"
        /\ UNCHANGED <<catalog, work, fs, content, writer, ops, todo, moves>>
        /\ UNCHANGED <<undo_stack, undo_failed, before, interrupted>>
    BY <1>1 DEF MoveBatchDone, data, journal
  <2>2. FoundSound /\ ApartSound /\ MovingSound /\ Applying /\ Applying' /\ Touches({})
    BY <2>1, NothingTouched DEF DamageSound, Applying
  <2>3. FoundSound' /\ ApartSound'
    BY <2>1, <2>2, ApplyFound, SameApart DEF Moving
  <2>4. AllIntact(work'.rows, Safe', fs', content')
    BY <2>1, <2>2 DEF MovingSound, AllIntact, Safe
  <2> QED BY <2>1, <2>3, <2>4, BetweenDamage
<1>2. CASE MoveRaises
  <2>1. Raise /\ Applying /\ FoundSound
    BY <1>2 DEF MoveRaises, Applying, DamageSound
  <2> QED BY <2>1, RaiseDamage DEF Raise, journal
<1> QED BY <1>1, <1>2, MoveBeginDamage, RekeyDamage, BreakCycleDamage, MoveFileDamage,
           MoveRowDamage DEF MoveStep

-----------------------------------------------------------------------------
(***************************************************************************)
(* DamageSound is inductive: accept, plan, commit, roll back, clean up.    *)
(***************************************************************************)

\* At rest, and while the journal is cleaned up.
LEMMA SettledDamage ==
    ASSUME pc' \in {"idle", "cleanup"}, AllIntact(catalog'.rows, Safe', fs', content')
    PROVE  DamageSound'
<1>1. FoundSound'
  BY DEF FoundSound, Uncommitted, Applying
<1>2. ApartSound' /\ ApplySound' /\ MovingSound'
  BY DEF ApartSound, ApplySound, MovingSound, Applying, Moving
<1> QED BY <1>1, <1>2 DEF DamageSound

\* The files a submission finds are those of the committed rows.
LEMMA AcceptDamage ==
    ASSUME CatalogSound, DamageSound, NEW w \in Writers, NEW batch \in Batches, Accept(w, batch)
    PROVE  DamageSound'
<1>1. /\ pc = "idle" /\ pc' = "plan" /\ undo_stack' = <<>> /\ undo_failed' = FALSE
      /\ before' = [fs |-> fs, objects |-> objects]
      /\ UNCHANGED <<catalog, work, fs, content, interrupted>>
  BY DEF Accept, data
<1>2. /\ AllIntact(catalog.rows, Safe, fs, content) /\ Safe' = Safe /\ work = catalog
  BY <1>1 DEF DamageSound, FoundSound, Safe, CatalogSound, RowsSound
<1>3. before'.fs = fs /\ KeepsLinks(fs, fs)
  BY <1>1 DEF KeepsLinks
<1>4. FoundSound'
  <2>1. AllIntact(catalog.rows, Safe \ BatchIds', fs, content)
    BY <1>2 DEF AllIntact
  <2> QED BY <1>1, <1>2, <1>3, <2>1 DEF FoundSound
<1>5. ApartSound'
  BY <1>1 DEF ApartSound, Moving
<1> QED BY <1>1, <1>2, <1>4, <1>5, BetweenDamage

\* The plan changes no file and no row.
LEMMA PlanDamage ==
    ASSUME JournalSound, CatalogSound, DamageSound, Plan
    PROVE  DamageSound'
<1>1. /\ pc = "plan" /\ pc' = "next" /\ UNCHANGED <<catalog, work, fs, content, writer, ops>>
      /\ UNCHANGED <<undo_stack, undo_failed, before, interrupted>>
  BY DEF Plan, data, journal
<1>2. FoundSound'
  <2>1. Touches({}) /\ Applying /\ Applying' /\ FoundSound
    BY <1>1, NothingTouched DEF Applying, DamageSound
  <2> QED BY <1>1, <2>1, ApplyFound
<1>3. ApartSound'
  BY PlanApart
<1>4. AllIntact(work'.rows, Safe', fs', content')
  BY <1>1 DEF DamageSound, ApplySound, AllIntact, Safe
<1> QED BY <1>1, <1>2, <1>3, <1>4, BetweenDamage

\* An undo closure of the batch, which is about none of the others.
LEMMA UndoLastDamage ==
    ASSUME JournalSound, CatalogSound, DamageSound, UndoLast
    PROVE  DamageSound'
<1> DEFINE rec == undo_stack[Len(undo_stack)]
<1>1. /\ pc = "undo" /\ pc' = "undo" /\ undo_stack # <<>> /\ fs' = Undo(rec, fs)
      /\ undo_stack' = Popped(undo_stack)
      /\ UNCHANGED <<catalog, content, writer, ops, undo_failed, before, interrupted>>
  BY DEF UndoLast, control
<1>2. /\ FoundSound /\ Uncommitted /\ fs \in Files /\ undo_stack \in Seq(UndoRecords)
      /\ catalog \in Tables
  BY <1>1, JournalTypes, CatalogTypes DEF DamageSound, Uncommitted
<1>3. /\ AllIntact(catalog.rows, Safe, before.fs, content)
      /\ AllIntact(catalog.rows, Safe \ BatchIds, fs, content)
      /\ undo_failed => BatchIds \subseteq interrupted
      /\ \A i \in 1..Len(undo_stack) : Avoids(undo_stack[i])
  BY <1>2 DEF FoundSound
<1>4. rec \in UndoRecords /\ Avoids(rec)
  <2>1. Len(undo_stack) \in 1..Len(undo_stack)
    BY <1>1, <1>2
  <2> QED BY <1>2, <1>3, <2>1
<1> HIDE DEF rec
<1>5. /\ TheirPaths' = TheirPaths /\ BatchIds' = BatchIds /\ Safe' = Safe
  BY <1>1 DEF TheirPaths, BatchIds, Safe, Strangers
<1>6. ASSUME NEW id \in Safe \ BatchIds, catalog.rows[id] # None
      PROVE  Intact(catalog.rows[id], catalog.rows[id].path, fs', content)
  <2>1. id \in Strangers
    BY DEF Safe, Strangers
  <2>2. catalog.rows[id].path \in TheirPaths /\ catalog.rows[id].path \in Paths
    BY <1>6, <2>1, TheirFacts
  <2>3. Undo(rec, fs)[catalog.rows[id].path] = fs[catalog.rows[id].path]
    BY <1>2, <1>4, <2>2, UndoElsewhere DEF Avoids
  <2> QED BY <1>1, <1>3, <1>6, <2>3 DEF AllIntact, Intact
<1>7. ASSUME NEW i \in 1..Len(undo_stack') PROVE Avoids(undo_stack[i])'
  <2>1. undo_stack'[i] = undo_stack[i] /\ i \in 1..Len(undo_stack)
    BY <1>1, <1>2, PoppedFacts
  <2> QED BY <1>3, <1>5, <2>1 DEF Avoids
<1>8. FoundSound'
  <2>1. AllIntact(catalog.rows, Safe \ BatchIds, fs', content)
    BY <1>6 DEF AllIntact
  <2> QED BY <1>1, <1>3, <1>5, <1>7, <2>1 DEF FoundSound, Applying
<1>9. ApartSound' /\ ApplySound' /\ MovingSound'
  BY <1>1 DEF ApartSound, ApplySound, MovingSound, Applying, Moving
<1> QED BY <1>8, <1>9 DEF DamageSound

\* A closure that raises leaves the documents of its batch to chance, and says so.
LEMMA UndoRaisesDamage ==
    ASSUME JournalSound, CatalogSound, DamageSound, UndoRaises
    PROVE  DamageSound'
<1>1. /\ pc = "undo" /\ pc' = "undo" /\ undo_stack # <<>> /\ undo_stack' = Popped(undo_stack)
      /\ interrupted' = interrupted \cup BatchIds
      /\ UNCHANGED <<catalog, fs, content, writer, ops, before>>
  BY DEF UndoRaises, data, control
<1>2. FoundSound /\ Uncommitted /\ undo_stack \in Seq(UndoRecords)
  BY <1>1, JournalTypes DEF DamageSound, Uncommitted
<1>3. /\ AllIntact(catalog.rows, Safe, before.fs, content)
      /\ AllIntact(catalog.rows, Safe \ BatchIds, fs, content)
      /\ \A i \in 1..Len(undo_stack) : Avoids(undo_stack[i])
  BY <1>2 DEF FoundSound
<1>4. /\ TheirPaths' = TheirPaths /\ BatchIds' = BatchIds /\ Safe' = Safe \ BatchIds
  BY <1>1 DEF TheirPaths, BatchIds, Safe, Strangers
<1>5. ASSUME NEW i \in 1..Len(undo_stack') PROVE Avoids(undo_stack[i])'
  <2>1. undo_stack'[i] = undo_stack[i] /\ i \in 1..Len(undo_stack)
    BY <1>1, <1>2, PoppedFacts
  <2> QED BY <1>3, <1>4, <2>1 DEF Avoids
<1>6. FoundSound'
  <2>1. /\ AllIntact(catalog.rows, Safe', before.fs, content)
        /\ AllIntact(catalog.rows, Safe' \ BatchIds, fs, content)
    BY <1>3, <1>4 DEF AllIntact
  <2> QED BY <1>1, <1>4, <1>5, <2>1 DEF FoundSound, Applying
<1>7. ApartSound' /\ ApplySound' /\ MovingSound'
  BY <1>1 DEF ApartSound, ApplySound, MovingSound, Applying, Moving
<1> QED BY <1>6, <1>7 DEF DamageSound

\* When the closures have run, the files are those of the committed rows again, or the
\* batch counts as interrupted.
LEMMA RolledBack ==
    ASSUME JournalSound, DamageSound, pc = "undo", undo_stack = <<>>
    PROVE  AllIntact(catalog.rows, Safe, fs, content)
<1>1. /\ AllIntact(catalog.rows, Safe, before.fs, content)
      /\ AllIntact(catalog.rows, Safe \ BatchIds, fs, content)
      /\ undo_failed => BatchIds \subseteq interrupted
  BY DEF DamageSound, FoundSound, Uncommitted
<1>2. CASE undo_failed
  <2>1. Safe \ BatchIds = Safe
    BY <1>1, <1>2 DEF Safe
  <2> QED BY <1>1, <2>1
<1>3. CASE ~undo_failed
  <2>1. fs = before.fs
    BY <1>3 DEF JournalSound, TrailSound
  <2> QED BY <1>1, <2>1
<1> QED BY <1>2, <1>3

\* The cleanup removes backups, and no file of the tree.
LEMMA CleanupDamage ==
    ASSUME JournalSound, CatalogSound, DamageSound, CleanupFirst
    PROVE  DamageSound'
<1> DEFINE u == Head(cleanup_stack).backup
<1>1. /\ pc = "cleanup" /\ pc' = "cleanup" /\ cleanup_stack # <<>>
      /\ fs' = IF u = None THEN fs ELSE [fs EXCEPT ![u] = None]
      /\ UNCHANGED <<catalog, content, interrupted>>
  BY DEF CleanupFirst, control
<1>2. fs \in Files /\ u \in UndoNames \cup {None}
  <2>1. cleanup_stack \in Seq(CleanupRecords)
    BY DEF JournalSound, TypeOK
  <2>2. Head(cleanup_stack) \in CleanupRecords
    BY <1>1, <2>1
  <2> QED BY <2>2, JournalTypes DEF CleanupRecords
<1> HIDE DEF u
<1>3. \A q \in Paths : fs'[q] = fs[q]
  BY <1>1, <1>2, StoreAssumption DEF Files, Locations
<1>4. AllIntact(catalog.rows, Safe, fs, content) /\ Safe' = Safe /\ Safe \subseteq Ids
  BY <1>1 DEF DamageSound, FoundSound, Safe
<1>5. \A id \in Ids : catalog.rows[id] # None => catalog.rows[id].path \in Paths
  BY GrantsAssumption DEF CatalogSound, RowsSound, Placed, Ids
<1>6. AllIntact(catalog'.rows, Safe', fs', content')
  BY <1>1, <1>3, <1>4, <1>5 DEF AllIntact, Intact
<1> QED BY <1>1, <1>6, SettledDamage

\* The end of a submission.
LEMMA EndDamage ==
    ASSUME JournalSound, CatalogSound, DamageSound,
           \/ Commit \/ UndoLast \/ MarkFailed \/ CleanupFirst \/ Return
           \/ UndoRaises \/ MarkFailedRaises \/ CleanupRaises \/ Crash
    PROVE  DamageSound'
<1>1. CASE Commit
  <2>1. /\ pc = "next" /\ pc' = "cleanup" /\ catalog' = work
        /\ UNCHANGED <<fs, content, interrupted>>
    BY <1>1 DEF Commit, journal
  <2>2. AllIntact(catalog'.rows, Safe', fs', content')
    BY <2>1 DEF DamageSound, ApplySound, Safe, AllIntact
  <2> QED BY <2>1, <2>2, SettledDamage
<1>2. CASE MarkFailed \/ MarkFailedRaises
  <2>1. /\ pc = "undo" /\ undo_stack = <<>> /\ pc' \in {"idle", "cleanup"}
        /\ UNCHANGED <<catalog, fs, content, interrupted>>
    BY <1>2 DEF MarkFailed, MarkFailedRaises, Forget, data, journal
  <2>2. AllIntact(catalog'.rows, Safe', fs', content')
    BY <2>1, RolledBack DEF Safe, AllIntact
  <2> QED BY <2>1, <2>2, SettledDamage
<1>3. CASE Return \/ CleanupRaises \/ (Crash /\ pc = "cleanup")
  <2>1. /\ pc = "cleanup" /\ pc' \in {"idle", "cleanup"}
        /\ UNCHANGED <<catalog, fs, content, interrupted>>
    BY <1>3 DEF Return, CleanupRaises, Crash, Forget, data, control
  <2>2. AllIntact(catalog'.rows, Safe', fs', content')
    BY <2>1 DEF DamageSound, FoundSound, Safe, AllIntact
  <2> QED BY <2>1, <2>2, SettledDamage
<1>4. CASE Crash /\ pc # "cleanup"
  <2>1. /\ Uncommitted /\ pc' = "idle" /\ interrupted' = interrupted \cup BatchIds
        /\ UNCHANGED <<catalog, fs, content>>
    BY <1>4 DEF Crash, Forget, Uncommitted
  <2>2. AllIntact(catalog.rows, Safe \ BatchIds, fs, content) /\ Safe' = Safe \ BatchIds
    BY <2>1 DEF DamageSound, FoundSound, Safe
  <2>3. AllIntact(catalog'.rows, Safe', fs', content')
    BY <2>1, <2>2
  <2> QED BY <2>1, <2>3, SettledDamage
<1> QED BY <1>1, <1>2, <1>3, <1>4, UndoLastDamage, UndoRaisesDamage, CleanupDamage

\* Every step keeps the documents that no interrupted batch named whole.
LEMMA StepDamage ==
    ASSUME JournalSound, CatalogSound, AheadSound, DamageSound, [Next]_vars
    PROVE  DamageSound'
<1>1. CASE UNCHANGED vars
  <2>1. /\ UNCHANGED <<catalog, work, fs, content, pc, writer, ops, todo, moves, breaks>>
        /\ UNCHANGED <<from, temp, fresh, undo_stack, undo_failed, before, interrupted>>
    BY <1>1 DEF vars, data, control, journal
  <2>2. /\ TheirPaths' = TheirPaths /\ BatchIds' = BatchIds /\ Safe' = Safe
        /\ Strangers' = Strangers /\ Current' = Current /\ ToCome' = ToCome
    BY <2>1 DEF TheirPaths, BatchIds, Safe, Strangers, Current, ToCome
  <2>3. FoundSound'
    BY <2>1, <2>2 DEF DamageSound, FoundSound, Uncommitted, Applying, Avoids
  <2>4. ApartSound'
    BY <2>1, <2>2 DEF DamageSound, ApartSound, Applying, Within, InTurn
  <2>5. ApplySound'
    BY <2>1, <2>2 DEF DamageSound, ApplySound, OthersIntact
  <2>6. MovingSound'
    BY <2>1, <2>2 DEF DamageSound, MovingSound, OthersIntact, MoveSource, Place
  <2> QED BY <2>3, <2>4, <2>5, <2>6 DEF DamageSound
<1>2. CASE \E w \in Writers, batch \in Batches : Accept(w, batch)
  BY <1>2, AcceptDamage
<1>3. CASE RejectPlan \/ Fault
  <2>1. Raise /\ Applying /\ FoundSound
    BY <1>3 DEF RejectPlan, Fault, Applying, DamageSound
  <2> QED BY <2>1, RaiseDamage DEF Raise, journal
<1>4. ASSUME NEW k \in Keys, NEW p \in Paths, NEW h \in Hashes, PutObjectTorn(k, p, h)
      PROVE  DamageSound'
  <2>1. /\ FoundSound /\ Applying /\ pc' = "undo" /\ before'.fs = before.fs
        /\ UNCHANGED <<catalog, fs, content, writer, ops>>
        /\ UNCHANGED <<undo_stack, undo_failed, interrupted>>
    <3>1. before \in [fs : Files, objects : SUBSET Objs]
      BY DEF JournalSound, TypeOK, Files
    <3> QED BY <1>4, <3>1 DEF PutObjectTorn, Applying, DamageSound
  <2> QED BY <2>1, RaiseDamage
<1> QED BY <1>1, <1>2, <1>3, <1>4, PlanDamage, PutDamage, DeleteDamage, DecisionDamage,
           MoveDamage, EndDamage DEF Next, Proceed, Disturb

\* A store that is opened has a file for every row.
LEMMA InitDamage == Init => DamageSound
<1> SUFFICES ASSUME Init PROVE DamageSound
  OBVIOUS
<1>1. PICK rows \in InitRows :
        LET at(l)    == {id \in Ids : rows[id] # None /\ rows[id].path = l}
            stored   == {id \in Ids : rows[id] # None}
            holds(o) == {id \in stored : rows[id].obj = o}
        IN  /\ catalog = [rows |-> rows, decided |-> {}]
            /\ fs = [l \in Locations |->
                        IF at(l) = {} THEN None ELSE rows[CHOOSE id \in at(l) : TRUE].obj]
            /\ content = [o \in Objs |->
                   IF holds(o) = {} THEN CHOOSE h \in Hashes : TRUE
                   ELSE rows[CHOOSE id \in holds(o) : TRUE].hash]
  BY DEF Init
<1> DEFINE at(l)    == {id \in Ids : rows[id] # None /\ rows[id].path = l}
           holds(o) == {id \in {i \in Ids : rows[i] # None} : rows[id].obj = o}
<1>2. /\ catalog.rows = rows /\ pc = "idle"
      /\ fs = [l \in Locations |->
                  IF at(l) = {} THEN None ELSE rows[CHOOSE id \in at(l) : TRUE].obj]
      /\ content = [o \in Objs |->
             IF holds(o) = {} THEN CHOOSE h \in Hashes : TRUE
             ELSE rows[CHOOSE id \in holds(o) : TRUE].hash]
  BY <1>1 DEF Init
<1>3. ASSUME NEW id \in Ids, rows[id] # None PROVE Intact(rows[id], rows[id].path, fs, content)
  <2>1. rows[id].path \in Locations /\ rows[id].obj \in Objs
    BY <1>3, InitRowsAssumption DEF Row
  <2>2. at(rows[id].path) = {id} /\ holds(rows[id].obj) = {id}
    BY <1>3, InitRowsAssumption
  <2>3. (CHOOSE i \in {id} : TRUE) = id
    OBVIOUS
  <2>4. fs[rows[id].path] = rows[CHOOSE i \in at(rows[id].path) : TRUE].obj
    BY <1>2, <2>1, <2>2
  <2>5. content[rows[id].obj] = rows[CHOOSE i \in holds(rows[id].obj) : TRUE].hash
    BY <1>2, <2>1, <2>2
  <2> HIDE DEF at, holds
  <2> QED BY <2>2, <2>3, <2>4, <2>5 DEF Intact
<1>4. FoundSound
  BY <1>2, <1>3 DEF FoundSound, Uncommitted, Applying, AllIntact, Safe
<1>5. ApartSound /\ ApplySound /\ MovingSound
  BY <1>2 DEF ApartSound, ApplySound, MovingSound, Applying, Moving
<1> QED BY <1>4, <1>5 DEF DamageSound

-----------------------------------------------------------------------------
(***************************************************************************)
(* The atomic batch.  What is left of the plan would make of the rows of   *)
(* the transaction what the batch makes of the rows it found, and the tree *)
(* holds no file but those of the rows.                                    *)
(***************************************************************************)

\* The submission has its QUEUED row until it is committed or marked.
ServedSound ==
    /\ interrupted = {} /\ ~undo_failed
    /\ Uncommitted => status = "queued"

\* What the batch is to make of a key.
Intended(k) == Atomic!Outcome(DocOf(catalog.rows)[<<writer, k>>], ops, k)

\* What is left of the plan makes that of it, from what the transaction has made so far.
Leads(rows, ahead, k) == Atomic!Outcome(DocOf(rows)[<<writer, k>>], ahead, k) = Intended(k)

Decisions(w, s) == {<<w, op.key>> : op \in {x \in ToSet(s) : x.kind = "decision"}}

EffectSound ==
    /\ (Applying /\ pc # "plan") =>
           work.decided \cup Decisions(writer, todo) = catalog.decided \cup Decisions(writer, ops)
    /\ (Applying /\ pc \notin {"plan"} \cup Moving) =>
           \A k \in Keys : Leads(work.rows, todo, k)
    /\ pc \in Moving =>
           /\ \A k \in Keys : (\A op \in ToSet(moves) : op.key # k) => Leads(work.rows, todo, k)
           /\ \A op \in ToSet(moves) :
                  /\ Atomic!Outcome(Atomic!Written(op), todo, op.key) = Intended(op.key)
                  /\ work.rows[<<writer, op.key>>] # None
                  /\ work.rows[<<writer, op.key>>].hash = op.hash

\* Every file of the tree, but those at P, is where a row of ids says.
Tidy(rows, ids, f, P) ==
    \A q \in Paths \ P : f[q] # None => \E i \in ids : rows[i] # None /\ rows[i].path = q

\* What is committed, and what the transaction has made of it so far.
TidyFound ==
    /\ pc \in {"idle", "cleanup"} => Tidy(catalog.rows, Ids, fs, {})
    /\ Uncommitted => Tidy(catalog.rows, Ids, before.fs, {})

TidyNow ==
    /\ pc \in {"plan", "next", "put_tree", "breaks", "moves"} => Tidy(work.rows, Ids, fs, {})
    /\ pc = "put_old" => Tidy(work.rows, Ids, fs, {Head(todo).path})
    /\ pc = "put_row" => Tidy(work.rows, Ids \ {Current}, fs, {Head(todo).path})
    /\ pc = "delete_row" => Tidy(work.rows, Ids \ {Current}, fs, {})
    /\ pc = "move_row" =>
           Tidy(work.rows, Ids \ {<<writer, Head(moves).key>>}, fs, {Head(moves).path})

AtomicSound == ServedSound /\ EffectSound /\ TidyFound /\ TidyNow

-----------------------------------------------------------------------------
(***************************************************************************)
(* What a list of operations makes of a key.                               *)
(***************************************************************************)

\* The operations of one kind on one key.
Of(kind, k) == {op \in Operation : op.kind = kind /\ op.key = k}

\* The last of them is the one that counts.
LEMMA LatestEnds ==
    ASSUME NEW s \in Seq(Operation), NEW kind, NEW k, NEW x, EndsWith(Of(kind, k), s, x)
    PROVE  Atomic!On(s, kind, k) # {} /\ Atomic!Latest(s, kind, k) = x
<1> DEFINE at == Atomic!On(s, kind, k)
<1>1. DOMAIN s = 1..Len(s) /\ Len(s) \in Nat /\ \A i \in 1..Len(s) : s[i] \in Operation
  OBVIOUS
<1>2. \A i : i \in at <=> i \in 1..Len(s) /\ s[i] \in Of(kind, k)
  BY <1>1 DEF Atomic!On, Of
<1>3. PICK i \in 1..Len(s) : /\ s[i] = x /\ x \in Of(kind, k)
                             /\ \A j \in 1..Len(s) : s[j] \in Of(kind, k) => j <= i
  BY DEF EndsWith
<1>4. Atomic!Latest(s, kind, k) = s[CHOOSE n \in at : \A j \in at : j <= n]
  BY DEF Atomic!Latest
<1> HIDE DEF at
<1>5. i \in at /\ \A j \in at : j <= i
  BY <1>2, <1>3
<1> DEFINE c == CHOOSE n \in at : \A j \in at : j <= n
<1>6. c \in at /\ \A j \in at : j <= c
  BY <1>5
<1>7. c <= i /\ i <= c /\ c \in 1..Len(s)
  BY <1>2, <1>5, <1>6
<1> HIDE DEF c
<1>8. c = i
  BY <1>1, <1>7
<1> QED BY <1>3, <1>4, <1>5, <1>8 DEF c, at

\* None of them.
LEMMA NoneOn ==
    ASSUME NEW s \in Seq(Operation), NEW kind, NEW k
    PROVE  Atomic!On(s, kind, k) = {} <=> ToSet(s) \cap Of(kind, k) = {}
<1>1. DOMAIN s = 1..Len(s) /\ \A i \in DOMAIN s : s[i] \in Operation
  OBVIOUS
<1> QED BY <1>1 DEF Atomic!On, Of, ToSet

\* The last put counts.
LEMMA OutcomePut ==
    ASSUME NEW s \in Seq(Operation), NEW k, NEW x, EndsWith(Of("put", k), s, x), NEW doc
    PROVE  Atomic!Outcome(doc, s, k) = Atomic!Written(x)
BY LatestEnds DEF Atomic!Outcome

\* With no put, the move.
LEMMA OutcomeMove ==
    ASSUME NEW s \in Seq(Operation), NEW k, NEW x, NEW doc,
           ToSet(s) \cap Of("put", k) = {}, EndsWith(Of("move", k), s, x)
    PROVE  Atomic!Outcome(doc, s, k) = Atomic!Written(x)
BY LatestEnds, NoneOn DEF Atomic!Outcome

\* With neither, a delete.
LEMMA OutcomeRest ==
    ASSUME NEW s \in Seq(Operation), NEW k, NEW doc,
           ToSet(s) \cap Of("put", k) = {}, ToSet(s) \cap Of("move", k) = {}
    PROVE  Atomic!Outcome(doc, s, k) = IF ToSet(s) \cap Of("delete", k) = {} THEN doc ELSE None
BY NoneOn DEF Atomic!Outcome

\* Two lists that end alike make the same of a key.
LEMMA SameOutcome ==
    ASSUME NEW s \in Seq(Operation), NEW t \in Seq(Operation), NEW k, NEW doc,
           \A kind \in {"put", "move"}, x \in Operation :
               EndsWith(Of(kind, k), t, x) => EndsWith(Of(kind, k), s, x),
           \A kind \in {"put", "move", "delete"} :
               ToSet(s) \cap Of(kind, k) = {} <=> ToSet(t) \cap Of(kind, k) = {}
    PROVE  Atomic!Outcome(doc, s, k) = Atomic!Outcome(doc, t, k)
<1>1. CASE ToSet(t) \cap Of("put", k) # {}
  <2>1. PICK x \in Operation : EndsWith(Of("put", k), t, x)
    BY <1>1, EndsExist
  <2>2. EndsWith(Of("put", k), s, x)
    BY <2>1
  <2> QED BY <2>1, <2>2, OutcomePut
<1>2. CASE ToSet(t) \cap Of("put", k) = {} /\ ToSet(t) \cap Of("move", k) # {}
  <2>1. PICK x \in Operation : EndsWith(Of("move", k), t, x)
    BY <1>2, EndsExist
  <2>2. EndsWith(Of("move", k), s, x) /\ ToSet(s) \cap Of("put", k) = {}
    BY <1>2, <2>1
  <2> QED BY <1>2, <2>1, <2>2, OutcomeMove
<1>3. CASE ToSet(t) \cap Of("put", k) = {} /\ ToSet(t) \cap Of("move", k) = {}
  <2>1. ToSet(s) \cap Of("put", k) = {} /\ ToSet(s) \cap Of("move", k) = {}
    BY <1>3
  <2>2. ToSet(s) \cap Of("delete", k) = {} <=> ToSet(t) \cap Of("delete", k) = {}
    OBVIOUS
  <2> QED BY <1>3, <2>1, <2>2, OutcomeRest
<1> QED BY <1>1, <1>2, <1>3

\* The first operation is of another key, or a decision.
LEMMA TailOther ==
    ASSUME NEW s \in Seq(Operation), s # <<>>, NEW k, NEW doc,
           Head(s).key # k \/ Head(s).kind = "decision"
    PROVE  Atomic!Outcome(doc, s, k) = Atomic!Outcome(doc, Tail(s), k)
<1>1. /\ Tail(s) \in Seq(Operation) /\ ToSet(s) = {Head(s)} \cup ToSet(Tail(s))
  BY TailHolds
<1>2. /\ 1 \in 0..Len(s) /\ Len(Tail(s)) = Len(s) - 1 /\ Len(s) \in Nat
      /\ \A i \in 1..Len(Tail(s)) : Tail(s)[i] = s[1 + i]
  OBVIOUS
<1>3. \A kind \in {"put", "move"}, x \in Operation :
          EndsWith(Of(kind, k), Tail(s), x) => EndsWith(Of(kind, k), s, x)
  BY <1>1, <1>2, EndsSuffix
<1>4. \A kind \in {"put", "move", "delete"} : Head(s) \notin Of(kind, k)
  BY DEF Of
<1>5. \A kind \in {"put", "move", "delete"} :
          ToSet(s) \cap Of(kind, k) = {} <=> ToSet(Tail(s)) \cap Of(kind, k) = {}
  BY <1>1, <1>4
<1> DEFINE t == Tail(s)
<1>6. /\ t \in Seq(Operation)
      /\ \A kind \in {"put", "move"}, x \in Operation :
             EndsWith(Of(kind, k), t, x) => EndsWith(Of(kind, k), s, x)
      /\ \A kind \in {"put", "move", "delete"} :
             ToSet(s) \cap Of(kind, k) = {} <=> ToSet(t) \cap Of(kind, k) = {}
  BY <1>1, <1>3, <1>5
<1> HIDE DEF t
<1>7. Atomic!Outcome(doc, s, k) = Atomic!Outcome(doc, t, k)
  BY <1>6, SameOutcome
<1> QED BY <1>7 DEF t

\* The first operation is a put of the key, and neither moves nor deletes follow.
LEMMA TailPut ==
    ASSUME NEW s \in Seq(Operation), s # <<>>, NEW k, NEW doc, Head(s) \in Of("put", k),
           \A op \in ToSet(Tail(s)) : op.kind \notin {"move", "delete"}
    PROVE  Atomic!Outcome(doc, s, k) = Atomic!Outcome(Atomic!Written(Head(s)), Tail(s), k)
<1>1. /\ Tail(s) \in Seq(Operation) /\ ToSet(s) = {Head(s)} \cup ToSet(Tail(s))
      /\ Head(s) \in Operation
  BY TailHolds
<1>2. /\ 1 \in 0..Len(s) /\ Len(Tail(s)) = Len(s) - 1 /\ Len(s) \in Nat
      /\ \A i \in 1..Len(Tail(s)) : Tail(s)[i] = s[1 + i]
  OBVIOUS
<1>3. CASE ToSet(Tail(s)) \cap Of("put", k) # {}
  <2>1. PICK x \in Operation : EndsWith(Of("put", k), Tail(s), x)
    BY <1>1, <1>3, EndsExist
  <2>2. EndsWith(Of("put", k), s, x)
    BY <1>1, <1>2, <2>1, EndsSuffix
  <2> QED BY <1>1, <2>1, <2>2, OutcomePut
<1>4. CASE ToSet(Tail(s)) \cap Of("put", k) = {}
  <2>1. PICK x \in Operation : EndsWith(Of("put", k), s, x)
    BY <1>1, EndsExist
  <2>2. x \in ToSet(s) /\ x \in Of("put", k)
    BY <2>1 DEF EndsWith, ToSet
  <2>3. x = Head(s)
    BY <1>1, <1>4, <2>2
  <2>4. /\ ToSet(Tail(s)) \cap Of("move", k) = {}
        /\ ToSet(Tail(s)) \cap Of("delete", k) = {}
    BY DEF Of
  <2>5. Atomic!Outcome(Atomic!Written(Head(s)), Tail(s), k) = Atomic!Written(Head(s))
    BY <1>1, <1>4, <2>4, OutcomeRest
  <2> QED BY <2>1, <2>3, <2>5, OutcomePut
<1> QED BY <1>3, <1>4

\* The first operation is a delete of the key.
LEMMA TailDelete ==
    ASSUME NEW s \in Seq(Operation), s # <<>>, NEW k, NEW doc, Head(s) \in Of("delete", k)
    PROVE  Atomic!Outcome(doc, s, k) = Atomic!Outcome(None, Tail(s), k)
<1>1. /\ Tail(s) \in Seq(Operation) /\ ToSet(s) = {Head(s)} \cup ToSet(Tail(s))
  BY TailHolds
<1>2. /\ 1 \in 0..Len(s) /\ Len(Tail(s)) = Len(s) - 1 /\ Len(s) \in Nat
      /\ \A i \in 1..Len(Tail(s)) : Tail(s)[i] = s[1 + i]
  OBVIOUS
<1>3. \A kind \in {"put", "move"} : Head(s) \notin Of(kind, k)
  BY DEF Of
<1>4. \A kind \in {"put", "move"} :
          ToSet(s) \cap Of(kind, k) = {} <=> ToSet(Tail(s)) \cap Of(kind, k) = {}
  BY <1>1, <1>3
<1>5. CASE ToSet(Tail(s)) \cap Of("put", k) # {}
  <2>1. PICK x \in Operation : EndsWith(Of("put", k), Tail(s), x)
    BY <1>1, <1>5, EndsExist
  <2>2. EndsWith(Of("put", k), s, x)
    BY <1>1, <1>2, <2>1, EndsSuffix
  <2> QED BY <1>1, <2>1, <2>2, OutcomePut
<1>6. CASE ToSet(Tail(s)) \cap Of("put", k) = {} /\ ToSet(Tail(s)) \cap Of("move", k) # {}
  <2>1. PICK x \in Operation : EndsWith(Of("move", k), Tail(s), x)
    BY <1>1, <1>6, EndsExist
  <2>2. EndsWith(Of("move", k), s, x) /\ ToSet(s) \cap Of("put", k) = {}
    BY <1>1, <1>2, <1>4, <1>6, <2>1, EndsSuffix
  <2>3. Atomic!Outcome(doc, s, k) = Atomic!Written(x)
    BY <2>2, OutcomeMove
  <2>4. Atomic!Outcome(None, Tail(s), k) = Atomic!Written(x)
    BY <1>1, <1>6, <2>1, OutcomeMove
  <2> QED BY <2>3, <2>4
<1>7. CASE ToSet(Tail(s)) \cap Of("put", k) = {} /\ ToSet(Tail(s)) \cap Of("move", k) = {}
  <2>1. ToSet(s) \cap Of("put", k) = {} /\ ToSet(s) \cap Of("move", k) = {}
    BY <1>4, <1>7
  <2>2. ToSet(s) \cap Of("delete", k) # {}
    BY <1>1
  <2>3. Atomic!Outcome(doc, s, k) = None
    BY <2>1, <2>2, OutcomeRest
  <2>4. Atomic!Outcome(None, Tail(s), k) = None
    BY <1>1, <1>7, OutcomeRest
  <2> QED BY <2>3, <2>4
<1> QED BY <1>5, <1>6, <1>7

\* The planner's order makes the same of every key.
LEMMA OrderedOutcome ==
    ASSUME NEW batch \in Seq(Operation), NEW paths, NEW w, ~DuplicateMoveSources(batch),
           NEW k, NEW doc
    PROVE  Atomic!Outcome(doc, OrderedOperations(batch, paths, w), k)
               = Atomic!Outcome(doc, batch, k)
<1> DEFINE ordered == OrderedOperations(batch, paths, w)
<1>1. ordered \in Seq(Operation) /\ ToSet(ordered) = ToSet(batch)
  <2>1. \A op \in Operation : op.kind \in {"put", "move", "delete", "decision"}
    BY DEF Operation
  <2> QED BY <2>1, OrderedHolds
<1>2. ASSUME NEW x \in Operation, EndsWith(Of("put", k), batch, x)
      PROVE  EndsWith(Of("put", k), ordered, x)
  <2>1. \A op \in Of("put", k) : op.kind = "put"
    BY DEF Of
  <2> QED BY <1>2, <2>1, EndsOrdered
<1> HIDE DEF ordered
<1>3. ASSUME NEW x \in Operation, EndsWith(Of("move", k), batch, x)
      PROVE  EndsWith(Of("move", k), ordered, x)
  <2>1. x \in ToSet(batch) /\ x \in Of("move", k)
    BY <1>3 DEF EndsWith, ToSet
  <2>2. PICK y \in Operation : EndsWith(Of("move", k), ordered, y)
    BY <1>1, <2>1, EndsExist
  <2>3. y \in ToSet(ordered) /\ y \in Of("move", k)
    BY <1>1, <2>2 DEF EndsWith, ToSet
  <2>4. PICK i \in DOMAIN batch : batch[i] = x
    BY <2>1 DEF ToSet
  <2>5. PICK j \in DOMAIN batch : batch[j] = y
    BY <1>1, <2>3 DEF ToSet
  <2>6. i = j
    BY <2>1, <2>3, <2>4, <2>5 DEF DuplicateMoveSources, Of
  <2> QED BY <2>2, <2>4, <2>5, <2>6
<1>4. \A kind \in {"put", "move"}, x \in Operation :
          EndsWith(Of(kind, k), batch, x) => EndsWith(Of(kind, k), ordered, x)
  BY <1>2, <1>3
<1>5. Atomic!Outcome(doc, ordered, k) = Atomic!Outcome(doc, batch, k)
  BY <1>1, <1>4, SameOutcome
<1> QED BY <1>5 DEF ordered

\* _move_batch takes the moves off, and leaves the rest.
LEMMA RunRest ==
    ASSUME NEW s \in Seq(Operation), s # <<>>, DeletesAndMovesFirst(s), Head(s).kind = "move"
    PROVE  LET rest == SubSeq(s, Len(OfKind(s, "move")) + 1, Len(s))
           IN  /\ rest \in Seq(Operation)
               /\ \A op : op \in ToSet(rest) <=> op \in ToSet(s) /\ op.kind # "move"
               /\ \A op \in ToSet(s) : op.kind # "delete"
               /\ \A P, x : EndsWith(P, rest, x) => EndsWith(P, s, x)
<1> DEFINE m == Len(OfKind(s, "move"))
           rest == SubSeq(s, m + 1, Len(s))
<1>1. /\ rest \in Seq(Operation) /\ \A op \in ToSet(rest) : op.kind \notin {"move", "delete"}
      /\ m \in 0..Len(s) /\ \A i \in 1..Len(s) : s[i].kind = "move" <=> i <= m
      /\ Len(rest) = Len(s) - m /\ \A i \in 1..Len(rest) : rest[i] = s[m + i]
  BY MoveRun
<1> HIDE DEF m, rest
<1>2. /\ DOMAIN s = 1..Len(s) /\ Len(s) \in Nat /\ DOMAIN rest = 1..Len(rest) /\ Head(s) = s[1]
      /\ Len(s) > 0
  BY <1>1
<1>3. ToSet(rest) \subseteq ToSet(s)
  <2>1. ASSUME NEW i \in 1..Len(rest) PROVE rest[i] \in ToSet(s)
    <3>1. m + i \in DOMAIN s /\ rest[i] = s[m + i]
      BY <1>1, <1>2
    <3> QED BY <3>1 DEF ToSet
  <2> QED BY <1>2, <2>1 DEF ToSet
<1>4. ASSUME NEW op \in ToSet(s), op.kind # "move" PROVE op \in ToSet(rest)
  <2>1. PICK i \in 1..Len(s) : s[i] = op
    BY <1>2 DEF ToSet
  <2>2. i - m \in 1..Len(rest) /\ m + (i - m) = i
    BY <1>1, <1>2, <1>4, <2>1
  <2>3. rest[i - m] = op
    BY <1>1, <2>1, <2>2
  <2> QED BY <1>2, <2>2, <2>3 DEF ToSet
<1>5. \A P, x : EndsWith(P, rest, x) => EndsWith(P, s, x)
  BY <1>1, EndsSuffix
<1>6. \A op \in ToSet(s) : op.kind # "delete"
  BY <1>1, <1>4
<1>7. \A op : op \in ToSet(rest) <=> op \in ToSet(s) /\ op.kind # "move"
  BY <1>1, <1>3, <1>4
<1> QED BY <1>1, <1>5, <1>6, <1>7 DEF m, rest

\* A key it moves is where its move puts it, before what follows; the others are where
\* they were.
LEMMA RunOutcome ==
    ASSUME NEW s \in Seq(Operation), s # <<>>, DeletesAndMovesFirst(s), Head(s).kind = "move",
           InTurn(OtherSource, s), NEW k, NEW doc
    PROVE  LET rest == SubSeq(s, Len(OfKind(s, "move")) + 1, Len(s))
           IN  /\ \A op \in ToSet(s) \cap Of("move", k) :
                      Atomic!Outcome(doc, s, k) = Atomic!Outcome(Atomic!Written(op), rest, k)
               /\ ToSet(s) \cap Of("move", k) = {} =>
                      Atomic!Outcome(doc, s, k) = Atomic!Outcome(doc, rest, k)
<1> DEFINE rest == SubSeq(s, Len(OfKind(s, "move")) + 1, Len(s))
<1>1. /\ rest \in Seq(Operation)
      /\ \A op : op \in ToSet(rest) <=> op \in ToSet(s) /\ op.kind # "move"
      /\ \A op \in ToSet(s) : op.kind # "delete"
      /\ \A P, x : EndsWith(P, rest, x) => EndsWith(P, s, x)
  BY RunRest
<1> HIDE DEF rest
<1>2. DOMAIN s = 1..Len(s) /\ Len(s) \in Nat
  OBVIOUS
<1>3. ToSet(s) \cap Of("put", k) = {} <=> ToSet(rest) \cap Of("put", k) = {}
  BY <1>1 DEF Of
<1>4. /\ ToSet(rest) \cap Of("move", k) = {} /\ ToSet(rest) \cap Of("delete", k) = {}
      /\ ToSet(s) \cap Of("delete", k) = {}
  BY <1>1 DEF Of
<1>5. ASSUME NEW op \in ToSet(s) \cap Of("move", k)
      PROVE  Atomic!Outcome(doc, s, k) = Atomic!Outcome(Atomic!Written(op), rest, k)
  <2>1. CASE ToSet(rest) \cap Of("put", k) # {}
    <3>1. PICK x \in Operation : EndsWith(Of("put", k), rest, x)
      BY <1>1, <2>1, EndsExist
    <3>2. EndsWith(Of("put", k), s, x)
      BY <1>1, <3>1
    <3> QED BY <1>1, <3>1, <3>2, OutcomePut
  <2>2. CASE ToSet(rest) \cap Of("put", k) = {}
    <3>1. PICK x \in Operation : EndsWith(Of("move", k), s, x)
      BY EndsExist
    <3>2. x \in ToSet(s) /\ x \in Of("move", k)
      BY <1>2, <3>1 DEF EndsWith, ToSet
    <3>3. x = op
      <4>1. PICK i \in 1..Len(s) : s[i] = x
        BY <1>2, <3>2 DEF ToSet
      <4>2. PICK j \in 1..Len(s) : s[j] = op
        BY <1>2 DEF ToSet
      <4>3. ASSUME i < j \/ j < i PROVE FALSE
        <5>1. <<x, op>> \in OtherSource \/ <<op, x>> \in OtherSource
          BY <4>1, <4>2, <4>3 DEF InTurn
        <5> QED BY <3>2, <5>1 DEF OtherSource, Of
      <4>4. i = j
        BY <1>2, <4>3
      <4> QED BY <4>1, <4>2, <4>4
    <3>4. Atomic!Outcome(doc, s, k) = Atomic!Written(op)
      BY <1>3, <2>2, <3>1, <3>3, OutcomeMove
    <3>5. Atomic!Outcome(Atomic!Written(op), rest, k) = Atomic!Written(op)
      BY <1>1, <1>4, <2>2, OutcomeRest
    <3> QED BY <3>4, <3>5
  <2> QED BY <2>1, <2>2
<1>6. ASSUME ToSet(s) \cap Of("move", k) = {}
      PROVE  Atomic!Outcome(doc, s, k) = Atomic!Outcome(doc, rest, k)
  <2>1. \A kind \in {"put", "move", "delete"} :
            ToSet(s) \cap Of(kind, k) = {} <=> ToSet(rest) \cap Of(kind, k) = {}
    BY <1>3, <1>4, <1>6
  <2> QED BY <1>1, <2>1, SameOutcome
<1> QED BY <1>5, <1>6 DEF rest

-----------------------------------------------------------------------------
(***************************************************************************)
(* TidyNow is inductive.                                                   *)
(***************************************************************************)

\* What a helper does to the paths of the tree.
KeepsTree(T) == \A q \in Paths \ T : fs'[q] = fs[q]

\* _replace_tree_entry.
LEMMA ReplaceTree ==
    ASSUME JournalSound, NEW p \in Paths, NEW o \in Objs, ReplaceTreeEntry(p, o)
    PROVE  KeepsTree({p})
<1>1. /\ fs \in Files /\ p \in Locations /\ Paths \subseteq Locations
      /\ Paths \cap UndoNames = {} /\ \E u \in UndoNames : fs[u] = None
  BY JournalTypes, StoreAssumption DEF ReplaceTreeEntry, Journal, Locations
<1>2. fs' = [Backup(fs, p) EXCEPT ![p] = o]
  BY DEF ReplaceTreeEntry
<1>3. \A q \in Paths : Backup(fs, p)[q] = fs[q] /\ q \in Locations
  BY <1>1, FreeJournalName DEF Backup, Files
<1>4. Backup(fs, p) \in Files
  BY <1>1, BackupFacts DEF Files
<1> QED BY <1>2, <1>3, <1>4 DEF KeepsTree, Files

\* _rename_tree_file: nothing stays at the source.
LEMMA RenameTree ==
    ASSUME JournalSound, NEW s \in Locations, NEW t \in Locations, s # t, RenameTreeFile(s, t)
    PROVE  fs'[s] = None /\ KeepsTree({s, t})
<1> DEFINE f == Backup(fs, t)
<1>1. /\ fs \in Files /\ Distinct(fs) /\ fs[s] # None /\ Paths \subseteq Locations
      /\ Paths \cap UndoNames = {} /\ \E u \in UndoNames : fs[u] = None
  BY JournalTypes, StoreAssumption DEF RenameTreeFile, Journal, Locations, JournalSound
<1>2. fs' = Rename(f, s, t)
  BY DEF RenameTreeFile
<1>3. f \in Files /\ \A l \in Locations : fs[l] # None => f[l] = fs[l]
  BY <1>1, BackupFacts DEF Files
<1>4. \A q \in Paths : f[q] = fs[q]
  BY <1>1, FreeJournalName DEF Backup, Files
<1>5. fs[t] = None => f = fs
  BY DEF Backup
<1> HIDE DEF f
<1>6. f[s] = fs[s] /\ f[t] = fs[t] /\ fs[s] # fs[t]
  BY <1>1, <1>3, <1>5 DEF Distinct
<1>7. fs' = [f EXCEPT ![t] = f[s], ![s] = None]
  BY <1>1, <1>2, <1>6 DEF Rename
<1> QED BY <1>1, <1>3, <1>4, <1>7 DEF KeepsTree, Files

\* _remove_tree_entry: nothing stays at the path.
LEMMA RemoveTree ==
    ASSUME JournalSound, NEW p \in Paths, NEW obj, RemoveTreeEntry(p, obj)
    PROVE  fs'[p] = None /\ KeepsTree({p})
<1>1. /\ fs \in Files /\ p \in Locations /\ Paths \subseteq Locations
      /\ Paths \cap UndoNames = {}
  BY JournalTypes, StoreAssumption DEF Locations
<1>2. CASE fs[p] = None
  BY <1>2 DEF RemoveTreeEntry, KeepsTree
<1>3. CASE fs[p] # None
  <2>1. fs' = [Backup(fs, p) EXCEPT ![p] = None] /\ \E u \in UndoNames : fs[u] = None
    BY <1>3 DEF RemoveTreeEntry, Journal
  <2>2. \A q \in Paths : Backup(fs, p)[q] = fs[q] /\ q \in Locations
    BY <1>1, <2>1, FreeJournalName DEF Backup, Files
  <2>3. Backup(fs, p) \in Files
    BY <1>1, <2>1, BackupFacts DEF Files
  <2> QED BY <1>1, <2>1, <2>2, <2>3 DEF KeepsTree, Files
<1> QED BY <1>2, <1>3

\* The file of a row goes from src to somewhere in Q: the other rows account for the rest.
LEMMA TidyWithout ==
    ASSUME NEW rows, NEW id \in Ids, NEW P, NEW Q, P \subseteq Q, NEW src, NEW f, NEW g,
           Tidy(rows, Ids, f, P), \A q \in Paths \ Q : q # src => g[q] = f[q],
           src \in Paths \ Q => g[src] = None,
           rows[id] # None => rows[id].path = src \/ rows[id].path \in Q
    PROVE  Tidy(rows, Ids \ {id}, g, Q)
<1> SUFFICES ASSUME NEW q \in Paths \ Q, g[q] # None
             PROVE  \E i \in Ids \ {id} : rows[i] # None /\ rows[i].path = q
  BY DEF Tidy
<1>1. q # src /\ f[q] # None /\ q \in Paths \ P
  OBVIOUS
<1>2. PICK i \in Ids : rows[i] # None /\ rows[i].path = q
  BY <1>1 DEF Tidy
<1> QED BY <1>1, <1>2

\* The row is written, or deleted.
LEMMA TidyWith ==
    ASSUME NEW rows, NEW after, NEW id \in Ids, NEW P, NEW f, Tidy(rows, Ids \ {id}, f, P),
           \A i \in Ids \ {id} : after[i] = rows[i],
           \A q \in P : after[id] # None /\ after[id].path = q
    PROVE  Tidy(after, Ids, f, {})
BY DEF Tidy

\* _put
LEMMA PutTidy ==
    ASSUME JournalSound, CatalogSound, TidyNow,
           NEW k \in Keys, NEW p \in Paths, NEW h \in Hashes, PutStep(k, p, h)
    PROVE  TidyNow'
<1> DEFINE id == <<writer, k>>
           row == work.rows[id]
<1>1. /\ work \in Tables /\ writer \in Writers /\ id \in Ids /\ p \in Locations
      /\ row # None => row.path \in Locations
  BY CatalogTypes, RowFacts DEF Ids, Locations
<1>2. \A op : op = PutOp(k, p, h) => op.key = k /\ op.path = p
  BY DEF PutOp
<1>3. CASE PutUnchanged(k, p, h)
  <2>1. /\ pc = "next" /\ pc' = "put_row" /\ Head(todo) = PutOp(k, p, h) /\ row # None
        /\ UNCHANGED <<work, writer, todo>> /\ Tidy(work.rows, Ids, fs, {})
    BY <1>3 DEF PutUnchanged, Unchanged, TidyNow
  <2>2. CASE row.path = p
    <3>1. fs' = fs
      BY <1>3, <2>2 DEF PutUnchanged
    <3>2. Tidy(work.rows, Ids \ {id}, fs', {p})
      BY <1>1, <2>1, <2>2, <3>1, TidyWithout
    <3> QED BY <1>2, <2>1, <3>2 DEF TidyNow, Current
  <2>3. CASE row.path # p
    <3>1. RenameTreeFile(row.path, p)
      BY <1>3, <2>3 DEF PutUnchanged
    <3>2. fs'[row.path] = None /\ KeepsTree({row.path, p})
      BY <1>1, <2>1, <2>3, <3>1, RenameTree
    <3>3. \A q \in Paths \ {p} : q # row.path => fs'[q] = fs[q]
      BY <3>2 DEF KeepsTree
    <3>4. Tidy(work.rows, Ids \ {id}, fs', {p})
      BY <1>1, <2>1, <3>2, <3>3, TidyWithout
    <3> QED BY <1>2, <2>1, <3>4 DEF TidyNow, Current
  <2> QED BY <2>2, <2>3
<1>4. CASE PutObject(k, p, h)
  BY <1>4 DEF PutObject, TidyNow
<1>5. CASE PutTree(k, p, h)
  <2>1. /\ pc = "put_tree" /\ pc' = "put_old" /\ Head(todo) = PutOp(k, p, h)
        /\ UNCHANGED <<work, writer, todo>> /\ Tidy(work.rows, Ids, fs, {})
        /\ ReplaceTreeEntry(p, fresh) /\ fresh \in Objs
    BY <1>5 DEF PutTree, TidyNow, JournalSound, LocalsSound
  <2>2. KeepsTree({p})
    BY <2>1, ReplaceTree
  <2>3. Tidy(work.rows, Ids, fs', {p})
    BY <2>1, <2>2 DEF Tidy, KeepsTree
  <2> QED BY <1>2, <2>1, <2>3 DEF TidyNow
<1>6. CASE PutOldPath(k, p, h)
  <2>1. /\ pc = "put_old" /\ pc' = "put_row" /\ Head(todo) = PutOp(k, p, h)
        /\ UNCHANGED <<work, writer, todo>> /\ Tidy(work.rows, Ids, fs, {p})
    BY <1>2, <1>6 DEF PutOldPath, TidyNow
  <2>2. Tidy(work.rows, Ids \ {id}, fs', {p})
    <3>1. CASE row = None \/ row.path = p
      <4>1. fs' = fs
        BY <1>6, <3>1 DEF PutOldPath
      <4> QED BY <1>1, <2>1, <3>1, <4>1, TidyWithout
    <3>2. CASE row # None /\ row.path # p
      <4>1. RemoveTreeEntry(row.path, row.obj)
        BY <1>6, <3>2 DEF PutOldPath
      <4>2. row.path \in Paths
        BY <1>1, <2>1, <3>2, GrantsAssumption DEF CatalogSound, RowsSound, Placed, Ids
      <4>3. fs'[row.path] = None /\ KeepsTree({row.path})
        BY <4>1, <4>2, RemoveTree
      <4>4. \A q \in Paths \ {p} : q # row.path => fs'[q] = fs[q]
        BY <4>3 DEF KeepsTree
      <4> QED BY <1>1, <2>1, <3>2, <4>3, <4>4, TidyWithout
    <3> QED BY <3>1, <3>2
  <2> QED BY <1>2, <2>1, <2>2 DEF TidyNow, Current
<1>7. CASE PutRow(k, p, h)
  <2>1. /\ pc = "put_row" /\ pc' = "next" /\ Head(todo) = PutOp(k, p, h) /\ UNCHANGED fs
        /\ Tidy(work.rows, Ids \ {id}, fs, {p})
    BY <1>2, <1>7 DEF PutRow, TidyNow, Current
  <2> DEFINE o == IF fresh # None THEN fresh ELSE work.rows[id].obj
  <2>2. work' = [work EXCEPT !.rows[id] = [path |-> p, hash |-> h, obj |-> o]]
    BY <1>7 DEF PutRow
  <2>3. /\ \A i \in Ids \ {id} : work'.rows[i] = work.rows[i]
        /\ work'.rows[id] = [path |-> p, hash |-> h, obj |-> o]
    BY <1>1, <2>2 DEF Tables
  <2>4. [path |-> p, hash |-> h, obj |-> o] # None
    <3>1. fresh \in Objs \cup {None}
      BY DEF JournalSound, TypeOK
    <3>2. fresh = None => row # None
      BY <2>1 DEF JournalSound, LocalsSound
    <3>3. o \in Objs
      BY <1>1, <3>1, <3>2, RowFacts
    <3> HIDE DEF o
    <3>4. [path |-> p, hash |-> h, obj |-> o] \in Row
      BY <1>1, <3>3 DEF Row
    <3> QED BY <3>4, StoreAssumption
  <2> HIDE DEF o
  <2>5. Tidy(work'.rows, Ids, fs', {})
    BY <1>1, <2>1, <2>3, <2>4, TidyWith
  <2> QED BY <2>1, <2>5 DEF TidyNow
<1>8. CASE PutRaises(k, p, h)
  BY <1>8 DEF PutRaises, Raise, TidyNow
<1> QED BY <1>3, <1>4, <1>5, <1>6, <1>7, <1>8 DEF PutStep

\* _delete and _decision
LEMMA DeleteTidy ==
    ASSUME JournalSound, CatalogSound, TidyNow, NEW k \in Keys, DeleteStep(k)
    PROVE  TidyNow'
<1> DEFINE id == <<writer, k>>
           row == work.rows[id]
<1>1. work \in Tables /\ writer \in Writers /\ id \in Ids
  BY CatalogTypes DEF Ids
<1>2. \A op : op = DeleteOp(k) => op.key = k
  BY DEF DeleteOp
<1>3. CASE DeleteUnknown(k)
  BY <1>3 DEF DeleteUnknown, data, TidyNow
<1>4. CASE DeleteTree(k)
  <2>1. /\ pc = "next" /\ pc' = "delete_row" /\ Head(todo) = DeleteOp(k) /\ row # None
        /\ UNCHANGED <<work, writer, todo>> /\ Tidy(work.rows, Ids, fs, {})
        /\ RemoveTreeEntry(row.path, None) /\ row.path \in Paths
    BY <1>1, <1>4, GrantsAssumption DEF DeleteTree, TidyNow
  <2>2. fs'[row.path] = None /\ KeepsTree({row.path})
    BY <2>1, RemoveTree
  <2>3. \A q \in Paths \ {} : q # row.path => fs'[q] = fs[q]
    BY <2>2 DEF KeepsTree
  <2>4. Tidy(work.rows, Ids \ {id}, fs', {})
    BY <1>1, <2>1, <2>2, <2>3, TidyWithout
  <2> QED BY <1>2, <2>1, <2>4 DEF TidyNow, Current
<1>5. CASE DeleteRow(k)
  <2>1. /\ pc = "delete_row" /\ pc' = "next" /\ Head(todo) = DeleteOp(k) /\ UNCHANGED fs
        /\ Tidy(work.rows, Ids \ {id}, fs, {})
        /\ work' = [work EXCEPT !.rows[id] = None]
    BY <1>2, <1>5 DEF DeleteRow, TidyNow, Current
  <2>2. \A i \in Ids \ {id} : work'.rows[i] = work.rows[i]
    BY <1>1, <2>1 DEF Tables
  <2>3. \A q \in {} : work'.rows[id] # None /\ work'.rows[id].path = q
    OBVIOUS
  <2>4. Tidy(work'.rows, Ids, fs, {})
    <3> DEFINE none == {}
               after == work'.rows
    <3>1. /\ id \in Ids /\ Tidy(work.rows, Ids \ {id}, fs, none)
          /\ \A i \in Ids \ {id} : after[i] = work.rows[i]
          /\ \A q \in none : after[id] # None /\ after[id].path = q
      BY <1>1, <2>1, <2>2, <2>3
    <3> HIDE DEF id, none, after
    <3>2. Tidy(after, Ids, fs, {})
      BY <3>1, TidyWith
    <3> QED BY <3>2 DEF after
  <2> QED BY <2>1, <2>4 DEF TidyNow
<1> QED BY <1>3, <1>4, <1>5 DEF DeleteStep

\* _decision.
LEMMA DecisionTidy ==
    ASSUME JournalSound, TidyNow, NEW k \in Keys, NEW p \in Paths \cup {None}, Decision(k, p)
    PROVE  TidyNow'
<1>1. work \in Tables
  BY CatalogTypes
<1>2. work'.rows = work.rows
  BY <1>1 DEF Decision, Tables
<1> QED BY <1>2 DEF Decision, TidyNow

\* _move_batch
LEMMA MoveTidy ==
    ASSUME JournalSound, CatalogSound, AheadSound, DamageSound, TidyNow, MoveStep
    PROVE  TidyNow'
<1>1. /\ work \in Tables /\ writer \in Writers /\ Paths \subseteq Locations
      /\ Paths \cap UndoNames = {} /\ fs \in Files
  BY CatalogTypes, JournalTypes, StoreAssumption DEF Locations
<1>2. CASE MoveBegin
  BY <1>2 DEF MoveBegin, data, TidyNow
<1>3. ASSUME NEW p \in Paths, BreakCycle(p) PROVE TidyNow'
  <2>1. /\ pc = "breaks" /\ pc' = "breaks" /\ UNCHANGED work /\ Tidy(work.rows, Ids, fs, {})
    BY <1>3 DEF BreakCycle, TidyNow
  <2>2. CASE fs[p] = None
    BY <1>3, <2>1, <2>2 DEF BreakCycle, TidyNow
  <2>3. CASE fs[p] # None
    <3> DEFINE u == JournalName(fs)
    <3>1. RenameTreeFile(p, u) /\ \E n \in UndoNames : fs[n] = None
      BY <1>3, <2>3 DEF BreakCycle, RenameTreeFile, Journal
    <3>2. u \in UndoNames
      BY <1>1, <3>1, FreeJournalName
    <3> HIDE DEF u
    <3>3. u \in Locations /\ p \in Locations /\ u # p
      BY <1>1, <3>2 DEF Locations
    <3>4. fs'[p] = None /\ KeepsTree({p, u})
      BY <3>1, <3>3, RenameTree
    <3>5. Tidy(work.rows, Ids, fs', {})
      BY <1>1, <2>1, <3>2, <3>4 DEF Tidy, KeepsTree
    <3> QED BY <2>1, <3>5 DEF TidyNow
  <2> QED BY <2>2, <2>3
<1>4. CASE RekeyParked
  <2>1. /\ pc = "breaks" /\ pc' = "moves" /\ UNCHANGED fs /\ Tidy(work.rows, Ids, fs, {})
    BY <1>4 DEF RekeyParked, TidyNow
  <2>2. ASSUME NEW i \in Ids, work.rows[i] # None, work.rows[i].path \in Paths,
               temp[work.rows[i].path] = None
        PROVE  work'.rows[i] = work.rows[i]
    <3>1. i[1] = writer => i[2] \in Keys /\ i = <<writer, i[2]>>
      BY DEF Ids
    <3>2. (i[1] = writer /\ from[i[2]] # None) => work.rows[i].path = from[i[2]]
      BY <2>1, <3>1 DEF CatalogSound, ParkingSound
    <3>3. work'.rows[i] = IF i[1] = writer /\ from[i[2]] # None /\ temp[from[i[2]]] # None
                          THEN [work.rows[i] EXCEPT !.path = temp[from[i[2]]]]
                          ELSE work.rows[i]
      BY <1>1, <1>4 DEF RekeyParked, Tables
    <3> QED BY <2>2, <3>2, <3>3
  <2>3. \A q \in Paths : fs[q] # None => temp[q] = None
    BY <2>1 DEF DamageSound, MovingSound
  <2>4. ASSUME NEW q \in Paths, fs'[q] # None
        PROVE  \E i \in Ids : work'.rows[i] # None /\ work'.rows[i].path = q
    <3>1. PICK i \in Ids : work.rows[i] # None /\ work.rows[i].path = q
      BY <2>1, <2>4 DEF Tidy
    <3>2. work'.rows[i] = work.rows[i]
      BY <2>1, <2>2, <2>3, <2>4, <3>1
    <3> QED BY <3>1, <3>2
  <2>5. Tidy(work'.rows, Ids, fs', {})
    BY <2>4 DEF Tidy
  <2> QED BY <2>1, <2>5 DEF TidyNow
<1>5. ASSUME NEW k \in Keys, NEW p \in Paths, NEW h \in Hashes, MoveFile(k, p, h)
      PROVE  TidyNow'
  <2> DEFINE id == <<writer, k>>
             src == MoveSource(k)
  <2>1. /\ pc = "moves" /\ pc' = "move_row" /\ moves # <<>> /\ Head(moves) = MoveOp(k, p, h)
        /\ from[k] # None /\ UNCHANGED <<work, writer, moves>> /\ Tidy(work.rows, Ids, fs, {})
        /\ moves \in Seq(Operation)
    BY <1>5 DEF MoveFile, TidyNow, CatalogSound, PlanSound
  <2>2. Head(moves).key = k /\ Head(moves).path = p /\ Head(moves) \in ToSet(moves)
    BY <2>1, TailHolds DEF MoveOp
  <2>3. id \in Ids /\ work.rows[id] # None /\ work.rows[id].path = src
    <3>1. work.rows[id] # None /\ id \in Ids
      BY <1>1, <2>1 DEF JournalSound, LocalsSound, Ids
    <3>2. work.rows[<<writer, Head(moves).key>>].path = MoveSource(Head(moves).key)
      BY <2>1, <2>2 DEF DamageSound, MovingSound, ToCome
    <3> QED BY <2>2, <3>1, <3>2
  <2>4. src \in Locations /\ p \in Locations /\ from[k] # p
    BY <1>1, <2>1, <2>2, <2>3, RowFacts DEF AheadSound, Moving
  <2>5. Tidy(work.rows, Ids \ {id}, fs', {p})
    <3>1. CASE fs[src] = None
      <4>1. fs' = fs
        BY <1>5, <3>1 DEF MoveFile
      <4> HIDE DEF src
      <4> QED BY <2>1, <2>3, <3>1, <4>1, TidyWithout
    <3>2. CASE fs[src] # None
      <4>1. RenameTreeFile(src, p)
        BY <1>5, <2>4, <3>2 DEF MoveFile
      <4> HIDE DEF src
      <4>2. CASE src # p
        <5>1. fs'[src] = None /\ KeepsTree({src, p})
          BY <2>4, <4>1, <4>2, RenameTree
        <5>2. \A q \in Paths \ {p} : q # src => fs'[q] = fs[q]
          BY <5>1 DEF KeepsTree
        <5> HIDE DEF id
        <5>3. ASSUME NEW q \in Paths \ {p}, fs'[q] # None
              PROVE  \E i \in Ids \ {id} : work.rows[i] # None /\ work.rows[i].path = q
          <6>1. q # src /\ fs[q] # None
            BY <5>1, <5>2, <5>3
          <6>2. PICK i \in Ids : work.rows[i] # None /\ work.rows[i].path = q
            BY <2>1, <6>1 DEF Tidy
          <6> QED BY <2>3, <6>1, <6>2
        <5> QED BY <5>3 DEF Tidy
      <4>3. CASE src = p
        <5>1. temp[from[k]] # None /\ src = temp[from[k]]
          BY <2>4, <4>3 DEF MoveSource, src
        <5>2. src \in UndoNames
          <6>1. from[k] \in Paths /\ temp \in [Paths -> UndoNames \cup {None}]
            BY <2>1 DEF JournalSound, TypeOK
          <6> QED BY <5>1, <6>1
        <5> QED BY <1>1, <4>3, <5>2
      <4> QED BY <4>2, <4>3
    <3> QED BY <3>1, <3>2
  <2> QED BY <2>1, <2>2, <2>5 DEF TidyNow
<1>6. ASSUME NEW k \in Keys, NEW p \in Paths, NEW h \in Hashes, MoveRow(k, p, h)
      PROVE  TidyNow'
  <2> DEFINE id == <<writer, k>>
  <2>1. /\ pc = "move_row" /\ pc' = "moves" /\ Head(moves) = MoveOp(k, p, h) /\ UNCHANGED fs
        /\ work' = [work EXCEPT !.rows[id].path = p] /\ from[k] # None
    BY <1>6 DEF MoveRow
  <2>2. Head(moves).key = k /\ Head(moves).path = p
    BY <2>1 DEF MoveOp
  <2>3. Tidy(work.rows, Ids \ {id}, fs, {p})
    BY <2>1, <2>2 DEF TidyNow
  <2>4. id \in Ids /\ work.rows[id] # None /\ work.rows[id] \in Row
    BY <1>1, <2>1 DEF JournalSound, LocalsSound, Ids, Tables
  <2>5. /\ \A i \in Ids \ {id} : work'.rows[i] = work.rows[i]
        /\ work'.rows[id] = [work.rows[id] EXCEPT !.path = p]
    BY <1>1, <2>1, <2>4 DEF Tables
  <2>6. work'.rows[id] \in Row /\ work'.rows[id].path = p
    BY <1>1, <2>4, <2>5 DEF Row
  <2>7. work'.rows[id] # None
    BY <2>6, StoreAssumption
  <2>8. Tidy(work'.rows, Ids, fs, {})
    <3>1. \A q \in {p} : work'.rows[id] # None /\ work'.rows[id].path = q
      BY <2>6, <2>7
    <3>2. \A i \in Ids \ {id} : work'.rows[i] = work.rows[i]
      BY <2>5
    <3> HIDE DEF id
    <3> QED BY <2>3, <2>4, <3>1, <3>2, TidyWith
  <2> QED BY <2>1, <2>8 DEF TidyNow
<1>7. CASE MoveBatchDone
  BY <1>7 DEF MoveBatchDone, data, TidyNow
<1>8. CASE MoveRaises
  BY <1>8 DEF MoveRaises, Raise, TidyNow
<1> QED BY <1>2, <1>3, <1>4, <1>5, <1>6, <1>7, <1>8 DEF MoveStep

-----------------------------------------------------------------------------
(***************************************************************************)
(* EffectSound is inductive.                                               *)
(***************************************************************************)

\* A step that neither writes a table nor takes an operation off.
LEMMA SameEffect ==
    ASSUME EffectSound, UNCHANGED <<catalog, work, writer, ops, todo, moves>>,
           Applying, Applying', pc # "plan", pc' # "plan", pc' \in Moving <=> pc \in Moving
    PROVE  EffectSound'
<1>1. \A k : Intended(k)' = Intended(k)
  BY DEF Intended
<1>2. \A k \in Keys : Leads(work.rows, todo, k)' <=> Leads(work.rows, todo, k)
  BY <1>1 DEF Leads
<1> QED BY <1>1, <1>2 DEF EffectSound

\* The operation that is first in the plan is finished; it wrote no row but its own.
LEMMA NextEffect ==
    ASSUME CatalogSound, EffectSound, Applying, pc \notin {"plan"} \cup Moving, pc' = "next",
           todo # <<>>, todo' = Tail(todo), UNCHANGED <<catalog, writer, ops>>,
           \A id \in Ids : id # Current => work'.rows[id] = work.rows[id],
           Atomic!Outcome(DocOf(work.rows)[Current], todo, Head(todo).key)
               = Atomic!Outcome(DocOf(work'.rows)[Current], Tail(todo), Head(todo).key),
           work'.decided = work.decided
               \cup (IF Head(todo).kind = "decision" THEN {Current} ELSE {}),
           writer \in Writers
    PROVE  EffectSound'
<1>1. todo \in Seq(Operation)
  BY DEF CatalogSound, PlanSound
<1>2. /\ Head(todo) \in Operation /\ ToSet(todo) = {Head(todo)} \cup ToSet(Tail(todo))
      /\ Tail(todo) \in Seq(Operation) /\ Head(todo).key \in Keys
  BY <1>1, TailHolds DEF Operation
<1>3. ASSUME NEW k \in Keys
      PROVE  Atomic!Outcome(DocOf(work'.rows)[<<writer, k>>], Tail(todo), k) = Intended(k)
  <2>1. Atomic!Outcome(DocOf(work.rows)[<<writer, k>>], todo, k) = Intended(k)
    BY DEF EffectSound, Leads
  <2>2. CASE k = Head(todo).key
    BY <2>1, <2>2 DEF Current
  <2>3. CASE k # Head(todo).key
    <3>1. <<writer, k>> \in Ids /\ <<writer, k>> # Current
      BY <2>3 DEF Ids, Current
    <3>2. DocOf(work'.rows)[<<writer, k>>] = DocOf(work.rows)[<<writer, k>>]
      BY <3>1 DEF DocOf
    <3> QED BY <1>1, <2>1, <2>3, <3>2, TailOther
  <2> QED BY <2>2, <2>3
<1>4. \A k \in Keys : Leads(work.rows, todo, k)'
  <2>1. \A k : Intended(k)' = Intended(k)
    BY DEF Intended
  <2> QED BY <1>3, <2>1 DEF Leads
<1>5. work'.decided \cup Decisions(writer, Tail(todo)) = work.decided \cup Decisions(writer, todo)
  BY <1>2 DEF Decisions, Current
<1>6. work.decided \cup Decisions(writer, todo) = catalog.decided \cup Decisions(writer, ops)
  BY DEF EffectSound
<1> QED BY <1>4, <1>5, <1>6 DEF EffectSound, Decisions, Moving

\* After a put no delete follows.
LEMMA PutLast ==
    ASSUME NEW X, NEW s \in Seq(X), s # <<>>, DeletesAndMovesFirst(s), Head(s).kind = "put"
    PROVE  \A op \in ToSet(Tail(s)) : op.kind \notin {"move", "delete"}
<1>1. \A op \in ToSet(Tail(s)) : op.kind # "move"
  BY TailFirst
<1>2. /\ Len(s) \in Nat /\ Len(s) > 0 /\ Head(s) = s[1] /\ Len(Tail(s)) = Len(s) - 1
      /\ DOMAIN Tail(s) = 1..Len(Tail(s))
  OBVIOUS
<1>3. ASSUME NEW i \in 1..Len(Tail(s)) PROVE Tail(s)[i].kind # "delete"
  <2>1. Tail(s)[i] = s[i + 1] /\ i + 1 \in 1..Len(s) /\ 1 < i + 1 /\ 1 \in 1..Len(s)
    BY <1>2
  <2> QED BY <1>2, <2>1 DEF DeletesAndMovesFirst
<1> QED BY <1>1, <1>2, <1>3 DEF ToSet

\* _put
LEMMA PutEffect ==
    ASSUME JournalSound, CatalogSound, AheadSound, EffectSound,
           NEW k \in Keys, NEW p \in Paths, NEW h \in Hashes, PutStep(k, p, h)
    PROVE  EffectSound'
<1> DEFINE id == <<writer, k>>
<1>1. work \in Tables /\ writer \in Writers /\ id \in Ids /\ todo \in Seq(Operation)
  BY CatalogTypes DEF Ids, CatalogSound, PlanSound
<1>2. CASE PutUnchanged(k, p, h) \/ PutObject(k, p, h) \/ PutTree(k, p, h) \/ PutOldPath(k, p, h)
  <2>1. /\ UNCHANGED <<catalog, work, writer, ops, todo, moves>>
        /\ pc \in {"next", "put_tree", "put_old"} /\ pc' \in Putting
    BY <1>2 DEF PutUnchanged, PutObject, PutTree, PutOldPath, Putting
  <2> QED BY <2>1, SameEffect DEF Applying, Putting, Moving
<1>3. CASE PutRow(k, p, h)
  <2> DEFINE o == IF fresh # None THEN fresh ELSE work.rows[id].obj
             new == [path |-> p, hash |-> h, obj |-> o]
  <2>1. /\ pc = "put_row" /\ pc' = "next" /\ Head(todo) = PutOp(k, p, h) /\ todo' = Tail(todo)
        /\ work' = [work EXCEPT !.rows[id] = new] /\ UNCHANGED <<catalog, writer, ops>>
        /\ todo # <<>>
    BY <1>3 DEF PutRow, CatalogSound, PlanSound, Putting
  <2>2. o \in Objs
    <3>1. fresh \in Objs \cup {None}
      BY DEF JournalSound, TypeOK
    <3>2. fresh = None => work.rows[id] # None
      BY <2>1 DEF JournalSound, LocalsSound
    <3> QED BY <1>1, <3>1, <3>2, RowFacts
  <2> HIDE DEF o
  <2>3. new \in Row /\ new # None /\ new.path = p /\ new.hash = h
    BY <2>2, StoreAssumption DEF Row, Locations
  <2> HIDE DEF new
  <2>4. /\ \A i \in Ids : i # id => work'.rows[i] = work.rows[i]
        /\ work'.rows[id] = new /\ work'.decided = work.decided
    BY <1>1, <2>1 DEF Tables
  <2>5. Head(todo).key = k /\ Head(todo).kind = "put" /\ Head(todo) \in Of("put", k)
    BY <1>1, <2>1, TailHolds DEF PutOp, Of
  <2>6. DocOf(work'.rows)[id] = Atomic!Written(Head(todo))
    BY <1>1, <2>1, <2>3, <2>4 DEF DocOf, PutOp, Atomic!Written
  <2>7. \A op \in ToSet(Tail(todo)) : op.kind \notin {"move", "delete"}
    BY <1>1, <2>1, <2>5, PutLast DEF AheadSound
  <2>8. Atomic!Outcome(DocOf(work.rows)[id], todo, k)
            = Atomic!Outcome(DocOf(work'.rows)[id], Tail(todo), k)
    BY <1>1, <2>1, <2>5, <2>6, <2>7, TailPut
  <2>9. Current = id /\ Applying /\ pc \notin {"plan"} \cup Moving
    BY <2>1, <2>5 DEF Current, Applying, Moving
  <2> QED BY <1>1, <2>1, <2>4, <2>5, <2>8, <2>9, NextEffect
<1>4. CASE PutRaises(k, p, h)
  BY <1>4 DEF PutRaises, Raise, EffectSound, Applying, Moving
<1> QED BY <1>2, <1>3, <1>4 DEF PutStep

\* _delete
LEMMA DeleteEffect ==
    ASSUME JournalSound, CatalogSound, EffectSound, NEW k \in Keys, DeleteStep(k)
    PROVE  EffectSound'
<1> DEFINE id == <<writer, k>>
<1>1. work \in Tables /\ writer \in Writers /\ id \in Ids /\ todo \in Seq(Operation)
  BY CatalogTypes DEF Ids, CatalogSound, PlanSound
<1>2. CASE DeleteTree(k)
  <2>1. /\ UNCHANGED <<catalog, work, writer, ops, todo, moves>>
        /\ pc = "next" /\ pc' = "delete_row"
    BY <1>2 DEF DeleteTree
  <2> QED BY <2>1, SameEffect DEF Applying, Moving
<1>3. CASE DeleteUnknown(k) \/ DeleteRow(k)
  <2>1. /\ pc \in {"next", "delete_row"} /\ pc' = "next" /\ Head(todo) = DeleteOp(k)
        /\ todo' = Tail(todo) /\ UNCHANGED <<catalog, writer, ops>> /\ todo # <<>>
    BY <1>3 DEF DeleteUnknown, DeleteRow, data, CatalogSound, PlanSound
  <2>2. /\ \A i \in Ids : i # id => work'.rows[i] = work.rows[i]
        /\ work'.rows[id] = None /\ work'.decided = work.decided
    <3>1. CASE DeleteUnknown(k)
      BY <3>1 DEF DeleteUnknown, data
    <3>2. CASE DeleteRow(k)
      <4>1. work' = [work EXCEPT !.rows[id] = None]
        BY <3>2 DEF DeleteRow
      <4> QED BY <1>1, <4>1 DEF Tables
    <3> QED BY <1>3, <3>1, <3>2
  <2>3. Head(todo).key = k /\ Head(todo).kind = "delete" /\ Head(todo) \in Of("delete", k)
    BY <1>1, <2>1, TailHolds DEF DeleteOp, Of
  <2>4. DocOf(work'.rows)[id] = None
    BY <1>1, <2>2 DEF DocOf
  <2>5. Atomic!Outcome(DocOf(work.rows)[id], todo, k)
            = Atomic!Outcome(DocOf(work'.rows)[id], Tail(todo), k)
    BY <1>1, <2>1, <2>3, <2>4, TailDelete
  <2>6. Current = id /\ Applying /\ pc \notin {"plan"} \cup Moving
    BY <2>1, <2>3 DEF Current, Applying, Moving
  <2> QED BY <1>1, <2>1, <2>2, <2>3, <2>5, <2>6, NextEffect
<1> QED BY <1>2, <1>3 DEF DeleteStep

\* _decision
LEMMA DecisionEffect ==
    ASSUME JournalSound, CatalogSound, EffectSound,
           NEW k \in Keys, NEW p \in Paths \cup {None}, Decision(k, p)
    PROVE  EffectSound'
<1> DEFINE id == <<writer, k>>
<1>1. work \in Tables /\ writer \in Writers /\ id \in Ids /\ todo \in Seq(Operation)
  BY CatalogTypes DEF Ids, CatalogSound, PlanSound
<1>2. /\ pc = "next" /\ pc' = "next" /\ Head(todo) = DecisionOp(k, p) /\ todo' = Tail(todo)
      /\ UNCHANGED <<catalog, writer, ops>> /\ todo # <<>>
      /\ work' = [work EXCEPT !.decided = @ \cup {id}]
  BY DEF Decision
<1>3. work'.rows = work.rows /\ work'.decided = work.decided \cup {id}
  BY <1>1, <1>2 DEF Tables
<1>4. Head(todo).key = k /\ Head(todo).kind = "decision" /\ Current = id
  BY <1>2 DEF DecisionOp, Current
<1>5. Atomic!Outcome(DocOf(work.rows)[id], todo, k)
          = Atomic!Outcome(DocOf(work'.rows)[id], Tail(todo), k)
  BY <1>1, <1>2, <1>3, <1>4, TailOther
<1>6. Applying /\ pc \notin {"plan"} \cup Moving
  BY <1>2 DEF Applying, Moving
<1>7. \A i \in Ids : i # Current => work'.rows[i] = work.rows[i]
  BY <1>3
<1> QED BY <1>1, <1>2, <1>3, <1>4, <1>5, <1>6, <1>7, NextEffect

\* The plan is to do what the batch is to do.
LEMMA PlanEffect ==
    ASSUME CatalogSound, Plan
    PROVE  EffectSound'
<1> DEFINE ordered == OrderedOperations(ops, PathsBySource(catalog.rows), writer)
<1>1. /\ pc = "plan" /\ pc' = "next" /\ todo' = ordered /\ ~DuplicateMoveSources(ops)
      /\ UNCHANGED <<catalog, work, writer, ops>> /\ work = catalog /\ ops \in Seq(Operation)
  BY DEF Plan, data, CatalogSound, RowsSound, PlanSound
<1>2. \A op \in Operation : op.kind \in {"put", "move", "delete", "decision"}
  BY DEF Operation
<1>3. ToSet(ordered) = ToSet(ops)
  BY <1>1, <1>2, OrderedHolds
<1>4. \A k, doc : Atomic!Outcome(doc, ordered, k) = Atomic!Outcome(doc, ops, k)
  BY <1>1, OrderedOutcome
<1> HIDE DEF ordered
<1>5. \A k \in Keys : Leads(work.rows, todo, k)'
  <2>1. \A k : Intended(k)' = Intended(k)
    BY <1>1 DEF Intended
  <2>2. \A k : Atomic!Outcome(DocOf(work'.rows)[<<writer, k>>], todo', k) = Intended(k)
    BY <1>1, <1>4 DEF Intended
  <2> QED BY <1>1, <2>1, <2>2 DEF Leads
<1>6. work.decided \cup Decisions(writer, ordered) = catalog.decided \cup Decisions(writer, ops)
  BY <1>1, <1>3 DEF Decisions
<1> QED BY <1>1, <1>5, <1>6 DEF EffectSound, Decisions, Moving

\* _move_batch takes its moves off the plan.
LEMMA MoveBeginEffect ==
    ASSUME JournalSound, CatalogSound, AheadSound, ApartSound, EffectSound, MoveBegin
    PROVE  EffectSound'
<1> DEFINE rest == SubSeq(todo, Len(OfKind(todo, "move")) + 1, Len(todo))
<1>1. /\ pc = "next" /\ pc' = "breaks" /\ todo # <<>> /\ Head(todo).kind = "move"
      /\ todo \in Seq(Operation) /\ DeletesAndMovesFirst(todo) /\ InTurn(OtherSource, todo)
      /\ todo' = rest /\ moves' = MovesAhead /\ UNCHANGED <<catalog, work, writer, ops>>
      /\ \A op \in ToSet(MovesAhead) : ValidMove(op)
  BY DEF MoveBegin, MovesAhead, data, CatalogSound, PlanSound, AheadSound, ApartSound, Applying
<1>2. ToSet(moves') = {op \in ToSet(todo) : op.kind = "move"}
  BY <1>1, KindsKept DEF MovesAhead
<1>3. /\ rest \in Seq(Operation)
      /\ \A op : op \in ToSet(rest) <=> op \in ToSet(todo) /\ op.kind # "move"
  BY <1>1, RunRest
<1>4. \A k, doc :
          /\ \A op \in ToSet(todo) \cap Of("move", k) :
                 Atomic!Outcome(doc, todo, k) = Atomic!Outcome(Atomic!Written(op), rest, k)
          /\ ToSet(todo) \cap Of("move", k) = {} =>
                 Atomic!Outcome(doc, todo, k) = Atomic!Outcome(doc, rest, k)
  BY <1>1, RunOutcome
<1>5. \A k \in Keys : Atomic!Outcome(DocOf(work.rows)[<<writer, k>>], todo, k) = Intended(k)
  BY <1>1 DEF EffectSound, Leads, Applying, Moving
<1>6. \A op \in ToSet(todo) : op \in Operation /\ op.key \in Keys
  BY <1>1 DEF ToSet, Operation
<1> HIDE DEF rest
<1>7. \A k : Intended(k)' = Intended(k)
  BY <1>1 DEF Intended
<1>8. ASSUME NEW op \in ToSet(moves')
      PROVE  /\ Atomic!Outcome(Atomic!Written(op), rest, op.key) = Intended(op.key)
             /\ work.rows[<<writer, op.key>>] # None
             /\ work.rows[<<writer, op.key>>].hash = op.hash
  <2>1. op \in ToSet(todo) /\ op \in Of("move", op.key) /\ op.key \in Keys
    BY <1>2, <1>6 DEF Of
  <2>2. ValidMove(op)
    BY <1>1
  <2> QED BY <1>4, <1>5, <2>1, <2>2 DEF ValidMove
<1>9. ASSUME NEW k \in Keys, \A op \in ToSet(moves') : op.key # k
      PROVE  Atomic!Outcome(DocOf(work.rows)[<<writer, k>>], rest, k) = Intended(k)
  <2>1. ToSet(todo) \cap Of("move", k) = {}
    BY <1>2, <1>9 DEF Of
  <2> QED BY <1>4, <1>5, <2>1
<1>10. Decisions(writer, rest) = Decisions(writer, todo)
  BY <1>3 DEF Decisions
<1>11. work.decided \cup Decisions(writer, rest) = catalog.decided \cup Decisions(writer, ops)
  BY <1>1, <1>10 DEF EffectSound, Applying
<1>12. \A k \in Keys : (\A op \in ToSet(moves') : op.key # k) => Leads(work.rows, todo, k)'
  BY <1>1, <1>7, <1>9 DEF Leads
<1>13. \A op \in ToSet(moves') :
           /\ Atomic!Outcome(Atomic!Written(op), todo', op.key) = Intended(op.key)'
           /\ work'.rows[<<writer', op.key>>] # None
           /\ work'.rows[<<writer', op.key>>].hash = op.hash
  BY <1>1, <1>7, <1>8
<1> QED BY <1>1, <1>11, <1>12, <1>13 DEF EffectSound, Decisions, Moving, Applying

\* The rows of parked files are re-keyed; each has its move to come.
LEMMA RekeyEffect ==
    ASSUME JournalSound, CatalogSound, EffectSound, RekeyParked
    PROVE  EffectSound'
<1>1. /\ pc = "breaks" /\ pc' = "moves" /\ UNCHANGED <<catalog, writer, ops, todo, moves>>
      /\ work \in Tables /\ writer \in Writers
  BY CatalogTypes DEF RekeyParked
<1> DEFINE new == [id \in Ids |->
                       IF id[1] = writer /\ from[id[2]] # None /\ temp[from[id[2]]] # None
                       THEN [work.rows[id] EXCEPT !.path = temp[from[id[2]]]]
                       ELSE work.rows[id]]
<1>2. work' = [work EXCEPT !.rows = new]
  BY DEF RekeyParked
<1>3. work'.rows = new /\ work'.decided = work.decided
  <2> HIDE DEF new
  <2> QED BY <1>1, <1>2 DEF Tables
<1>4. ASSUME NEW k \in Keys, \A op \in ToSet(moves) : op.key # k
      PROVE  work'.rows[<<writer, k>>] = work.rows[<<writer, k>>]
  <2>1. from[k] = None
    BY <1>1, <1>4 DEF CatalogSound, ParkingSound
  <2> QED BY <1>1, <1>3, <2>1 DEF Ids
<1>5. ASSUME NEW op \in ToSet(moves)
      PROVE  /\ work'.rows[<<writer, op.key>>] # None
             /\ work'.rows[<<writer, op.key>>].hash = op.hash
  <2> DEFINE id == <<writer, op.key>>
  <2>1. work.rows[id] # None /\ work.rows[id].hash = op.hash
    BY <1>1 DEF EffectSound, Moving
  <2>2. op.key \in Keys /\ id \in Ids
    BY <1>1 DEF CatalogSound, PlanSound, ToSet, Operation, Ids
  <2>3. work.rows[id] \in Row
    BY <1>1, <2>1, <2>2 DEF Tables
  <2>4. temp[from[op.key]] # None /\ from[op.key] # None => temp[from[op.key]] \in UndoNames
    BY <2>2 DEF JournalSound, TypeOK
  <2>5. id[1] = writer /\ id[2] = op.key
    OBVIOUS
  <2>6. \/ work'.rows[id] = work.rows[id]
        \/ /\ work'.rows[id] = [work.rows[id] EXCEPT !.path = temp[from[op.key]]]
           /\ temp[from[op.key]] # None /\ from[op.key] # None
    BY <1>3, <2>2, <2>5
  <2>7. ASSUME NEW u \in UndoNames
        PROVE  /\ [work.rows[id] EXCEPT !.path = u] \in Row
               /\ [work.rows[id] EXCEPT !.path = u].hash = work.rows[id].hash
    BY <2>3 DEF Row, Locations
  <2> QED BY <2>1, <2>4, <2>6, <2>7, StoreAssumption
<1>6. \A k : Intended(k)' = Intended(k)
  BY <1>1 DEF Intended
<1>7. ASSUME NEW k \in Keys, \A op \in ToSet(moves') : op.key # k
      PROVE  Leads(work.rows, todo, k)'
  <2>1. work'.rows[<<writer, k>>] = work.rows[<<writer, k>>] /\ <<writer, k>> \in Ids
    BY <1>1, <1>4, <1>7 DEF Ids
  <2>2. DocOf(work'.rows)[<<writer, k>>] = DocOf(work.rows)[<<writer, k>>]
    BY <2>1 DEF DocOf
  <2>3. Leads(work.rows, todo, k)
    BY <1>1, <1>7 DEF EffectSound, Moving
  <2> QED BY <1>1, <1>6, <2>2, <2>3 DEF Leads
<1>8. \A op \in ToSet(moves') :
          /\ Atomic!Outcome(Atomic!Written(op), todo', op.key) = Intended(op.key)'
          /\ work'.rows[<<writer', op.key>>] # None
          /\ work'.rows[<<writer', op.key>>].hash = op.hash
  BY <1>1, <1>5, <1>6 DEF EffectSound, Moving
<1>9. work'.decided \cup Decisions(writer, todo) = catalog.decided \cup Decisions(writer, ops)
  BY <1>1, <1>3 DEF EffectSound, Applying
<1> QED BY <1>1, <1>7, <1>8, <1>9 DEF EffectSound, Decisions, Moving, Applying

\* The row of a move is written.
LEMMA MoveRowEffect ==
    ASSUME JournalSound, CatalogSound, ApartSound, EffectSound,
           NEW k \in Keys, NEW p \in Paths, NEW h \in Hashes, MoveRow(k, p, h)
    PROVE  EffectSound'
<1> DEFINE id == <<writer, k>>
           row == work.rows[id]
<1>1. /\ pc = "move_row" /\ pc' = "moves" /\ Head(moves) = MoveOp(k, p, h)
      /\ moves' = Tail(moves) /\ work' = [work EXCEPT !.rows[id].path = p]
      /\ UNCHANGED <<catalog, writer, ops, todo>> /\ moves # <<>> /\ moves \in Seq(Operation)
      /\ work \in Tables /\ writer \in Writers /\ id \in Ids
  BY CatalogTypes DEF MoveRow, CatalogSound, PlanSound, Ids
<1>2. Head(moves).key = k /\ Head(moves).path = p /\ Head(moves).hash = h
  BY <1>1 DEF MoveOp
<1>3. ToSet(moves) = {Head(moves)} \cup ToSet(moves') /\ Head(moves) \in ToSet(moves)
  BY <1>1, TailHolds
<1>4. /\ Atomic!Outcome(Atomic!Written(Head(moves)), todo, k) = Intended(k)
      /\ row # None /\ row.hash = h
  BY <1>1, <1>2, <1>3 DEF EffectSound, Moving
<1>5. row \in Row
  BY <1>1, <1>4 DEF Tables
<1>6. /\ \A i \in Ids : i # id => work'.rows[i] = work.rows[i]
      /\ work'.rows[id] = [row EXCEPT !.path = p] /\ work'.decided = work.decided
  BY <1>1, <1>4 DEF Tables
<1>7. /\ work'.rows[id] # None /\ work'.rows[id].path = p /\ work'.rows[id].hash = h
  <2>1. [row EXCEPT !.path = p] \in Row
    BY <1>5 DEF Row, Locations
  <2> QED BY <1>4, <1>5, <1>6, <2>1, StoreAssumption DEF Row
<1>8. DocOf(work'.rows)[id] = Atomic!Written(Head(moves))
  BY <1>1, <1>2, <1>7 DEF DocOf, Atomic!Written
<1>9. \A op \in ToSet(moves') : op.key # k
  <2>1. /\ Len(moves') = Len(moves) - 1 /\ Len(moves) \in Nat /\ Len(moves) > 0
        /\ Head(moves) = moves[1] /\ DOMAIN moves' = 1..Len(moves')
        /\ \A i \in 1..Len(moves') : moves'[i] = moves[i + 1]
    BY <1>1
  <2>2. ASSUME NEW i \in 1..Len(moves') PROVE moves'[i].key # k
    <3>1. i + 1 \in 1..Len(moves) /\ 1 \in 1..Len(moves) /\ 1 < i + 1
      BY <2>1
    <3>2. <<Head(moves), moves'[i]>> \in OtherSource
      BY <1>1, <2>1, <3>1 DEF ApartSound, Moving, InTurn
    <3>3. moves'[i] \in ToSet(moves)
      BY <1>3, <2>1 DEF ToSet
    <3>4. moves'[i].kind = "move" /\ Head(moves).kind = "move"
      BY <1>1, <1>3, <3>3 DEF ApartSound, Moving
    <3> QED BY <1>2, <3>2, <3>4 DEF OtherSource
  <2> QED BY <2>1, <2>2 DEF ToSet
<1>10. \A x : Intended(x)' = Intended(x)
  BY <1>1 DEF Intended
<1>11. ASSUME NEW x \in Keys, \A op \in ToSet(moves') : op.key # x
       PROVE  Leads(work.rows, todo, x)'
  <2>1. CASE x = k
    BY <1>1, <1>4, <1>8, <1>10, <2>1 DEF Leads
  <2>2. CASE x # k
    <3>1. <<writer, x>> \in Ids /\ <<writer, x>> # id
      BY <1>1, <2>2 DEF Ids
    <3>2. DocOf(work'.rows)[<<writer, x>>] = DocOf(work.rows)[<<writer, x>>]
      BY <1>6, <3>1 DEF DocOf
    <3>3. Leads(work.rows, todo, x)
      BY <1>1, <1>2, <1>3, <1>11, <2>2 DEF EffectSound, Moving
    <3> QED BY <1>1, <1>10, <3>2, <3>3 DEF Leads
  <2> QED BY <2>1, <2>2
<1>12. ASSUME NEW op \in ToSet(moves')
       PROVE  /\ Atomic!Outcome(Atomic!Written(op), todo', op.key) = Intended(op.key)'
              /\ work'.rows[<<writer', op.key>>] # None
              /\ work'.rows[<<writer', op.key>>].hash = op.hash
  <2>1. /\ Atomic!Outcome(Atomic!Written(op), todo, op.key) = Intended(op.key)
        /\ work.rows[<<writer, op.key>>] # None
        /\ work.rows[<<writer, op.key>>].hash = op.hash
    BY <1>1, <1>3 DEF EffectSound, Moving
  <2>2. op.key \in Keys /\ op.key # k
    BY <1>1, <1>3, <1>9 DEF ToSet, Operation
  <2>3. <<writer, op.key>> \in Ids /\ <<writer, op.key>> # id
    BY <1>1, <2>2 DEF Ids
  <2> QED BY <1>1, <1>6, <1>10, <2>1, <2>3
<1>13. work'.decided \cup Decisions(writer, todo) = catalog.decided \cup Decisions(writer, ops)
  BY <1>1, <1>6 DEF EffectSound, Applying
<1>14. \A x \in Keys : (\A op \in ToSet(moves') : op.key # x) => Leads(work.rows, todo, x)'
  BY <1>11
<1>15. \A op \in ToSet(moves') :
           /\ Atomic!Outcome(Atomic!Written(op), todo', op.key) = Intended(op.key)'
           /\ work'.rows[<<writer', op.key>>] # None
           /\ work'.rows[<<writer', op.key>>].hash = op.hash
  BY <1>12
<1>16. pc' = "moves" /\ UNCHANGED <<catalog, writer, ops, todo>>
  BY <1>1
<1> QED BY <1>13, <1>14, <1>15, <1>16 DEF EffectSound, Decisions, Moving, Applying

\* The steps of _move_batch.
LEMMA MoveEffect ==
    ASSUME JournalSound, CatalogSound, AheadSound, ApartSound, EffectSound, MoveStep
    PROVE  EffectSound'
<1>1. CASE \/ \E p \in Paths : BreakCycle(p)
           \/ \E k \in Keys, p \in Paths, h \in Hashes : MoveFile(k, p, h)
  <2>1. /\ UNCHANGED <<catalog, work, writer, ops, todo, moves>>
        /\ pc \in Moving /\ pc' \in Moving
    BY <1>1 DEF BreakCycle, MoveFile, Moving
  <2> QED BY <2>1, SameEffect DEF Applying, Moving
<1>2. CASE MoveBatchDone
  <2>1. /\ UNCHANGED <<catalog, work, writer, ops, todo>> /\ pc = "moves" /\ pc' = "next"
        /\ moves = <<>>
    BY <1>2 DEF MoveBatchDone, data
  <2>2. ToSet(moves) = {}
    BY <2>1 DEF ToSet
  <2>3. \A k \in Keys : Leads(work.rows, todo, k)
    BY <2>1, <2>2 DEF EffectSound, Moving
  <2>4. \A k : Intended(k)' = Intended(k)
    BY <2>1 DEF Intended
  <2>5. \A k \in Keys : Leads(work.rows, todo, k)'
    BY <2>1, <2>3, <2>4 DEF Leads
  <2> QED BY <2>1, <2>5 DEF EffectSound, Decisions, Applying, Moving
<1>3. CASE MoveRaises
  BY <1>3 DEF MoveRaises, Raise, EffectSound, Applying, Moving
<1> QED BY <1>1, <1>2, <1>3, MoveBeginEffect, RekeyEffect, MoveRowEffect DEF MoveStep

-----------------------------------------------------------------------------
(***************************************************************************)
(* The simulation of CtxfsAtomic: a submission is seen to happen when it   *)
(* commits, and until then the tree is the one it found.                   *)
(***************************************************************************)

\* What a reader finds in f.
Reading(f, bytes) == [p \in Paths |-> IF f[p] = None THEN None ELSE bytes[f[p]]]

\* A client knows of a document by its row.
LEMMA DocFacts ==
    ASSUME NEW rows \in [Ids -> Row \cup {None}], Placed(rows), NEW id \in Ids
    PROVE  /\ DocOf(rows)[id] # None <=> rows[id] # None
           /\ rows[id] # None => /\ DocOf(rows)[id].path = rows[id].path
                                 /\ DocOf(rows)[id].hash = rows[id].hash
                                 /\ rows[id].path \in Paths
                                 /\ DocOf(rows)[id] \in [path : Paths, hash : Hashes]
<1>1. rows[id] # None => rows[id].path \in Paths /\ rows[id].hash \in Hashes
  BY GrantsAssumption DEF Placed, Ids, Row
<1>2. rows[id] # None => DocOf(rows)[id] = [path |-> rows[id].path, hash |-> rows[id].hash]
  BY DEF DocOf
<1>3. rows[id] = None => DocOf(rows)[id] = None
  BY DEF DocOf
<1> QED BY <1>1, <1>2, <1>3, StoreAssumption

\* The documents of a catalog are at different paths.
LEMMA DocsApart ==
    ASSUME NEW rows \in [Ids -> Row \cup {None}], Placed(rows)
    PROVE  /\ DocOf(rows) \in [Atomic!DocIds -> Atomic!Doc \cup {None}]
           /\ Atomic!OnePathEach(DocOf(rows))
<1>1. Atomic!DocIds = Ids /\ DOMAIN DocOf(rows) = Ids
  BY DEF Atomic!DocIds, Ids, DocOf
<1>2. \A id \in Ids : DocOf(rows)[id] \in Atomic!Doc \cup {None}
  BY DocFacts DEF Atomic!Doc
<1>3. DocOf(rows) = [id \in Ids |-> DocOf(rows)[id]]
  BY DEF DocOf
<1>4. \A i, j \in Ids : (i # j /\ rows[i] # None /\ rows[j] # None) => rows[i].path # rows[j].path
  BY DEF Placed, PathFree
<1>5. Atomic!OnePathEach(DocOf(rows))
  BY <1>1, <1>4, DocFacts DEF Atomic!OnePathEach
<1> QED BY <1>1, <1>2, <1>3, <1>5

\* Where every row has its file, and every file its row, a reader finds what the rows say.
LEMMA ViewOfDocs ==
    ASSUME NEW rows \in [Ids -> Row \cup {None}], Placed(rows), NEW f, NEW bytes,
           AllIntact(rows, Ids, f, bytes), Tidy(rows, Ids, f, {})
    PROVE  Reading(f, bytes) = Atomic!ViewOf(DocOf(rows))
<1> DEFINE d == DocOf(rows)
           at(p) == {id \in Ids : d[id] # None /\ d[id].path = p}
<1>1. Atomic!ViewOf(d) = [p \in Paths |-> IF at(p) = {} THEN None
                                          ELSE d[CHOOSE id \in at(p) : TRUE].hash]
  BY DEF Atomic!ViewOf, Atomic!DocIds, Ids
<1>2. ASSUME NEW p \in Paths
      PROVE  (IF f[p] = None THEN None ELSE bytes[f[p]])
                 = IF at(p) = {} THEN None ELSE d[CHOOSE id \in at(p) : TRUE].hash
  <2>1. \A id : id \in at(p) <=> id \in Ids /\ rows[id] # None /\ rows[id].path = p
    BY DocFacts
  <2>2. CASE at(p) = {}
    <3>1. f[p] = None
      BY <2>1, <2>2 DEF Tidy
    <3> QED BY <2>2, <3>1
  <2>3. CASE at(p) # {}
    <3>1. PICK id \in Ids : id \in at(p) /\ rows[id] # None /\ rows[id].path = p
      BY <2>1, <2>3
    <3>2. \A i \in at(p) : i = id
      BY <2>1, <3>1 DEF Placed, PathFree
    <3>3. (CHOOSE i \in at(p) : TRUE) = id
      <4> HIDE DEF at
      <4> QED BY <3>1, <3>2
    <3>4. f[p] = rows[id].obj /\ bytes[f[p]] = rows[id].hash /\ rows[id].obj # None
      BY <3>1, StoreAssumption DEF AllIntact, Intact, Row
    <3>5. d[id].hash = rows[id].hash
      BY <3>1, DocFacts
    <3> HIDE DEF at, d
    <3> QED BY <2>3, <3>3, <3>4, <3>5
  <2> QED BY <2>2, <2>3
<1> HIDE DEF at
<1> QED BY <1>1, <1>2 DEF Reading

\* What a reader finds is what it found.
LEMMA SameReading ==
    ASSUME NEW f, NEW g, NEW a, NEW b,
           \A p \in Paths : g[p] = f[p] /\ (f[p] # None => b[f[p]] = a[f[p]])
    PROVE  Reading(g, b) = Reading(f, a)
BY DEF Reading

\* A step of a submission before it commits, or of its rollback.
Working ==
    /\ Uncommitted /\ Uncommitted' /\ before'.fs = before.fs
    /\ UNCHANGED <<catalog, writer, ops, status, undo_failed, interrupted>>
    /\ \A l \in Locations : before.fs[l] # None => content'[before.fs[l]] = content[before.fs[l]]

\* A submission writes no object but one that nothing in the tree has.
LEMMA PutWorking ==
    ASSUME JournalSound, FoundSound, NEW k \in Keys, NEW p \in Paths, NEW h \in Hashes,
           PutStep(k, p, h)
    PROVE  Working
<1>1. CASE PutObject(k, p, h)
  <2>1. PICK o \in Objs : UnusedObject(o) /\ content' = [content EXCEPT ![o] = h]
    <3>1. \E o \in Objs : UnusedObject(o)
      BY <1>1 DEF PutObject
    <3>2. (CHOOSE x \in Objs : UnusedObject(x)) \in Objs
          /\ UnusedObject(CHOOSE x \in Objs : UnusedObject(x))
      BY <3>1
    <3> QED BY <1>1, <3>2 DEF PutObject
  <2>2. pc = "next" /\ pc' = "put_tree" /\ UNCHANGED before
        /\ UNCHANGED <<catalog, writer, ops, status, undo_failed, interrupted>>
    BY <1>1 DEF PutObject
  <2>3. KeepsLinks(before.fs, fs)
    BY <2>2 DEF FoundSound, Applying
  <2>4. /\ content \in [Objs -> Hashes]
        /\ \A l \in Locations : before.fs[l] # None => before.fs[l] \in Objs
    BY DEF JournalSound, TypeOK
  <2>5. \A l \in Locations : before.fs[l] # None => before.fs[l] # o
    BY <2>1, <2>3 DEF KeepsLinks, UnusedObject
  <2> QED BY <2>1, <2>2, <2>4, <2>5 DEF Working, Uncommitted
<1>2. CASE PutUnchanged(k, p, h)
  BY <1>2 DEF PutUnchanged, RenameTreeFile, Journal, journal, Working, Uncommitted
<1>3. CASE PutTree(k, p, h)
  BY <1>3 DEF PutTree, ReplaceTreeEntry, Journal, Working, Uncommitted
<1>4. CASE PutOldPath(k, p, h)
  BY <1>4 DEF PutOldPath, RemoveTreeEntry, Supersede, Journal, journal, Working, Uncommitted
<1>5. CASE PutRow(k, p, h) \/ PutRaises(k, p, h)
  BY <1>5 DEF PutRow, PutRaises, Raise, journal, Working, Uncommitted
<1> QED BY <1>1, <1>2, <1>3, <1>4, <1>5 DEF PutStep

\* The other operations.
LEMMA OtherWorking ==
    ASSUME \/ Plan \/ RejectPlan \/ Fault \/ UndoLast \/ MoveStep
           \/ \E k \in Keys : DeleteStep(k)
           \/ \E k \in Keys, p \in Paths \cup {None} : Decision(k, p)
    PROVE  Working
<1>1. CASE Plan \/ RejectPlan \/ Fault \/ UndoLast
  BY <1>1 DEF Plan, RejectPlan, Fault, UndoLast, Raise, data, control, journal, Working, Uncommitted
<1>2. ASSUME NEW k \in Keys, DeleteStep(k) PROVE Working
  BY <1>2 DEF DeleteStep, DeleteUnknown, DeleteTree, DeleteRow, RemoveTreeEntry, Supersede,
              Journal, data, journal, Working, Uncommitted
<1>3. ASSUME NEW k \in Keys, NEW p \in Paths \cup {None}, Decision(k, p) PROVE Working
  BY <1>3 DEF Decision, journal, Working, Uncommitted
<1>4. CASE MoveBegin \/ RekeyParked \/ MoveBatchDone \/ MoveRaises
  BY <1>4 DEF MoveBegin, RekeyParked, MoveBatchDone, MoveRaises, Raise, data, journal,
              Working, Uncommitted
<1>5. ASSUME NEW p \in Paths, BreakCycle(p) PROVE Working
  BY <1>5 DEF BreakCycle, RenameTreeFile, Journal, journal, Working, Uncommitted
<1>6. ASSUME NEW k \in Keys, NEW p \in Paths, NEW h \in Hashes,
             MoveFile(k, p, h) \/ MoveRow(k, p, h)
      PROVE  Working
  BY <1>6 DEF MoveFile, MoveRow, RenameTreeFile, Journal, journal, Working, Uncommitted
<1> QED BY <1>1, <1>2, <1>3, <1>4, <1>5, <1>6 DEF MoveStep

\* A write that is cut short changes what the submission answers for, not what it found.
LEMMA TornWorking ==
    ASSUME JournalSound, NEW k \in Keys, NEW p \in Paths, NEW h \in Hashes,
           PutObjectTorn(k, p, h)
    PROVE  Working
<1>1. before \in [fs : Files, objects : SUBSET Objs]
  BY DEF JournalSound, TypeOK, Files
<1>2. before'.fs = before.fs
  BY <1>1 DEF PutObjectTorn
<1> QED BY <1>2 DEF PutObjectTorn, Working, Uncommitted

\* Where the process does not die and no closure raises, what a step can be.
LEMMA CalmSteps ==
    ASSUME MaxCrashes = 0, MaxUndoFaults = 0, JournalSound, LeftoversSound, FoundSound, Next
    PROVE  \/ \E w \in Writers, batch \in Batches : Accept(w, batch)
           \/ Working
           \/ Commit \/ MarkFailed \/ MarkFailedRaises \/ CleanupFirst \/ Return
<1>1. ~UndoRaises /\ ~CleanupRaises /\ ~Crash
  BY DEF LeftoversSound, UndoRaises, CleanupRaises, Crash
<1> QED BY <1>1, PutWorking, OtherWorking, TornWorking DEF Next, Proceed, Disturb

\* The submission has its QUEUED row until it is committed or marked.
LEMMA StepServed ==
    ASSUME MaxCrashes = 0, MaxUndoFaults = 0, JournalSound, LeftoversSound, FoundSound,
           ServedSound, [Next]_vars
    PROVE  ServedSound'
<1>1. CASE UNCHANGED vars
  BY <1>1 DEF vars, control, journal, ServedSound, Uncommitted
<1>2. CASE Next
  <2>1. CASE \E w \in Writers, batch \in Batches : Accept(w, batch)
    BY <2>1 DEF Accept, ServedSound
  <2>2. CASE Working
    BY <2>2 DEF Working, ServedSound
  <2>3. CASE Commit \/ MarkFailed \/ MarkFailedRaises \/ CleanupFirst \/ Return
    <3>1. UNCHANGED interrupted /\ (undo_failed' = undo_failed \/ undo_failed' = FALSE)
      BY <2>3 DEF Commit, MarkFailed, MarkFailedRaises, CleanupFirst, Return, Forget, journal
    <3>2. pc' \in {"idle", "cleanup"}
      BY <2>3 DEF Commit, MarkFailed, MarkFailedRaises, CleanupFirst, Return, Forget, control
    <3> QED BY <3>1, <3>2 DEF ServedSound, Uncommitted
  <2> QED BY <1>2, <2>1, <2>2, <2>3, CalmSteps
<1> QED BY <1>1, <1>2

\* The cleanup removes backups, and no file of the tree.
LEMMA CleanupTree ==
    ASSUME JournalSound, CleanupFirst
    PROVE  \A q \in Paths : fs'[q] = fs[q]
<1> DEFINE u == Head(cleanup_stack).backup
<1>1. /\ cleanup_stack # <<>> /\ fs' = IF u = None THEN fs ELSE [fs EXCEPT ![u] = None]
  BY DEF CleanupFirst
<1>2. fs \in Files /\ u \in UndoNames \cup {None}
  <2>1. cleanup_stack \in Seq(CleanupRecords)
    BY DEF JournalSound, TypeOK
  <2>2. Head(cleanup_stack) \in CleanupRecords
    BY <1>1, <2>1
  <2> QED BY <2>2, JournalTypes DEF CleanupRecords
<1> HIDE DEF u
<1> QED BY <1>1, <1>2, StoreAssumption DEF Files, Locations

\* When its closures have run, a submission leaves the files it found.
LEMMA FilesBack ==
    ASSUME JournalSound, ServedSound, pc = "undo", undo_stack = <<>>
    PROVE  fs = before.fs
BY DEF JournalSound, TrailSound, ServedSound

\* The committed rows and the files there are, or that there were.
LEMMA StepTidyFound ==
    ASSUME MaxCrashes = 0, MaxUndoFaults = 0, JournalSound, CatalogSound, LeftoversSound,
           FoundSound, ServedSound, TidyFound, TidyNow, [Next]_vars
    PROVE  TidyFound'
<1>1. CASE UNCHANGED vars
  BY <1>1 DEF vars, data, control, journal, TidyFound, Uncommitted
<1>2. CASE Next
  <2>1. CASE \E w \in Writers, batch \in Batches : Accept(w, batch)
    <3>1. /\ pc = "idle" /\ pc' = "plan" /\ before' = [fs |-> fs, objects |-> objects]
          /\ UNCHANGED catalog
      BY <2>1 DEF Accept, data
    <3>2. before'.fs = fs
      BY <3>1
    <3> QED BY <3>1, <3>2 DEF TidyFound, Uncommitted
  <2>2. CASE Working
    BY <2>2 DEF Working, TidyFound, Uncommitted
  <2>3. CASE Commit
    BY <2>3 DEF Commit, TidyFound, TidyNow, Uncommitted
  <2>4. CASE MarkFailed \/ MarkFailedRaises
    <3>1. /\ pc = "undo" /\ undo_stack = <<>> /\ pc' \in {"idle", "cleanup"}
          /\ UNCHANGED <<catalog, fs>>
      BY <2>4 DEF MarkFailed, MarkFailedRaises, Forget, data
    <3>2. Tidy(catalog.rows, Ids, fs, {})
      BY <3>1, FilesBack DEF TidyFound, Uncommitted
    <3> QED BY <3>1, <3>2 DEF TidyFound, Uncommitted
  <2>5. CASE CleanupFirst
    <3>1. /\ pc = "cleanup" /\ pc' = "cleanup" /\ UNCHANGED catalog
      BY <2>5 DEF CleanupFirst, control
    <3>2. \A q \in Paths : fs'[q] = fs[q]
      BY <2>5, CleanupTree
    <3>3. Tidy(catalog.rows, Ids, fs', {})
      BY <3>1, <3>2 DEF TidyFound, Tidy
    <3> QED BY <3>1, <3>3 DEF TidyFound, Uncommitted
  <2>6. CASE Return
    BY <2>6 DEF Return, Forget, data, TidyFound, Uncommitted
  <2> QED BY <1>2, <2>1, <2>2, <2>3, <2>4, <2>5, <2>6, CalmSteps
<1> QED BY <1>1, <1>2

\* No step but those of the operations is about the plan and the open transaction.
LEMMA AwayFromPlan ==
    ASSUME pc' \in {"idle", "undo", "cleanup"}
    PROVE  EffectSound' /\ TidyNow'
BY DEF EffectSound, TidyNow, Applying, Moving

\* What is left of the plan, and the files of the transaction.
LEMMA StepPlanned ==
    ASSUME JournalSound, CatalogSound, AheadSound, DamageSound, AtomicSound, [Next]_vars
    PROVE  EffectSound' /\ TidyNow'
<1>1. ApartSound /\ EffectSound /\ TidyNow
  BY DEF DamageSound, AtomicSound
<1>2. CASE UNCHANGED vars
  <2>1. UNCHANGED <<catalog, work, fs, pc, writer, ops, todo, moves>>
    BY <1>2 DEF vars, data, control
  <2>2. \A k : Intended(k)' = Intended(k)
    BY <2>1 DEF Intended
  <2>3. EffectSound'
    BY <1>1, <2>1, <2>2 DEF EffectSound, Leads, Applying, Decisions
  <2>4. TidyNow'
    BY <1>1, <2>1 DEF TidyNow, Current
  <2> QED BY <2>3, <2>4
<1>3. CASE \E w \in Writers, batch \in Batches : Accept(w, batch)
  <2>1. pc = "idle" /\ pc' = "plan" /\ UNCHANGED <<catalog, work, fs>>
    BY <1>3 DEF Accept, data
  <2>2. work = catalog /\ Tidy(catalog.rows, Ids, fs, {})
    BY <2>1 DEF CatalogSound, RowsSound, AtomicSound, TidyFound
  <2>3. EffectSound'
    BY <2>1 DEF EffectSound, Applying, Moving
  <2>4. TidyNow'
    BY <2>1, <2>2 DEF TidyNow
  <2> QED BY <2>3, <2>4
<1>4. CASE Plan
  <2>1. TidyNow'
    BY <1>1, <1>4 DEF Plan, data, TidyNow
  <2> QED BY <1>4, <2>1, PlanEffect
<1>5. CASE RejectPlan \/ Commit \/ UndoLast \/ MarkFailed \/ CleanupFirst \/ Return \/ Disturb
  <2>1. pc' \in {"idle", "undo", "cleanup"}
    BY <1>5 DEF RejectPlan, Commit, UndoLast, MarkFailed, CleanupFirst, Return, Disturb, Fault,
                UndoRaises, MarkFailedRaises, CleanupRaises, Crash, PutObjectTorn, Raise, Forget,
                control
  <2> QED BY <2>1, AwayFromPlan
<1>6. ASSUME NEW k \in Keys, NEW p \in Paths, NEW h \in Hashes, PutStep(k, p, h)
      PROVE  EffectSound' /\ TidyNow'
  BY <1>1, <1>6, PutEffect, PutTidy
<1>7. ASSUME NEW k \in Keys, DeleteStep(k) PROVE EffectSound' /\ TidyNow'
  BY <1>1, <1>7, DeleteEffect, DeleteTidy
<1>8. ASSUME NEW k \in Keys, NEW p \in Paths \cup {None}, Decision(k, p)
      PROVE  EffectSound' /\ TidyNow'
  BY <1>1, <1>8, DecisionEffect, DecisionTidy
<1>9. CASE MoveStep
  BY <1>1, <1>9, MoveEffect, MoveTidy
<1> QED BY <1>2, <1>3, <1>4, <1>5, <1>6, <1>7, <1>8, <1>9 DEF Next, Proceed

\* Every step of a store whose process does not die, and whose closures do not raise.
LEMMA StepAtomic ==
    ASSUME MaxCrashes = 0, MaxUndoFaults = 0, JournalSound, CatalogSound, AheadSound,
           LeftoversSound, DamageSound, AtomicSound, [Next]_vars
    PROVE  AtomicSound'
<1>1. FoundSound /\ ServedSound /\ TidyFound /\ TidyNow
  BY DEF DamageSound, AtomicSound
<1> QED BY <1>1, StepServed, StepTidyFound, StepPlanned DEF AtomicSound

\* A store that is opened has a row for every file.
LEMMA InitAtomic == Init => AtomicSound
<1> SUFFICES ASSUME Init PROVE AtomicSound
  OBVIOUS
<1>1. PICK rows \in InitRows :
        /\ catalog = [rows |-> rows, decided |-> {}]
        /\ fs = [l \in Locations |->
                   LET at == {id \in Ids : rows[id] # None /\ rows[id].path = l}
                   IN  IF at = {} THEN None ELSE rows[CHOOSE id \in at : TRUE].obj]
  BY DEF Init
<1>2. catalog.rows = rows /\ Paths \subseteq Locations
  BY <1>1 DEF Locations
<1>3. Tidy(rows, Ids, fs, {})
  BY <1>1, <1>2 DEF Tidy
<1>4. pc = "idle" /\ interrupted = {} /\ ~undo_failed
  BY DEF Init
<1>5. TidyFound /\ ServedSound
  BY <1>2, <1>3, <1>4 DEF TidyFound, ServedSound, Uncommitted
<1>6. EffectSound /\ TidyNow
  BY <1>4 DEF EffectSound, TidyNow, Applying, Moving
<1> QED BY <1>5, <1>6 DEF AtomicSound

\* The tree that a client sees.
Seen == Reading(IF Uncommitted THEN before.fs ELSE fs, content)

\* A step that a client does not see.
LEMMA Unseen ==
    ASSUME UNCHANGED <<writer, ops, status>>, UNCHANGED catalog, Seen' = Seen
    PROVE  UNCHANGED Atomic!avars
<1>1. UNCHANGED DocOf(catalog.rows) /\ UNCHANGED catalog.decided
  BY DEF DocOf
<1>2. UNCHANGED Readable(IF Uncommitted THEN before.fs ELSE fs)
  BY DEF Seen, Reading, Readable
<1> QED BY <1>1, <1>2 DEF Atomic!avars

\* The tree of the committed rows.
LEMMA SeenDocs ==
    ASSUME JournalSound, CatalogSound, DamageSound, AtomicSound
    PROVE  Seen = Atomic!ViewOf(DocOf(catalog.rows))
<1> DEFINE f == IF Uncommitted THEN before.fs ELSE fs
<1>1. catalog.rows \in [Ids -> Row \cup {None}] /\ Placed(catalog.rows)
  BY CatalogTypes DEF Tables, CatalogSound, RowsSound
<1>2. Safe = Ids
  BY DEF Safe, AtomicSound, ServedSound
<1>3. AllIntact(catalog.rows, Ids, f, content) /\ Tidy(catalog.rows, Ids, f, {})
  BY <1>2 DEF DamageSound, FoundSound, AtomicSound, TidyFound, Uncommitted
<1> QED BY <1>1, <1>3, ViewOfDocs DEF Seen

\* The QUEUED row: a new request, or the one that an exception left QUEUED again.
LEMMA AcceptSim ==
    ASSUME NEW w \in Writers, NEW batch \in Batches, Accept(w, batch)
    PROVE  [Atomic!Next]_(Atomic!avars)
<1>1. /\ pc = "idle" /\ pc' = "plan" /\ before' = [fs |-> fs, objects |-> objects]
      /\ UNCHANGED <<catalog, content>> /\ writer' = w /\ ops' = batch /\ status' = "queued"
  BY DEF Accept, data
<1>2. before'.fs = fs
  BY <1>1
<1>3. Seen' = Seen
  BY <1>1, <1>2 DEF Seen, Uncommitted
<1>4. UNCHANGED DocOf(catalog.rows) /\ UNCHANGED catalog.decided
  BY <1>1 DEF DocOf
<1>5. UNCHANGED Readable(IF Uncommitted THEN before.fs ELSE fs)
  BY <1>3 DEF Seen, Reading, Readable
<1> DEFINE request == [writer |-> writer, ops |-> ops, state |-> status]
<1>6. request' \in [writer : Writers, ops : Batches, state : {"queued"}]
  BY <1>1
<1>7. CASE request' # request
  BY <1>4, <1>5, <1>6, <1>7 DEF Atomic!Next, Atomic!Receive
<1>8. CASE request' = request
  BY <1>4, <1>5, <1>8 DEF Atomic!avars
<1> QED BY <1>7, <1>8

\* What the transaction has made of the rows is what the batch makes of them.
LEMMA CommitDocs ==
    ASSUME JournalSound, CatalogSound, DamageSound, AtomicSound, Commit
    PROVE  /\ DocOf(work.rows) = [id \in Atomic!DocIds |->
                  IF id[1] = writer THEN Atomic!Outcome(DocOf(catalog.rows)[id], ops, id[2])
                  ELSE DocOf(catalog.rows)[id]]
           /\ work.decided = catalog.decided \cup
                  {<<writer, ops[i].key>> : i \in {j \in DOMAIN ops : ops[j].kind = "decision"}}
<1>1. /\ pc = "next" /\ todo = <<>> /\ Applying /\ writer \in Writers /\ ops \in Seq(Operation)
      /\ todo \in Seq(Operation) /\ ToSet(todo) = {}
  BY CatalogTypes DEF Commit, Applying, CatalogSound, PlanSound, ToSet
<1>2. ASSUME NEW id \in Ids
      PROVE  DocOf(work.rows)[id] =
                 IF id[1] = writer THEN Atomic!Outcome(DocOf(catalog.rows)[id], ops, id[2])
                 ELSE DocOf(catalog.rows)[id]
  <2>1. CASE id[1] = writer
    <3>1. id = <<writer, id[2]>> /\ id[2] \in Keys
      BY <2>1 DEF Ids
    <3>2. Leads(work.rows, todo, id[2])
      BY <1>1, <3>1 DEF AtomicSound, EffectSound, Moving
    <3>3. \A doc : Atomic!Outcome(doc, todo, id[2]) = doc
      BY <1>1, OutcomeRest
    <3> QED BY <2>1, <3>1, <3>2, <3>3 DEF Leads, Intended
  <2>2. CASE id[1] # writer
    <3>1. id \in Strangers
      BY <2>2 DEF Strangers, BatchIds
    <3>2. work.rows[id] = catalog.rows[id]
      BY <1>1, <3>1 DEF DamageSound, ApartSound
    <3> QED BY <2>2, <3>2 DEF DocOf
  <2> QED BY <2>1, <2>2
<1>3. Atomic!DocIds = Ids /\ DocOf(work.rows) = [id \in Ids |-> DocOf(work.rows)[id]]
  BY DEF Atomic!DocIds, Ids, DocOf
<1>4. Decisions(writer, todo) = {}
  BY <1>1 DEF Decisions
<1>5. Decisions(writer, ops) =
          {<<writer, ops[i].key>> : i \in {j \in DOMAIN ops : ops[j].kind = "decision"}}
  BY <1>1 DEF Decisions, ToSet
<1>6. work.decided \cup Decisions(writer, todo) = catalog.decided \cup Decisions(writer, ops)
  BY <1>1 DEF AtomicSound, EffectSound
<1> QED BY <1>2, <1>3, <1>4, <1>5, <1>6

\* The commit is the atomic step.
LEMMA CommitSim ==
    ASSUME JournalSound, CatalogSound, DamageSound, AtomicSound, Commit
    PROVE  Atomic!Apply
<1>1. /\ pc = "next" /\ pc' = "cleanup" /\ catalog' = work /\ status' = "applied"
      /\ UNCHANGED <<fs, content, writer, ops>>
  BY DEF Commit
<1>2. status = "queued" /\ Safe = Ids
  BY <1>1 DEF AtomicSound, ServedSound, Uncommitted, Safe
<1>3. work.rows \in [Ids -> Row \cup {None}] /\ Placed(work.rows)
  BY <1>1, CatalogTypes DEF Tables, CatalogSound, RowsSound
<1>4. AllIntact(work.rows, Ids, fs, content) /\ Tidy(work.rows, Ids, fs, {})
  BY <1>1, <1>2 DEF DamageSound, ApplySound, AtomicSound, TidyNow
<1>5. Reading(fs, content) = Atomic!ViewOf(DocOf(work.rows)) /\ Atomic!OnePathEach(DocOf(work.rows))
  BY <1>3, <1>4, ViewOfDocs, DocsApart
<1>6. DocOf(catalog.rows)' = DocOf(work.rows) /\ (catalog.decided)' = work.decided
  BY <1>1 DEF DocOf
<1>7. Readable(IF Uncommitted THEN before.fs ELSE fs)' = Reading(fs, content)
  BY <1>1 DEF Readable, Reading, Uncommitted
<1> DEFINE request == [writer |-> writer, ops |-> ops, state |-> status]
<1>8. request.writer = writer /\ request.ops = ops /\ request.state = "queued"
  BY <1>2
<1>9. request' = [request EXCEPT !.state = "applied"]
  BY <1>1
<1>10. (DocOf(catalog.rows))' = [id \in Atomic!DocIds |->
           IF id[1] = request.writer
           THEN Atomic!Outcome(DocOf(catalog.rows)[id], request.ops, id[2])
           ELSE DocOf(catalog.rows)[id]]
  BY <1>6, <1>8, CommitDocs
<1>11. (catalog.decided)' = catalog.decided \cup
           {<<request.writer, request.ops[i].key>> :
               i \in {j \in DOMAIN request.ops : request.ops[j].kind = "decision"}}
  BY <1>6, <1>8, CommitDocs
<1>12. /\ Atomic!OnePathEach(DocOf(catalog.rows)')
       /\ Readable(IF Uncommitted THEN before.fs ELSE fs)'
              = Atomic!ViewOf(DocOf(catalog.rows)')
  BY <1>5, <1>6, <1>7
<1> QED BY <1>8, <1>9, <1>10, <1>11, <1>12 DEF Atomic!Apply

\* The FAILED update: what the submission found is there.
LEMMA RefuseSim ==
    ASSUME JournalSound, AtomicSound, MarkFailed
    PROVE  Atomic!Refuse
<1>1. /\ pc = "undo" /\ undo_stack = <<>> /\ pc' = "cleanup" /\ status' = "failed"
      /\ UNCHANGED <<catalog, fs, content, writer, ops>>
  BY DEF MarkFailed, data
<1>2. fs = before.fs /\ status = "queued"
  BY <1>1, FilesBack DEF AtomicSound, ServedSound, Uncommitted
<1>3. UNCHANGED DocOf(catalog.rows) /\ UNCHANGED catalog.decided
  BY <1>1 DEF DocOf
<1>4. UNCHANGED Readable(IF Uncommitted THEN before.fs ELSE fs)
  BY <1>1, <1>2 DEF Readable, Uncommitted
<1> DEFINE request == [writer |-> writer, ops |-> ops, state |-> status]
<1>5. request.state = "queued" /\ request' = [request EXCEPT !.state = "failed"]
  BY <1>1, <1>2
<1> QED BY <1>3, <1>4, <1>5 DEF Atomic!Refuse

\* Every step is one of the atomic batch, or none.
LEMMA StepSim ==
    ASSUME MaxCrashes = 0, MaxUndoFaults = 0, JournalSound, CatalogSound, LeftoversSound,
           DamageSound, AtomicSound, [Next]_vars
    PROVE  [Atomic!Next]_(Atomic!avars)
<1>1. FoundSound /\ ServedSound
  BY DEF DamageSound, AtomicSound
<1>2. CASE UNCHANGED vars
  <2>1. UNCHANGED <<writer, ops, status>> /\ UNCHANGED <<catalog, content, pc, before, fs>>
    BY <1>2 DEF vars, data, control, journal
  <2> QED BY <2>1, Unseen DEF Seen, Uncommitted
<1>3. CASE \E w \in Writers, batch \in Batches : Accept(w, batch)
  BY <1>3, AcceptSim
<1>4. CASE Working
  <2>1. Seen = Reading(before.fs, content) /\ Seen' = Reading(before'.fs, content')
    BY <1>4 DEF Working, Seen
  <2>2. Seen' = Seen
    <3>1. Paths \subseteq Locations
      BY DEF Locations
    <3> QED BY <1>4, <2>1, <3>1, SameReading DEF Working
  <2> QED BY <1>4, <2>2, Unseen DEF Working
<1>5. CASE Commit
  BY <1>5, CommitSim DEF Atomic!Next
<1>6. CASE MarkFailed
  BY <1>6, RefuseSim DEF Atomic!Next
<1>7. CASE MarkFailedRaises
  <2>1. /\ pc = "undo" /\ undo_stack = <<>> /\ pc' = "idle"
        /\ UNCHANGED <<catalog, fs, content>> /\ UNCHANGED <<writer, ops, status>>
    BY <1>7 DEF MarkFailedRaises, Forget, data
  <2>2. fs = before.fs
    BY <1>1, <2>1, FilesBack
  <2>3. Seen' = Seen
    BY <2>1, <2>2 DEF Seen, Uncommitted
  <2> QED BY <2>1, <2>3, Unseen
<1>8. CASE CleanupFirst
  <2>1. /\ pc = "cleanup" /\ pc' = "cleanup" /\ UNCHANGED <<catalog, content>>
        /\ UNCHANGED <<writer, ops, status>> /\ \A q \in Paths : fs'[q] = fs[q]
    BY <1>8, CleanupTree DEF CleanupFirst, control
  <2>2. Seen = Reading(fs, content) /\ Seen' = Reading(fs', content)
    BY <2>1 DEF Seen, Uncommitted
  <2>3. Seen' = Seen
    BY <2>1, <2>2, SameReading
  <2> QED BY <2>1, <2>3, Unseen
<1>9. CASE Return
  <2>1. /\ pc = "cleanup" /\ pc' = "idle" /\ UNCHANGED <<catalog, fs, content>>
        /\ UNCHANGED <<writer, ops, status>>
    BY <1>9 DEF Return, Forget, data
  <2>2. Seen' = Seen
    BY <2>1 DEF Seen, Uncommitted
  <2> QED BY <2>1, <2>2, Unseen
<1> QED BY <1>1, <1>2, <1>3, <1>4, <1>5, <1>6, <1>7, <1>8, <1>9, CalmSteps

\* The store is opened with what the rows say in the tree.
LEMMA InitSim ==
    ASSUME Init, JournalSound, CatalogSound, DamageSound, AtomicSound
    PROVE  Atomic!Init
<1>1. catalog.decided = {} /\ status = "none"
  BY DEF Init
<1>2. catalog.rows \in [Ids -> Row \cup {None}] /\ Placed(catalog.rows)
  BY CatalogTypes DEF Tables, CatalogSound, RowsSound
<1>3. /\ DocOf(catalog.rows) \in [Atomic!DocIds -> Atomic!Doc \cup {None}]
      /\ Atomic!OnePathEach(DocOf(catalog.rows))
  BY <1>2, DocsApart
<1>4. Readable(IF Uncommitted THEN before.fs ELSE fs) = Atomic!ViewOf(DocOf(catalog.rows))
  BY SeenDocs DEF Seen, Readable, Reading
<1> QED BY <1>1, <1>3, <1>4 DEF Atomic!Init

-----------------------------------------------------------------------------
(***************************************************************************)
(* Theorems                                                                *)
(***************************************************************************)

\* Planning, parking, re-keying and upserts keep every row of the transaction at a
\* path of its writer that no other row has, or parked with its move still to come.
THEOREM CatalogInvariant == Spec => [](JournalSound /\ CatalogSound)
<1>1. Init => JournalSound /\ CatalogSound
  BY InitSound, InitCatalog
<1>2. JournalSound /\ CatalogSound /\ [Next]_vars => (JournalSound /\ CatalogSound)'
  BY StepSound, StepCatalog
<1> QED BY <1>1, <1>2, PTL DEF Spec

\* Whatever is submitted, faults or crashes, the committed catalog has one row per
\* path, under the prefixes of its writer, and none at a temporary path.
THEOREM CatalogPathsUniqueAlways == Spec => []CatalogPathsUnique
<1>1. CatalogSound => CatalogPathsUnique
  BY DEF CatalogSound, RowsSound, Placed, CatalogPathsUnique
<1> QED BY <1>1, CatalogInvariant, PTL

\* No step of a submission, of its rollback or of its cleanup changes a file of the
\* tree outside the prefixes of its writer.
THEOREM OnlyOwnPrefixAlways == Spec => OnlyOwnPrefix
<1>1. JournalSound /\ CatalogSound /\ [Next]_vars =>
          [\A p \in Paths : (pc # "idle" /\ p \notin Authorized[writer]) => fs'[p] = fs[p]]_fs
  BY StepCatalog DEF StaysOwn
<1> QED BY <1>1, CatalogInvariant, PTL DEF Spec, OnlyOwnPrefix

\* Where no move names the path its row already has, a submission that nothing killed
\* and whose undo and cleanup ran through leaves no file in the journal directory: what
\* was parked or backed up was put back, moved on or unlinked.
THEOREM JournalEmptyAlways ==
    ASSUME ~SelfMoves PROVE Spec => []JournalEmptyAtRest
<1> DEFINE Inv == JournalSound /\ CatalogSound /\ AheadSound /\ LeftoversSound
<1>1. Init => Inv
  BY InitSound, InitCatalog, InitLeftovers
<1>2. Inv /\ [Next]_vars => Inv'
  BY StepSound, StepCatalog, StepAhead, StepLeftovers
<1>3. Inv => JournalEmptyAtRest
  BY DEF LeftoversSound, CalmSound, Calm, Linked, JournalEmptyAtRest
<1> QED BY <1>1, <1>2, <1>3, PTL DEF Spec

\* Where no client moves a document onto the path it has: a document whose identity was
\* in no batch that a crash or a failed undo cut short is whole between submissions, its
\* file at its path with its content, whatever was submitted, raised or crashed since.
THEOREM DamageIsConfinedAlways ==
    ASSUME ~SelfMoves
    PROVE  Spec => []DamageIsConfined
<1> DEFINE Inv == JournalSound /\ CatalogSound /\ AheadSound /\ DamageSound
<1>1. Init => Inv
  BY InitSound, InitCatalog, InitLeftovers, InitDamage
<1>2. Inv /\ [Next]_vars => Inv'
  BY StepSound, StepCatalog, StepAhead, StepDamage
<1>3. Inv => DamageIsConfined
  BY DEF DamageIsConfined, DamageSound, FoundSound, AllIntact, Intact, Safe
<1> QED BY <1>1, <1>2, <1>3, PTL DEF Spec

\* submit implements the atomic batch of CtxfsAtomic: where no client moves a document
\* onto the path it has, the process does not die and no undo or cleanup closure raises,
\* its ordering, cycle breaking, renames, upserts and rollback let a reader see a batch as
\* a whole or not at all, whatever helper or statement raises on the way.
THEOREM ImplementsAtomicBatchAlways ==
    ASSUME ~SelfMoves, MaxCrashes = 0, MaxUndoFaults = 0
    PROVE  Spec => ImplementsAtomicBatch
<1> DEFINE Inv == /\ JournalSound /\ CatalogSound /\ AheadSound
                  /\ LeftoversSound /\ DamageSound /\ AtomicSound
<1>1. Init => Inv
  BY InitSound, InitCatalog, InitLeftovers, InitDamage, InitAtomic
<1>2. Inv /\ [Next]_vars => Inv'
  BY StepSound, StepCatalog, StepAhead, StepLeftovers, StepDamage, StepAtomic
<1>3. Init /\ Inv => Atomic!Init
  BY InitSim
<1>4. Inv /\ [Next]_vars => [Atomic!Next]_(Atomic!avars)
  BY StepSim
<1> HIDE DEF Inv
<1> QED BY <1>1, <1>2, <1>3, <1>4, PTL DEF Spec, ImplementsAtomicBatch, Atomic!Spec

=============================================================================
