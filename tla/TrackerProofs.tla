--------------------------- MODULE TrackerProofs ----------------------------
(***************************************************************************)
(* Theorems about Tracker, for any folders, files and contents, any edits  *)
(* at any moment, and any lost requests, answers, processes and state      *)
(* files.                                                                  *)
(***************************************************************************)
EXTENDS Tracker, CtxfsOrderProofs, FiniteSetTheorems

(***************************************************************************)
(* The inductive invariant.                                                *)
(***************************************************************************)
Ids == Folders \X Inodes

\* Histories that the properties leave out: the state file was lost, an edit came between
\* an accepted batch and the next state file, a scan met one file under two names.
Clean == ~torn /\ ~raced /\ ~twice

BatchRecord == [folder : Folders, ops : Seq(Batch!Operation)]

TrackerTyped ==
    /\ disk \in [Folders -> [Names -> File \cup {None}]]
    /\ mounted \subseteq Folders /\ configured \subseteq Folders
    /\ docs \in [Ids -> Doc \cup {None}]
    /\ saved \in [Folders -> [Inodes -> Tracked \cup {None}]]
    /\ current \in [Folders -> [Inodes -> Tracked \cup {None}]]
    /\ health \in {"success", "incomplete", "failed"}
    /\ pc \in {"idle", "scan", "visit", "read", "submit", "health"}
    /\ folders \subseteq Folders /\ toscan \subseteq folders /\ partial \subseteq folders
    /\ listing \in Seq(Names) /\ found \in Seq(Batch!Operation) /\ batches \in Seq(BatchRecord)
    /\ held \in Inodes \cup {None} /\ at \in Folders \cup {None}
    /\ result \in {"success", "incomplete", "failed", None}
    /\ submitted \in BOOLEAN /\ quiet \in BOOLEAN /\ undisturbed \in BOOLEAN
    /\ ahead \in BOOLEAN /\ raced \in BOOLEAN /\ twice \in BOOLEAN /\ torn \in BOOLEAN

\* Which locals go with which step.
PhaseSound ==
    /\ pc \in {"visit", "read"} => at \in folders \ toscan
    /\ pc \notin {"visit", "read"} => at = None
    /\ pc = "read" => held \in Inodes /\ listing # <<>>
    /\ pc # "read" => held = None
    /\ pc \in {"submit", "health"} => toscan = {}
    /\ pc = "health" => result \in {"success", "incomplete", "failed"}
    /\ undisturbed => quiet
    /\ ahead /\ ~raced => quiet
    /\ pc # "idle" /\ quiet => folders = configured
    /\ pc = "health" /\ result # "failed" => saved = current /\ ~ahead

\* A document says what an entry of the state file says.
Holds(d, f, t) ==
    IF t = None THEN d = None ELSE d # None /\ d.path = <<f, t.name>> /\ d.hash = Normal[t.ver]

\* The names under which a scan of the disk as it is can read a file.
Legible(f) == {n \in Visible(f) : disk[f][n].readable}

\* What such a scan may find of a file, and what it would leave in the state file for one
\* that it does not find.
Entries(f, i) ==
    {[name |-> n, ver |-> disk[f][n].ver] : n \in {m \in Legible(f) : disk[f][m].ino = i}}

Targets(f, i) ==
    IF f \notin configured THEN {None}
    ELSE IF f \in mounted /\ Entries(f, i) # {} THEN Entries(f, i)
    ELSE IF Accessible(f) THEN {None} ELSE {saved[f][i]}

\* The operations of a batch that are about one file.
About(ops, i) == {op \in ToSet(ops) : op.key = i}

\* The operation that takes a file from the state file's entry to the scan's.
Due(f, i) ==
    IF current[f][i] # None
    THEN ToSet(OperationFor(saved[f][i], f, i, current[f][i].name, current[f][i].ver))
    ELSE IF saved[f][i] # None THEN {Batch!DeleteOp(i)} ELSE {}

Explains(ops, f) == \A i \in Inodes : About(ops, i) = Due(f, i)

Pending(f) == \E b \in ToSet(batches) : b.folder = f

\* The folders whose scan is over, as far as this sync has come.
Scanned == IF pc \in {"submit", "health"} THEN Folders ELSE (folders \ toscan) \ {at}

\* Each batch holds just what the state file lacks; deletions only after a whole scan.
BatchesSound ==
    /\ pc # "idle" => \A f \in (Folders \ folders) \cup toscan : \A i \in Inodes : current[f][i] = None
    /\ toscan \cap partial = {}
    /\ pc \in {"visit", "read"} => \A op \in ToSet(found) : op.kind # "delete"
    /\ pc \in {"visit", "read"} /\ ~twice =>
           \A i \in Inodes : About(found, i) = IF current[at][i] = None THEN {} ELSE Due(at, i)
    /\ pc # "health" => \A b \in ToSet(batches) :
           /\ b.folder \in Scanned
           /\ b.folder \in folders \cap partial => \A op \in ToSet(b.ops) : op.kind # "delete"
           /\ ~twice => Explains(b.ops, b.folder)
    /\ pc \in {"scan", "visit", "read"} /\ ~twice =>
           \A f \in Scanned : ~Pending(f) => Explains(<<>>, f)

\* The scan of a folder under way: what was visited is in current, as the disk has it.
VisitSound ==
    /\ at \in mounted =>
           /\ ToSet(listing) \subseteq Visible(at)
           /\ \A n \in Legible(at) \ ToSet(listing) :
                  current[at][disk[at][n].ino] = [name |-> n, ver |-> disk[at][n].ver]
           /\ \A i \in Inodes : current[at][i] # None => current[at][i] \in Entries(at, i)
           /\ at \in partial => ~Accessible(at)
           /\ \A n \in Visible(at) \ ToSet(listing) : ~disk[at][n].readable => at \in partial
    /\ at \notin mounted =>
           listing = <<>> /\ at \in partial /\ \A i \in Inodes : current[at][i] = None
    /\ pc = "read" => held = disk[at][Head(listing)].ino

\* With no edit since the sync began, the scan has found what is on the disk.
ScanSound ==
    quiet /\ ~twice =>
        /\ pc # "idle" => \A f \in Scanned, i \in Inodes :
               current[f][i] \in Targets(f, i) /\ \A s, t \in Targets(f, i) : s = t
        /\ pc \in {"visit", "read"} => VisitSound

\* What the store may have of a file: what the state file has; after a sync that was cut
\* short, what a scan would find; while batches are accepted, what the scan has found.
Allowed(f, i) ==
    {saved[f][i]} \cup (IF ahead THEN Targets(f, i) ELSE {})
    \cup (IF pc = "submit" /\ submitted THEN {current[f][i]} ELSE {})

Backed == \A f \in Folders, i \in Inodes : \E t \in Allowed(f, i) : Holds(docs[<<f, i>>], f, t)

\* A success that no edit followed: the store has what a scan would find.
Vouched ==
    health = "success" /\ undisturbed =>
        \A f \in Folders, i \in Inodes : \E t \in Targets(f, i) : Holds(docs[<<f, i>>], f, t)

\* The store has what the scan has found of each folder with no batch left, and what the
\* state file has once that is written.
DocsSound ==
    Clean =>
        /\ Backed /\ Vouched
        /\ pc = "submit" => \A f \in Folders, i \in Inodes :
               ~Pending(f) => Holds(docs[<<f, i>>], f, current[f][i])
        /\ pc = "health" /\ result # "failed" =>
               \A f \in Folders, i \in Inodes : Holds(docs[<<f, i>>], f, saved[f][i])

TrackerSound == TrackerTyped /\ PhaseSound /\ BatchesSound /\ ScanSound /\ DocsSound
-----------------------------------------------------------------------------
(***************************************************************************)
(* Lists made of sets.                                                     *)
(***************************************************************************)

\* SetToSeq lists every element of a finite set.
LEMMA SetToSeqHolds ==
    ASSUME NEW S, IsFiniteSet(S)
    PROVE  SetToSeq(S) \in Seq(S) /\ ToSet(SetToSeq(S)) = S
<1> DEFINE N == Cardinality(S)
           f == SetToSeq(S)
<1>1. N \in Nat /\ ExistsBijection(1..N, S)
  BY FS_CardinalityType
<1>2. \E g \in [1..N -> S] : IsInjective(g)
  BY <1>1 DEF ExistsBijection, Bijection, Injection, IsInjective
<1>3. f \in [1..N -> S] /\ IsInjective(f)
  BY <1>2 DEF SetToSeq
<1> HIDE DEF f
<1>4. f \in Injection(1..N, S)
  BY <1>3 DEF Injection, IsInjective
<1>5. IsFiniteSet(1..N) /\ Cardinality(1..N) = N
  BY <1>1, FS_Interval
<1>6. f \in Surjection(1..N, S)
  BY <1>4, <1>5, FS_Injection
<1>7. \A x \in S : \E i \in 1..N : f[i] = x
  BY <1>6 DEF Surjection
<1>8. f \in Seq(S) /\ DOMAIN f = 1..N
  BY <1>1, <1>3
<1>9. ToSet(f) = S
  BY <1>3, <1>7, <1>8 DEF ToSet
<1> QED BY <1>8, <1>9 DEF f

\* The deletions of a set of files.
LEMMA DeletesHold ==
    ASSUME NEW S \in SUBSET Inodes
    PROVE  /\ DeletesOf(S) \in Seq(Batch!Operation)
           /\ ToSet(DeletesOf(S)) = {Batch!DeleteOp(i) : i \in S}
           /\ S = {} => DeletesOf(S) = <<>>
<1> DEFINE s == SetToSeq(S)
<1>1. IsFiniteSet(S)
  BY TrackerAssumption, FS_Subset
<1>2. s \in Seq(S) /\ ToSet(s) = S
  BY <1>1, SetToSeqHolds
<1>3. DeletesOf(S) = [j \in DOMAIN s |-> Batch!DeleteOp(s[j])]
  BY DEF DeletesOf
<1> HIDE DEF s
<1>4. DOMAIN s = 1..Len(s) /\ Len(s) \in Nat /\ \A j \in 1..Len(s) : s[j] \in S
  BY <1>2
<1>5. \A i \in S : Batch!DeleteOp(i) \in Batch!Operation
  BY DEF Batch!DeleteOp, Batch!Operation
<1>6. DeletesOf(S) \in Seq(Batch!Operation)
  <2>1. DeletesOf(S) \in [1..Len(s) -> Batch!Operation]
    BY <1>3, <1>4, <1>5
  <2> QED BY <1>4, <2>1
<1>7. ToSet(DeletesOf(S)) = {Batch!DeleteOp(s[j]) : j \in 1..Len(s)}
  BY <1>3, <1>4 DEF ToSet
<1>8. S = {s[j] : j \in 1..Len(s)}
  BY <1>2, <1>4 DEF ToSet
<1>9. ToSet(DeletesOf(S)) = {Batch!DeleteOp(i) : i \in S}
  BY <1>7, <1>8
<1>10. S = {} => DeletesOf(S) = <<>>
  <2> SUFFICES ASSUME S = {} PROVE DeletesOf(S) = <<>>
    OBVIOUS
  <2>1. 1..Len(s) = {}
    BY <1>8
  <2>2. Len(s) = 0
    BY <1>4, <2>1
  <2>3. s = <<>>
    BY <1>2, <2>2
  <2> QED BY <1>3, <2>3
<1> QED BY <1>6, <1>9, <1>10

\* The sorted listing of a folder has all its files.
LEMMA ListingHolds ==
    ASSUME NEW S \in SUBSET Names
    PROVE  /\ Keeping(S, [n \in Names |-> n]) \in Seq(Names)
           /\ ToSet(Keeping(S, [n \in Names |-> n])) = S
<1> DEFINE N == Cardinality(Names)
           all == [n \in Names |-> n]
<1>1. N \in Nat /\ Names = 1..N
  BY TrackerAssumption, FS_CardinalityType
<1>2. all \in Seq(Names) /\ DOMAIN all = Names
  BY <1>1
<1>3. ToSet(all) = Names
  BY <1>2 DEF ToSet
<1> HIDE DEF all
<1>4. Keeping(S, all) \in Seq(Names) /\ ToSet(Keeping(S, all)) = ToSet(all) \cap S
  BY <1>2, KeepingKeeps
<1> QED BY <1>3, <1>4 DEF all

-----------------------------------------------------------------------------
(***************************************************************************)
(* What an accepted batch does to the documents.                           *)
(***************************************************************************)

\* The operators that CtxfsBatch takes from other modules are the ones known here.
LEMMA SameOperators ==
    /\ \A s : Batch!ToSet(s) = ToSet(s)
    /\ \A ops, k : Batch!OfKind(ops, k) = OfKind(ops, k)
<1>1. \A s : Batch!ToSet(s) = ToSet(s)
  BY DEF Batch!ToSet, ToSet
<1>2. \A S, s : Batch!Keeping(S, s) = Keeping(S, s)
  BY DEF Batch!Keeping, Keeping, Batch!Iterate, Iterate
<1> QED BY <1>1, <1>2 DEF Batch!OfKind, OfKind

\* What the operations say of their paths and hashes.
LEMMA OperationFields ==
    \A op \in Batch!Operation :
        /\ op.key \in Inodes /\ op.kind \in {"put", "move", "delete", "decision"}
        /\ op.kind \in {"put", "move"} => op.path \in DocPaths /\ op.hash \in Versions
BY DEF Batch!Operation

\* One put.
LEMMA PutDocEffect ==
    ASSUME NEW w \in Folders, NEW op \in Batch!Operation, op.kind = "put",
           NEW acc \in [rows : [Ids -> Doc \cup {None}], ok : BOOLEAN]
    PROVE  LET next == Batch!PutDoc(acc, w, op)
               id   == <<w, op.key>>
           IN  /\ next \in [rows : [Ids -> Doc \cup {None}], ok : BOOLEAN]
               /\ \A x \in Ids : x # id => next.rows[x] = acc.rows[x]
               /\ next.rows[id] # None /\ next.rows[id].path = op.path
               /\ next.rows[id].hash = op.hash
<1> DEFINE id   == <<w, op.key>>
           old  == acc.rows[id]
           same == old # None /\ old.hash = op.hash
           new  == [path |-> op.path, hash |-> op.hash, file |-> IF same THEN old.file ELSE TRUE]
           next == Batch!PutDoc(acc, w, op)
<1>1. /\ next.rows = [acc.rows EXCEPT ![id] = new]
      /\ next.ok = (/\ acc.ok
                    /\ same /\ old.path # op.path => old.file
                    /\ Batch!NotTaken(acc.rows, id, op.path))
      /\ next = [rows |-> next.rows, ok |-> next.ok]
  BY DEF Batch!PutDoc
<1>2. id \in Ids /\ op.path \in DocPaths /\ op.hash \in Versions
  BY OperationFields DEF Ids
<1>3. same => old.file \in BOOLEAN
  BY <1>2 DEF Doc
<1>4. new \in Doc /\ new # None
  <2>1. new \in Doc
    BY <1>2, <1>3 DEF Doc
  <2> QED BY <2>1, TrackerAssumption
<1>5. /\ next.rows \in [Ids -> Doc \cup {None}] /\ next.rows[id] = new
      /\ \A x \in Ids : x # id => next.rows[x] = acc.rows[x]
  <2> HIDE DEF id, new, next
  <2> QED BY <1>1, <1>2, <1>4
<1>6. next.ok \in BOOLEAN
  <2> HIDE DEF id, same, next, old
  <2> QED BY <1>1
<1>7. next \in [rows : [Ids -> Doc \cup {None}], ok : BOOLEAN]
  <2> HIDE DEF next
  <2> QED BY <1>1, <1>5, <1>6
<1>8. new.path = op.path /\ new.hash = op.hash
  OBVIOUS
<1> HIDE DEF new, next
<1> QED BY <1>4, <1>5, <1>7, <1>8 DEF next

\* A document is as it was, or what a put says.
PutAs(base, w, puts, rows, id) ==
    \/ rows[id] = base[id] /\ \A i \in 1..Len(puts) : id # <<w, puts[i].key>>
    \/ \E i \in 1..Len(puts) : /\ id = <<w, puts[i].key>> /\ rows[id] # None
                               /\ rows[id].path = puts[i].path /\ rows[id].hash = puts[i].hash

\* All the puts of a batch, one after another.
LEMMA PutDocsEffect ==
    ASSUME NEW w \in Folders, NEW base \in [Ids -> Doc \cup {None}],
           NEW puts \in Seq(Batch!Operation), \A i \in 1..Len(puts) : puts[i].kind = "put"
    PROVE  LET put == Batch!PutDocs(base, w, puts)
           IN  /\ put.rows \in [Ids -> Doc \cup {None}]
               /\ \A id \in Ids : PutAs(base, w, puts, put.rows, id)
<1> DEFINE N == Len(puts)
           V == [rows : [Ids -> Doc \cup {None}], ok : BOOLEAN]
           first == [rows |-> base, ok |-> TRUE]
           Next1(acc, n) == Batch!PutDoc(acc, w, puts[n])
           Eqn(a) == a = [n \in 0..N |->
               IF n = 0 THEN first ELSE CHOOSE r \in {Next1(k, n) : k \in {a[n - 1]}} : TRUE]
           F == CHOOSE a : Eqn(a)
           Put(row, i) == row # None /\ row.path = puts[i].path /\ row.hash = puts[i].hash
           Good(acc, n) == \A id \in Ids :
               \/ acc.rows[id] = base[id] /\ \A i \in 1..n : id # <<w, puts[i].key>>
               \/ \E i \in 1..n : id = <<w, puts[i].key>> /\ Put(acc.rows[id], i)
           After(n) == {acc \in V : Good(acc, n)}
<1>1. Batch!PutDocs(base, w, puts) = F[N]
  BY DEF Batch!PutDocs, Batch!Iterate
<1>2. N \in Nat
  OBVIOUS
<1>3. ASSUME NEW n \in 1..N, NEW acc \in After(n - 1) PROVE Next1(acc, n) \in After(n)
  <2> DEFINE next == Next1(acc, n)
             id == <<w, puts[n].key>>
  <2>1. puts[n] \in Batch!Operation /\ puts[n].kind = "put" /\ acc \in V /\ Good(acc, n - 1)
    OBVIOUS
  <2>2. /\ next \in V
        /\ \A x \in Ids : x # id => next.rows[x] = acc.rows[x]
        /\ Put(next.rows[id], n)
    <3> HIDE DEF Good
    <3> QED BY <2>1, PutDocEffect
  <2> HIDE DEF next, Put
  <2>3. Good(next, n)
    <3> SUFFICES ASSUME NEW x \in Ids
                 PROVE  \/ next.rows[x] = base[x] /\ \A i \in 1..n : x # <<w, puts[i].key>>
                        \/ \E i \in 1..n : x = <<w, puts[i].key>> /\ Put(next.rows[x], i)
      OBVIOUS
    <3>1. CASE x = id
      <4>1. n \in 1..n /\ x = <<w, puts[n].key>>
        BY <3>1
      <4>2. Put(next.rows[x], n)
        <5> HIDE DEF id, Good
        <5> QED BY <2>2, <3>1
      <4> QED BY <4>1, <4>2
    <3>2. CASE x # id
      <4>1. next.rows[x] = acc.rows[x]
        BY <2>2, <3>2
      <4>2. \A i \in 1..n : i \in 1..(n - 1) \/ i = n
        OBVIOUS
      <4>3. \A i \in 1..(n - 1) : i \in 1..n
        OBVIOUS
      <4>4. CASE acc.rows[x] = base[x] /\ \A i \in 1..(n - 1) : x # <<w, puts[i].key>>
        BY <3>2, <4>1, <4>2, <4>4
      <4>5. CASE \E i \in 1..(n - 1) : x = <<w, puts[i].key>> /\ Put(acc.rows[x], i)
        BY <4>1, <4>3, <4>5
      <4> QED BY <2>1, <4>4, <4>5
    <3> QED BY <3>1, <3>2
  <2>4. next \in After(n)
    BY <2>2, <2>3
  <2> QED BY <2>4 DEF next
<1>4. first \in After(0)
  <2>1. first \in V /\ first.rows = base
    OBVIOUS
  <2> HIDE DEF first
  <2> QED BY <2>1
<1>5. \E a : Eqn(a)
  <2> DEFINE A == [n \in 0..N |-> After(n)]
             f == [n \in 1..N |-> [k \in V |-> Next1(k, n)]]
  <2>1. \A n \in 0..N : After(n) \subseteq V
    OBVIOUS
  <2> HIDE DEF N, Next1, After, V, first
  <2>2. A \in [0..N -> SUBSET V] /\ \A n \in 0..N : A[n] = After(n)
    BY <2>1
  <2>3. \A n \in 1..N : \A k \in V : f[n][k] = Next1(k, n)
    OBVIOUS
  <2>4. 0 \in 0..N /\ \A n \in 1..N : n \in 0..N /\ n - 1 \in 0..N
    BY <1>2
  <2> HIDE DEF A, f
  <2>5. \A n \in 1..N : \A k \in A[n - 1] : f[n][k] \in A[n]
    BY <1>3, <2>1, <2>2, <2>3, <2>4
  <2>6. first \in A[0]
    BY <1>4, <2>2, <2>4
  <2>7. PICK g \in [0..N -> V] : g[0] = first /\ \A n \in 1..N : g[n] = f[n][g[n - 1]]
    <3>1. Closed(N, A, f)
      BY <2>5 DEF Closed
    <3>2. Solved(N, V, first, f)
      BY <1>2, <2>2, <2>6, <3>1, Accumulates
    <3> QED BY <3>2 DEF Solved
  <2>8. ASSUME NEW n \in 0..N
        PROVE  g[n] = IF n = 0 THEN first
                      ELSE CHOOSE r \in {Next1(k, n) : k \in {g[n - 1]}} : TRUE
    <3>1. CASE n = 0
      BY <2>7, <3>1
    <3>2. CASE n \in 1..N
      <4>1. g[n - 1] \in V
        BY <2>4, <3>2
      <4>2. {Next1(k, n) : k \in {g[n - 1]}} = {Next1(g[n - 1], n)}
        OBVIOUS
      <4>3. (CHOOSE r \in {Next1(g[n - 1], n)} : TRUE) = Next1(g[n - 1], n)
        OBVIOUS
      <4> QED BY <1>2, <2>3, <2>7, <3>2, <4>1, <4>2, <4>3
    <3> QED BY <1>2, <3>1, <3>2
  <2>9. Eqn(g)
    BY <2>8
  <2> QED BY <2>9
<1>6. Eqn(F)
  BY <1>5
<1>7. F[0] = first /\ \A n \in 1..N : F[n] = Next1(F[n - 1], n)
  <2> HIDE DEF Next1, F, N, first
  <2> QED BY <1>2, <1>6
<1>8. \A n \in 0..N : F[n] \in After(n)
  <2> DEFINE Done == {n \in 0..N : F[n] \in After(n)}
  <2> HIDE DEF F, N, After, Next1, first
  <2>1. 0 \in 0..N /\ \A n \in 1..N : n \in 0..N /\ n - 1 \in 0..N
    BY <1>2
  <2>2. 0 \in Done
    BY <1>4, <1>7, <2>1
  <2>3. \A n \in 1..N : n - 1 \in Done => n \in Done
    BY <1>3, <1>7, <2>1
  <2>4. \A n \in 0..N : n \in Done
    <3> HIDE DEF Done
    <3> QED BY <1>2, <2>2, <2>3, Upward
  <2> QED BY <2>4
<1>9. F[N] \in After(N)
  <2> HIDE DEF F, N, After
  <2> QED BY <1>2, <1>8
<1> QED
  <2> HIDE DEF F
  <2> QED BY <1>1, <1>9 DEF PutAs

Moves(ops)   == {op \in ToSet(ops) : op.kind = "move"}
Deletes(ops) == {op \in ToSet(ops) : op.kind = "delete"}

\* A document is deleted, as it was, or where a move takes it.
SettledAs(rows, w, ops, settled, id) ==
    \/ settled[id] = None /\ (rows[id] = None \/ \E op \in Deletes(ops) : id = <<w, op.key>>)
    \/ settled[id] = rows[id] /\ \A op \in Moves(ops) \cup Deletes(ops) : id # <<w, op.key>>
    \/ /\ \A op \in Deletes(ops) : id # <<w, op.key>>
       /\ \E op \in Moves(ops) : /\ id = <<w, op.key>> /\ rows[id] # None
                                 /\ settled[id] # None /\ settled[id].path = op.path

\* The deletes and the moves of a batch.
LEMMA SettleEffect ==
    ASSUME NEW w \in Folders, NEW rows \in [Ids -> Doc \cup {None}],
           NEW ops \in Seq(Batch!Operation)
    PROVE  LET settled == Batch!Settle(rows, w, Deletes(ops), Moves(ops))
           IN  /\ settled \in [Ids -> Doc \cup {None}]
               /\ \A id \in Ids : SettledAs(rows, w, ops, settled, id)
<1> DEFINE mvs == Moves(ops)
           dels == Deletes(ops)
           settled == Batch!Settle(rows, w, dels, mvs)
           Mine(id) == {m \in mvs : id = <<w, m.key>>}
           m(id) == CHOOSE x \in Mine(id) : TRUE
           Moved(id, op) == [rows[id] EXCEPT !.path = op.path, !.file = @ /\ rows[id].path # op.path]
<1>1. settled = [id \in Ids |->
          IF rows[id] = None \/ id \in {<<w, d.key>> : d \in dels} THEN None
          ELSE IF Mine(id) = {} THEN rows[id] ELSE Moved(id, m(id))]
  BY DEF Batch!Settle
<1>2. \A op \in mvs : op \in Batch!Operation /\ op.path \in DocPaths
  <2>1. \A op \in ToSet(ops) : op \in Batch!Operation
    BY DEF ToSet
  <2> QED BY <2>1, OperationFields DEF Moves
<1>3. ASSUME NEW id \in Ids, rows[id] # None, NEW op \in mvs
      PROVE  Moved(id, op) \in Doc /\ Moved(id, op) # None /\ Moved(id, op).path = op.path
  <2>1. rows[id] \in Doc
    BY <1>3
  <2>2. Moved(id, op) \in Doc /\ Moved(id, op).path = op.path
    BY <1>2, <2>1 DEF Doc
  <2> HIDE DEF Moved
  <2> QED BY <2>2, TrackerAssumption
<1>4. ASSUME NEW id \in Ids, Mine(id) # {} PROVE m(id) \in Mine(id)
  BY <1>4
<1> HIDE DEF settled, m, Moved
<1>5. ASSUME NEW id \in Ids
      PROVE  /\ settled[id] \in Doc \cup {None}
             /\ SettledAs(rows, w, ops, settled, id)
  <2>1. CASE rows[id] = None \/ id \in {<<w, d.key>> : d \in dels}
    BY <1>1, <2>1 DEF SettledAs
  <2>2. CASE ~(rows[id] = None \/ id \in {<<w, d.key>> : d \in dels}) /\ Mine(id) = {}
    BY <1>1, <2>2 DEF SettledAs
  <2>3. CASE ~(rows[id] = None \/ id \in {<<w, d.key>> : d \in dels}) /\ Mine(id) # {}
    <3>1. m(id) \in mvs /\ id = <<w, m(id).key>> /\ settled[id] = Moved(id, m(id))
      BY <1>1, <1>4, <2>3
    <3>2. /\ Moved(id, m(id)) \in Doc /\ Moved(id, m(id)) # None
          /\ Moved(id, m(id)).path = m(id).path
      BY <1>3, <2>3, <3>1
    <3> QED BY <2>3, <3>1, <3>2 DEF SettledAs
  <2> QED BY <2>1, <2>2, <2>3
<1>6. settled \in [Ids -> Doc \cup {None}]
  <2>1. settled = [id \in Ids |-> settled[id]]
    BY <1>1
  <2> QED BY <1>5, <2>1
<1> QED BY <1>5, <1>6 DEF settled

\* A batch: a document that no operation names stays as it was, a document goes only by a
\* delete, and one that a single operation names is what the operation says.
LEMMA SubmittedEffect ==
    ASSUME NEW w \in Folders, NEW rows \in [Ids -> Doc \cup {None}],
           NEW ops \in Seq(Batch!Operation)
    PROVE  LET out == Batch!Submitted(rows, w, ops)
           IN  /\ out.rows \in [Ids -> Doc \cup {None}]
               /\ \A id \in Ids :
                      (\A op \in ToSet(ops) : id # <<w, op.key>>) => out.rows[id] = rows[id]
               /\ \A id \in Ids : out.rows[id] = None =>
                      \/ rows[id] = None
                      \/ \E op \in ToSet(ops) : op.kind = "delete" /\ id = <<w, op.key>>
               /\ \A op \in ToSet(ops) :
                      out.ok /\ (\A o \in ToSet(ops) : o.key = op.key => o = op) =>
                          LET d == out.rows[<<w, op.key>>]
                          IN  /\ op.kind = "delete" => d = None
                              /\ op.kind \in {"put", "move"} =>
                                     d # None /\ d.path = op.path /\ d.hash = op.hash
<1> DEFINE out == Batch!Submitted(rows, w, ops)
           settled == Batch!Settle(rows, w, Deletes(ops), Moves(ops))
           puts == Batch!OfKind(ops, "put")
           put == Batch!PutDocs(settled, w, puts)
<1>1. out.rows = put.rows
  BY SameOperators DEF Batch!Submitted, Moves, Deletes
<1>2. out.ok => \A m \in Moves(ops) : /\ settled[<<w, m.key>>] # None
                                      /\ settled[<<w, m.key>>].hash = m.hash
  BY SameOperators DEF Batch!Submitted, Moves, Deletes
<1>3. \A op \in ToSet(ops) :
          /\ op \in Batch!Operation /\ op.key \in Inodes /\ <<w, op.key>> \in Ids
          /\ op.kind \in {"put", "move", "delete", "decision"}
  <2>1. \A op \in ToSet(ops) : op \in Batch!Operation
    BY DEF ToSet
  <2> QED BY <2>1, OperationFields DEF Ids
<1>4. /\ settled \in [Ids -> Doc \cup {None}]
      /\ \A id \in Ids : SettledAs(rows, w, ops, settled, id)
  BY SettleEffect
<1>5. /\ puts \in Seq(Batch!Operation)
      /\ \A i \in 1..Len(puts) : puts[i] \in ToSet(ops) /\ puts[i].kind = "put"
      /\ \A op \in ToSet(ops) : op.kind = "put" => \E i \in 1..Len(puts) : puts[i] = op
  <2>1. puts \in Seq(Batch!Operation) /\ ToSet(puts) = {op \in ToSet(ops) : op.kind = "put"}
    BY KindsKept, SameOperators
  <2>2. ToSet(puts) = {puts[i] : i \in 1..Len(puts)}
    BY <2>1 DEF ToSet
  <2> QED BY <2>1, <2>2
<1> HIDE DEF puts, settled, out
<1>6. /\ put.rows \in [Ids -> Doc \cup {None}]
      /\ \A id \in Ids :
             PutAs(settled, w, puts, put.rows, id)
  BY <1>4, <1>5, PutDocsEffect
<1> HIDE DEF put
<1>7. ASSUME NEW id \in Ids, \A op \in ToSet(ops) : id # <<w, op.key>>
      PROVE  out.rows[id] = rows[id]
  <2>1. put.rows[id] = settled[id]
    BY <1>5, <1>6, <1>7 DEF PutAs
  <2>2. settled[id] = rows[id]
    BY <1>4, <1>7 DEF SettledAs, Moves, Deletes
  <2> QED BY <1>1, <2>1, <2>2
<1>8. ASSUME NEW id \in Ids, out.rows[id] = None
      PROVE  \/ rows[id] = None
             \/ \E op \in ToSet(ops) : op.kind = "delete" /\ id = <<w, op.key>>
  <2>1. settled[id] = None
    BY <1>1, <1>6, <1>8 DEF PutAs
  <2> QED BY <1>4, <2>1 DEF SettledAs, Moves, Deletes
<1>9. ASSUME NEW op \in ToSet(ops), out.ok, \A o \in ToSet(ops) : o.key = op.key => o = op
      PROVE  LET d == out.rows[<<w, op.key>>]
             IN  /\ op.kind = "delete" => d = None
                 /\ op.kind \in {"put", "move"} => d # None /\ d.path = op.path /\ d.hash = op.hash
  <2> DEFINE id == <<w, op.key>>
             d == out.rows[id]
  <2>1. id \in Ids /\ \A o \in ToSet(ops) : id = <<w, o.key>> => o = op
    BY <1>3, <1>9
  <2>2. CASE op.kind = "put"
    <3>1. PICK i \in 1..Len(puts) : /\ id = <<w, puts[i].key>> /\ put.rows[id] # None
                                    /\ put.rows[id].path = puts[i].path
                                    /\ put.rows[id].hash = puts[i].hash
      BY <1>5, <1>6, <2>1, <2>2 DEF PutAs
    <3>2. puts[i] = op
      BY <1>5, <2>1, <3>1
    <3> QED BY <1>1, <2>2, <3>1, <3>2
  <2>3. CASE op.kind # "put"
    <3>1. d = settled[id]
      BY <1>1, <1>5, <1>6, <2>1, <2>3 DEF PutAs
    <3>2. CASE op.kind = "delete"
      BY <1>4, <2>1, <3>1, <3>2 DEF SettledAs, Moves, Deletes
    <3>3. CASE op.kind = "move"
      <4>1. settled[id] # None /\ settled[id].hash = op.hash
        BY <1>2, <1>9, <3>3 DEF Moves
      <4>2. op \in Moves(ops)
        BY <3>3 DEF Moves
      <4>3. settled[id].path = op.path
        BY <1>4, <2>1, <4>1, <4>2 DEF SettledAs, Moves, Deletes
      <4> QED BY <3>1, <3>3, <4>1, <4>3
    <3> QED BY <2>3, <3>2, <3>3
  <2> QED BY <2>2, <2>3
<1>10. out.rows \in [Ids -> Doc \cup {None}]
  BY <1>1, <1>6
<1> QED BY <1>7, <1>8, <1>9, <1>10 DEF out

-----------------------------------------------------------------------------
(***************************************************************************)
(* What the scan asks the store for.                                       *)
(***************************************************************************)

\* The operation for one file brings its document to what was read.
LEMMA OperationForHolds ==
    ASSUME NEW was \in Tracked \cup {None}, NEW f \in Folders, NEW i \in Inodes,
           NEW n \in Names, NEW v \in Versions
    PROVE  LET s == OperationFor(was, f, i, n, v)
           IN  /\ s \in Seq(Batch!Operation)
               /\ \/ s = <<>> /\ was = [name |-> n, ver |-> v]
                  \/ \E op \in Batch!Operation :
                         /\ s = <<op>> /\ op.key = i /\ op.kind \in {"put", "move"}
                         /\ op.path = <<f, n>> /\ op.hash = Normal[v]
<1> DEFINE s == OperationFor(was, f, i, n, v)
           move == Batch!MoveOp(i, <<f, n>>, Normal[was.ver])
           put == Batch!PutOp(i, <<f, n>>, Normal[v])
<1>1. Normal[v] \in Versions /\ <<f, n>> \in DocPaths
  BY TrackerAssumption DEF DocPaths
<1>2. /\ put \in Batch!Operation /\ put.key = i /\ put.kind = "put" /\ put.path = <<f, n>>
      /\ put.hash = Normal[v]
  BY <1>1 DEF Batch!PutOp, Batch!Operation
<1>3. CASE was = [name |-> n, ver |-> v]
  <2>1. s = <<>>
    BY <1>3 DEF OperationFor
  <2> HIDE DEF s
  <2> QED BY <1>3, <2>1 DEF s
<1>4. CASE /\ was # [name |-> n, ver |-> v]
           /\ was # None /\ was.ver = v /\ was.name # n /\ Format[was.name] = Format[n]
  <2>1. s = <<move>>
    BY <1>4 DEF OperationFor
  <2>2. /\ move \in Batch!Operation /\ move.key = i /\ move.kind = "move"
        /\ move.path = <<f, n>> /\ move.hash = Normal[v]
    BY <1>1, <1>4 DEF Batch!MoveOp, Batch!Operation
  <2> HIDE DEF s, move
  <2>3. s \in Seq(Batch!Operation)
    BY <2>1, <2>2
  <2> QED BY <2>1, <2>2, <2>3 DEF s
<1>5. CASE /\ was # [name |-> n, ver |-> v]
           /\ ~(was # None /\ was.ver = v /\ was.name # n /\ Format[was.name] = Format[n])
  <2>1. s = <<put>>
    BY <1>5 DEF OperationFor
  <2> HIDE DEF s, put
  <2>2. s \in Seq(Batch!Operation)
    BY <1>2, <2>1
  <2> QED BY <1>2, <2>1, <2>2 DEF s
<1> QED BY <1>3, <1>4, <1>5

\* The elements of the shortest lists.
LEMMA ShortLists == ToSet(<<>>) = {} /\ \A x : ToSet(<<x>>) = {x}
BY DEF ToSet

\* What is due for one file: nothing, when the state file has what the scan found, or one
\* operation that makes the document so.
LEMMA DueCases ==
    ASSUME TrackerTyped, NEW f \in Folders, NEW i \in Inodes
    PROVE  \/ Due(f, i) = {} /\ saved[f][i] = current[f][i]
           \/ \E op \in Batch!Operation :
                  /\ Due(f, i) = {op} /\ op.key = i
                  /\ \/ op.kind = "delete" /\ current[f][i] = None
                     \/ /\ op.kind \in {"put", "move"} /\ current[f][i] # None
                        /\ op.path = <<f, current[f][i].name>>
                        /\ op.hash = Normal[current[f][i].ver]
<1> DEFINE was == saved[f][i]
           now == current[f][i]
<1>1. was \in Tracked \cup {None} /\ now \in Tracked \cup {None}
  BY DEF TrackerTyped
<1>2. CASE now = None /\ was = None
  BY <1>2 DEF Due
<1>3. CASE now = None /\ was # None
  <2> DEFINE op == Batch!DeleteOp(i)
  <2>1. op \in Batch!Operation /\ op.key = i /\ op.kind = "delete"
    BY DEF Batch!DeleteOp, Batch!Operation
  <2>2. Due(f, i) = {op}
    BY <1>3 DEF Due
  <2> HIDE DEF op
  <2> QED BY <1>3, <2>1, <2>2
<1>4. CASE now # None
  <2>1. now \in Tracked /\ now.name \in Names /\ now.ver \in Versions
        /\ now = [name |-> now.name, ver |-> now.ver]
    BY <1>1, <1>4 DEF Tracked
  <2> DEFINE s == OperationFor(was, f, i, now.name, now.ver)
  <2>2. Due(f, i) = ToSet(s)
    BY <1>4 DEF Due
  <2>3. \/ s = <<>> /\ was = [name |-> now.name, ver |-> now.ver]
        \/ \E op \in Batch!Operation :
               /\ s = <<op>> /\ op.key = i /\ op.kind \in {"put", "move"}
               /\ op.path = <<f, now.name>> /\ op.hash = Normal[now.ver]
    BY <1>1, <2>1, OperationForHolds
  <2> HIDE DEF s, now, was
  <2>4. CASE s = <<>> /\ was = [name |-> now.name, ver |-> now.ver]
    <3>1. Due(f, i) = {} /\ was = now
      BY <2>1, <2>2, <2>4, ShortLists
    <3> QED BY <3>1 DEF was, now
  <2>5. CASE \E op \in Batch!Operation :
               /\ s = <<op>> /\ op.key = i /\ op.kind \in {"put", "move"}
               /\ op.path = <<f, now.name>> /\ op.hash = Normal[now.ver]
    <3>1. PICK op \in Batch!Operation :
               /\ s = <<op>> /\ op.key = i /\ op.kind \in {"put", "move"}
               /\ op.path = <<f, now.name>> /\ op.hash = Normal[now.ver]
      BY <2>5
    <3>2. Due(f, i) = {op}
      BY <2>2, <3>1, ShortLists
    <3> QED BY <1>4, <3>1, <3>2 DEF now
  <2> QED BY <2>3, <2>4, <2>5
<1> QED BY <1>2, <1>3, <1>4

\* Where nothing is due, the store has what the scan found.
LEMMA NothingDue ==
    ASSUME TrackerSound, Clean, pc # "idle", NEW f \in Scanned, f \in Folders, NEW i \in Inodes,
           Due(f, i) = {}
    PROVE  Holds(docs[<<f, i>>], f, current[f][i])
<1>1. saved[f][i] = current[f][i]
  <2>1. TrackerTyped
    BY DEF TrackerSound
  <2>2. \A op : {op} # {}
    OBVIOUS
  <2> QED BY <2>1, <2>2, DueCases
<1>2. PICK t \in Allowed(f, i) : Holds(docs[<<f, i>>], f, t)
  BY DEF TrackerSound, DocsSound, Backed
<1>3. CASE t \in {saved[f][i], current[f][i]}
  BY <1>1, <1>2, <1>3
<1>4. CASE ahead /\ t \in Targets(f, i)
  <2>1. quiet /\ ~twice
    BY <1>4 DEF TrackerSound, PhaseSound, Clean
  <2>2. current[f][i] \in Targets(f, i) /\ \A u, v \in Targets(f, i) : u = v
    BY <2>1 DEF TrackerSound, ScanSound
  <2>3. t = current[f][i]
    BY <1>4, <2>2
  <2> QED BY <1>2, <2>3
<1>5. t \in {saved[f][i], current[f][i]} \/ (ahead /\ t \in Targets(f, i))
  BY <1>2 DEF Allowed
<1> QED BY <1>3, <1>4, <1>5

\* A batch that is accepted brings the documents of its folder to what the scan found.
LEMMA OutcomeHolds ==
    ASSUME TrackerSound, pc = "submit", batches # <<>>
    PROVE  LET b == Head(batches)
           IN  /\ b \in ToSet(batches) /\ b \in BatchRecord /\ Tail(batches) \in Seq(BatchRecord)
               /\ ToSet(batches) = {b} \cup ToSet(Tail(batches))
               /\ Outcome.rows \in [Ids -> Doc \cup {None}]
               /\ \A f \in Folders, i \in Inodes :
                      f # b.folder => Outcome.rows[<<f, i>>] = docs[<<f, i>>]
               /\ \A f \in Folders, i \in Inodes :
                      docs[<<f, i>>] # None /\ Outcome.rows[<<f, i>>] = None =>
                          f = b.folder /\ \E op \in ToSet(b.ops) : op.kind = "delete" /\ op.key = i
               /\ Outcome.ok /\ Clean => \A i \in Inodes :
                      Holds(Outcome.rows[<<b.folder, i>>], b.folder, current[b.folder][i])
<1> DEFINE b == Head(batches)
           w == b.folder
           out == Outcome
<1>1. /\ b \in ToSet(batches) /\ b \in BatchRecord /\ Tail(batches) \in Seq(BatchRecord)
      /\ ToSet(batches) = {b} \cup ToSet(Tail(batches))
  <2>1. batches \in Seq(BatchRecord)
    BY DEF TrackerSound, TrackerTyped
  <2> QED BY <2>1, TailHolds
<1>2. w \in Folders /\ b.ops \in Seq(Batch!Operation)
  BY <1>1 DEF BatchRecord
<1>3. docs \in [Ids -> Doc \cup {None}] /\ TrackerTyped
  BY DEF TrackerSound, TrackerTyped
<1>4. out = Batch!Submitted(docs, w, b.ops)
  BY DEF Outcome
<1> HIDE DEF b, out
<1>5. /\ out.rows \in [Ids -> Doc \cup {None}]
      /\ \A id \in Ids : (\A op \in ToSet(b.ops) : id # <<w, op.key>>) => out.rows[id] = docs[id]
      /\ \A id \in Ids : out.rows[id] = None =>
             \/ docs[id] = None
             \/ \E op \in ToSet(b.ops) : op.kind = "delete" /\ id = <<w, op.key>>
      /\ \A op \in ToSet(b.ops) :
             out.ok /\ (\A o \in ToSet(b.ops) : o.key = op.key => o = op) =>
                 LET d == out.rows[<<w, op.key>>]
                 IN  /\ op.kind = "delete" => d = None
                     /\ op.kind \in {"put", "move"} =>
                            d # None /\ d.path = op.path /\ d.hash = op.hash
  BY <1>2, <1>3, <1>4, SubmittedEffect
<1>6. \A f \in Folders, i \in Inodes : <<f, i>> \in Ids
  BY DEF Ids
<1>7. \A f \in Folders, i \in Inodes : f # w => out.rows[<<f, i>>] = docs[<<f, i>>]
  BY <1>5, <1>6
<1>8. \A f \in Folders, i \in Inodes :
          docs[<<f, i>>] # None /\ out.rows[<<f, i>>] = None =>
              f = w /\ \E op \in ToSet(b.ops) : op.kind = "delete" /\ op.key = i
  BY <1>5, <1>6
<1>9. ASSUME out.ok, Clean, NEW i \in Inodes
      PROVE  Holds(out.rows[<<w, i>>], w, current[w][i])
  <2>1. About(b.ops, i) = Due(w, i) /\ w \in Scanned
    BY <1>1, <1>9 DEF TrackerSound, BatchesSound, Explains, Clean
  <2>2. CASE Due(w, i) = {}
    <3>1. \A op \in ToSet(b.ops) : op.key # i
      BY <2>1, <2>2 DEF About
    <3>2. out.rows[<<w, i>>] = docs[<<w, i>>]
      BY <1>2, <1>5, <1>6, <3>1
    <3> QED BY <1>2, <1>9, <2>1, <2>2, <3>2, NothingDue
  <2>3. CASE \E op \in Batch!Operation :
                /\ Due(w, i) = {op} /\ op.key = i
                /\ \/ op.kind = "delete" /\ current[w][i] = None
                   \/ /\ op.kind \in {"put", "move"} /\ current[w][i] # None
                      /\ op.path = <<w, current[w][i].name>>
                      /\ op.hash = Normal[current[w][i].ver]
    <3>1. PICK op \in Batch!Operation :
                /\ Due(w, i) = {op} /\ op.key = i
                /\ \/ op.kind = "delete" /\ current[w][i] = None
                   \/ /\ op.kind \in {"put", "move"} /\ current[w][i] # None
                      /\ op.path = <<w, current[w][i].name>>
                      /\ op.hash = Normal[current[w][i].ver]
      BY <2>3
    <3>2. op \in ToSet(b.ops) /\ \A o \in ToSet(b.ops) : o.key = op.key => o = op
      BY <2>1, <3>1 DEF About
    <3>3. /\ op.kind = "delete" => out.rows[<<w, i>>] = None
          /\ op.kind \in {"put", "move"} =>
                 /\ out.rows[<<w, i>>] # None /\ out.rows[<<w, i>>].path = op.path
                 /\ out.rows[<<w, i>>].hash = op.hash
      BY <1>5, <1>9, <3>1, <3>2
    <3> QED BY <3>1, <3>3 DEF Holds
  <2> QED BY <1>2, <1>3, <2>2, <2>3, DueCases
<1> QED BY <1>1, <1>5, <1>7, <1>8, <1>9 DEF b, out
-----------------------------------------------------------------------------
(***************************************************************************)
(* The user edits.                                                         *)
(***************************************************************************)

\* What a scan would find depends on the user's state alone, and what it would keep on the
\* state file.
LEMMA SameDisk ==
    ASSUME UNCHANGED <<disk, mounted, closed, configured>>, NEW f, NEW i
    PROVE  /\ Entries(f, i)' = Entries(f, i) /\ Accessible(f)' = Accessible(f)
           /\ Visible(f)' = Visible(f) /\ Legible(f)' = Legible(f)
           /\ saved' = saved => Targets(f, i)' = Targets(f, i)
<1>0. Visible(f)' = Visible(f) /\ Legible(f)' = Legible(f)
  BY DEF Visible, Hidden, Legible
<1>1. Entries(f, i)' = Entries(f, i)
  BY <1>0 DEF Entries
<1>2. Accessible(f)' = Accessible(f)
  BY <1>0 DEF Accessible
<1>3. ASSUME saved' = saved PROVE Targets(f, i)' = Targets(f, i)
  BY <1>1, <1>2, <1>3 DEF Targets
<1> QED BY <1>0, <1>1, <1>2, <1>3

\* What is due depends on the state file and on what the scan has found.
LEMMA SameDue ==
    ASSUME NEW f, NEW i, saved'[f][i] = saved[f][i], current'[f][i] = current[f][i]
    PROVE  Due(f, i)' = Due(f, i)
BY DEF Due, OperationFor

\* As above, of a whole batch.
LEMMA SameExplains ==
    ASSUME NEW ops, NEW f, saved'[f] = saved[f], current'[f] = current[f]
    PROVE  Explains(ops, f)' = Explains(ops, f)
<1>1. \A i \in Inodes : Due(f, i)' = Due(f, i)
  BY SameDue
<1>2. \A i \in Inodes : About(ops, i)' = About(ops, i)
  BY DEF About
<1> QED BY <1>1, <1>2 DEF Explains

\* The batches stay sound while the scan's results stay as they are.
LEMMA SameBatches ==
    ASSUME BatchesSound, UNCHANGED <<folders, toscan, at, current, found, batches, partial, saved>>,
           twice' = twice, pc' = pc
    PROVE  BatchesSound'
<1>1. \A f, i : Due(f, i)' = Due(f, i)
  BY SameDue
<1>2. \A ops, f : Explains(ops, f)' = Explains(ops, f)
  BY SameExplains
<1>3. \A f : Pending(f)' = Pending(f)
  BY DEF Pending
<1>4. Scanned' = Scanned
  BY DEF Scanned
<1>5. \A i : About(found, i)' = About(found, i)
  BY DEF About
<1> QED BY <1>1, <1>2, <1>3, <1>4, <1>5 DEF BatchesSound

\* An edit at any moment: the histories it opens are the ones the invariant leaves out.
LEMMA EditedSound ==
    ASSUME TrackerSound, Edited, disk' \in [Folders -> [Names -> File \cup {None}]],
           mounted' \subseteq Folders, configured' \subseteq Folders
    PROVE  TrackerSound'
<1>1. TrackerTyped'
  <2>1. raced' \in BOOLEAN /\ quiet' \in BOOLEAN /\ undisturbed' \in BOOLEAN
    BY DEF TrackerSound, TrackerTyped, Edited
  <2>2. /\ UNCHANGED <<docs, saved, health, pc, ahead, twice, torn>>
        /\ UNCHANGED <<folders, toscan, at, listing, held, current, found, batches>>
        /\ UNCHANGED <<submitted, partial, result>>
    BY DEF Edited, locals
  <2> QED BY <2>1, <2>2 DEF TrackerSound, TrackerTyped
<1>2. PhaseSound'
  BY DEF TrackerSound, TrackerTyped, PhaseSound, Edited, locals
<1>3. BatchesSound'
  BY SameBatches DEF TrackerSound, Edited, locals
<1>4. ScanSound'
  BY DEF ScanSound, Edited
<1>5. ASSUME Clean' PROVE Clean /\ ~ahead
  BY <1>5 DEF Clean, Edited, TrackerSound, TrackerTyped
<1>6. ASSUME NEW f, NEW i, ~ahead PROVE Allowed(f, i)' = Allowed(f, i)
  BY <1>6 DEF Allowed, Edited, locals
<1>7. DocsSound'
  <2> SUFFICES ASSUME Clean' PROVE DocsSound!2'
    BY DEF DocsSound
  <2>1. \A f \in Folders, i \in Inodes : Allowed(f, i)' = Allowed(f, i)
    BY <1>5, <1>6
  <2>2. \A f : Pending(f)' = Pending(f)
    BY DEF Pending, Edited, locals
  <2>3. \A d, f, t : Holds(d, f, t)' = Holds(d, f, t)
    BY DEF Holds
  <2>4. UNCHANGED <<docs, pc, result, saved, current>> /\ undisturbed' = FALSE
    BY DEF Edited, locals
  <2>5. DocsSound!2
    BY <1>5 DEF TrackerSound, DocsSound
  <2>6. Backed' /\ Vouched'
    BY <2>1, <2>3, <2>4, <2>5 DEF Backed, Vouched
  <2>7. (pc = "submit" => \A f \in Folders, i \in Inodes :
               ~Pending(f) => Holds(docs[<<f, i>>], f, current[f][i]))'
    BY <2>2, <2>3, <2>4, <2>5
  <2>8. (pc = "health" /\ result # "failed" =>
               \A f \in Folders, i \in Inodes : Holds(docs[<<f, i>>], f, saved[f][i]))'
    BY <2>3, <2>4, <2>5
  <2> QED BY <2>4, <2>6, <2>7, <2>8
<1> QED BY <1>1, <1>2, <1>3, <1>4, <1>7 DEF TrackerSound

\* A file of the disk replaced by another version of it.
LEMMA WithFileTyped ==
    ASSUME TrackerTyped, NEW f \in Folders, NEW file \in File
    PROVE  WithFile(f, file) \in [Folders -> [Names -> File \cup {None}]]
<1> DEFINE row == [m \in Names |->
                      IF disk[f][m] # None /\ disk[f][m].ino = file.ino THEN file ELSE disk[f][m]]
<1>1. disk \in [Folders -> [Names -> File \cup {None}]]
  BY DEF TrackerTyped
<1>2. row \in [Names -> File \cup {None}]
  BY <1>1
<1>3. WithFile(f, file) = [disk EXCEPT ![f] = row]
  BY DEF WithFile
<1> HIDE DEF row
<1> QED BY <1>1, <1>2, <1>3

\* Every edit keeps the invariant.
LEMMA UserSound ==
    ASSUME TrackerSound, User
    PROVE  TrackerSound'
<1> USE DEF TrackerSound
<1>1. /\ disk \in [Folders -> [Names -> File \cup {None}]]
      /\ mounted \subseteq Folders /\ configured \subseteq Folders
  BY DEF TrackerTyped
<1>2. \A file \in File, v \in Versions : [file EXCEPT !.ver = v] \in File
  BY DEF File
<1>3. ASSUME NEW f \in Folders, NEW n \in Names, NEW i \in Inodes, NEW v \in Versions,
             Create(f, n, i, v)
      PROVE  TrackerSound'
  <2>1. disk' \in [Folders -> [Names -> File \cup {None}]]
    BY <1>1, <1>3 DEF Create, File
  <2> QED BY <1>1, <1>3, <2>1, EditedSound DEF Create
<1>4. ASSUME NEW f \in Folders, NEW n \in Names, NEW v \in Versions, Write(f, n, v)
      PROVE  TrackerSound'
  <2>1. [disk[f][n] EXCEPT !.ver = v] \in File
    BY <1>1, <1>2, <1>4 DEF Write
  <2>2. disk' \in [Folders -> [Names -> File \cup {None}]]
    BY <1>4, <2>1, WithFileTyped DEF Write
  <2> QED BY <1>1, <1>4, <2>2, EditedSound DEF Write
<1>5. ASSUME NEW f \in Folders, NEW n \in Names, NEW m \in Names, MoveTo(f, n, m)
      PROVE  TrackerSound'
  <2>1. disk' \in [Folders -> [Names -> File \cup {None}]]
    BY <1>1, <1>5 DEF MoveTo
  <2> QED BY <1>1, <1>5, <2>1, EditedSound DEF MoveTo
<1>6. ASSUME NEW f \in Folders, NEW n \in Names, NEW m \in Names, Link(f, n, m)
      PROVE  TrackerSound'
  <2>1. disk' \in [Folders -> [Names -> File \cup {None}]]
    BY <1>1, <1>6 DEF Link
  <2> QED BY <1>1, <1>6, <2>1, EditedSound DEF Link
<1>7. ASSUME NEW f \in Folders, NEW n \in Names, Unlink(f, n)
      PROVE  TrackerSound'
  <2>1. disk' \in [Folders -> [Names -> File \cup {None}]]
    BY <1>1, <1>7 DEF Unlink
  <2> QED BY <1>1, <1>7, <2>1, EditedSound DEF Unlink
<1>8. ASSUME NEW f \in Folders, NEW n \in Names, ToggleReadable(f, n)
      PROVE  TrackerSound'
  <2> DEFINE file == disk[f][n]
  <2>1. file \in File
    BY <1>1, <1>8 DEF ToggleReadable
  <2> HIDE DEF file
  <2>3. [file EXCEPT !.readable = ~@] \in File
    BY <2>1 DEF File
  <2>2. disk' \in [Folders -> [Names -> File \cup {None}]]
    BY <1>8, <2>3, WithFileTyped DEF ToggleReadable, file
  <2> QED BY <1>1, <1>8, <2>2, EditedSound DEF ToggleReadable
<1>9. ASSUME NEW f \in Folders, ToggleMounted(f)
      PROVE  TrackerSound'
  <2>1. mounted' \subseteq Folders /\ disk' = disk /\ configured' = configured
    BY <1>1, <1>9 DEF ToggleMounted
  <2> QED BY <1>1, <1>9, <2>1, EditedSound DEF ToggleMounted
<1>10. ASSUME NEW f \in Folders, Unregister(f)
       PROVE  TrackerSound'
  <2>1. configured' \subseteq Folders /\ disk' = disk /\ mounted' = mounted
    BY <1>1, <1>10 DEF Unregister
  <2> QED BY <1>1, <1>10, <2>1, EditedSound DEF Unregister
<1>11. ASSUME NEW f \in Folders, NEW d \in Dirs, ToggleListable(f, d)
       PROVE  TrackerSound'
  <2>1. UNCHANGED <<disk, mounted, configured>>
    BY <1>11 DEF ToggleListable
  <2> QED BY <1>1, <1>11, <2>1, EditedSound DEF ToggleListable
<1> QED BY <1>3, <1>4, <1>5, <1>6, <1>7, <1>8, <1>9, <1>10, <1>11 DEF User

-----------------------------------------------------------------------------
(***************************************************************************)
(* The batches are submitted, and the sync ends.                           *)
(***************************************************************************)

\* A sync that ends forgets its locals; what it leaves is in the files and the store.
LEMMA ResetSound ==
    ASSUME TrackerSound, Reset, UNCHANGED <<disk, mounted, closed, configured>>,
           docs' \in [Ids -> Doc \cup {None}],
           saved' \in [Folders -> [Inodes -> Tracked \cup {None}]],
           health' \in {"success", "incomplete", "failed"},
           quiet' \in BOOLEAN, undisturbed' \in BOOLEAN, ahead' \in BOOLEAN, raced' \in BOOLEAN,
           twice' \in BOOLEAN, torn' \in BOOLEAN,
           undisturbed' => quiet', ahead' /\ ~raced' => quiet',
           Clean' => Backed' /\ Vouched'
    PROVE  TrackerSound'
<1>1. NothingTracked \in [Folders -> [Inodes -> Tracked \cup {None}]]
  BY DEF NothingTracked
<1>2. /\ listing' = <<>> /\ found' = <<>> /\ batches' = <<>> /\ current' = NothingTracked
      /\ pc' = "idle" /\ folders' = {} /\ toscan' = {} /\ at' = None /\ held' = None
      /\ partial' = {} /\ result' = None /\ submitted' = FALSE
  BY DEF Reset
<1>3. TrackerTyped'
  <2>1. listing' \in Seq(Names) /\ found' \in Seq(Batch!Operation) /\ batches' \in Seq(BatchRecord)
    BY <1>2
  <2> QED BY <1>1, <1>2, <2>1 DEF TrackerSound, TrackerTyped
<1>4. PhaseSound'
  BY <1>2 DEF PhaseSound
<1>5. BatchesSound'
  <2>1. ToSet(batches') = {}
    BY <1>2, ShortLists
  <2> QED BY <1>2, <2>1 DEF BatchesSound
<1>6. ScanSound'
  BY <1>2 DEF ScanSound
<1>7. DocsSound'
  BY <1>2 DEF DocsSound
<1> QED BY <1>3, <1>4, <1>5, <1>6, <1>7 DEF TrackerSound

\* What the store may have of a file, when accepted batches count as the scan's.
Covered(f, i, accepted) ==
    {saved[f][i]} \cup (IF ahead THEN Targets(f, i) ELSE {})
    \cup (IF accepted THEN {current[f][i]} ELSE {})

\* A sync cut short: what was accepted is what a scan would find again, if no edit came.
LEMMA InterruptedBacked ==
    ASSUME TrackerSound, NEW accepted \in BOOLEAN, Interrupted(accepted),
           UNCHANGED <<disk, mounted, closed, configured, saved, twice, quiet>>,
           torn' = torn, pc' # "submit", accepted => pc = "submit",
           Clean => \A f \in Folders, i \in Inodes :
                        \E t \in Covered(f, i, accepted) : Holds(docs'[<<f, i>>], f, t)
    PROVE  /\ ahead' \in BOOLEAN /\ raced' \in BOOLEAN
           /\ ahead' /\ ~raced' => quiet'
           /\ Clean' => Backed'
<1>1. ahead \in BOOLEAN /\ raced \in BOOLEAN /\ quiet \in BOOLEAN
  BY DEF TrackerSound, TrackerTyped
<1>2. ahead' = (ahead \/ accepted) /\ raced' = (raced \/ (ahead' /\ ~quiet))
  BY DEF Interrupted
<1>3. ahead' \in BOOLEAN /\ raced' \in BOOLEAN /\ (ahead' /\ ~raced' => quiet')
  BY <1>1, <1>2
<1>4. ASSUME Clean' PROVE Backed'
  <2>1. Clean /\ (ahead' => quiet)
    BY <1>1, <1>2, <1>4 DEF Clean
  <2>2. \A f \in Folders, i \in Inodes : Targets(f, i)' = Targets(f, i)
    BY SameDisk
  <2>3. ASSUME accepted, NEW f \in Folders, NEW i \in Inodes
        PROVE  ahead' /\ current[f][i] \in Targets(f, i)
    <3>1. quiet /\ ahead' /\ ~twice
      BY <1>2, <2>1, <2>3 DEF Clean
    <3>2. f \in Scanned /\ pc # "idle"
      BY <2>3 DEF Scanned
    <3> QED BY <3>1, <3>2 DEF TrackerSound, ScanSound
  <2>4. ASSUME NEW f \in Folders, NEW i \in Inodes
        PROVE  Covered(f, i, accepted) \subseteq Allowed(f, i)'
    <3>1. ahead => ahead'
      BY <1>2
    <3>2. Allowed(f, i)' = {saved[f][i]} \cup (IF ahead' THEN Targets(f, i) ELSE {})
      BY <2>2 DEF Allowed
    <3> QED BY <2>3, <3>1, <3>2 DEF Covered
  <2>5. \A d, f, t : Holds(d, f, t)' = Holds(d, f, t)
    BY DEF Holds
  <2>6. \A f \in Folders, i \in Inodes :
            \E t \in Covered(f, i, accepted) : Holds(docs'[<<f, i>>], f, t)
    BY <2>1
  <2> QED BY <2>4, <2>6 DEF Backed, Holds
<1> QED BY <1>3, <1>4

\* A sync that raised: run_forever reports it, and the batches accepted so far stay so.
LEMMA FailSound ==
    ASSUME TrackerSound, NEW accepted \in BOOLEAN, pc = "submit", Fail(accepted),
           docs' \in [Ids -> Doc \cup {None}],
           Clean => \A f \in Folders, i \in Inodes :
                        \E t \in Covered(f, i, accepted) : Holds(docs'[<<f, i>>], f, t),
           Clean => Vouched'
    PROVE  TrackerSound'
<1>1. /\ pc' = "health" /\ result' = "failed" /\ Interrupted(accepted)
      /\ UNCHANGED <<disk, mounted, closed, configured>>
      /\ UNCHANGED <<saved, health, folders, toscan, at, listing>>
      /\ UNCHANGED <<held, current, found, batches, submitted, partial, quiet, undisturbed>>
      /\ twice' = twice /\ torn' = torn
  BY DEF Fail, user
<1>2. /\ ahead' \in BOOLEAN /\ raced' \in BOOLEAN
      /\ ahead' /\ ~raced' => quiet'
      /\ Clean' => Backed'
  BY <1>1, InterruptedBacked
<1>3. TrackerTyped'
  BY <1>1, <1>2 DEF TrackerSound, TrackerTyped
<1>4. PhaseSound'
  BY <1>1, <1>2 DEF TrackerSound, PhaseSound
<1>5. BatchesSound'
  BY <1>1 DEF TrackerSound, BatchesSound
<1>6. ScanSound'
  <2>1. \A f, i : Targets(f, i)' = Targets(f, i)
    BY <1>1, SameDisk
  <2>2. Scanned' = Scanned
    BY <1>1 DEF Scanned
  <2> QED BY <1>1, <2>1, <2>2 DEF TrackerSound, ScanSound
<1>7. Clean' => Clean
  BY <1>1 DEF Clean, Interrupted, TrackerSound, TrackerTyped
<1>8. DocsSound'
  BY <1>1, <1>2, <1>7 DEF DocsSound
<1> QED BY <1>3, <1>4, <1>5, <1>6, <1>8 DEF TrackerSound

\* With no edit, what the scan has found is what a scan would find.
LEMMA SubmittedTargets ==
    ASSUME TrackerSound, pc = "submit", quiet, Clean, NEW f \in Folders, NEW i \in Inodes
    PROVE  current[f][i] \in Targets(f, i)
<1>1. f \in Scanned /\ ~twice
  BY DEF Scanned, Clean
<1> QED BY <1>1 DEF TrackerSound, ScanSound

\* Nothing of the store changed: it has what it had.
LEMMA SameDocs ==
    ASSUME TrackerSound, Clean, UNCHANGED <<disk, mounted, closed, configured, saved>>,
           UNCHANGED <<docs, health>>, undisturbed' = undisturbed
    PROVE  /\ Vouched'
           /\ \A f \in Folders, i \in Inodes :
                  \E t \in Covered(f, i, submitted /\ pc = "submit") : Holds(docs'[<<f, i>>], f, t)
<1>1. \A f, i : Targets(f, i)' = Targets(f, i)
  BY SameDisk
<1>2. Backed /\ Vouched
  BY DEF TrackerSound, DocsSound
<1>3. Vouched'
  BY <1>1, <1>2 DEF Vouched, Holds
<1>4. \A f, i : Covered(f, i, submitted /\ pc = "submit") = Allowed(f, i)
  BY DEF Covered, Allowed
<1> QED BY <1>2, <1>3, <1>4 DEF Backed

\* The store took the batch.
LEMMA TakenDocs ==
    ASSUME TrackerSound, Clean, pc = "submit", batches # <<>>, Outcome.ok, docs' = Outcome.rows,
           UNCHANGED <<disk, mounted, closed, configured, saved>>, health' = health,
           undisturbed' = undisturbed
    PROVE  /\ Vouched'
           /\ \A f \in Folders, i \in Inodes :
                  \E t \in Covered(f, i, TRUE) : Holds(docs'[<<f, i>>], f, t)
<1> DEFINE w == Head(batches).folder
<1>1. /\ w \in Folders
      /\ \A f \in Folders, i \in Inodes : f # w => docs'[<<f, i>>] = docs[<<f, i>>]
      /\ \A i \in Inodes : Holds(docs'[<<w, i>>], w, current[w][i])
  <2>1. Head(batches) \in BatchRecord
    BY OutcomeHolds
  <2>2. /\ \A f \in Folders, i \in Inodes :
               f # w => Outcome.rows[<<f, i>>] = docs[<<f, i>>]
        /\ \A i \in Inodes : Holds(Outcome.rows[<<w, i>>], w, current[w][i])
    BY OutcomeHolds
  <2> QED BY <2>1, <2>2 DEF BatchRecord
<1> HIDE DEF w
<1>2. \A f, i : Targets(f, i)' = Targets(f, i)
  BY SameDisk
<1>3. Backed /\ Vouched
  BY DEF TrackerSound, DocsSound
<1>4. ASSUME NEW f \in Folders, NEW i \in Inodes
      PROVE  \E t \in Covered(f, i, TRUE) : Holds(docs'[<<f, i>>], f, t)
  <2>1. CASE f = w
    BY <1>1, <2>1 DEF Covered
  <2>2. CASE f # w
    <3>1. PICK t \in Allowed(f, i) : Holds(docs[<<f, i>>], f, t)
      BY <1>3 DEF Backed
    <3>2. t \in Covered(f, i, TRUE)
      BY <3>1 DEF Covered, Allowed
    <3> QED BY <1>1, <2>2, <3>1, <3>2
  <2> QED BY <2>1, <2>2
<1>5. Vouched'
  <2> SUFFICES ASSUME health = "success", undisturbed, NEW f \in Folders, NEW i \in Inodes
               PROVE  \E t \in Targets(f, i) : Holds(docs'[<<f, i>>], f, t)
    BY <1>2 DEF Vouched, Holds
  <2>1. CASE f = w
    <3>1. quiet
      BY DEF TrackerSound, PhaseSound
    <3>2. current[f][i] \in Targets(f, i)
      BY <3>1, SubmittedTargets
    <3> QED BY <1>1, <2>1, <3>2
  <2>2. CASE f # w
    BY <1>1, <1>3, <2>2 DEF Vouched
  <2> QED BY <2>1, <2>2
<1> QED BY <1>4, <1>5

\* A batch the store refused, a request that was lost, an answer that was lost.
LEMMA FailuresSound ==
    ASSUME TrackerSound, SubmitRefused \/ RequestLost \/ AnswerLost
    PROVE  TrackerSound'
<1>1. submitted \in BOOLEAN /\ docs \in [Ids -> Doc \cup {None}]
  BY DEF TrackerSound, TrackerTyped
<1>2. CASE SubmitRefused \/ RequestLost
  <2>1. pc = "submit" /\ Fail(submitted) /\ docs' = docs
    BY <1>2 DEF SubmitRefused, RequestLost
  <2>2. UNCHANGED <<disk, mounted, closed, configured, saved, docs, health, undisturbed>>
    BY <2>1 DEF Fail, user
  <2>3. (submitted /\ pc = "submit") = submitted
    BY <1>1, <2>1
  <2>4. Clean => /\ Vouched'
                 /\ \A f \in Folders, i \in Inodes :
                        \E t \in Covered(f, i, submitted) : Holds(docs'[<<f, i>>], f, t)
    BY <2>2, <2>3, SameDocs
  <2> QED BY <1>1, <2>1, <2>4, FailSound
<1>3. CASE AnswerLost
  <2>1. pc = "submit" /\ batches # <<>> /\ Fail(TRUE) /\ docs' = Outcome.rows /\ Outcome.ok
    BY <1>3 DEF AnswerLost
  <2>2. UNCHANGED <<disk, mounted, closed, configured, saved, health, undisturbed>>
    BY <2>1 DEF Fail, user
  <2>3. docs' \in [Ids -> Doc \cup {None}]
    BY <2>1, OutcomeHolds
  <2>4. Clean => /\ Vouched'
                 /\ \A f \in Folders, i \in Inodes :
                        \E t \in Covered(f, i, TRUE) : Holds(docs'[<<f, i>>], f, t)
    BY <2>1, <2>2, TakenDocs
  <2> QED BY <2>1, <2>3, <2>4, FailSound
<1> QED BY <1>2, <1>3

\* The store accepts a batch.
LEMMA SubmitSound ==
    ASSUME TrackerSound, Submit
    PROVE  TrackerSound'
<1>1. /\ pc = "submit" /\ batches # <<>> /\ Outcome.ok /\ docs' = Outcome.rows
      /\ batches' = Tail(batches) /\ submitted' = TRUE
      /\ UNCHANGED <<disk, mounted, closed, configured>>
      /\ UNCHANGED <<saved, health, pc, folders, toscan, at, listing>>
      /\ UNCHANGED <<held, current, found, partial, result, quiet, undisturbed, ahead, raced>>
      /\ twice' = twice /\ torn' = torn
  BY DEF Submit, user, history
<1> DEFINE b == Head(batches)
<1>2. /\ b \in BatchRecord /\ batches' \in Seq(BatchRecord)
      /\ ToSet(batches) = {b} \cup ToSet(batches')
      /\ docs' \in [Ids -> Doc \cup {None}]
      /\ \A f \in Folders, i \in Inodes : f # b.folder => docs'[<<f, i>>] = docs[<<f, i>>]
      /\ Clean => \A i \in Inodes : Holds(docs'[<<b.folder, i>>], b.folder, current[b.folder][i])
  BY <1>1, OutcomeHolds
<1> HIDE DEF b
<1>3. TrackerTyped'
  BY <1>1, <1>2 DEF TrackerSound, TrackerTyped
<1>4. PhaseSound'
  BY <1>1 DEF TrackerSound, PhaseSound
<1>5. Scanned' = Scanned
  BY <1>1 DEF Scanned
<1>6. BatchesSound'
  <2>1. \A ops, f : Explains(ops, f)' = Explains(ops, f)
    BY <1>1, SameExplains
  <2> QED BY <1>1, <1>2, <1>5, <2>1 DEF TrackerSound, BatchesSound
<1>7. ScanSound'
  <2>1. \A f, i : Targets(f, i)' = Targets(f, i)
    BY <1>1, SameDisk
  <2> QED BY <1>1, <1>5, <2>1 DEF TrackerSound, ScanSound
<1>8. ASSUME Clean' PROVE Clean
  BY <1>1, <1>8 DEF Clean
<1>9. ASSUME Clean' PROVE Backed' /\ Vouched'
  <2>1. /\ Vouched'
        /\ \A f \in Folders, i \in Inodes :
               \E t \in Covered(f, i, TRUE) : Holds(docs'[<<f, i>>], f, t)
    BY <1>1, <1>8, <1>9, TakenDocs
  <2>2. \A f, i : Targets(f, i)' = Targets(f, i)
    BY <1>1, SameDisk
  <2>3. \A f, i : Allowed(f, i)' = Covered(f, i, TRUE)
    BY <1>1, <2>2 DEF Allowed, Covered
  <2> QED BY <2>1, <2>3 DEF Backed, Holds
<1>10. ASSUME Clean', NEW f \in Folders, NEW i \in Inodes, ~Pending(f)'
       PROVE  Holds(docs'[<<f, i>>], f, current[f][i])
  <2>1. CASE f = b.folder
    BY <1>2, <1>8, <1>10, <2>1
  <2>2. CASE f # b.folder
    <3>1. ~Pending(f)
      BY <1>2, <1>10, <2>2 DEF Pending
    <3> QED BY <1>1, <1>2, <1>8, <1>10, <2>2, <3>1 DEF TrackerSound, DocsSound
  <2> QED BY <2>1, <2>2
<1>11. DocsSound'
  BY <1>1, <1>9, <1>10 DEF DocsSound, Holds
<1> QED BY <1>3, <1>4, <1>6, <1>7, <1>11 DEF TrackerSound

\* The state file is written, after every batch was accepted.
LEMMA SaveStateSound ==
    ASSUME TrackerSound, SaveState
    PROVE  TrackerSound'
<1>1. /\ pc = "submit" /\ batches = <<>> /\ saved' = current /\ pc' = "health" /\ ahead' = FALSE
      /\ result' \in {"success", "incomplete"}
      /\ UNCHANGED <<disk, mounted, closed, configured, docs, health, folders, toscan, at, listing>>
      /\ UNCHANGED <<held, current, found, batches, submitted, partial, quiet, undisturbed>>
      /\ raced' = raced /\ twice' = twice /\ torn' = torn
  BY DEF SaveState, user
<1>2. TrackerTyped'
  BY <1>1 DEF TrackerSound, TrackerTyped
<1>3. PhaseSound'
  BY <1>1 DEF TrackerSound, PhaseSound
<1>4. BatchesSound'
  BY <1>1 DEF TrackerSound, BatchesSound
<1>5. ASSUME quiet, ~twice, NEW f \in Folders, NEW i \in Inodes
      PROVE  current[f][i] \in Targets(f, i)' /\ \A s, t \in Targets(f, i)' : s = t
  <2>1. f \in Scanned
    BY <1>1 DEF Scanned
  <2>2. current[f][i] \in Targets(f, i) /\ \A s, t \in Targets(f, i) : s = t
    BY <1>1, <1>5, <2>1 DEF TrackerSound, ScanSound
  <2>3. Entries(f, i)' = Entries(f, i) /\ Accessible(f)' = Accessible(f)
    BY <1>1, SameDisk
  <2> QED BY <1>1, <2>2, <2>3 DEF Targets
<1>6. ScanSound'
  <2>1. Scanned' = Folders
    BY <1>1 DEF Scanned
  <2> QED BY <1>1, <1>5, <2>1 DEF ScanSound
<1>7. DocsSound'
  <2> SUFFICES ASSUME Clean' PROVE DocsSound!2'
    BY DEF DocsSound
  <2>1. Clean
    BY <1>1 DEF Clean
  <2>2. \A f \in Folders, i \in Inodes : Holds(docs'[<<f, i>>], f, current[f][i])
    <3>1. \A f : ~Pending(f)
      BY <1>1, ShortLists DEF Pending
    <3> QED BY <1>1, <2>1, <3>1 DEF TrackerSound, DocsSound
  <2>3. Backed'
    BY <1>1, <2>2 DEF Backed, Allowed, Holds
  <2>4. Vouched'
    <3>1. undisturbed => quiet /\ ~twice
      BY <2>1 DEF TrackerSound, PhaseSound, Clean
    <3>2. ASSUME undisturbed, NEW f \in Folders, NEW i \in Inodes
          PROVE  current[f][i] \in Targets(f, i)' /\ Holds(docs[<<f, i>>], f, current[f][i])'
      BY <1>1, <1>5, <2>2, <3>1, <3>2 DEF Holds
    <3> QED BY <1>1, <3>2 DEF Vouched
  <2> QED BY <1>1, <2>2, <2>3, <2>4 DEF Holds
<1> QED BY <1>2, <1>3, <1>4, <1>6, <1>7 DEF TrackerSound

\* The health file tells of the sync that ended.
LEMMA PersistHealthSound ==
    ASSUME TrackerSound, PersistHealth
    PROVE  TrackerSound'
<1>1. /\ pc = "health" /\ health' = result /\ undisturbed' = quiet /\ Reset
      /\ UNCHANGED <<disk, mounted, closed, configured>>
      /\ UNCHANGED <<docs, saved, quiet, ahead, raced, twice, torn>>
  BY DEF PersistHealth, user, history
<1>2. \A f, i : Targets(f, i)' = Targets(f, i)
  BY <1>1, SameDisk
<1>3. result \in {"success", "incomplete", "failed"} /\ (ahead /\ ~raced => quiet)
  BY <1>1 DEF TrackerSound, PhaseSound
<1>4. ASSUME Clean' PROVE Backed' /\ Vouched'
  <2>1. Clean
    BY <1>1, <1>4 DEF Clean
  <2>2. \A f, i : Allowed(f, i)' = Allowed(f, i)
    BY <1>1, <1>2 DEF Allowed, Reset
  <2>3. Backed'
    BY <1>1, <2>1, <2>2 DEF Backed, Holds, TrackerSound, DocsSound
  <2>4. ASSUME result = "success", quiet, NEW f \in Folders, NEW i \in Inodes
        PROVE  saved[f][i] \in Targets(f, i) /\ Holds(docs[<<f, i>>], f, saved[f][i])
    <3>1. f \in Scanned
      BY <1>1 DEF Scanned
    <3>2. saved = current /\ Holds(docs[<<f, i>>], f, saved[f][i])
      BY <1>1, <2>1, <2>4 DEF TrackerSound, PhaseSound, DocsSound
    <3>3. current[f][i] \in Targets(f, i)
      BY <1>1, <2>1, <2>4, <3>1 DEF TrackerSound, ScanSound, Clean
    <3> QED BY <3>2, <3>3
  <2>5. Vouched'
    BY <1>1, <1>2, <2>4 DEF Vouched, Holds
  <2> QED BY <2>3, <2>5
<1>5. TrackerTyped
  BY DEF TrackerSound
<1> QED BY <1>1, <1>3, <1>4, <1>5, ResetSound DEF TrackerTyped

\* The process dies, at any point of a sync.
LEMMA CrashSound ==
    ASSUME TrackerSound, Crash \/ CrashInSave
    PROVE  TrackerSound'
<1>1. /\ docs \in [Ids -> Doc \cup {None}]
      /\ saved \in [Folders -> [Inodes -> Tracked \cup {None}]]
      /\ health \in {"success", "incomplete", "failed"}
      /\ quiet \in BOOLEAN /\ undisturbed \in BOOLEAN /\ ahead \in BOOLEAN /\ raced \in BOOLEAN
      /\ twice \in BOOLEAN /\ torn \in BOOLEAN /\ submitted \in BOOLEAN
      /\ undisturbed => quiet
  BY DEF TrackerSound, TrackerTyped, PhaseSound
<1>2. CASE Crash
  <2> DEFINE accepted == submitted /\ pc = "submit"
  <2>1. /\ Interrupted(accepted) /\ Reset /\ pc' = "idle" /\ torn' = torn
        /\ UNCHANGED <<disk, mounted, closed, configured>>
        /\ UNCHANGED <<saved, docs, health, quiet, undisturbed, twice>>
    BY <1>2 DEF Crash, user, Reset
  <2>2. accepted \in BOOLEAN /\ (accepted => pc = "submit")
    BY <1>1
  <2>3. Clean => /\ Vouched'
                 /\ \A f \in Folders, i \in Inodes :
                        \E t \in Covered(f, i, accepted) : Holds(docs'[<<f, i>>], f, t)
    BY <2>1, SameDocs
  <2> HIDE DEF accepted
  <2>4. /\ ahead' \in BOOLEAN /\ raced' \in BOOLEAN
        /\ ahead' /\ ~raced' => quiet'
        /\ Clean' => Backed'
    BY <2>1, <2>2, <2>3, InterruptedBacked
  <2>5. Clean' => Clean
    BY <1>1, <2>1 DEF Clean, Interrupted
  <2> QED BY <1>1, <2>1, <2>3, <2>4, <2>5, ResetSound
<1>3. CASE CrashInSave
  <2>1. /\ Interrupted(submitted) /\ Reset /\ torn' = TRUE /\ saved' = NothingTracked
        /\ UNCHANGED <<disk, mounted, closed, configured, docs, health, quiet, undisturbed, twice>>
    BY <1>3 DEF CrashInSave, user
  <2>2. ahead' \in BOOLEAN /\ raced' \in BOOLEAN /\ (ahead' /\ ~raced' => quiet')
    BY <1>1, <2>1 DEF Interrupted
  <2>3. ~Clean' /\ saved' \in [Folders -> [Inodes -> Tracked \cup {None}]]
    BY <2>1 DEF Clean, NothingTracked
  <2> QED BY <1>1, <2>1, <2>2, <2>3, ResetSound
<1> QED BY <1>2, <1>3

-----------------------------------------------------------------------------
(***************************************************************************)
(* The scan.                                                               *)
(***************************************************************************)

\* The scan changes neither the store nor the state file.
LEMMA ScanDocs ==
    ASSUME TrackerSound, Clean', pc # "submit", twice => twice',
           UNCHANGED <<disk, mounted, closed, configured, docs, saved, health, undisturbed>>,
           UNCHANGED <<ahead, raced, torn>>
    PROVE  Clean /\ Backed' /\ Vouched'
<1>1. \A f, i : Targets(f, i)' = Targets(f, i)
  BY SameDisk
<1>2. Clean
  BY DEF Clean
<1>3. Backed /\ Vouched
  BY <1>2 DEF TrackerSound, DocsSound
<1>4. \A f, i : Allowed(f, i) \subseteq Allowed(f, i)'
  BY <1>1 DEF Allowed
<1>5. Backed'
  BY <1>3, <1>4 DEF Backed, Holds
<1>6. Vouched'
  BY <1>1, <1>3 DEF Vouched, Holds
<1> QED BY <1>2, <1>5, <1>6

\* A sync begins with nothing scanned.
LEMMA BeginSound ==
    ASSUME TrackerSound, Begin
    PROVE  TrackerSound'
<1>1. /\ pc = "idle" /\ pc' = "scan" /\ folders' = configured /\ toscan' = configured
      /\ current' = NothingTracked /\ partial' = {} /\ batches' = <<>> /\ submitted' = FALSE
      /\ at' = None /\ listing' = <<>> /\ held' = None /\ found' = <<>> /\ result' = None
      /\ quiet' = TRUE
      /\ UNCHANGED <<disk, mounted, closed, configured, docs, saved, health, undisturbed>>
      /\ UNCHANGED <<ahead, raced, torn>> /\ twice' = twice
  BY DEF Begin, user, history
<1>2. NothingTracked \in [Folders -> [Inodes -> Tracked \cup {None}]]
  BY DEF NothingTracked
<1>3. listing' \in Seq(Names) /\ found' \in Seq(Batch!Operation) /\ batches' \in Seq(BatchRecord)
  BY <1>1
<1>4. TrackerTyped'
  BY <1>1, <1>2, <1>3 DEF TrackerSound, TrackerTyped
<1>5. PhaseSound'
  BY <1>1 DEF TrackerSound, PhaseSound
<1>6. Scanned' = {} /\ ToSet(batches') = {}
  BY <1>1, ShortLists DEF Scanned
<1>7. BatchesSound'
  BY <1>1, <1>6 DEF BatchesSound, NothingTracked, TrackerSound, TrackerTyped
<1>8. ScanSound'
  BY <1>1, <1>6 DEF ScanSound
<1>9. DocsSound'
  BY <1>1, ScanDocs DEF DocsSound
<1> QED BY <1>4, <1>5, <1>7, <1>8, <1>9 DEF TrackerSound

\* The listing of a folder, when it exists.
LEMMA ListFolderSound ==
    ASSUME TrackerSound, NEW f \in Folders, ListFolder(f)
    PROVE  TrackerSound'
<1> DEFINE present == Visible(f)
<1>1. /\ pc = "scan" /\ f \in toscan /\ toscan' = toscan \ {f} /\ at' = f /\ found' = <<>>
      /\ listing' = IF f \in mounted THEN Keeping(present, [n \in Names |-> n]) ELSE <<>>
      /\ partial' = IF f \in mounted THEN partial ELSE partial \cup {f}
      /\ pc' = "visit"
      /\ UNCHANGED <<disk, mounted, closed, configured, docs, saved, health, undisturbed>>
      /\ UNCHANGED <<ahead, raced, torn>> /\ twice' = twice
      /\ UNCHANGED <<folders, held, current, batches, submitted, result, quiet>>
  BY DEF ListFolder, user, history
<1>2. listing' \in Seq(Names) /\ ToSet(listing') = IF f \in mounted THEN present ELSE {}
  <2> DEFINE sorted == Keeping(present, [n \in Names |-> n])
  <2>1. sorted \in Seq(Names) /\ ToSet(sorted) = present
    <3>1. present \in SUBSET Names
      BY DEF Visible
    <3> HIDE DEF present
    <3> QED BY <3>1, ListingHolds
  <2>2. listing' = IF f \in mounted THEN sorted ELSE <<>>
    BY <1>1
  <2> HIDE DEF sorted, present
  <2>3. CASE f \in mounted
    BY <2>1, <2>2, <2>3
  <2>4. CASE f \notin mounted
    BY <2>2, <2>4, ShortLists
  <2> QED BY <2>3, <2>4
<1> HIDE DEF present
<1>3. found' \in Seq(Batch!Operation) /\ ToSet(found') = {}
  BY <1>1, ShortLists
<1>4. /\ TrackerTyped /\ PhaseSound /\ BatchesSound /\ ScanSound
      /\ f \in folders /\ at = None /\ toscan \subseteq folders /\ partial \subseteq folders
      /\ folders \subseteq Folders /\ None \notin Folders
  BY <1>1, TrackerAssumption DEF TrackerSound, TrackerTyped, PhaseSound
<1>5. TrackerTyped'
  BY <1>1, <1>2, <1>3, <1>4 DEF TrackerTyped
<1>6. PhaseSound'
  BY <1>1, <1>4 DEF PhaseSound
<1>7. Scanned' = Scanned /\ f \notin Scanned /\ f \notin partial
  BY <1>1, <1>4 DEF Scanned, BatchesSound
<1>8. \A i \in Inodes : current[f][i] = None
  BY <1>1, <1>4 DEF BatchesSound
<1>9. BatchesSound'
  <2>1. \A ops, g : Explains(ops, g)' = Explains(ops, g)
    BY <1>1, SameExplains
  <2>2. \A g : Pending(g)' = Pending(g)
    BY <1>1 DEF Pending
  <2>3. \A i \in Inodes : About(found, i)' = {}
    BY <1>3 DEF About
  <2>4. toscan' \cap partial' = {}
    BY <1>1, <1>4 DEF BatchesSound
  <2>5. \A g \in Scanned : g \in partial' => g \in partial
    BY <1>1, <1>7
  <2> QED BY <1>1, <1>3, <1>4, <1>7, <1>8, <2>1, <2>2, <2>3, <2>4, <2>5 DEF BatchesSound
<1>10. ScanSound'
  <2>1. \A g, i : Targets(g, i)' = Targets(g, i)
    BY <1>1, SameDisk
  <2>2. VisitSound'
    <3>1. Visible(f)' = Visible(f) /\ Legible(f)' = Legible(f) /\ Accessible(f)' = Accessible(f)
      BY <1>1, SameDisk
    <3>2. Legible(f) \subseteq Visible(f)
      BY DEF Legible
    <3> QED BY <1>1, <1>2, <1>7, <1>8, <3>1, <3>2 DEF VisitSound, present
  <2> QED BY <1>1, <1>4, <1>7, <2>1, <2>2 DEF ScanSound
<1>11. DocsSound'
  BY <1>1, ScanDocs DEF DocsSound
<1> QED BY <1>5, <1>6, <1>9, <1>10, <1>11 DEF TrackerSound

\* A file that is skipped: it is gone, or it cannot be read.
LEMMA SkipSound ==
    ASSUME TrackerSound, pc \in {"visit", "read"}, listing # <<>>, Skip,
           ~Readable(disk[at][Head(listing)]) \/ Hidden(at, Head(listing)),
           UNCHANGED <<disk, mounted, closed, configured, docs, saved, health, undisturbed>>,
           UNCHANGED <<ahead, raced, torn, twice>>,
           UNCHANGED <<folders, toscan, at, batches, submitted, result, quiet>>
    PROVE  TrackerSound'
<1> DEFINE n == Head(listing)
<1>1. /\ partial' = partial \cup {at} /\ listing' = Tail(listing) /\ held' = None
      /\ pc' = "visit" /\ UNCHANGED <<current, found>>
  BY DEF Skip
<1>2. /\ TrackerTyped /\ PhaseSound /\ BatchesSound /\ ScanSound
      /\ at \in folders \ toscan /\ at \in Folders /\ disk[at] \in [Names -> File \cup {None}]
  BY DEF TrackerSound, TrackerTyped, PhaseSound
<1>3. n \in Names /\ listing' \in Seq(Names) /\ ToSet(listing) = {n} \cup ToSet(listing')
  <2>1. listing \in Seq(Names)
    BY <1>2 DEF TrackerTyped
  <2> QED BY <1>1, <2>1, TailHolds
<1> HIDE DEF n
<1>4. TrackerTyped'
  BY <1>1, <1>2, <1>3 DEF TrackerTyped
<1>5. PhaseSound'
  BY <1>1, <1>2 DEF PhaseSound
<1>6. Scanned' = Scanned /\ at \notin Scanned
  BY <1>1 DEF Scanned
<1>7. BatchesSound'
  <2>1. \A ops, g : Explains(ops, g)' = Explains(ops, g)
    BY <1>1, SameExplains
  <2>2. \A g : Pending(g)' = Pending(g)
    BY DEF Pending
  <2>3. \A i : About(found, i)' = About(found, i) /\ Due(at, i)' = Due(at, i)
    BY <1>1, SameDue DEF About
  <2>4. toscan' \cap partial' = {}
    BY <1>1, <1>2 DEF BatchesSound
  <2>5. \A g \in Scanned : g \in partial' => g \in partial
    BY <1>1, <1>6
  <2> QED BY <1>1, <1>2, <1>6, <2>1, <2>2, <2>3, <2>4, <2>5 DEF BatchesSound
<1>8. ScanSound'
  <2>1. \A g, i : /\ Targets(g, i)' = Targets(g, i) /\ Entries(g, i)' = Entries(g, i)
                  /\ Visible(g)' = Visible(g) /\ Legible(g)' = Legible(g)
                  /\ Accessible(g)' = Accessible(g)
    BY SameDisk
  <2>2. ASSUME VisitSound PROVE VisitSound'
    <3>1. at \in mounted /\ n \in ToSet(listing)
      BY <1>3, <2>2 DEF VisitSound
    <3>2. n \in Visible(at) /\ ~disk[at][n].readable
      <4>1. n \in Visible(at)
        BY <2>2, <3>1 DEF VisitSound
      <4> QED BY <4>1 DEF Visible, Readable, n
    <3>3. ~Accessible(at)'
      BY <2>1, <3>2 DEF Accessible
    <3>4. at' \in partial'
      BY <1>1
    <3>5. \A m \in Legible(at) \ ToSet(listing') : m \notin ToSet(listing)
      BY <1>3, <3>2 DEF Legible
    <3> QED BY <1>1, <1>3, <2>1, <2>2, <3>1, <3>3, <3>4, <3>5 DEF VisitSound
  <2> QED BY <1>1, <1>2, <1>6, <2>1, <2>2 DEF ScanSound
<1>9. DocsSound'
  BY <1>1, ScanDocs DEF DocsSound
<1> QED BY <1>4, <1>5, <1>7, <1>8, <1>9 DEF TrackerSound

\* A stat: the file is there, or it is skipped.
LEMMA StatFileSound ==
    ASSUME TrackerSound, StatFile
    PROVE  TrackerSound'
<1>1. /\ pc = "visit" /\ listing # <<>>
      /\ UNCHANGED <<disk, mounted, closed, configured, docs, saved, health, undisturbed>>
      /\ UNCHANGED <<ahead, raced, torn, twice>>
      /\ UNCHANGED <<folders, toscan, at, batches, submitted, result, quiet>>
  BY DEF StatFile, user, history
<1>2. CASE (disk[at][Head(listing)] = None \/ Hidden(at, Head(listing))) /\ Skip
  BY <1>1, <1>2, SkipSound DEF Readable
<1>3. CASE /\ disk[at][Head(listing)] # None
           /\ held' = disk[at][Head(listing)].ino /\ pc' = "read"
           /\ UNCHANGED <<listing, current, found, partial>>
  <2>1. /\ TrackerTyped /\ PhaseSound /\ BatchesSound /\ ScanSound
        /\ at \in Folders /\ disk[at] \in [Names -> File \cup {None}]
    BY <1>1 DEF TrackerSound, TrackerTyped, PhaseSound
  <2>2. Head(listing) \in Names
    BY <1>1, <2>1, TailHolds DEF TrackerTyped
  <2>3. held' \in Inodes
    BY <1>3, <2>1, <2>2 DEF File
  <2>4. TrackerTyped'
    BY <1>1, <1>3, <2>1, <2>3 DEF TrackerTyped
  <2>5. PhaseSound'
    BY <1>1, <1>3, <2>1, <2>3 DEF PhaseSound
  <2>6. Scanned' = Scanned
    BY <1>1, <1>3 DEF Scanned
  <2>7. BatchesSound'
    <3>1. \A ops, g : Explains(ops, g)' = Explains(ops, g)
      BY <1>1, <1>3, SameExplains
    <3>2. \A g : Pending(g)' = Pending(g)
      BY <1>1 DEF Pending
    <3>3. \A i : About(found, i)' = About(found, i) /\ Due(at, i)' = Due(at, i)
      BY <1>1, <1>3, SameDue DEF About
    <3> QED BY <1>1, <1>3, <2>1, <2>6, <3>1, <3>2, <3>3 DEF BatchesSound
  <2>8. ScanSound'
    <3>1. \A g, i : /\ Targets(g, i)' = Targets(g, i) /\ Entries(g, i)' = Entries(g, i)
                    /\ Accessible(g)' = Accessible(g)
                    /\ Visible(g)' = Visible(g) /\ Legible(g)' = Legible(g)
      BY <1>1, SameDisk
    <3>2. VisitSound => VisitSound'
      BY <1>1, <1>3, <3>1 DEF VisitSound
    <3> QED BY <1>1, <1>3, <2>1, <2>6, <3>1, <3>2 DEF ScanSound
  <2>9. DocsSound'
    BY <1>1, <1>3, ScanDocs DEF DocsSound
  <2> QED BY <2>4, <2>5, <2>7, <2>8, <2>9 DEF TrackerSound
<1> QED BY <1>2, <1>3 DEF StatFile

\* A file is read, under a name that the stat found.
LEMMA ReadFileSound ==
    ASSUME TrackerSound, ReadFile
    PROVE  TrackerSound'
<1> DEFINE n == Head(listing)
           entry == disk[at][n]
           now == [name |-> n, ver |-> entry.ver]
           ops == OperationFor(saved[at][held], at, held, n, entry.ver)
<1>1. /\ pc = "read"
      /\ UNCHANGED <<disk, mounted, closed, configured, docs, saved, health, undisturbed>>
      /\ UNCHANGED <<ahead, raced, torn>>
      /\ UNCHANGED <<folders, toscan, at, batches, submitted, result, quiet>>
  BY DEF ReadFile, user
<1>2. /\ TrackerTyped /\ PhaseSound /\ BatchesSound /\ ScanSound
      /\ at \in folders \ toscan /\ at \in Folders /\ held \in Inodes /\ listing # <<>>
      /\ folders \subseteq Folders /\ disk[at] \in [Names -> File \cup {None}]
      /\ twice \in BOOLEAN
      /\ current \in [Folders -> [Inodes -> Tracked \cup {None}]]
  BY <1>1 DEF TrackerSound, TrackerTyped, PhaseSound
<1>3. CASE (~Readable(entry) \/ Hidden(at, n)) /\ Skip /\ UNCHANGED twice
  BY <1>1, <1>2, <1>3, SkipSound
<1>4. CASE /\ Readable(entry)
           /\ twice' = (twice \/ current[at][held] # None)
           /\ current' = [current EXCEPT ![at][held] = now]
           /\ found' = found \o ops
           /\ listing' = Tail(listing) /\ held' = None /\ pc' = "visit" /\ UNCHANGED partial
  <2>1. n \in Names /\ listing' \in Seq(Names) /\ ToSet(listing) = {n} \cup ToSet(listing')
    BY <1>2, <1>4, TailHolds DEF TrackerTyped
  <2>2. entry # None /\ entry \in File /\ entry.readable /\ entry.ver \in Versions
    BY <1>2, <1>4, <2>1 DEF Readable, File
  <2>3. now \in Tracked /\ now # None
    BY <2>1, <2>2, TrackerAssumption DEF Tracked
  <2>4. /\ current' \in [Folders -> [Inodes -> Tracked \cup {None}]]
        /\ current'[at][held] = now
        /\ \A i \in Inodes : i # held => current'[at][i] = current[at][i]
        /\ \A f \in Folders : f # at => current'[f] = current[f]
    BY <1>2, <1>4, <2>3
  <2>5. /\ ops \in Seq(Batch!Operation)
        /\ \A op \in ToSet(ops) : op.key = held /\ op.kind # "delete"
    <3>1. saved[at][held] \in Tracked \cup {None}
      BY <1>2 DEF TrackerTyped
    <3>2. /\ ops \in Seq(Batch!Operation)
          /\ \/ ops = <<>>
             \/ \E op \in Batch!Operation :
                    ops = <<op>> /\ op.key = held /\ op.kind \in {"put", "move"}
      <4> HIDE DEF n, entry
      <4>1. /\ ops \in Seq(Batch!Operation)
            /\ \/ ops = <<>> /\ saved[at][held] = [name |-> n, ver |-> entry.ver]
               \/ \E op \in Batch!Operation :
                      /\ ops = <<op>> /\ op.key = held /\ op.kind \in {"put", "move"}
                      /\ op.path = <<at, n>> /\ op.hash = Normal[entry.ver]
        <5> DEFINE was == saved[at][held]
                   v == entry.ver
        <5>1. at \in Folders /\ held \in Inodes /\ n \in Names /\ v \in Versions
          BY <1>2, <2>1, <2>2
        <5>2. was \in Tracked \cup {None}
          BY <3>1
        <5>3. ops = OperationFor(was, at, held, n, v)
          OBVIOUS
        <5> HIDE DEF was, v, ops
        <5>4. LET s == OperationFor(was, at, held, n, v)
              IN  /\ s \in Seq(Batch!Operation)
                  /\ \/ s = <<>> /\ was = [name |-> n, ver |-> v]
                     \/ \E op \in Batch!Operation :
                            /\ s = <<op>> /\ op.key = held /\ op.kind \in {"put", "move"}
                            /\ op.path = <<at, n>> /\ op.hash = Normal[v]
          BY <5>1, <5>2, OperationForHolds
        <5> QED BY <5>3, <5>4, Zenon DEF was, v
      <4> HIDE DEF ops
      <4> QED BY <4>1, Zenon
    <3> HIDE DEF ops
    <3> QED BY <3>2, ShortLists
  <2>6. found' \in Seq(Batch!Operation) /\ ToSet(found') = ToSet(found) \cup ToSet(ops)
    BY <1>2, <1>4, <2>5, ConcatHolds DEF TrackerTyped
  <2>7. ASSUME NEW i \in Inodes
        PROVE  About(found', i) = About(found, i) \cup About(ops, i)
    BY <2>6 DEF About
  <2>8. ASSUME NEW i \in Inodes, i = held PROVE Due(at, i)' = ToSet(ops)
    <3>1. now.name = n /\ now.ver = entry.ver
      OBVIOUS
    <3>2. /\ current'[at'][i] = now
          /\ saved'[at'][i] = saved[at][held] /\ at' = at
      BY <1>1, <2>4, <2>8
    <3> HIDE DEF now, n, entry
    <3> QED BY <2>3, <2>8, <3>1, <3>2 DEF Due, OperationFor
  <2> HIDE DEF ops
  <2>9. About(ops, held) = ToSet(ops) /\ \A i \in Inodes : i # held => About(ops, i) = {}
    BY <2>5 DEF About
  <2>10. twice' \in BOOLEAN /\ (twice => twice') /\ (~twice' => current[at][held] = None)
    BY <1>2, <1>4
  <2> HIDE DEF now
  <2>11. TrackerTyped'
    BY <1>1, <1>2, <1>4, <2>1, <2>4, <2>6, <2>10 DEF TrackerTyped
  <2>12. PhaseSound'
    BY <1>1, <1>2, <1>4 DEF PhaseSound
  <2>13. Scanned' = Scanned /\ at \notin Scanned /\ Scanned \subseteq Folders
    BY <1>1, <1>2, <1>4 DEF Scanned
  <2>14. BatchesSound'
    <3>1. \A s, f : f \in Folders /\ f # at => Explains(s, f)' = Explains(s, f)
      BY <1>1, <2>4, SameExplains
    <3>2. \A f : Pending(f)' = Pending(f)
      BY <1>1 DEF Pending
    <3>3. ASSUME ~twice', NEW i \in Inodes
          PROVE  About(found', i) = IF current'[at][i] = None THEN {} ELSE Due(at, i)'
      <4>1. About(found, i) = IF current[at][i] = None THEN {} ELSE Due(at, i)
        BY <1>1, <1>2, <2>10, <3>3 DEF BatchesSound
      <4>2. CASE i = held
        BY <2>3, <2>4, <2>7, <2>8, <2>9, <2>10, <3>3, <4>1, <4>2
      <4>3. CASE i # held
        <5>1. Due(at, i)' = Due(at, i)
          BY <1>1, <2>4, <4>3, SameDue
        <5> QED BY <2>4, <2>7, <2>9, <4>1, <4>3, <5>1
      <4> QED BY <4>2, <4>3
    <3>4. \A op \in ToSet(found') : op.kind # "delete"
      BY <1>1, <1>2, <2>5, <2>6 DEF BatchesSound
    <3>5. \A f \in (Folders \ folders) \cup toscan : f # at /\ f \in Folders
      BY <1>2 DEF TrackerTyped
    <3>6. \A f \in (Folders \ folders') \cup toscan' : \A i \in Inodes : current'[f][i] = None
      BY <1>1, <1>2, <2>4, <3>5 DEF BatchesSound
    <3>7. \A b \in ToSet(batches') :
              /\ b.folder \in Scanned'
              /\ b.folder \in folders' \cap partial' => \A op \in ToSet(b.ops) : op.kind # "delete"
              /\ ~twice' => Explains(b.ops, b.folder)'
      BY <1>1, <1>2, <1>4, <2>10, <2>13, <3>1 DEF BatchesSound
    <3>8. ~twice' => \A f \in Scanned' : ~Pending(f)' => Explains(<<>>, f)'
      BY <1>1, <1>2, <2>10, <2>13, <3>1, <3>2 DEF BatchesSound
    <3>9. toscan' \cap partial' = {}
      BY <1>1, <1>2, <1>4 DEF BatchesSound
    <3>10. \A i \in Inodes : About(found, i)' = About(found', i)
      BY DEF About
    <3> QED BY <1>1, <1>4, <3>3, <3>4, <3>6, <3>7, <3>8, <3>9, <3>10 DEF BatchesSound
  <2>15. ScanSound'
    <3>1. \A g, i : /\ Targets(g, i)' = Targets(g, i) /\ Entries(g, i)' = Entries(g, i)
                    /\ Accessible(g)' = Accessible(g)
                    /\ Visible(g)' = Visible(g) /\ Legible(g)' = Legible(g)
      BY <1>1, SameDisk
    <3>2. ASSUME VisitSound, ~twice' PROVE VisitSound'
      <4>1. at \in mounted /\ held = entry.ino
        BY <1>1, <1>2, <3>2 DEF VisitSound
      <4>2. now \in Entries(at, held)
        <5>1. n \in Legible(at)
          BY <1>1, <2>1, <2>2, <3>2, <4>1 DEF VisitSound, Legible
        <5> QED BY <4>1, <5>1 DEF Entries, now
      <4>3. \A m \in Names : m \notin ToSet(listing') => m = n \/ m \notin ToSet(listing)
        BY <2>1
      <4>4. ASSUME NEW m \in Legible(at) \ ToSet(listing')
            PROVE  current'[at][disk[at][m].ino] = [name |-> m, ver |-> disk[at][m].ver]
        <5>1. disk[at][m] \in File /\ disk[at][m].ino \in Inodes
          BY <1>2, <4>4 DEF Legible, Visible, File
        <5>2. CASE m = n
          BY <2>4, <4>1, <5>2 DEF now
        <5>3. CASE m # n
          <6>1. current[at][disk[at][m].ino] = [name |-> m, ver |-> disk[at][m].ver]
            BY <3>2, <4>1, <4>3, <4>4, <5>3 DEF VisitSound, Legible, Visible
          <6>2. current[at][disk[at][m].ino] # None
            <7>1. disk[at][m].ver \in Versions
              BY <5>1 DEF File
            <7>2. [name |-> m, ver |-> disk[at][m].ver] \in Tracked
              BY <4>4, <7>1 DEF Tracked, Legible, Visible
            <7> QED BY <6>1, <7>2, TrackerAssumption
          <6>3. disk[at][m].ino # held
            BY <2>10, <3>2, <6>2
          <6> QED BY <2>4, <5>1, <6>1, <6>3
        <5> QED BY <5>2, <5>3
      <4>5. \A i \in Inodes : current'[at][i] # None => current'[at][i] \in Entries(at, i)
        BY <2>4, <3>2, <4>1, <4>2 DEF VisitSound
      <4>6. \A m \in Visible(at) \ ToSet(listing') : ~disk[at][m].readable => at \in partial
        BY <2>2, <3>2, <4>1, <4>3 DEF VisitSound, Visible
      <4>7. ToSet(listing') \subseteq Visible(at)
        BY <2>1, <3>2, <4>1 DEF VisitSound
      <4>8. at \in partial => ~Accessible(at)
        BY <3>2, <4>1 DEF VisitSound
      <4> QED BY <1>1, <1>4, <3>1, <4>1, <4>4, <4>5, <4>6, <4>7, <4>8 DEF VisitSound
    <3>3. ASSUME NEW f \in Scanned, NEW i \in Inodes PROVE current'[f][i] = current[f][i]
      BY <2>4, <2>13
    <3> QED BY <1>1, <1>2, <1>4, <2>10, <2>13, <3>1, <3>2, <3>3 DEF ScanSound
  <2>16. DocsSound'
    BY <1>1, <1>4, <2>10, ScanDocs DEF DocsSound
  <2> QED BY <2>11, <2>12, <2>14, <2>15, <2>16 DEF TrackerSound
<1> QED BY <1>3, <1>4 DEF ReadFile

\* A batch joins the list, when there is something to ask for.
LEMMA WithBatchHolds ==
    ASSUME batches \in Seq(BatchRecord), NEW f \in Folders, NEW ops \in Seq(Batch!Operation)
    PROVE  LET b == [folder |-> f, ops |-> ops]
           IN  /\ WithBatch(f, ops) \in Seq(BatchRecord)
               /\ ToSet(WithBatch(f, ops)) = ToSet(batches) \cup IF ops = <<>> THEN {} ELSE {b}
<1> DEFINE b == [folder |-> f, ops |-> ops]
<1>1. b \in BatchRecord
  BY DEF BatchRecord
<1> HIDE DEF b
<1>2. CASE ops = <<>>
  BY <1>2 DEF WithBatch
<1>3. CASE ops # <<>>
  <2>1. WithBatch(f, ops) = Append(batches, b)
    BY <1>3 DEF WithBatch, b
  <2>2. Append(batches, b) \in Seq(BatchRecord) /\ ToSet(Append(batches, b)) = ToSet(batches) \cup {b}
    BY <1>1, AppendAdds
  <2> QED BY <1>3, <2>1, <2>2 DEF b
<1> QED BY <1>2, <1>3

\* The deletions about one file.
LEMMA AboutDeletes ==
    ASSUME NEW S \in SUBSET Inodes, NEW i \in Inodes
    PROVE  About(DeletesOf(S), i) = IF i \in S THEN {Batch!DeleteOp(i)} ELSE {}
<1>1. ToSet(DeletesOf(S)) = {Batch!DeleteOp(j) : j \in S}
  BY DeletesHold
<1>2. \A j \in Inodes : Batch!DeleteOp(j).key = j
  BY DEF Batch!DeleteOp
<1> QED BY <1>1, <1>2 DEF About

\* A folder's scan is over: deletions are inferred from a complete one, and an incomplete one
\* keeps what it did not see.
LEMMA FolderScannedSound ==
    ASSUME TrackerSound, FolderScanned
    PROVE  TrackerSound'
<1> DEFINE unseen == {i \in Inodes : saved[at][i] # None /\ current[at][i] = None}
           kept == [i \in Inodes |-> IF i \in unseen THEN saved[at][i] ELSE current[at][i]]
           ops == IF at \in partial THEN found ELSE found \o DeletesOf(unseen)
           b == [folder |-> at, ops |-> ops]
<1>1. /\ pc = "visit" /\ listing = <<>> /\ pc' = "scan" /\ at' = None /\ found' = <<>>
      /\ UNCHANGED <<disk, mounted, closed, configured, docs, saved, health, undisturbed>>
      /\ UNCHANGED <<ahead, raced, torn, twice>>
      /\ UNCHANGED <<folders, toscan, listing, held, submitted, partial, result, quiet>>
  BY DEF FolderScanned, user, history
<1>2. /\ batches' = WithBatch(at, ops)
      /\ current' = IF at \in partial THEN [current EXCEPT ![at] = kept] ELSE current
  BY DEF FolderScanned
<1>3. /\ TrackerTyped /\ PhaseSound /\ BatchesSound /\ ScanSound
      /\ at \in folders \ toscan /\ at \in Folders /\ folders \subseteq Folders
      /\ toscan \subseteq folders /\ None \notin Folders
      /\ current \in [Folders -> [Inodes -> Tracked \cup {None}]]
      /\ saved \in [Folders -> [Inodes -> Tracked \cup {None}]]
      /\ found \in Seq(Batch!Operation) /\ batches \in Seq(BatchRecord)
  BY <1>1, TrackerAssumption DEF TrackerSound, TrackerTyped, PhaseSound
<1>4. /\ current' \in [Folders -> [Inodes -> Tracked \cup {None}]]
      /\ \A f \in Folders : f # at => current'[f] = current[f]
      /\ \A i \in Inodes : current'[at][i] =
             IF at \in partial /\ current[at][i] = None THEN saved[at][i] ELSE current[at][i]
  <2>1. kept \in [Inodes -> Tracked \cup {None}]
    BY <1>3
  <2>2. \A i \in Inodes : kept[i] = IF current[at][i] = None THEN saved[at][i] ELSE current[at][i]
    OBVIOUS
  <2> HIDE DEF kept
  <2> QED BY <1>2, <1>3, <2>1, <2>2
<1>5. unseen \in SUBSET Inodes
  OBVIOUS
<1>6. /\ ops \in Seq(Batch!Operation)
      /\ ToSet(ops) = ToSet(found) \cup IF at \in partial THEN {} ELSE ToSet(DeletesOf(unseen))
  <2> HIDE DEF unseen
  <2>1. DeletesOf(unseen) \in Seq(Batch!Operation)
    BY <1>5, DeletesHold
  <2>2. CASE at \in partial
    BY <1>3, <2>2
  <2>3. CASE at \notin partial
    BY <1>3, <2>1, <2>3, ConcatHolds
  <2> QED BY <2>2, <2>3
<1>7. /\ batches' \in Seq(BatchRecord)
      /\ ToSet(batches') = ToSet(batches) \cup IF ops = <<>> THEN {} ELSE {b}
  <2> HIDE DEF ops
  <2> QED BY <1>2, <1>3, <1>6, WithBatchHolds
<1>8. at \in partial => \A op \in ToSet(ops) : op.kind # "delete"
  BY <1>1, <1>3, <1>6 DEF BatchesSound
<1>9. ASSUME ~twice, NEW i \in Inodes, NEW f, f = at
      PROVE  About(ops, i) = Due(f, i)'
  <2>1. About(ops, i) = About(found, i)
            \cup IF at \in partial THEN {} ELSE About(DeletesOf(unseen), i)
    BY <1>6 DEF About
  <2>2. About(found, i) = IF current[at][i] = None THEN {} ELSE Due(at, i)
    BY <1>1, <1>3, <1>9 DEF BatchesSound
  <2>3. About(DeletesOf(unseen), i) = IF i \in unseen THEN {Batch!DeleteOp(i)} ELSE {}
    <3> HIDE DEF unseen
    <3> QED BY <1>5, AboutDeletes
  <2> HIDE DEF ops
  <2>4. CASE current[at][i] # None
    <3>1. Due(f, i)' = Due(at, i)
      BY <1>1, <1>4, <1>9, <2>4, SameDue
    <3> QED BY <2>1, <2>2, <2>3, <2>4, <3>1
  <2>5. CASE current[at][i] = None /\ at \in partial
    <3>1. About(ops, i) = {}
      BY <2>1, <2>2, <2>5
    <3>2. current'[f][i] = saved[f][i] /\ saved'[f][i] = saved[f][i]
      BY <1>1, <1>4, <1>9, <2>5
    <3>3. saved[f][i] \in Tracked \cup {None}
      BY <1>3, <1>9
    <3>4. Due(f, i)' = {}
      <4>1. CASE saved[f][i] = None
        BY <3>2, <4>1 DEF Due
      <4>2. CASE saved[f][i] # None
        <5>1. saved[f][i] = [name |-> saved[f][i].name, ver |-> saved[f][i].ver]
          BY <3>3, <4>2 DEF Tracked
        <5>2. OperationFor(saved[f][i], f, i, saved[f][i].name, saved[f][i].ver) = <<>>
          BY <5>1 DEF OperationFor
        <5>3. Due(f, i)' = ToSet(OperationFor(saved[f][i], f, i, saved[f][i].name, saved[f][i].ver))
          BY <3>2, <4>2 DEF Due, OperationFor
        <5> QED BY <5>2, <5>3, ShortLists
      <4> QED BY <4>1, <4>2
    <3> QED BY <3>1, <3>4
  <2>6. CASE current[at][i] = None /\ at \notin partial
    <3>1. About(ops, i) = IF saved[f][i] # None THEN {Batch!DeleteOp(i)} ELSE {}
      BY <1>9, <2>1, <2>2, <2>3, <2>6
    <3>2. current'[f][i] = None /\ saved'[f][i] = saved[f][i]
      BY <1>1, <1>4, <1>9, <2>6
    <3> QED BY <3>1, <3>2 DEF Due
  <2> QED BY <2>4, <2>5, <2>6
<1> HIDE DEF ops, unseen, kept
<1>10. TrackerTyped'
  <2>1. found' \in Seq(Batch!Operation)
    BY <1>1
  <2> QED BY <1>1, <1>3, <1>4, <1>7, <2>1 DEF TrackerTyped
<1>11. PhaseSound'
  BY <1>1, <1>3 DEF PhaseSound
<1>12. Scanned' = Scanned \cup {at} /\ at \notin Scanned /\ Scanned \subseteq Folders
  BY <1>1, <1>3 DEF Scanned
<1>13. BatchesSound'
  <2>1. \A s, f : f \in Folders /\ f # at => Explains(s, f)' = Explains(s, f)
    BY <1>1, <1>4, SameExplains
  <2>2. ASSUME ~twice, NEW s, s = ops, NEW f, f = at PROVE Explains(s, f)'
    <3>1. \A i \in Inodes : About(s, i) = Due(f, i)'
      BY <1>9, <2>2
    <3> QED BY <3>1 DEF Explains, About
  <2>3. ASSUME NEW f \in (Folders \ folders) \cup toscan
        PROVE  f # at /\ f \in Folders /\ \A i \in Inodes : current'[f][i] = None
    <3>1. f # at /\ f \in Folders
      BY <1>3
    <3>2. \A i \in Inodes : current[f][i] = None
      BY <1>1, <1>3 DEF BatchesSound
    <3> QED BY <1>4, <3>1, <3>2
  <2>4. ASSUME NEW c \in ToSet(batches')
        PROVE  /\ c.folder \in Scanned'
               /\ c.folder \in folders \cap partial => \A op \in ToSet(c.ops) : op.kind # "delete"
               /\ ~twice => Explains(c.ops, c.folder)'
    <3>1. CASE c \in ToSet(batches)
      <4>1. /\ c.folder \in Scanned
            /\ c.folder \in folders \cap partial => \A op \in ToSet(c.ops) : op.kind # "delete"
            /\ ~twice => Explains(c.ops, c.folder)
        BY <1>1, <1>3, <3>1 DEF BatchesSound
      <4> QED BY <1>12, <2>1, <4>1
    <3>2. CASE c = b
      <4>1. c.folder = at /\ c.ops = ops
        BY <3>2
      <4> QED BY <1>8, <1>12, <2>2, <4>1
    <3> QED BY <1>7, <3>1, <3>2
  <2>5. ASSUME ~twice, NEW f \in Scanned', ~Pending(f)' PROVE Explains(<<>>, f)'
    <3>1. CASE f = at
      <4>1. b.folder = at
        OBVIOUS
      <4>2. ops = <<>>
        BY <1>7, <2>5, <3>1, <4>1 DEF Pending
      <4> QED BY <2>2, <2>5, <3>1, <4>2
    <3>2. CASE f # at
      <4>1. f \in Scanned /\ f \in Folders
        BY <1>12, <2>5, <3>2
      <4>2. ~Pending(f)
        BY <1>7, <2>5 DEF Pending
      <4> QED BY <1>1, <1>3, <2>1, <2>5, <3>2, <4>1, <4>2 DEF BatchesSound
    <3> QED BY <3>1, <3>2
  <2>6. toscan' \cap partial' = {}
    BY <1>1, <1>3 DEF BatchesSound
  <2> QED BY <1>1, <2>3, <2>4, <2>5, <2>6 DEF BatchesSound
<1>14. ScanSound'
  <2> SUFFICES ASSUME quiet, ~twice, NEW f \in Scanned', NEW i \in Inodes
               PROVE  current'[f][i] \in Targets(f, i) /\ \A s, t \in Targets(f, i) : s = t
    <3>1. \A g, i : Targets(g, i)' = Targets(g, i)
      BY <1>1, SameDisk
    <3> QED BY <1>1, <3>1 DEF ScanSound
  <2>1. CASE f \in Scanned
    <3>1. current'[f][i] = current[f][i]
      BY <1>4, <1>12, <2>1
    <3> QED BY <1>1, <1>3, <2>1, <3>1 DEF ScanSound
  <2>2. CASE f = at
    <3>1. VisitSound /\ at \in configured
      BY <1>1, <1>3 DEF ScanSound, PhaseSound
    <3>2. ToSet(listing) = {}
      BY <1>1, ShortLists
    <3>3. /\ at \in mounted =>
                 /\ \A n \in Legible(at) :
                        current[at][disk[at][n].ino] = [name |-> n, ver |-> disk[at][n].ver]
                 /\ current[at][i] # None => current[at][i] \in Entries(at, i)
                 /\ at \in partial => ~Accessible(at)
                 /\ \A n \in Visible(at) : ~disk[at][n].readable => at \in partial
          /\ at \notin mounted => at \in partial /\ current[at][i] = None /\ ~Accessible(at)
      BY <3>1, <3>2 DEF VisitSound, Accessible
    <3>4. \A e \in Entries(at, i) : e # None
      <4>1. ASSUME NEW n \in Legible(at)
            PROVE  [name |-> n, ver |-> disk[at][n].ver] # None
        <5>1. disk[at][n] \in File /\ n \in Names
          BY <1>3, <4>1 DEF TrackerTyped, Legible, Visible
        <5>2. [name |-> n, ver |-> disk[at][n].ver] \in Tracked
          BY <5>1 DEF File, Tracked
        <5> QED BY <5>2, TrackerAssumption
      <4> QED BY <4>1 DEF Entries
    <3>5. CASE at \in mounted /\ Entries(at, i) # {}
      <4>1. \A e \in Entries(at, i) : e = current[at][i]
        BY <3>3, <3>5 DEF Entries
      <4>2. current'[at][i] = current[at][i]
        BY <1>4, <3>4, <3>5, <4>1
      <4>3. Targets(at, i) = Entries(at, i)
        BY <3>1, <3>5 DEF Targets
      <4> QED BY <2>2, <3>5, <4>1, <4>2, <4>3
    <3>6. CASE at \in mounted /\ Entries(at, i) = {}
      <4>1. current[at][i] = None /\ (at \in partial <=> ~Accessible(at))
        BY <3>3, <3>6 DEF Accessible
      <4> QED BY <1>4, <2>2, <3>1, <3>6, <4>1 DEF Targets
    <3>7. CASE at \notin mounted
      BY <1>4, <2>2, <3>1, <3>3, <3>7 DEF Targets
    <3> QED BY <3>5, <3>6, <3>7
  <2> QED BY <1>12, <2>1, <2>2
<1>15. DocsSound'
  BY <1>1, ScanDocs DEF DocsSound
<1> QED BY <1>10, <1>11, <1>13, <1>14, <1>15 DEF TrackerSound

\* The folders that are no longer registered lose their documents.
LEMMA DropUnregisteredSound ==
    ASSUME TrackerSound, DropUnregistered
    PROVE  TrackerSound'
<1> DEFINE keys(f) == {i \in Inodes : saved[f][i] # None}
           S == {f \in Folders \ folders : keys(f) # {}}
           dropped == SetToSeq(S)
           more == [j \in DOMAIN dropped |->
                       [folder |-> dropped[j], ops |-> DeletesOf(keys(dropped[j]))]]
<1>1. /\ pc = "scan" /\ toscan = {} /\ batches' = batches \o more /\ pc' = "submit"
      /\ UNCHANGED <<disk, mounted, closed, configured, docs, saved, health, undisturbed>>
      /\ UNCHANGED <<ahead, raced, torn, twice>>
      /\ UNCHANGED <<folders, toscan, at, listing, held, current, found, submitted, partial>>
      /\ UNCHANGED <<result, quiet>>
  BY DEF DropUnregistered, user, history
<1>2. /\ TrackerTyped /\ PhaseSound /\ BatchesSound /\ ScanSound
      /\ at = None /\ None \notin Folders /\ folders \subseteq Folders
      /\ batches \in Seq(BatchRecord)
  BY <1>1, TrackerAssumption DEF TrackerSound, TrackerTyped, PhaseSound
<1>3. S \subseteq Folders \ folders /\ \A f \in Folders \ folders : f \in S <=> keys(f) # {}
  OBVIOUS
<1>4. \A f : keys(f) \in SUBSET Inodes
  OBVIOUS
<1> HIDE DEF S
<1>5. dropped \in Seq(S) /\ ToSet(dropped) = S
  <2>1. IsFiniteSet(S)
    BY <1>3, TrackerAssumption, FS_Subset
  <2> QED BY <2>1, SetToSeqHolds
<1>6. ASSUME NEW f \in S
      PROVE  [folder |-> f, ops |-> DeletesOf(keys(f))] \in BatchRecord
  <2>1. DeletesOf(keys(f)) \in Seq(Batch!Operation)
    BY <1>4, DeletesHold
  <2> HIDE DEF keys
  <2> QED BY <1>3, <1>6, <2>1 DEF BatchRecord
<1>7. /\ more \in Seq(BatchRecord)
      /\ ToSet(more) = {[folder |-> f, ops |-> DeletesOf(keys(f))] : f \in S}
  <2> HIDE DEF keys, dropped
  <2>1. DOMAIN dropped = 1..Len(dropped) /\ Len(dropped) \in Nat
    BY <1>5
  <2>2. \A j \in DOMAIN dropped : dropped[j] \in S
    BY <1>5
  <2>3. S = {dropped[j] : j \in DOMAIN dropped}
    BY <1>5 DEF ToSet
  <2>4. more \in Seq(BatchRecord) /\ DOMAIN more = DOMAIN dropped
    BY <1>6, <2>1, <2>2
  <2>5. \A j \in DOMAIN dropped :
            more[j] = [folder |-> dropped[j], ops |-> DeletesOf(keys(dropped[j]))]
    OBVIOUS
  <2>6. ToSet(more) = {more[j] : j \in DOMAIN more}
    BY DEF ToSet
  <2> HIDE DEF more
  <2> QED BY <2>3, <2>4, <2>5, <2>6
<1> HIDE DEF dropped, more
<1>8. batches' \in Seq(BatchRecord) /\ ToSet(batches') = ToSet(batches) \cup ToSet(more)
  BY <1>1, <1>2, <1>7, ConcatHolds
<1>9. Scanned = folders /\ Scanned' = Folders
  BY <1>1, <1>2 DEF Scanned
<1>10. \A f \in Folders \ folders, i \in Inodes : current[f][i] = None
  BY <1>1, <1>2 DEF BatchesSound
<1>11. ASSUME NEW f \in S
       PROVE  Explains(DeletesOf(keys(f)), f)
  <2>1. ASSUME NEW i \in Inodes
        PROVE  About(DeletesOf(keys(f)), i) = IF saved[f][i] # None THEN {Batch!DeleteOp(i)} ELSE {}
    <3>1. i \in keys(f) <=> saved[f][i] # None
      OBVIOUS
    <3> HIDE DEF keys
    <3> QED BY <1>4, <3>1, AboutDeletes
  <2>2. \A i \in Inodes : current[f][i] = None
    BY <1>3, <1>10
  <2> HIDE DEF keys
  <2> QED BY <2>1, <2>2 DEF Explains, Due
<1>12. TrackerTyped'
  BY <1>1, <1>2, <1>8 DEF TrackerTyped
<1>13. PhaseSound'
  BY <1>1, <1>2 DEF PhaseSound
<1>14. BatchesSound'
  <2>1. \A ops, f : Explains(ops, f)' = Explains(ops, f)
    BY <1>1, SameExplains
  <2>2. ASSUME NEW b \in ToSet(batches')
        PROVE  /\ b.folder \in Scanned'
               /\ b.folder \in folders \cap partial => \A op \in ToSet(b.ops) : op.kind # "delete"
               /\ ~twice => Explains(b.ops, b.folder)'
    <3>1. CASE b \in ToSet(batches)
      BY <1>1, <1>2, <1>9, <2>1, <3>1 DEF BatchesSound
    <3>2. CASE b \in ToSet(more)
      <4>1. PICK f \in S : b = [folder |-> f, ops |-> DeletesOf(keys(f))]
        BY <1>7, <3>2
      <4>2. b.folder = f /\ b.ops = DeletesOf(keys(f))
        BY <4>1
      <4> HIDE DEF keys
      <4> QED BY <1>3, <1>9, <1>11, <2>1, <4>2
    <3> QED BY <1>8, <3>1, <3>2
  <2>3. /\ toscan' \cap partial' = {}
        /\ \A f \in (Folders \ folders') \cup toscan' : \A i \in Inodes : current'[f][i] = None
    BY <1>1, <1>10
  <2> QED BY <1>1, <2>2, <2>3 DEF BatchesSound
<1>15. ASSUME quiet, NEW f \in Folders \ folders, NEW i \in Inodes
       PROVE  Targets(f, i) = {None}
  BY <1>1, <1>2, <1>15 DEF PhaseSound, Targets
<1>16. ScanSound'
  <2>1. \A f, i : Targets(f, i)' = Targets(f, i)
    BY <1>1, SameDisk
  <2>2. ASSUME quiet, ~twice, NEW f \in Folders, NEW i \in Inodes
        PROVE  current[f][i] \in Targets(f, i) /\ \A s, t \in Targets(f, i) : s = t
    <3>1. CASE f \in folders
      BY <1>1, <1>2, <1>9, <2>2, <3>1 DEF ScanSound
    <3>2. CASE f \notin folders
      BY <1>10, <1>15, <2>2, <3>2
    <3> QED BY <3>1, <3>2
  <2> QED BY <1>1, <1>9, <2>1, <2>2 DEF ScanSound
<1>17. ASSUME Clean', NEW f \in Folders, NEW i \in Inodes, ~Pending(f)'
       PROVE  Holds(docs[<<f, i>>], f, current[f][i])
  <2>1. Clean
    BY <1>1, <1>17 DEF Clean
  <2>2. CASE f \in folders
    <3>1. ~Pending(f)
      BY <1>8, <1>17 DEF Pending
    <3>2. Explains(<<>>, f)
      BY <1>1, <1>2, <1>9, <2>1, <2>2, <3>1 DEF BatchesSound, Clean
    <3>3. Due(f, i) = {}
      BY <3>2, ShortLists DEF Explains, About
    <3> QED BY <1>1, <1>9, <2>1, <2>2, <3>3, NothingDue
  <2>3. CASE f \notin folders
    <3>1. f \notin S
      <4>1. ASSUME f \in S PROVE FALSE
        <5> DEFINE c == [folder |-> f, ops |-> DeletesOf(keys(f))]
        <5>1. c.folder = f
          OBVIOUS
        <5>2. c \in ToSet(batches')
          BY <1>7, <1>8, <4>1
        <5> HIDE DEF c
        <5> QED BY <1>17, <5>1, <5>2 DEF Pending
      <4> QED BY <4>1
    <3>2. saved[f][i] = None
      BY <1>3, <2>3, <3>1
    <3>3. PICK t \in Allowed(f, i) : Holds(docs[<<f, i>>], f, t)
      BY <2>1 DEF TrackerSound, DocsSound, Backed
    <3>4. ahead => quiet
      BY <1>2, <2>1 DEF PhaseSound, Clean
    <3>5. t = None
      BY <1>1, <1>15, <2>3, <3>2, <3>3, <3>4 DEF Allowed
    <3> QED BY <1>10, <2>3, <3>3, <3>5
  <2> QED BY <2>2, <2>3
<1>18. DocsSound'
  <2>1. Clean' => Backed' /\ Vouched'
    BY <1>1, ScanDocs
  <2>2. Clean' => \A f \in Folders, i \in Inodes :
                      ~Pending(f)' => Holds(docs[<<f, i>>], f, current[f][i])'
    BY <1>1, <1>17 DEF Holds
  <2> QED BY <1>1, <2>1, <2>2 DEF DocsSound
<1> QED BY <1>12, <1>13, <1>14, <1>16, <1>18 DEF TrackerSound

-----------------------------------------------------------------------------
(***************************************************************************)
(* The theorems.                                                           *)
(***************************************************************************)

\* A file that a scan can read makes an entry, and an entry is not None.
LEMMA EntriesTracked ==
    ASSUME disk \in [Folders -> [Names -> File \cup {None}]], NEW f \in Folders, NEW i \in Inodes
    PROVE  Entries(f, i) \subseteq Tracked /\ None \notin Entries(f, i)
<1>1. ASSUME NEW n \in Legible(f)
      PROVE  [name |-> n, ver |-> disk[f][n].ver] \in Tracked
  <2>1. disk[f][n] \in File /\ n \in Names
    BY <1>1 DEF Legible, Visible
  <2> QED BY <2>1 DEF File, Tracked
<1> QED BY <1>1, TrackerAssumption DEF Entries

\* At the start the store and the state file have the files of the disk.
LEMMA InitSound ==
    ASSUME Init
    PROVE  TrackerSound
<1> DEFINE At(f, i) == {n \in Names : disk[f][n] # None /\ disk[f][n].ino = i}
           First(f, i) == CHOOSE m \in At(f, i) : TRUE
<1>1. /\ disk \in InitDisks /\ mounted = Folders /\ configured = Folders
      /\ closed = [f \in Folders |-> {}]
      /\ health = "success" /\ pc = "idle" /\ folders = {} /\ toscan = {} /\ at = None
      /\ listing = <<>> /\ held = None /\ current = NothingTracked /\ found = <<>>
      /\ batches = <<>> /\ submitted = FALSE /\ partial = {} /\ result = None
      /\ quiet = TRUE /\ undisturbed = TRUE
      /\ ahead = FALSE /\ raced = FALSE /\ twice = FALSE /\ torn = FALSE
  BY DEF Init
<1>2. saved = [f \in Folders |-> [i \in Inodes |->
          IF At(f, i) = {} THEN None
          ELSE [name |-> First(f, i), ver |-> disk[f][First(f, i)].ver]]]
  BY DEF Init
<1>3. docs = [id \in Folders \X Inodes |->
          IF saved[id[1]][id[2]] = None THEN None
          ELSE [path |-> <<id[1], saved[id[1]][id[2]].name>>,
                hash |-> Normal[saved[id[1]][id[2]].ver], file |-> TRUE]]
  BY DEF Init
<1>4. /\ disk \in [Folders -> [Names -> File \cup {None}]]
      /\ \A f \in Folders : \A m, n \in Names :
             disk[f][m] # None /\ disk[f][n] # None /\ disk[f][m].ino = disk[f][n].ino =>
                 disk[f][m] = disk[f][n]
  BY <1>1, TrackerAssumption
<1>5. ASSUME NEW f \in Folders, NEW i \in Inodes, At(f, i) # {}
      PROVE  /\ First(f, i) \in At(f, i) /\ First(f, i) \in Names
             /\ disk[f][First(f, i)] \in File /\ disk[f][First(f, i)] # None
             /\ disk[f][First(f, i)].ino = i
             /\ [name |-> First(f, i), ver |-> disk[f][First(f, i)].ver] \in Tracked
  <2>1. First(f, i) \in At(f, i)
    BY <1>5
  <2> HIDE DEF First
  <2>2. /\ First(f, i) \in Names /\ disk[f][First(f, i)] # None
        /\ disk[f][First(f, i)].ino = i
    BY <2>1
  <2>3. disk[f][First(f, i)] \in File
    BY <1>4, <2>2
  <2> QED BY <2>1, <2>2, <2>3 DEF File, Tracked
<1> HIDE DEF First
<1>6. ASSUME NEW f \in Folders, NEW i \in Inodes
      PROVE  saved[f][i] = IF At(f, i) = {} THEN None
                           ELSE [name |-> First(f, i), ver |-> disk[f][First(f, i)].ver]
  <2> HIDE DEF At
  <2> QED BY <1>2
<1>7. saved \in [Folders -> [Inodes -> Tracked \cup {None}]]
  <2> HIDE DEF At
  <2> QED BY <1>2, <1>5
<1>8. ASSUME NEW f \in Folders, NEW i \in Inodes
      PROVE  docs[<<f, i>>] \in Doc \cup {None} /\ Holds(docs[<<f, i>>], f, saved[f][i])
  <2> DEFINE t == saved[f][i]
  <2>1. docs[<<f, i>>] = IF t = None THEN None
                         ELSE [path |-> <<f, t.name>>, hash |-> Normal[t.ver], file |-> TRUE]
    BY <1>3
  <2>2. t \in Tracked \cup {None}
    BY <1>7
  <2> HIDE DEF t
  <2>3. CASE t = None
    BY <2>1, <2>3 DEF Holds, t
  <2>4. CASE t # None
    <3> DEFINE d == [path |-> <<f, t.name>>, hash |-> Normal[t.ver], file |-> TRUE]
    <3>1. t.name \in Names /\ t.ver \in Versions
      BY <2>2, <2>4 DEF Tracked
    <3>2. <<f, t.name>> \in DocPaths /\ Normal[t.ver] \in Versions
      BY <3>1, TrackerAssumption DEF DocPaths
    <3>3. d \in Doc /\ d.path = <<f, t.name>> /\ d.hash = Normal[t.ver]
      BY <3>2 DEF Doc
    <3>4. docs[<<f, i>>] = d
      BY <2>1, <2>4
    <3> HIDE DEF d
    <3>5. d # None
      BY <3>3, TrackerAssumption
    <3> QED BY <2>4, <3>3, <3>4, <3>5 DEF Holds, t
  <2> QED BY <2>3, <2>4
<1>9. docs \in [Ids -> Doc \cup {None}]
  <2>1. \A id \in Ids : docs[id] \in Doc \cup {None}
    BY <1>8 DEF Ids
  <2>2. docs = [id \in Ids |-> docs[id]]
    BY <1>3 DEF Ids
  <2> QED BY <2>1, <2>2
<1>10. ASSUME NEW f \in Folders, NEW i \in Inodes
       PROVE  saved[f][i] \in Targets(f, i)
  <2> DEFINE n == First(f, i)
  <2>0. Visible(f) = {m \in Names : disk[f][m] # None}
    BY <1>1 DEF Visible, Hidden
  <2>1. CASE At(f, i) = {}
    <3>1. Entries(f, i) = {}
      BY <2>0, <2>1 DEF Entries, Legible
    <3>2. saved[f][i] = None
      BY <1>6, <2>1
    <3> QED BY <3>1, <3>2 DEF Targets
  <2>2. CASE At(f, i) # {} /\ disk[f][n].readable
    <3>1. n \in Legible(f)
      BY <1>5, <2>0, <2>2 DEF Legible
    <3>2. n \in Names /\ disk[f][n].ino = i
      BY <1>5, <2>2
    <3>3. [name |-> n, ver |-> disk[f][n].ver] \in Entries(f, i)
      BY <3>1, <3>2 DEF Entries
    <3>4. saved[f][i] = [name |-> n, ver |-> disk[f][n].ver]
      BY <1>6, <2>2
    <3>5. saved[f][i] \in Entries(f, i)
      BY <3>3, <3>4
    <3> QED BY <1>1, <3>5 DEF Targets
  <2>3. CASE At(f, i) # {} /\ ~disk[f][n].readable
    <3>1. n \in Names /\ disk[f][n] # None /\ disk[f][n].ino = i
      BY <1>5, <2>3
    <3>2. \A m \in Names : disk[f][m] # None /\ disk[f][m].ino = i => ~disk[f][m].readable
      BY <1>4, <2>3, <3>1
    <3>3. Entries(f, i) = {}
      BY <2>0, <3>2 DEF Entries, Legible
    <3>4. ~Accessible(f)
      BY <2>0, <2>3, <3>1 DEF Accessible
    <3> QED BY <1>1, <3>3, <3>4 DEF Targets
  <2> QED BY <2>1, <2>2, <2>3
<1>11. TrackerTyped
  <2>1. current \in [Folders -> [Inodes -> Tracked \cup {None}]]
    BY <1>1 DEF NothingTracked
  <2>2. listing \in Seq(Names) /\ found \in Seq(Batch!Operation) /\ batches \in Seq(BatchRecord)
    BY <1>1
  <2> QED BY <1>1, <1>4, <1>7, <1>9, <2>1, <2>2 DEF TrackerTyped
<1>12. PhaseSound
  BY <1>1 DEF PhaseSound
<1>13. BatchesSound
  BY <1>1, ShortLists DEF BatchesSound
<1>14. ScanSound
  BY <1>1 DEF ScanSound
<1>15. DocsSound
  <2>1. Backed
    BY <1>8 DEF Backed, Allowed
  <2>2. Vouched
    BY <1>8, <1>10 DEF Vouched
  <2> QED BY <1>1, <2>1, <2>2 DEF DocsSound
<1> QED BY <1>11, <1>12, <1>13, <1>14, <1>15 DEF TrackerSound

\* A step that changes nothing.
LEMMA StutterSound ==
    ASSUME TrackerSound, UNCHANGED vars
    PROVE  TrackerSound'
<1>1. /\ UNCHANGED <<disk, mounted, closed, configured, docs, saved, health, pc, undisturbed>>
      /\ UNCHANGED <<folders, toscan, at, listing, held, current, found, batches>>
      /\ UNCHANGED <<submitted, partial, result, quiet, ahead, raced, twice, torn>>
  BY DEF vars, user, locals, history
<1>2. TrackerTyped' /\ PhaseSound'
  BY <1>1 DEF TrackerSound, TrackerTyped, PhaseSound
<1>3. BatchesSound'
  BY <1>1, SameBatches DEF TrackerSound
<1>4. \A f, i : /\ Targets(f, i)' = Targets(f, i) /\ Entries(f, i)' = Entries(f, i)
                /\ Accessible(f)' = Accessible(f)
                /\ Visible(f)' = Visible(f) /\ Legible(f)' = Legible(f)
  BY <1>1, SameDisk
<1>5. ScanSound'
  <2>1. Scanned' = Scanned
    BY <1>1 DEF Scanned
  <2>2. VisitSound => VisitSound'
    BY <1>1, <1>4 DEF VisitSound
  <2> QED BY <1>1, <1>4, <2>1, <2>2 DEF TrackerSound, ScanSound
<1>6. DocsSound'
  <2> SUFFICES ASSUME Clean' PROVE DocsSound!2'
    BY DEF DocsSound
  <2>1. DocsSound!2
    BY <1>1 DEF TrackerSound, DocsSound, Clean
  <2>2. \A f, i : Allowed(f, i)' = Allowed(f, i)
    BY <1>1, <1>4 DEF Allowed
  <2>3. \A f : Pending(f)' = Pending(f)
    BY <1>1 DEF Pending
  <2>4. Backed' /\ Vouched'
    BY <1>1, <1>4, <2>1, <2>2 DEF Backed, Vouched, Holds
  <2> QED BY <1>1, <2>1, <2>3, <2>4 DEF Holds
<1> QED BY <1>2, <1>3, <1>5, <1>6 DEF TrackerSound

\* Whatever the user, the network and the process do, the scan, the batches, the state file
\* and the store stay related as the invariant says.
THEOREM TrackerInvariant == Spec => []TrackerSound
<1>1. Init => TrackerSound
  BY InitSound
<1>2. TrackerSound /\ [Next]_vars => TrackerSound'
  <2> SUFFICES ASSUME TrackerSound, [Next]_vars PROVE TrackerSound'
    OBVIOUS
  <2>1. CASE Poll
    <3>1. CASE Begin \/ \E f \in Folders : ListFolder(f)
      BY <3>1, BeginSound, ListFolderSound
    <3>2. CASE StatFile \/ ReadFile \/ FolderScanned \/ DropUnregistered
      BY <3>2, StatFileSound, ReadFileSound, FolderScannedSound, DropUnregisteredSound
    <3>3. CASE Submit \/ SubmitRefused \/ SaveState \/ PersistHealth
      BY <3>3, SubmitSound, FailuresSound, SaveStateSound, PersistHealthSound
    <3> QED BY <2>1, <3>1, <3>2, <3>3 DEF Poll
  <2> QED BY <2>1, UserSound, FailuresSound, CrashSound, StutterSound DEF Next
<1> QED BY <1>1, <1>2, PTL DEF Spec

\* The disk, the catalog and the tracker's state always have their types, and a file is read
\* only after a stat that found it.
THEOREM TrackerTypes == Spec => []TypeOK
<1>1. TrackerSound => TypeOK
  <2> SUFFICES ASSUME TrackerSound PROVE TypeOK
    OBVIOUS
  <2>1. TrackerTyped /\ PhaseSound
    BY DEF TrackerSound
  <2> QED BY <2>1 DEF TrackerTyped, PhaseSound, TypeOK, Ids
<1> QED BY <1>1, TrackerInvariant, PTL

\* _save_state is reached only with every batch accepted, so what it writes is what the store
\* has.
THEOREM StateFileMatchesStoreAlways == Spec => []StateFileMatchesStore
<1>1. TrackerSound => StateFileMatchesStore
  <2> SUFFICES ASSUME TrackerSound, pc = "health", result # "failed", Clean, NEW f \in Folders
               PROVE  MatchesSaved(f)
    BY DEF StateFileMatchesStore, Clean
  <2>1. \A i \in Inodes : Holds(docs[<<f, i>>], f, saved[f][i])
    BY DEF TrackerSound, DocsSound
  <2> QED BY <2>1 DEF Holds, MatchesSaved
<1> QED BY <1>1, TrackerInvariant, PTL

\* A success in the health file is to be believed: with no edit since that sync began, the
\* catalog has of every folder what can be found and read.
THEOREM SuccessIsCurrentAlways == Spec => []SuccessIsCurrent
<1>1. TrackerSound => SuccessIsCurrent
  <2> SUFFICES ASSUME TrackerSound, health = "success", undisturbed, Clean, NEW f \in Folders
               PROVE  IF f \notin configured THEN \A i \in Inodes : docs[<<f, i>>] = None
                      ELSE Accessible(f) => MatchesDisk(f)
    BY DEF SuccessIsCurrent, Mirrors, Clean
  <2>1. \A i \in Inodes : \E t \in Targets(f, i) : Holds(docs[<<f, i>>], f, t)
    BY DEF TrackerSound, DocsSound, Vouched
  <2>2. CASE f \notin configured
    BY <2>1, <2>2 DEF Targets, Holds
  <2>3. CASE f \in configured /\ Accessible(f)
    <3> SUFFICES ASSUME NEW i \in Inodes
                 PROVE  LET names == {n \in Visible(f) : disk[f][n].ino = i}
                            d     == docs[<<f, i>>]
                        IN  IF names = {} THEN d = None
                            ELSE \E n \in names : /\ d # None /\ d.path = <<f, n>>
                                                  /\ d.hash = Normal[disk[f][n].ver]
      BY <2>3 DEF MatchesDisk
    <3> DEFINE names == {n \in Visible(f) : disk[f][n].ino = i}
    <3>1. PICK t \in Targets(f, i) : Holds(docs[<<f, i>>], f, t)
      BY <2>1
    <3>2. f \in mounted /\ names = {m \in Legible(f) : disk[f][m].ino = i}
      BY <2>3 DEF Accessible, Legible
    <3>3. Entries(f, i) = {[name |-> n, ver |-> disk[f][n].ver] : n \in names}
      BY <3>2 DEF Entries
    <3> HIDE DEF names
    <3>4. CASE names = {}
      <4>1. t = None
        BY <2>3, <3>1, <3>3, <3>4 DEF Targets
      <4> QED BY <3>1, <3>4, <4>1 DEF Holds, names
    <3>5. CASE names # {}
      <4>1. t \in Entries(f, i)
        BY <2>3, <3>1, <3>2, <3>3, <3>5 DEF Targets
      <4>2. t # None
        BY <4>1, EntriesTracked DEF TrackerSound, TrackerTyped
      <4>3. PICK n \in names : t = [name |-> n, ver |-> disk[f][n].ver]
        BY <3>3, <4>1
      <4>4. t.name = n /\ t.ver = disk[f][n].ver
        BY <4>3
      <4>5. /\ docs[<<f, i>>] # None /\ docs[<<f, i>>].path = <<f, n>>
            /\ docs[<<f, i>>].hash = Normal[disk[f][n].ver]
        BY <3>1, <4>2, <4>4 DEF Holds
      <4> QED BY <3>5, <4>5 DEF names
    <3> QED BY <3>4, <3>5
  <2> QED BY <2>2, <2>3
<1> QED BY <1>1, TrackerInvariant, PTL

\* What a scan that skipped nothing has in current, whatever names a file has: with no edit
\* since the sync began, every file that is to be found.  Only what is not there is deleted.
SeenSound ==
    /\ pc # "health" => \A b \in ToSet(batches) : \A op \in ToSet(b.ops) :
           b.folder \in folders /\ op.kind = "delete" => current[b.folder][op.key] = None
    /\ quiet /\ pc # "idle" => \A f \in (Scanned \cap folders) \ partial : \A n \in Visible(f) :
           current[f][disk[f][n].ino] # None
    /\ quiet /\ pc \in {"visit", "read"} /\ at \notin partial =>
           \A n \in Visible(at) \ ToSet(listing) : current[at][disk[at][n].ino] # None
    /\ quiet /\ pc = "read" => held = disk[at][Head(listing)].ino

\* The same files are found while the user rests.
LEMMA SameVisible ==
    ASSUME UNCHANGED <<disk, closed>>
    PROVE  \A f : Visible(f)' = Visible(f)
BY DEF Visible, Hidden

\* A file that is skipped makes the scan incomplete.
LEMMA SkipSeen ==
    ASSUME TrackerSound, SeenSound, pc \in {"visit", "read"}, Skip,
           UNCHANGED <<disk, closed, folders, toscan, at, batches, quiet>>
    PROVE  SeenSound'
<1>1. /\ partial' = partial \cup {at} /\ pc' = "visit" /\ current' = current
      /\ Scanned' = Scanned /\ at' = at
  BY DEF Skip, Scanned
<1>2. \A f : Visible(f)' = Visible(f)
  BY SameVisible
<1> QED BY <1>1, <1>2 DEF SeenSound

\* The steps of a scan: what was listed is either found or skipped.
LEMMA ScanSeen ==
    ASSUME TrackerSound, SeenSound,
           (\E f \in Folders : ListFolder(f)) \/ StatFile \/ ReadFile
    PROVE  SeenSound'
<1>1. /\ TrackerTyped /\ PhaseSound /\ BatchesSound /\ None \notin Folders
  BY TrackerAssumption DEF TrackerSound
<1>2. UNCHANGED <<disk, closed, folders, batches, quiet>>
  BY DEF ListFolder, StatFile, ReadFile, user
<1>3. \A f : Visible(f)' = Visible(f)
  BY <1>2, SameVisible
<1>4. ASSUME NEW f \in Folders, ListFolder(f) PROVE SeenSound'
  <2>1. /\ pc = "scan" /\ f \in toscan /\ toscan' = toscan \ {f} /\ at' = f /\ pc' = "visit"
        /\ listing' = IF f \in mounted THEN Keeping(Visible(f), [n \in Names |-> n]) ELSE <<>>
        /\ partial' = IF f \in mounted THEN partial ELSE partial \cup {f}
        /\ current' = current
    BY <1>4 DEF ListFolder
  <2>2. at = None /\ f \in folders /\ None \notin folders
    BY <1>1, <2>1 DEF PhaseSound, TrackerTyped
  <2>3. Scanned' = Scanned
    BY <1>2, <2>1, <2>2 DEF Scanned
  <2>4. ASSUME f \in mounted PROVE ToSet(listing') = Visible(f)
    <3>1. Visible(f) \in SUBSET Names
      BY DEF Visible
    <3> QED BY <2>1, <2>4, <3>1, ListingHolds
  <2> QED BY <1>2, <1>3, <2>1, <2>3, <2>4 DEF SeenSound
<1>5. CASE StatFile
  <2>1. CASE Skip
    BY <1>2, <1>5, <2>1, SkipSeen DEF StatFile
  <2>2. CASE /\ held' = disk[at][Head(listing)].ino /\ pc' = "read"
             /\ UNCHANGED <<listing, current, found, partial>>
    <3>1. pc = "visit" /\ UNCHANGED <<toscan, at>>
      BY <1>5 DEF StatFile
    <3>2. Scanned' = Scanned
      BY <1>2, <2>2, <3>1 DEF Scanned
    <3> QED BY <1>2, <1>3, <2>2, <3>1, <3>2 DEF SeenSound
  <2> QED BY <1>5, <2>1, <2>2 DEF StatFile
<1>6. CASE ReadFile
  <2>1. pc = "read" /\ UNCHANGED <<toscan, at>>
    BY <1>6 DEF ReadFile
  <2>2. CASE Skip
    BY <1>2, <2>1, <2>2, SkipSeen
  <2>3. CASE /\ current' = [current EXCEPT ![at][held] =
                               [name |-> Head(listing), ver |-> disk[at][Head(listing)].ver]]
             /\ Readable(disk[at][Head(listing)])
             /\ listing' = Tail(listing) /\ pc' = "visit" /\ UNCHANGED partial
    <3> DEFINE n == Head(listing)
               now == [name |-> n, ver |-> disk[at][n].ver]
    <3>1. /\ at \in Folders \ toscan /\ held \in Inodes /\ listing # <<>> /\ listing \in Seq(Names)
          /\ current \in [Folders -> [Inodes -> Tracked \cup {None}]]
          /\ disk \in [Folders -> [Names -> File \cup {None}]] /\ folders \subseteq Folders
      BY <1>1, <2>1 DEF TrackerTyped, PhaseSound
    <3>2. n \in Names /\ ToSet(listing) = {n} \cup ToSet(listing')
      BY <2>3, <3>1, TailHolds
    <3>3. now # None
      <4>1. disk[at][n] \in File
        BY <2>3, <3>1, <3>2 DEF Readable
      <4>2. now \in Tracked
        BY <3>2, <4>1 DEF File, Tracked
      <4> QED BY <4>2, TrackerAssumption
    <3>4. /\ current'[at][held] = now
          /\ \A i \in Inodes : i # held => current'[at][i] = current[at][i]
          /\ \A f \in Folders : f # at => current'[f] = current[f]
      BY <2>3, <3>1
    <3>5. Scanned' = Scanned /\ at \notin Scanned /\ Scanned \subseteq Folders
      BY <1>2, <2>1, <2>3, <3>1 DEF Scanned
    <3> HIDE DEF n, now
    <3>6. \A b \in ToSet(batches) : b.folder \in Folders /\ b.folder # at
      BY <1>1, <2>1, <3>5 DEF BatchesSound
    <3>7. ASSUME quiet, at \notin partial, NEW m \in Visible(at) \ ToSet(listing')
          PROVE  current'[at][disk[at][m].ino] # None
      <4>1. disk[at][m].ino \in Inodes
        BY <3>1 DEF Visible, File
      <4>2. CASE m = n
        <5>1. held = disk[at][m].ino
          BY <2>1, <3>7, <4>2 DEF SeenSound, n
        <5> QED BY <3>3, <3>4, <5>1
      <4>3. CASE m # n
        <5>1. current[at][disk[at][m].ino] # None
          BY <2>1, <3>2, <3>7, <4>3 DEF SeenSound
        <5> QED BY <3>3, <3>4, <4>1, <5>1
      <4> QED BY <4>2, <4>3
    <3>8. ASSUME NEW f \in Scanned PROVE current'[f] = current[f]
      BY <3>4, <3>5
    <3>9. \A b \in ToSet(batches) : current'[b.folder] = current[b.folder]
      BY <3>4, <3>6
    <3> QED BY <1>2, <1>3, <2>1, <2>3, <3>5, <3>7, <3>8, <3>9 DEF SeenSound
  <2> QED BY <1>6, <2>2, <2>3 DEF ReadFile
<1> QED BY <1>4, <1>5, <1>6

\* The deletions that join the batches are of files that a complete scan did not meet.
LEMMA BatchedSeen ==
    ASSUME TrackerSound, SeenSound, FolderScanned \/ DropUnregistered
    PROVE  SeenSound'
<1>1. /\ TrackerTyped /\ PhaseSound /\ BatchesSound /\ None \notin Folders
  BY TrackerAssumption DEF TrackerSound
<1>2. UNCHANGED <<disk, closed, folders, partial, quiet>>
  BY DEF FolderScanned, DropUnregistered, user
<1>3. \A f : Visible(f)' = Visible(f)
  BY <1>2, SameVisible
<1>4. CASE FolderScanned
  <2> DEFINE unseen == {i \in Inodes : saved[at][i] # None /\ current[at][i] = None}
             ops == IF at \in partial THEN found ELSE found \o DeletesOf(unseen)
  <2>1. /\ pc = "visit" /\ listing = <<>> /\ pc' = "scan" /\ toscan' = toscan /\ at' = None
        /\ batches' = WithBatch(at, ops)
        /\ at \notin partial => current' = current
        /\ at \in partial => current' = [current EXCEPT ![at] = [i \in Inodes |->
               IF i \in unseen THEN saved[at][i] ELSE current[at][i]]]
    BY <1>4 DEF FolderScanned
  <2>2. /\ at \in folders \ toscan /\ at \in Folders /\ found \in Seq(Batch!Operation)
        /\ batches \in Seq(BatchRecord) /\ folders \subseteq Folders
        /\ current \in [Folders -> [Inodes -> Tracked \cup {None}]]
        /\ ToSet(listing) = {}
    BY <1>1, <2>1, ShortLists DEF TrackerTyped, PhaseSound
  <2>3. unseen \in SUBSET Inodes /\ \A i \in unseen : current[at][i] = None
    OBVIOUS
  <2> HIDE DEF unseen
  <2>4. /\ DeletesOf(unseen) \in Seq(Batch!Operation)
        /\ ToSet(DeletesOf(unseen)) = {Batch!DeleteOp(i) : i \in unseen}
    BY <2>3, DeletesHold
  <2>5. /\ ops \in Seq(Batch!Operation)
        /\ ToSet(ops) = ToSet(found) \cup IF at \in partial THEN {} ELSE ToSet(DeletesOf(unseen))
    <3>1. CASE at \in partial
      BY <2>2, <3>1
    <3>2. CASE at \notin partial
      BY <2>2, <2>4, <3>2, ConcatHolds
    <3> QED BY <3>1, <3>2
  <2>6. \A op \in ToSet(found) : op.kind # "delete"
    BY <1>1, <2>1 DEF BatchesSound
  <2>7. \A i \in unseen : Batch!DeleteOp(i).key = i
    BY DEF Batch!DeleteOp
  <2>8. ASSUME NEW op \in ToSet(ops), op.kind = "delete"
        PROVE  at \notin partial /\ current[at][op.key] = None
    BY <2>3, <2>4, <2>5, <2>6, <2>7, <2>8
  <2>9. \A f \in Folders : f # at => current'[f] = current[f]
    BY <2>1, <2>2
  <2> HIDE DEF ops
  <2>10. ToSet(batches') = ToSet(batches)
             \cup IF ops = <<>> THEN {} ELSE {[folder |-> at, ops |-> ops]}
    BY <2>1, <2>2, <2>5, WithBatchHolds
  <2>11. Scanned' = Scanned \cup {at} /\ at \notin Scanned /\ Scanned \subseteq Folders
    BY <1>1, <1>2, <2>1, <2>2 DEF Scanned
  <2>12. ASSUME NEW b \in ToSet(batches'), NEW op \in ToSet(b.ops), b.folder \in folders,
                op.kind = "delete"
         PROVE  current'[b.folder][op.key] = None
    <3>1. CASE b \in ToSet(batches)
      <4>1. b.folder \in Scanned /\ current[b.folder][op.key] = None
        BY <1>1, <2>1, <2>12, <3>1 DEF BatchesSound, SeenSound
      <4> QED BY <2>9, <2>11, <4>1
    <3>2. CASE b = [folder |-> at, ops |-> ops]
      <4>1. b.folder = at /\ b.ops = ops
        BY <3>2
      <4> QED BY <2>1, <2>8, <2>12, <4>1
    <3> QED BY <2>10, <3>1, <3>2
  <2>13. ASSUME quiet, NEW f \in (Scanned' \cap folders) \ partial, NEW n \in Visible(f)
         PROVE  current'[f][disk[f][n].ino] # None
    <3>1. CASE f = at
      BY <2>1, <2>2, <2>13, <3>1 DEF SeenSound
    <3>2. CASE f # at
      BY <2>1, <2>2, <2>9, <2>11, <2>13, <3>2 DEF SeenSound
    <3> QED BY <3>1, <3>2
  <2> QED BY <1>2, <1>3, <2>1, <2>12, <2>13 DEF SeenSound
<1>5. CASE DropUnregistered
  <2>1. pc = "scan" /\ toscan = {} /\ pc' = "submit" /\ UNCHANGED <<toscan, at, current>>
    BY <1>5 DEF DropUnregistered
  <2>2. at = None /\ folders \subseteq Folders
    BY <1>1, <2>1 DEF PhaseSound, TrackerTyped
  <2>3. Scanned = folders /\ Scanned' = Folders
    BY <1>1, <2>1, <2>2 DEF Scanned
  <2>4. \A b \in ToSet(batches') : b.folder \in folders => b \in ToSet(batches)
    <3> DEFINE keys(f) == {i \in Inodes : saved[f][i] # None}
               S == {f \in Folders \ folders : keys(f) # {}}
               dropped == SetToSeq(S)
               more == [j \in DOMAIN dropped |->
                           [folder |-> dropped[j], ops |-> DeletesOf(keys(dropped[j]))]]
    <3>1. batches' = batches \o more
      BY <1>5 DEF DropUnregistered
    <3>2. S \subseteq Folders \ folders
      OBVIOUS
    <3> HIDE DEF S
    <3>3. dropped \in Seq(S)
      <4>1. IsFiniteSet(S)
        BY <3>2, TrackerAssumption, FS_Subset
      <4> QED BY <4>1, SetToSeqHolds
    <3> HIDE DEF dropped, keys
    <3>4. DOMAIN dropped = 1..Len(dropped) /\ Len(dropped) \in Nat
          /\ \A j \in DOMAIN dropped : dropped[j] \in S
      BY <3>3
    <3>5. ASSUME NEW j \in DOMAIN dropped
          PROVE  more[j] \in BatchRecord /\ more[j].folder \notin folders
      <4>1. DeletesOf(keys(dropped[j])) \in Seq(Batch!Operation)
        <5>1. keys(dropped[j]) \in SUBSET Inodes
          BY DEF keys
        <5> QED BY <5>1, DeletesHold
      <4>2. dropped[j] \in Folders /\ dropped[j] \notin folders
        BY <3>2, <3>4, <3>5
      <4> QED BY <3>5, <4>1, <4>2 DEF BatchRecord
    <3>6. more \in Seq(BatchRecord) /\ DOMAIN more = DOMAIN dropped
      BY <3>4, <3>5
    <3> HIDE DEF more
    <3>7. \A b \in ToSet(more) : b.folder \notin folders
      BY <3>5, <3>6 DEF ToSet
    <3>8. ToSet(batches') = ToSet(batches) \cup ToSet(more)
      BY <1>1, <3>1, <3>6, ConcatHolds DEF TrackerTyped
    <3> QED BY <3>7, <3>8
  <2> QED BY <1>2, <1>3, <2>1, <2>2, <2>3, <2>4 DEF SeenSound
<1> QED BY <1>4, <1>5

\* Batches that go, and a sync that ends, take nothing from what was found.
LEMMA SubmittedSeen ==
    ASSUME TrackerSound, SeenSound,
           \/ Submit \/ SubmitRefused \/ RequestLost \/ AnswerLost \/ SaveState
           \/ PersistHealth \/ Crash \/ CrashInSave \/ Begin
    PROVE  SeenSound'
<1>1. UNCHANGED <<disk, closed>>
  BY DEF Submit, SubmitRefused, RequestLost, AnswerLost, SaveState, PersistHealth, Crash,
         CrashInSave, Begin, Fail, user
<1>2. \A f : Visible(f)' = Visible(f)
  BY <1>1, SameVisible
<1>3. CASE Submit \/ SubmitRefused \/ RequestLost \/ AnswerLost \/ SaveState
  <2>1. /\ pc = "submit" /\ pc' \in {"submit", "health"}
        /\ UNCHANGED <<folders, toscan, at, current, partial, quiet>>
    BY <1>3 DEF Submit, SubmitRefused, RequestLost, AnswerLost, SaveState, Fail
  <2>2. pc' = "submit" => batches # <<>> /\ batches' = Tail(batches)
    BY <1>3 DEF Submit, SubmitRefused, RequestLost, AnswerLost, SaveState, Fail
  <2>3. pc' = "submit" => ToSet(batches') \subseteq ToSet(batches)
    BY <2>2, TailHolds DEF TrackerSound, TrackerTyped
  <2>4. Scanned' = Scanned
    BY <2>1 DEF Scanned
  <2> QED BY <1>1, <1>2, <2>1, <2>3, <2>4 DEF SeenSound
<1>4. CASE PersistHealth \/ Crash \/ CrashInSave
  <2>1. pc' = "idle" /\ batches' = <<>>
    BY <1>4 DEF PersistHealth, Crash, CrashInSave, Reset
  <2> QED BY <2>1, ShortLists DEF SeenSound
<1>5. CASE Begin
  <2>1. pc' = "scan" /\ batches' = <<>> /\ folders' = toscan'
    BY <1>5 DEF Begin
  <2>2. (Scanned \cap folders)' = {}
    BY <2>1 DEF Scanned
  <2> QED BY <2>1, <2>2, ShortLists DEF SeenSound
<1> QED BY <1>3, <1>4, <1>5

\* With every step, what a scan has found stays what is to be found.
THEOREM SeenInvariant == Spec => []SeenSound
<1>1. Init => SeenSound
  <2> SUFFICES ASSUME Init PROVE SeenSound
    OBVIOUS
  <2>1. pc = "idle" /\ batches = <<>>
    BY DEF Init
  <2> QED BY <2>1, ShortLists DEF SeenSound
<1>2. TrackerSound /\ SeenSound /\ [Next]_vars => SeenSound'
  <2> SUFFICES ASSUME TrackerSound, SeenSound, [Next]_vars PROVE SeenSound'
    OBVIOUS
  <2>1. CASE User
    <3>1. quiet' = FALSE /\ UNCHANGED <<pc, batches, folders, current>>
      BY <2>1 DEF User, Create, Write, MoveTo, Link, Unlink, ToggleReadable, ToggleMounted,
                  ToggleListable, Unregister, Edited, locals
    <3> QED BY <3>1 DEF SeenSound
  <2>2. CASE (\E f \in Folders : ListFolder(f)) \/ StatFile \/ ReadFile
    BY <2>2, ScanSeen
  <2>3. CASE FolderScanned \/ DropUnregistered
    BY <2>3, BatchedSeen
  <2>4. CASE \/ Submit \/ SubmitRefused \/ RequestLost \/ AnswerLost \/ SaveState
             \/ PersistHealth \/ Crash \/ CrashInSave \/ Begin
    BY <2>4, SubmittedSeen
  <2>5. CASE UNCHANGED vars
    <3>1. UNCHANGED <<disk, closed, pc, batches, folders, toscan, at, current, listing>>
          /\ UNCHANGED <<partial, quiet, held>>
      BY <2>5 DEF vars, user, locals
    <3>2. Scanned' = Scanned /\ \A f : Visible(f)' = Visible(f)
      BY <3>1, SameVisible DEF Scanned
    <3> QED BY <3>1, <3>2 DEF SeenSound
  <2> QED BY <2>1, <2>2, <2>3, <2>4, <2>5 DEF Next, Poll
<1> QED BY <1>1, <1>2, TrackerInvariant, PTL DEF Spec

\* A registered folder loses a document only by a scan that skipped nothing, and, with no
\* edit since the sync began, only one whose file no listing has: sync_once infers deletions
\* from complete scans alone.
THEOREM DeletesOnlyUnlistedAlways == Spec => DeletesOnlyUnlisted
<1>1. TrackerSound /\ SeenSound /\ [Next]_vars =>
          [\A f \in folders, i \in Inodes :
              (docs[<<f, i>>] # None /\ docs'[<<f, i>>] = None) =>
                  /\ f \notin partial
                  /\ quiet => \A n \in Visible(f) : disk[f][n].ino # i]_vars
  <2> SUFFICES ASSUME TrackerSound, SeenSound, Next, NEW f \in folders, NEW i \in Inodes,
                      docs[<<f, i>>] # None, docs'[<<f, i>>] = None
               PROVE  /\ f \notin partial
                      /\ quiet => \A n \in Visible(f) : disk[f][n].ino # i
    OBVIOUS
  <2>0. f \in Folders
    BY DEF TrackerSound, TrackerTyped
  <2>1. CASE Submit \/ AnswerLost
    <3>1. pc = "submit" /\ batches # <<>> /\ docs' = Outcome.rows
      BY <2>1 DEF Submit, AnswerLost
    <3>2. /\ Head(batches) \in ToSet(batches) /\ f = Head(batches).folder
          /\ \E op \in ToSet(Head(batches).ops) : op.kind = "delete" /\ op.key = i
      BY <2>0, <3>1, OutcomeHolds
    <3>3. f \notin partial /\ current[f][i] = None
      BY <3>1, <3>2 DEF TrackerSound, BatchesSound, SeenSound
    <3>4. f \in Scanned
      BY <2>0, <3>1 DEF Scanned
    <3> QED BY <3>1, <3>3, <3>4 DEF SeenSound
  <2>2. CASE ~(Submit \/ AnswerLost)
    <3>1. docs' = docs
      <4>1. CASE User
        BY <4>1 DEF User, Create, Write, MoveTo, Link, Unlink, ToggleReadable, ToggleMounted,
                    ToggleListable, Unregister, Edited
      <4>2. CASE RequestLost \/ Crash \/ CrashInSave
        BY <4>2 DEF RequestLost, Crash, CrashInSave
      <4>3. CASE Poll
        BY <2>2, <4>3 DEF Poll, Begin, ListFolder, StatFile, ReadFile, FolderScanned,
                          DropUnregistered, SubmitRefused, SaveState, PersistHealth
      <4> QED BY <2>2, <4>1, <4>2, <4>3 DEF Next
    <3> QED BY <3>1
  <2> QED BY <2>1, <2>2
<1> QED BY <1>1, TrackerInvariant, SeenInvariant, PTL DEF Spec, DeletesOnlyUnlisted

=============================================================================
