------------------------- MODULE CtxfsServiceProofs -------------------------
(***************************************************************************)
(* What holds of the queued front of the store for every set of writers,   *)
(* every batch and every bound: the types, that a later submission wins,   *)
(* that a deletion is final, that the catalog and the tree agree, for what *)
(* store.submit accepts lies in the grants of its writer and a deletion    *)
(* removes the files and the rows that it has read, and that a submission  *)
(* which is applied a second time changes nothing.                         *)
(***************************************************************************)
EXTENDS CtxfsService, CtxfsOrderProofs

-----------------------------------------------------------------------------
(***************************************************************************)
(* What store.submit does to the documents                                 *)
(***************************************************************************)
\* A document that a move takes to p; its file is gone if it was there already.
MovedTo(row, p) == [row EXCEPT !.path = p, !.file = @ /\ row.path # p]

\* No two documents have one path.
Apart(rows) ==
    \A id, other \in Ids :
        (id # other /\ rows[id] # None /\ rows[other] # None) => rows[id].path # rows[other].path

\* The document of an operation is as the operation would leave it.
Done(rows, w, op) ==
    /\ op.kind = "delete" => rows[<<w, op.key>>] = None
    /\ op.kind \in {"put", "move"} =>
           /\ rows[<<w, op.key>>] # None
           /\ rows[<<w, op.key>>].path = op.path /\ rows[<<w, op.key>>].hash = op.hash

\* The operators that CtxfsBatch takes from other modules are the ones known here.
LEMMA SameKeeping ==
    ASSUME NEW S, NEW seq
    PROVE  Batch!Keeping(S, seq) = Keeping(S, seq)
BY DEF Batch!Keeping, Keeping, Batch!Iterate, Iterate

LEMMA SameToSet == \A seq : Batch!ToSet(seq) = ToSet(seq)
BY DEF Batch!ToSet, ToSet

LEMMA SameOfKind == \A ops, k : Batch!OfKind(ops, k) = OfKind(ops, k)
BY SameKeeping, SameToSet DEF Batch!OfKind, OfKind

\* One put: the path of its document becomes the path of the operation; if it succeeds, no
\* path is taken twice, and a document without a file is where it was; it changes nothing
\* if all is as it would leave it.
LEMMA PutDocKeeps ==
    ASSUME NEW w \in Writers, NEW op \in Operation, op.kind = "put",
           NEW acc \in [rows : [Ids -> Filed \cup {None}], ok : BOOLEAN]
    PROVE  LET next == Batch!PutDoc(acc, w, op)
               id   == <<w, op.key>>
           IN  /\ next \in [rows : [Ids -> Filed \cup {None}], ok : BOOLEAN]
               /\ \A x \in Ids : x # id => next.rows[x] = acc.rows[x]
               /\ next.rows[id] # None
               /\ next.rows[id].path = op.path /\ next.rows[id].hash = op.hash
               /\ next.ok => acc.ok
               /\ next.ok /\ Apart(acc.rows) => Apart(next.rows)
               /\ next.ok /\ ~next.rows[id].file =>
                      acc.rows[id] # None /\ ~acc.rows[id].file /\ acc.rows[id].path = op.path
               /\ acc.ok /\ Apart(acc.rows) /\ Done(acc.rows, w, op) => next = acc
<1> DEFINE id   == <<w, op.key>>
           old  == acc.rows[id]
           same == old # None /\ old.hash = op.hash
           new  == [path |-> op.path, hash |-> op.hash, file |-> IF same THEN old.file ELSE TRUE]
           next == Batch!PutDoc(acc, w, op)
<1>1. /\ next.rows = [acc.rows EXCEPT ![id] = new]
      /\ next.ok = (/\ acc.ok
                    /\ same /\ old.path # op.path => old.file
                    /\ Batch!NotTaken(acc.rows, id, op.path))
      /\ next = [rows |-> next.rows, ok |-> next.ok]
  BY DEF Batch!PutDoc
<1>2. id \in Ids /\ op.path \in Paths /\ op.hash \in Hashes
  BY DEF Ids, Operation
<1>3. same => old.file \in BOOLEAN
  BY <1>2 DEF Filed
<1>4. new \in Filed
  BY <1>2, <1>3 DEF Filed
<1>5. /\ next.rows \in [Ids -> Filed \cup {None}] /\ next.rows[id] = new
      /\ \A x \in Ids : x # id => next.rows[x] = acc.rows[x]
  <2> HIDE DEF id, new, next
  <2> QED BY <1>1, <1>2, <1>4
<1>6. next.ok \in BOOLEAN /\ (next.ok => acc.ok)
  <2> HIDE DEF id, same, next, old
  <2> QED BY <1>1
<1>7. next.ok /\ Apart(acc.rows) => Apart(next.rows)
  <2> SUFFICES ASSUME next.ok, Apart(acc.rows) PROVE Apart(next.rows)
    OBVIOUS
  <2>1. \A other \in Ids \ {id} : acc.rows[other] # None => acc.rows[other].path # op.path
    BY <1>1 DEF Batch!NotTaken
  <2>2. new.path = op.path
    OBVIOUS
  <2> HIDE DEF id, new, next
  <2> QED BY <1>5, <2>1, <2>2 DEF Apart
<1>8. next.ok /\ ~next.rows[id].file => old # None /\ ~old.file /\ old.path = op.path
  <2>1. next.rows[id].file = IF same THEN old.file ELSE TRUE
    BY <1>5
  <2>2. next.ok => (same /\ old.path # op.path => old.file)
    BY <1>1
  <2> HIDE DEF next, old
  <2> QED BY <2>1, <2>2
<1>9. next.rows[id].path = op.path /\ next.rows[id].hash = op.hash /\ next.rows[id] # None
  <2>1. new.path = op.path /\ new.hash = op.hash /\ new # None
    BY <1>4, ServiceAssumption
  <2> HIDE DEF new, next
  <2> QED BY <1>5, <2>1
<1>10. acc.ok /\ Apart(acc.rows) /\ Done(acc.rows, w, op) => next = acc
  <2> SUFFICES ASSUME acc.ok, Apart(acc.rows), Done(acc.rows, w, op) PROVE next = acc
    OBVIOUS
  <2>1. old # None /\ old.path = op.path /\ old.hash = op.hash
    BY DEF Done
  <2>2. old \in Filed
    BY <1>2, <2>1
  <2>3. new = old
    BY <2>1, <2>2 DEF Filed
  <2>4. Batch!NotTaken(acc.rows, id, op.path)
    <3>1. \A other \in Ids \ {id} : acc.rows[other] # None => acc.rows[other].path # op.path
      <4> HIDE DEF id
      <4> QED BY <1>2, <2>1 DEF Apart
    <3> QED BY <3>1 DEF Batch!NotTaken
  <2>5. next.ok
    <3> HIDE DEF id, old, next
    <3> QED BY <1>1, <2>1, <2>4
  <2>6. next.rows = acc.rows
    <3> HIDE DEF id, new, next
    <3> QED BY <1>1, <1>2, <2>3 DEF old
  <2>7. acc = [rows |-> acc.rows, ok |-> acc.ok]
    OBVIOUS
  <2> HIDE DEF next
  <2> QED BY <1>1, <1>6, <2>5, <2>6, <2>7
<1> QED
  <2>1. next \in [rows : [Ids -> Filed \cup {None}], ok : BOOLEAN]
    <3> HIDE DEF next
    <3> QED BY <1>1, <1>5, <1>6
  <2> QED BY <2>1, <1>5, <1>6, <1>7, <1>8, <1>9, <1>10

\* All the puts of a batch, one after another.
LEMMA PutDocsKeep ==
    ASSUME NEW w \in Writers, NEW base \in [Ids -> Filed \cup {None}],
           NEW puts \in Seq(Operation), \A i \in 1..Len(puts) : puts[i].kind = "put"
    PROVE  LET put == Batch!PutDocs(base, w, puts)
           IN  /\ put \in [rows : [Ids -> Filed \cup {None}], ok : BOOLEAN]
               /\ \A id \in Ids :
                      \/ /\ put.rows[id] = base[id]
                         /\ \A i \in 1..Len(puts) : id # <<w, puts[i].key>>
                      \/ \E i \in 1..Len(puts) : /\ id = <<w, puts[i].key>> /\ put.rows[id] # None
                                                 /\ put.rows[id].path = puts[i].path
                                                 /\ put.rows[id].hash = puts[i].hash
               /\ put.ok /\ Apart(base) => Apart(put.rows)
               /\ put.ok => \A id \in Ids : (put.rows[id] # None /\ ~put.rows[id].file) =>
                      base[id] # None /\ ~base[id].file /\ put.rows[id].path = base[id].path
               /\ Apart(base) /\ (\A i \in 1..Len(puts) : Done(base, w, puts[i])) =>
                      put.ok /\ put.rows = base
<1> DEFINE N == Len(puts)
           V == [rows : [Ids -> Filed \cup {None}], ok : BOOLEAN]
           first == [rows |-> base, ok |-> TRUE]
           Next1(acc, n) == Batch!PutDoc(acc, w, puts[n])
           Eqn(a) == a = [n \in 0..N |->
               IF n = 0 THEN first ELSE CHOOSE r \in {Next1(k, n) : k \in {a[n - 1]}} : TRUE]
           F == CHOOSE a : Eqn(a)
           Put(row, i) == row # None /\ row.path = puts[i].path /\ row.hash = puts[i].hash
           Origin(acc, n) == \A id \in Ids :
               \/ acc.rows[id] = base[id] /\ \A i \in 1..n : id # <<w, puts[i].key>>
               \/ \E i \in 1..n : id = <<w, puts[i].key>> /\ Put(acc.rows[id], i)
           Already == Apart(base) /\ \A i \in 1..N : Done(base, w, puts[i])
           Filing(acc) == acc.ok => \A id \in Ids : (acc.rows[id] # None /\ ~acc.rows[id].file) =>
               base[id] # None /\ ~base[id].file /\ acc.rows[id].path = base[id].path
           Good(acc, n) == /\ Origin(acc, n)
                           /\ acc.ok /\ Apart(base) => Apart(acc.rows)
                           /\ Filing(acc)
                           /\ Already => acc = first
           After(n) == {acc \in V : Good(acc, n)}
<1>1. Batch!PutDocs(base, w, puts) = F[N]
  BY DEF Batch!PutDocs, Batch!Iterate
<1>2. N \in Nat
  OBVIOUS
<1>3. ASSUME NEW n \in 1..N, NEW acc \in After(n - 1) PROVE Next1(acc, n) \in After(n)
  <2> DEFINE next == Next1(acc, n)
             id == <<w, puts[n].key>>
  <2>1. puts[n] \in Operation /\ puts[n].kind = "put" /\ acc \in V /\ Good(acc, n - 1)
    OBVIOUS
  <2>2. /\ next \in V
        /\ \A x \in Ids : x # id => next.rows[x] = acc.rows[x]
        /\ Put(next.rows[id], n)
        /\ next.ok => acc.ok
        /\ next.ok /\ Apart(acc.rows) => Apart(next.rows)
        /\ next.ok /\ ~next.rows[id].file =>
              acc.rows[id] # None /\ ~acc.rows[id].file /\ acc.rows[id].path = puts[n].path
        /\ acc.ok /\ Apart(acc.rows) /\ Done(acc.rows, w, puts[n]) => next = acc
    <3> HIDE DEF Good
    <3> QED BY <2>1, PutDocKeeps
  <2> HIDE DEF next
  <2>3. Origin(next, n)
    <3> SUFFICES ASSUME NEW x \in Ids
                 PROVE  \/ next.rows[x] = base[x] /\ \A i \in 1..n : x # <<w, puts[i].key>>
                        \/ \E i \in 1..n : x = <<w, puts[i].key>> /\ Put(next.rows[x], i)
      OBVIOUS
    <3>1. CASE x = id
      <4>1. n \in 1..n /\ x = <<w, puts[n].key>>
        BY <3>1
      <4>2. Put(next.rows[x], n)
        <5> HIDE DEF id, Good, Put
        <5> QED BY <2>2, <3>1
      <4> QED BY <4>1, <4>2
    <3>2. CASE x # id
      <4>1. next.rows[x] = acc.rows[x]
        BY <2>2, <3>2
      <4>2. \A i \in 1..n : i \in 1..(n - 1) \/ i = n
        OBVIOUS
      <4>3. \A i \in 1..(n - 1) : i \in 1..n
        OBVIOUS
      <4>4. CASE acc.rows[x] = base[x] /\ \A i \in 1..(n - 1) : x # <<w, puts[i].key>>
        BY <3>2, <4>1, <4>2, <4>4
      <4>5. CASE \E i \in 1..(n - 1) : x = <<w, puts[i].key>> /\ Put(acc.rows[x], i)
        <5> HIDE DEF Put
        <5> QED BY <4>1, <4>3, <4>5
      <4> QED BY <2>1, <4>4, <4>5
    <3> QED BY <3>1, <3>2
  <2>4. Filing(next)
    <3> SUFFICES ASSUME next.ok, NEW x \in Ids, next.rows[x] # None, ~next.rows[x].file
                 PROVE  base[x] # None /\ ~base[x].file /\ next.rows[x].path = base[x].path
      OBVIOUS
    <3>1. CASE x = id
      <4>1. /\ acc.ok /\ acc.rows[x] # None /\ ~acc.rows[x].file
            /\ acc.rows[x].path = next.rows[x].path
        <5> HIDE DEF id, Good
        <5> QED BY <2>2, <3>1
      <4>2. base[x] # None /\ ~base[x].file /\ acc.rows[x].path = base[x].path
        BY <2>1, <4>1
      <4> QED BY <4>1, <4>2
    <3>2. CASE x # id
      <4> HIDE DEF id
      <4> QED BY <2>1, <2>2, <3>2
    <3> QED BY <3>1, <3>2
  <2>5. next.ok /\ Apart(base) => Apart(next.rows)
    BY <2>1, <2>2
  <2>6. Already => next = first
    <3>1. first.ok /\ first.rows = base
      OBVIOUS
    <3>2. Already => acc = first /\ Apart(base) /\ Done(base, w, puts[n])
      BY <2>1
    <3> HIDE DEF first, Already, Good
    <3> QED BY <2>2, <3>1, <3>2
  <2>7. next \in After(n)
    <3> HIDE DEF Origin, Filing, Already, first
    <3> QED BY <2>2, <2>3, <2>4, <2>5, <2>6
  <2> QED BY <2>7 DEF next
<1>4. first \in After(0)
  <2>1. first \in V /\ first.rows = base
    OBVIOUS
  <2> HIDE DEF first
  <2> QED BY <2>1
<1>5. \E a : Eqn(a)
  <2> DEFINE A == [n \in 0..N |-> After(n)]
             f == [n \in 1..N |-> [k \in V |-> Next1(k, n)]]
  <2>1. \A n \in 0..N : After(n) \subseteq V
    OBVIOUS
  <2> HIDE DEF N, Next1, After, V, first
  <2>2. A \in [0..N -> SUBSET V] /\ \A n \in 0..N : A[n] = After(n)
    BY <2>1
  <2>3. \A n \in 1..N : \A k \in V : f[n][k] = Next1(k, n)
    OBVIOUS
  <2>4. 0 \in 0..N /\ \A n \in 1..N : n \in 0..N /\ n - 1 \in 0..N
    BY <1>2
  <2> HIDE DEF A, f
  <2>5. \A n \in 1..N : \A k \in A[n - 1] : f[n][k] \in A[n]
    BY <1>3, <2>1, <2>2, <2>3, <2>4
  <2>6. first \in A[0]
    BY <1>4, <2>2, <2>4
  <2>7. PICK g \in [0..N -> V] : g[0] = first /\ \A n \in 1..N : g[n] = f[n][g[n - 1]]
    <3>1. Closed(N, A, f)
      BY <2>5 DEF Closed
    <3>2. Solved(N, V, first, f)
      BY <1>2, <2>2, <2>6, <3>1, Accumulates
    <3> QED BY <3>2 DEF Solved
  <2>8. ASSUME NEW n \in 0..N
        PROVE  g[n] = IF n = 0 THEN first
                      ELSE CHOOSE r \in {Next1(k, n) : k \in {g[n - 1]}} : TRUE
    <3>1. CASE n = 0
      BY <2>7, <3>1
    <3>2. CASE n \in 1..N
      <4>1. g[n - 1] \in V
        BY <2>4, <3>2
      <4>2. {Next1(k, n) : k \in {g[n - 1]}} = {Next1(g[n - 1], n)}
        OBVIOUS
      <4>3. (CHOOSE r \in {Next1(g[n - 1], n)} : TRUE) = Next1(g[n - 1], n)
        OBVIOUS
      <4> QED BY <1>2, <2>3, <2>7, <3>2, <4>1, <4>2, <4>3
    <3> QED BY <1>2, <3>1, <3>2
  <2>9. Eqn(g)
    BY <2>8
  <2> QED BY <2>9
<1>6. Eqn(F)
  BY <1>5
<1>7. F[0] = first /\ \A n \in 1..N : F[n] = Next1(F[n - 1], n)
  <2> HIDE DEF Next1, F, N, first
  <2> QED BY <1>2, <1>6
<1>8. \A n \in 0..N : F[n] \in After(n)
  <2> DEFINE Holds == {n \in 0..N : F[n] \in After(n)}
  <2> HIDE DEF F, N, After, Next1, first
  <2>1. 0 \in 0..N /\ \A n \in 1..N : n \in 0..N /\ n - 1 \in 0..N
    BY <1>2
  <2>2. 0 \in Holds
    BY <1>4, <1>7, <2>1
  <2>3. \A n \in 1..N : n - 1 \in Holds => n \in Holds
    BY <1>3, <1>7, <2>1
  <2>4. \A n \in 0..N : n \in Holds
    <3> HIDE DEF Holds
    <3> QED BY <1>2, <2>2, <2>3, Upward
  <2> QED BY <2>4
<1>9. F[N] \in After(N)
  <2> HIDE DEF F, N, After
  <2> QED BY <1>2, <1>8
<1> QED
  <2> HIDE DEF F
  <2> QED BY <1>1, <1>9

\* The deletes and the moves of a batch.
LEMMA SettleKeeps ==
    ASSUME NEW w \in Writers, NEW rows \in [Ids -> Filed \cup {None}],
           NEW ops \in Seq(Operation)
    PROVE  LET mvs == {op \in ToSet(ops) : op.kind = "move"}
               dels == {op \in ToSet(ops) : op.kind = "delete"}
               settled == Batch!Settle(rows, w, dels, mvs)
           IN  /\ settled \in [Ids -> Filed \cup {None}]
               /\ \A id \in Ids :
                      \/ /\ settled[id] = None
                         /\ rows[id] = None \/ \E op \in dels : id = <<w, op.key>>
                      \/ /\ settled[id] = rows[id]
                         /\ \A op \in mvs \cup dels : id # <<w, op.key>>
                      \/ \E op \in mvs :
                            /\ id = <<w, op.key>> /\ rows[id] # None
                            /\ settled[id] = MovedTo(rows[id], op.path)
<1> DEFINE mvs == {op \in ToSet(ops) : op.kind = "move"}
           dels == {op \in ToSet(ops) : op.kind = "delete"}
           settled == Batch!Settle(rows, w, dels, mvs)
           Mine(id) == {m \in mvs : id = <<w, m.key>>}
           m(id) == CHOOSE x \in Mine(id) : TRUE
           Moved(id, op) == MovedTo(rows[id], op.path)
<1>1. settled = [id \in Ids |->
          IF rows[id] = None \/ id \in {<<w, d.key>> : d \in dels} THEN None
          ELSE IF Mine(id) = {} THEN rows[id] ELSE Moved(id, m(id))]
  BY DEF Batch!Settle, MovedTo
<1>2. \A op \in mvs : op \in Operation /\ op.path \in Paths
  <2>1. \A op \in ToSet(ops) : op \in Operation
    BY DEF ToSet
  <2> QED BY <2>1 DEF Operation
<1>3. ASSUME NEW id \in Ids, rows[id] # None, NEW op \in mvs PROVE Moved(id, op) \in Filed
  BY <1>2, <1>3 DEF Filed, MovedTo
<1>4. ASSUME NEW id \in Ids, Mine(id) # {} PROVE m(id) \in Mine(id)
  BY <1>4
<1> HIDE DEF settled, m, Moved
<1>5. ASSUME NEW id \in Ids
      PROVE  /\ settled[id] \in Filed \cup {None}
             /\ \/ settled[id] = None /\ (rows[id] = None \/ \E op \in dels : id = <<w, op.key>>)
                \/ /\ settled[id] = rows[id]
                   /\ \A op \in mvs \cup dels : id # <<w, op.key>>
                \/ \E op \in mvs : /\ id = <<w, op.key>> /\ rows[id] # None
                                   /\ settled[id] = Moved(id, op)
  <2>1. CASE rows[id] = None \/ id \in {<<w, d.key>> : d \in dels}
    BY <1>1, <2>1
  <2>2. CASE ~(rows[id] = None \/ id \in {<<w, d.key>> : d \in dels}) /\ Mine(id) = {}
    BY <1>1, <2>2
  <2>3. CASE ~(rows[id] = None \/ id \in {<<w, d.key>> : d \in dels}) /\ Mine(id) # {}
    <3>1. m(id) \in mvs /\ id = <<w, m(id).key>> /\ settled[id] = Moved(id, m(id))
      BY <1>1, <1>4, <2>3
    <3>2. Moved(id, m(id)) \in Filed
      BY <1>3, <2>3, <3>1
    <3> QED BY <2>3, <3>1, <3>2
  <2> QED BY <2>1, <2>2, <2>3
<1>6. settled \in [Ids -> Filed \cup {None}]
  <2>1. settled = [id \in Ids |-> settled[id]]
    BY <1>1
  <2> QED BY <1>5, <2>1
<1> QED BY <1>5, <1>6 DEF settled, Moved

\* A batch: a document that no operation of it names stays as it was, another has the path
\* of an operation; if it is accepted, no path is taken twice, and a document is without a
\* file only if it was before or was moved to where it is.
LEMMA SubmittedKeeps ==
    ASSUME NEW w \in Writers, NEW rows \in [Ids -> Filed \cup {None}],
           NEW ops \in Seq(Operation)
    PROVE  LET out == Batch!Submitted(rows, w, ops)
               Names(op, id) == op.kind # "decision" /\ id = <<w, op.key>>
           IN  /\ out.rows \in [Ids -> Filed \cup {None}]
               /\ \A id \in Ids :
                    (\A op \in ToSet(ops) : ~Names(op, id)) => out.rows[id] = rows[id]
               /\ \A id \in Ids :
                    (out.rows[id] # None /\ \E op \in ToSet(ops) : Names(op, id)) =>
                       \E op \in ToSet(ops) : /\ op.kind \in {"put", "move"}
                                              /\ id = <<w, op.key>>
                                              /\ out.rows[id].path = op.path
               /\ out.ok => Apart(out.rows)
               /\ out.ok => \A id \in Ids : (out.rows[id] # None /\ ~out.rows[id].file) =>
                    /\ rows[id] # None
                    /\ \/ ~rows[id].file
                       \/ \E op \in ToSet(ops) : /\ op.kind = "move" /\ id = <<w, op.key>>
                                                 /\ rows[id].path = op.path
<1> DEFINE out == Batch!Submitted(rows, w, ops)
           mvs == {op \in ToSet(ops) : op.kind = "move"}
           dels == {op \in ToSet(ops) : op.kind = "delete"}
           settled == Batch!Settle(rows, w, dels, mvs)
           puts == Batch!OfKind(ops, "put")
           put == Batch!PutDocs(settled, w, puts)
           Names(op, id) == op.kind # "decision" /\ id = <<w, op.key>>
           Moved(id, op) == MovedTo(rows[id], op.path)
<1>1. out.rows = put.rows
  BY SameToSet DEF Batch!Submitted
<1>2. out.ok => put.ok /\ \A id \in DOMAIN settled :
          settled[id] # None => Batch!NotTaken(settled, id, settled[id].path)
  BY SameToSet DEF Batch!Submitted
<1>3. \A op \in ToSet(ops) : op \in Operation /\ op.kind \in {"put", "move", "delete", "decision"}
  <2>1. \A op \in ToSet(ops) : op \in Operation
    BY DEF ToSet
  <2> QED BY <2>1 DEF Operation
<1>4. /\ settled \in [Ids -> Filed \cup {None}]
      /\ \A id \in Ids :
             \/ settled[id] = None /\ (rows[id] = None \/ \E op \in dels : id = <<w, op.key>>)
             \/ settled[id] = rows[id] /\ \A op \in mvs \cup dels : id # <<w, op.key>>
             \/ \E op \in mvs : id = <<w, op.key>> /\ rows[id] # None /\ settled[id] = Moved(id, op)
  BY SettleKeeps
<1>5. /\ puts \in Seq(Operation)
      /\ \A i \in 1..Len(puts) : puts[i] \in ToSet(ops) /\ puts[i].kind = "put"
      /\ \A op \in ToSet(ops) : op.kind = "put" => \E i \in 1..Len(puts) : puts[i] = op
  <2>1. puts \in Seq(Operation) /\ ToSet(puts) = {op \in ToSet(ops) : op.kind = "put"}
    BY KindsKept, SameOfKind
  <2>2. ToSet(puts) = {puts[i] : i \in 1..Len(puts)}
    BY <2>1 DEF ToSet
  <2> QED BY <2>1, <2>2
<1> HIDE DEF puts, settled, out
<1>6. /\ put \in [rows : [Ids -> Filed \cup {None}], ok : BOOLEAN]
      /\ \A id \in Ids :
             \/ /\ put.rows[id] = settled[id]
                /\ \A i \in 1..Len(puts) : id # <<w, puts[i].key>>
             \/ \E i \in 1..Len(puts) : /\ id = <<w, puts[i].key>>
                                        /\ put.rows[id].path = puts[i].path
      /\ put.ok /\ Apart(settled) => Apart(put.rows)
      /\ put.ok => \A id \in Ids : (put.rows[id] # None /\ ~put.rows[id].file) =>
             settled[id] # None /\ ~settled[id].file /\ put.rows[id].path = settled[id].path
  BY <1>4, <1>5, PutDocsKeep
<1> HIDE DEF put
<1>7. out.rows \in [Ids -> Filed \cup {None}]
  BY <1>1, <1>6
<1>8. ASSUME NEW id \in Ids, \A op \in ToSet(ops) : ~Names(op, id)
      PROVE  out.rows[id] = rows[id]
  <2>1. put.rows[id] = settled[id]
    BY <1>5, <1>6, <1>8
  <2>2. settled[id] = rows[id]
    BY <1>4, <1>8
  <2> QED BY <1>1, <2>1, <2>2
<1>9. ASSUME NEW id \in Ids, out.rows[id] # None, NEW some \in ToSet(ops), Names(some, id)
      PROVE  \E op \in ToSet(ops) : /\ op.kind \in {"put", "move"}
                                    /\ id = <<w, op.key>>
                                    /\ out.rows[id].path = op.path
  <2>1. CASE \E i \in 1..Len(puts) : id = <<w, puts[i].key>> /\ put.rows[id].path = puts[i].path
    BY <1>1, <1>5, <2>1
  <2>2. CASE put.rows[id] = settled[id] /\ \A i \in 1..Len(puts) : id # <<w, puts[i].key>>
    <3>1. some \in mvs \cup dels
      BY <1>3, <1>5, <1>9, <2>2
    <3>2. CASE \E op \in mvs : /\ id = <<w, op.key>> /\ rows[id] # None
                               /\ settled[id] = Moved(id, op)
      <4>1. PICK op \in mvs : /\ id = <<w, op.key>> /\ rows[id] # None
                              /\ settled[id] = Moved(id, op)
        BY <3>2
      <4>2. Moved(id, op).path = op.path
        BY <4>1 DEF Filed, MovedTo
      <4> QED BY <1>1, <2>2, <4>1, <4>2
    <3> QED BY <1>1, <1>4, <1>9, <2>2, <3>1, <3>2
  <2> QED BY <1>6, <2>1, <2>2
<1>10. out.ok => Apart(out.rows)
  <2> SUFFICES ASSUME out.ok PROVE Apart(out.rows)
    OBVIOUS
  <2>1. Apart(settled)
    BY <1>2, <1>4 DEF Apart, Batch!NotTaken
  <2> QED BY <1>1, <1>2, <1>6, <2>1
<1>11. ASSUME out.ok, NEW id \in Ids, out.rows[id] # None, ~out.rows[id].file
       PROVE  /\ rows[id] # None
              /\ \/ ~rows[id].file
                 \/ \E op \in ToSet(ops) : /\ op.kind = "move" /\ id = <<w, op.key>>
                                           /\ rows[id].path = op.path
  <2>1. settled[id] # None /\ ~settled[id].file
    BY <1>1, <1>2, <1>6, <1>11
  <2>2. CASE settled[id] = rows[id]
    BY <2>1, <2>2
  <2>3. CASE \E op \in mvs : id = <<w, op.key>> /\ rows[id] # None /\ settled[id] = Moved(id, op)
    <3>1. PICK op \in mvs : id = <<w, op.key>> /\ rows[id] # None /\ settled[id] = Moved(id, op)
      BY <2>3
    <3>2. rows[id] \in Filed
      BY <3>1
    <3>3. settled[id].file = (rows[id].file /\ rows[id].path # op.path)
      BY <3>1, <3>2 DEF Filed, MovedTo
    <3> QED BY <2>1, <3>1, <3>3
  <2> QED BY <1>4, <2>1, <2>2, <2>3
<1> QED BY <1>7, <1>8, <1>9, <1>10, <1>11 DEF out

-----------------------------------------------------------------------------
(***************************************************************************)
(* The inductive invariant                                                 *)
(***************************************************************************)
Early  == {"decisions", "list", "discard"}

InHand == [sub : Numbers, writer : Writers, ops : Seq(Operation),
           at : {"read", "applied", "failed"}]
Decision == [writer : Writers, key : Keys, path : Paths \cup {None}, by : Numbers]

\* The queue: numbers are given out in order.
QueueSound ==
    /\ count \in 0..MaxSubmissions
    /\ queue \in [Numbers -> Submission \cup {None}]
    /\ \A s \in Numbers : queue[s] # None =>
           /\ s <= count
           /\ queue[s].ops = <<>> => <<>> \in Batches[queue[s].writer]

HandSound == hand # None => hand \in InHand /\ hand.sub <= count

TablesSound ==
    /\ docs \in [Ids -> Document \cup {None}]
    /\ tree \subseteq Paths /\ granted \subseteq Writers /\ audited \subseteq Users
    /\ decisions \subseteq Decision

JobSound ==
    job # None =>
        /\ job = [target |-> job.target, at |-> job.at, rows |-> job.rows, left |-> job.left,
                  upto |-> job.upto]
        /\ job.target \in Targets /\ job.at \in Stages
        /\ job.at \in {"discard", "unlink"} => job.target.scope # "user"
        /\ job.at \in {"purge", "rmtree"} => job.target.scope = "user"
        /\ job.rows \subseteq Ids \X Paths
        /\ job.left \subseteq Numbers \cup (Ids \X Paths)
        /\ job.upto \in 0..count
        /\ job.at = "discard" => \A s \in job.left :
               s \in Numbers /\ queue[s] # None /\ queue[s].writer = job.target.writer

\* What was applied is not later than what is queued or in hand.
OrderSound ==
    /\ origin \in [Ids -> 0..count]
    /\ \A s \in Queued : \A id \in Ids : origin[id] <= s
    /\ hand # None => /\ \A id \in Ids : origin[id] <= hand.sub
                      /\ \A s \in Queued : hand.sub <= s

\* Nothing that these operations would write is in the scope.
Clean(row, t) ==
    \A op \in ToSet(row.ops) :
        (op.kind # "delete" /\ op.path # None) => ~InScope(t, row.writer, op.path)

\* The running deletion answers for a submission.
Answers(s) == s <= job.upto /\ s \notin held

\* The scope of the running deletion, as far as it has got.
ScopeSound ==
    job # None =>
        /\ hand # None /\ Answers(hand.sub) => job.at \notin Early /\ Clean(hand, job.target)
        /\ job.at \notin {"decisions", "list"} =>
               \A s \in Queued : Answers(s) =>
                   (job.at = "discard" /\ s \in job.left) \/ Clean(queue[s], job.target)
        /\ \A id \in Ids :
               (/\ docs[id] # None
                /\ InScope(job.target, id[1], docs[id].path)
                /\ Answers(origin[id])) => job.at \notin {"rmtree", "record"} /\ id \in RowIds
        /\ job.at # "decisions" =>
               \A d \in decisions : (d.path # None /\ Answers(d.by)) =>
                   ~InScope(job.target, d.writer, d.path)

\* What a finished deletion answers for.
BarredSound ==
    \A b \in barred :
        /\ b \in Numbers \X Targets /\ b[1] <= count
        /\ b[1] \in Queued => Clean(queue[b[1]], b[2])
        /\ hand # None /\ hand.sub = b[1] => Clean(hand, b[2])
        /\ \A id \in Ids : (docs[id] # None /\ origin[id] = b[1]) =>
               ~InScope(b[2], id[1], docs[id].path)
        /\ \A d \in decisions : (d.by = b[1] /\ d.path # None) =>
               ~InScope(b[2], d.writer, d.path)

ServiceSound ==
    /\ QueueSound /\ HandSound /\ TablesSound /\ JobSound
    /\ OrderSound /\ ScopeSound /\ BarredSound

-----------------------------------------------------------------------------
(*****************************************************************************)
(* Every step keeps it                                                        *)
(*****************************************************************************)

LEMMA RegisterPrefixKeeps ==
    ASSUME ServiceSound, NEW w \in Writers, RegisterPrefix(w)
    PROVE  ServiceSound'
<1> USE DEF tables, history
<1>1. QueueSound'
  BY DEF ServiceSound, QueueSound, RegisterPrefix
<1>2. HandSound'
  BY DEF ServiceSound, HandSound, RegisterPrefix
<1>3. TablesSound'
  BY DEF ServiceSound, TablesSound, RegisterPrefix
<1>4. JobSound'
  BY DEF ServiceSound, JobSound, RegisterPrefix
<1>5. OrderSound'
  BY DEF ServiceSound, OrderSound, Queued, RegisterPrefix
<1>6. ScopeSound'
  BY DEF ServiceSound, ScopeSound, Queued, Answers, RowIds, Early, RegisterPrefix
<1>7. BarredSound'
  BY DEF ServiceSound, BarredSound, Queued, RegisterPrefix
<1> QED BY <1>1, <1>2, <1>3, <1>4, <1>5, <1>6, <1>7 DEF ServiceSound

LEMMA EnqueueKeeps ==
    ASSUME ServiceSound, NEW w \in Writers, NEW ops \in Batches[w], Enqueue(w, ops)
    PROVE  ServiceSound'
<1> USE DEF tables, history
<1> USE ServiceAssumption DEF Enqueue
<1>a. /\ count \in 0..MaxSubmissions /\ MaxSubmissions \in Nat /\ count' = count + 1
      /\ count' \in Numbers /\ count' \in 0..MaxSubmissions
  BY DEF ServiceSound, QueueSound, Numbers
<1> DEFINE row == [writer |-> w, ops |-> ops, state |-> "queued"]
<1>b. row \in Submission
  BY DEF Submission, States
<1>c. /\ queue' = [queue EXCEPT ![count'] = row]
      /\ queue \in [Numbers -> Submission \cup {None}]
      /\ \A s \in Numbers : queue[s] # None => s <= count
  BY DEF ServiceSound, QueueSound
<1> HIDE DEF row, Enqueue
<1>d. /\ queue' \in [Numbers -> Submission \cup {None}] /\ queue'[count'] = row
      /\ \A s \in Numbers : s # count' => queue'[s] = queue[s]
  BY <1>a, <1>b, <1>c
<1>e. /\ \A s \in Numbers : s <= count => s # count' /\ s <= count'
      /\ \A s \in Numbers : s \in Queued' => s \in Queued \/ s = count'
  BY <1>a, <1>d DEF Queued, Numbers
<1>1. QueueSound'
  <2>1. row.ops = ops /\ row.writer = w
    BY DEF row
  <2>2. ASSUME NEW s \in Numbers, queue'[s] # None
        PROVE  s <= count' /\ (queue'[s].ops = <<>> => <<>> \in Batches[queue'[s].writer])
    <3>1. CASE s = count'
      BY <1>a, <1>d, <2>1, <3>1
    <3>2. CASE s # count'
      <4>1. queue'[s] = queue[s] /\ s <= count
        BY <1>c, <1>d, <2>2, <3>2
      <4> QED BY <1>e, <2>2, <4>1 DEF ServiceSound, QueueSound
    <3> QED BY <3>1, <3>2
  <2> QED BY <1>a, <1>d, <2>2 DEF QueueSound
<1>2. HandSound'
  BY <1>a, <1>e DEF ServiceSound, HandSound, Enqueue, InHand
<1>3. TablesSound'
  BY DEF ServiceSound, TablesSound, Enqueue
<1>4. JobSound'
  <2>1. \A s \in Numbers : queue[s] # None => queue'[s] = queue[s]
    BY <1>c, <1>d, <1>e
  <2>2. 0..count \subseteq 0..count'
    BY <1>a
  <2> QED BY <2>1, <2>2 DEF ServiceSound, JobSound, Enqueue
<1>5. OrderSound'
  <2>1. \A x \in 0..count : x <= count' /\ x \in 0..count'
    BY <1>a
  <2>2. hand # None => hand.sub <= count'
    <3>1. hand # None => hand.sub \in Numbers /\ hand.sub <= count
      BY DEF ServiceSound, HandSound, InHand
    <3> QED BY <1>a, <3>1 DEF Numbers
  <2>3. Queued' \subseteq Queued \cup {count'}
    BY <1>e DEF Queued
  <2>4. hand' = hand /\ origin' = origin
    BY DEF Enqueue
  <2>5. \A id \in Ids : origin[id] \in 0..count
    BY DEF ServiceSound, OrderSound
  <2>6. origin' \in [Ids -> 0..count']
    BY <2>1, <2>4, <2>5 DEF ServiceSound, OrderSound
  <2>7. \A s \in Queued' : \A id \in Ids : origin'[id] <= s
    BY <2>1, <2>3, <2>4, <2>5 DEF ServiceSound, OrderSound
  <2>8. hand' # None => /\ \A id \in Ids : origin'[id] <= hand'.sub
                        /\ \A s \in Queued' : hand'.sub <= s
    BY <2>2, <2>3, <2>4 DEF ServiceSound, OrderSound
  <2> QED BY <2>6, <2>7, <2>8 DEF OrderSound
<1>6. ScopeSound'
  <2>1. job # None => ~(count' <= job.upto)
    BY <1>a DEF ServiceSound, JobSound
  <2>2. \A s \in Queued' : s \in Numbers
    BY DEF Queued
  <2>3. job' = job /\ hand' = hand /\ held' = held /\ docs' = docs /\ origin' = origin
        /\ decisions' = decisions
    BY DEF Enqueue
  <2>4. ASSUME job # None, NEW s \in Queued', Answers(s)' PROVE s \in Queued /\ queue'[s] = queue[s]
    BY <1>d, <1>e, <2>1, <2>2, <2>3, <2>4 DEF Answers
  <2> QED BY <2>3, <2>4 DEF ServiceSound, ScopeSound, Answers, RowIds
<1>7. BarredSound'
  <2>1. \A s \in Numbers : s <= count /\ s \in Queued' => s \in Queued /\ queue'[s] = queue[s]
    BY <1>d, <1>e
  <2> QED BY <1>e, <2>1 DEF ServiceSound, BarredSound, Enqueue
<1> QED BY <1>1, <1>2, <1>3, <1>4, <1>5, <1>6, <1>7 DEF ServiceSound

LEMMA PickKeeps ==
    ASSUME ServiceSound, NEW s \in Numbers, Pick(s)
    PROVE  ServiceSound'
<1> USE DEF tables, history
<1>a. /\ hand = None /\ s \in Queued /\ \A u \in Queued : s <= u
      /\ queue[s] \in Submission /\ queue[s].state = "queued" /\ s <= count
  BY DEF ServiceSound, QueueSound, Pick, NextInLine, Queued
<1>b. /\ hand' = Row(s) /\ Row(s) \in InHand /\ Row(s).sub = s
      /\ Row(s).ops = queue[s].ops /\ Row(s).writer = queue[s].writer
  BY <1>a DEF Pick, Row, InHand, Submission
<1>c. \A u : Clean(queue[s], u) => Clean(hand', u)
  BY <1>b DEF Clean
<1>1. QueueSound'
  BY DEF ServiceSound, QueueSound, Pick
<1>2. HandSound'
  BY <1>a, <1>b DEF HandSound, Pick
<1>3. TablesSound'
  BY DEF ServiceSound, TablesSound, Pick
<1>4. JobSound'
  BY DEF ServiceSound, JobSound, Pick
<1>5. OrderSound'
  BY <1>a, <1>b DEF ServiceSound, OrderSound, Queued, Pick
<1>6. ScopeSound'
  <2>1. ASSUME job # None, Answers(s)' PROVE job.at \notin Early /\ Clean(hand', job.target)
    <3>1. job.at \notin Early /\ Answers(s)
      BY <2>1 DEF Pick, Answers, Early
    <3> QED BY <1>a, <1>c, <2>1, <3>1 DEF ServiceSound, ScopeSound, Early
  <2>2. \A u : job # None /\ Answers(u)' => Answers(u)
    BY DEF Pick, Answers
  <2> QED BY <1>b, <2>1, <2>2 DEF ServiceSound, ScopeSound, Queued, RowIds, Answers, Pick
<1>7. BarredSound'
  BY <1>a, <1>b, <1>c DEF ServiceSound, BarredSound, Queued, Pick
<1> QED BY <1>1, <1>2, <1>3, <1>4, <1>5, <1>6, <1>7 DEF ServiceSound

LEMMA ApplyKeeps ==
    ASSUME ServiceSound, Apply
    PROVE  ServiceSound'
<1> USE DEF tables, history
<1> DEFINE out == Batch!Submitted(WithFiles, hand.writer, hand.ops)
           rows == out.rows
           Names(op, id) == op.kind # "decision" /\ id = <<hand.writer, op.key>>
<1>a. /\ hand \in InHand /\ hand' = [hand EXCEPT !.at = "applied"]
      /\ hand' \in InHand /\ hand'.sub = hand.sub /\ hand # None /\ hand.sub \in Numbers
      /\ hand'.ops = hand.ops /\ hand'.writer = hand.writer /\ hand.sub <= count
      /\ hand.writer \in Writers /\ hand.ops \in Seq(Operation)
  BY DEF ServiceSound, HandSound, Apply, InHand
<1>b. \A t : Clean(hand, t) => Clean(hand', t)
  BY <1>a DEF Clean
<1>c. WithFiles \in [Ids -> Filed \cup {None}]
  BY DEF ServiceSound, TablesSound, WithFiles, Filed, Document
<1>d. /\ rows \in [Ids -> Filed \cup {None}]
      /\ \A id \in Ids : (\A op \in ToSet(hand.ops) : ~Names(op, id)) => rows[id] = WithFiles[id]
      /\ \A id \in Ids : (rows[id] # None /\ \E op \in ToSet(hand.ops) : Names(op, id)) =>
             \E op \in ToSet(hand.ops) : /\ op.kind \in {"put", "move"}
                                          /\ id = <<hand.writer, op.key>>
                                          /\ rows[id].path = op.path
  <2>1. hand.writer \in Writers /\ hand.ops \in Seq(Operation)
    BY <1>a
  <2> HIDE DEF rows
  <2> QED BY <1>c, <2>1, SubmittedKeeps DEF rows
<1>e. /\ docs' = [id \in Ids |-> IF rows[id] = None THEN None
                                 ELSE [path |-> rows[id].path, hash |-> rows[id].hash]]
      /\ tree' = (tree \ PathsOf(docs, Written))
                  \cup PathsOf(rows, {id \in Ids : rows[id] # None /\ rows[id].file})
  BY DEF Apply, Outcome
<1> HIDE DEF out, rows
<1>f. \A op \in ToSet(hand.ops) : op \in Operation
  BY <1>a DEF ToSet
<1>g. \A id \in Ids : id \in Written <=> \E op \in ToSet(hand.ops) : Names(op, id)
  BY DEF Written
<1>h. ASSUME NEW id \in Ids, docs'[id] # None, id \notin Written
      PROVE  docs[id] # None /\ docs'[id].path = docs[id].path
  <2>1. rows[id] = WithFiles[id] /\ rows[id] # None /\ docs'[id].path = rows[id].path
    BY <1>d, <1>e, <1>g, <1>h
  <2> QED BY <2>1 DEF WithFiles
<1>i. ASSUME NEW id \in Ids, docs'[id] # None, id \in Written, NEW t, Clean(hand, t)
      PROVE  ~InScope(t, id[1], docs'[id].path)
  <2>1. rows[id] # None /\ docs'[id].path = rows[id].path
    BY <1>e, <1>i
  <2>2. PICK op \in ToSet(hand.ops) : /\ op.kind \in {"put", "move"}
                                       /\ id = <<hand.writer, op.key>>
                                       /\ rows[id].path = op.path
    BY <1>d, <1>g, <1>i, <2>1
  <2>3. op.path # None /\ id[1] = hand.writer
    BY <1>f, <2>2, ServiceAssumption DEF Operation
  <2> QED BY <1>i, <2>1, <2>2, <2>3 DEF Clean
<1>j. /\ Decided \subseteq Decision /\ \A d \in Decided : d.by = hand.sub
      /\ \A t : Clean(hand, t) => \A d \in Decided : d.path # None => ~InScope(t, d.writer, d.path)
  <2>1. ASSUME NEW d \in Decided
        PROVE  /\ d \in Decision /\ d.by = hand.sub
               /\ \A t : Clean(hand, t) /\ d.path # None => ~InScope(t, d.writer, d.path)
    <3>1. PICK op \in ToSet(hand.ops) : /\ op.kind = "decision"
             /\ d = [writer |-> hand.writer, key |-> op.key, path |-> op.path, by |-> hand.sub]
      BY DEF Decided
    <3>2. op.key \in Keys /\ op.path \in Paths \cup {None}
      BY <1>f, <3>1 DEF Operation
    <3>3. d \in Decision
      BY <1>a, <3>1, <3>2 DEF Decision
    <3> QED BY <3>1, <3>3 DEF Clean
  <2> QED BY <2>1
<1>k. /\ decisions' \subseteq decisions \cup Decided
      /\ origin' = [id \in Ids |-> IF id \in Written THEN hand.sub ELSE origin[id]]
  BY DEF Apply
<1>1. QueueSound'
  BY DEF ServiceSound, QueueSound, Apply
<1>2. HandSound'
  BY <1>a DEF HandSound, Apply
<1>3. TablesSound'
  <2>1. docs' \in [Ids -> Document \cup {None}]
    BY <1>d, <1>e DEF Filed, Document
  <2>2. tree' \subseteq Paths
    BY <1>d, <1>e DEF ServiceSound, TablesSound, PathsOf, Filed
  <2>3. audited' \subseteq Users /\ granted' \subseteq Writers
    BY <1>a, ServiceAssumption DEF ServiceSound, TablesSound, Apply
  <2>4. decisions' \subseteq Decision
    BY <1>j, <1>k DEF ServiceSound, TablesSound
  <2> QED BY <2>1, <2>2, <2>3, <2>4 DEF TablesSound
<1>4. JobSound'
  BY DEF ServiceSound, JobSound, Apply
<1>5. OrderSound'
  <2>1. hand.sub \in 0..count
    BY <1>a DEF Numbers, ServiceSound, QueueSound
  <2>2. Queued' = Queued /\ count' = count
    BY DEF Apply, Queued
  <2>3. hand.sub <= hand.sub
    BY <1>a DEF Numbers
  <2> QED BY <1>a, <1>k, <2>1, <2>2, <2>3 DEF ServiceSound, OrderSound
<1>6. ScopeSound'
  <2> SUFFICES ASSUME job # None PROVE ScopeSound'
    BY DEF ScopeSound, Apply
  <2>1. /\ Queued' = Queued /\ job' = job /\ held' = held /\ RowIds' = RowIds /\ queue' = queue
    BY DEF Apply, Queued, RowIds
  <2>2. \A s : Answers(s)' <=> Answers(s)
    BY <2>1 DEF Answers
  <2>3. Answers(hand.sub) => job.at \notin Early /\ Clean(hand, job.target)
    BY <1>a DEF ServiceSound, ScopeSound
  <2>4. ASSUME NEW id \in Ids, docs'[id] # None, InScope(job.target, id[1], docs'[id].path),
               Answers(origin'[id])
        PROVE  job.at \notin {"rmtree", "record"} /\ id \in RowIds
    <3>1. CASE id \in Written
      BY <1>i, <1>k, <2>3, <2>4, <3>1
    <3>2. CASE id \notin Written
      BY <1>h, <1>k, <2>4, <3>2 DEF ServiceSound, ScopeSound
    <3> QED BY <3>1, <3>2
  <2>5. ASSUME job.at # "decisions", NEW d \in decisions', d.path # None, Answers(d.by)
        PROVE  ~InScope(job.target, d.writer, d.path)
    <3>1. CASE d \in Decided
      BY <1>j, <2>3, <2>5, <3>1
    <3>2. CASE d \in decisions
      BY <2>5, <3>2 DEF ServiceSound, ScopeSound
    <3> QED BY <1>k, <3>1, <3>2
  <2>6. Answers(hand'.sub) => job.at \notin Early /\ Clean(hand', job.target)
    BY <1>a, <1>b, <2>3
  <2>7. job.at \notin {"decisions", "list"} => \A s \in Queued : Answers(s) =>
            (job.at = "discard" /\ s \in job.left) \/ Clean(queue[s], job.target)
    BY DEF ServiceSound, ScopeSound
  <2> QED BY <2>1, <2>4, <2>5, <2>6, <2>7 DEF ScopeSound, Answers
<1>7. BarredSound'
  <2> SUFFICES ASSUME NEW b \in barred
               PROVE  /\ b \in Numbers \X Targets /\ b[1] <= count
                      /\ b[1] \in Queued => Clean(queue[b[1]], b[2])
                      /\ hand'.sub = b[1] => Clean(hand', b[2])
                      /\ \A id \in Ids : (docs'[id] # None /\ origin'[id] = b[1]) =>
                             ~InScope(b[2], id[1], docs'[id].path)
                      /\ \A d \in decisions' : (d.by = b[1] /\ d.path # None) =>
                             ~InScope(b[2], d.writer, d.path)
    BY DEF BarredSound, Apply, Queued
  <2>1. /\ b \in Numbers \X Targets /\ b[1] <= count
        /\ b[1] \in Queued => Clean(queue[b[1]], b[2])
        /\ hand.sub = b[1] => Clean(hand, b[2])
        /\ \A id \in Ids : (docs[id] # None /\ origin[id] = b[1]) =>
               ~InScope(b[2], id[1], docs[id].path)
        /\ \A d \in decisions : (d.by = b[1] /\ d.path # None) => ~InScope(b[2], d.writer, d.path)
    BY <1>a DEF ServiceSound, BarredSound
  <2>2. ASSUME NEW id \in Ids, docs'[id] # None, origin'[id] = b[1]
        PROVE  ~InScope(b[2], id[1], docs'[id].path)
    <3>1. CASE id \in Written
      BY <1>i, <1>k, <2>1, <2>2, <3>1
    <3>2. CASE id \notin Written
      BY <1>h, <1>k, <2>1, <2>2, <3>2
    <3> QED BY <3>1, <3>2
  <2>3. ASSUME NEW d \in decisions', d.by = b[1], d.path # None
        PROVE  ~InScope(b[2], d.writer, d.path)
    BY <1>j, <1>k, <2>1, <2>3
  <2> QED BY <1>a, <1>b, <2>1, <2>2, <2>3
<1> QED BY <1>1, <1>2, <1>3, <1>4, <1>5, <1>6, <1>7 DEF ServiceSound

LEMMA ApplyRaisesKeeps ==
    ASSUME ServiceSound, ApplyRaises
    PROVE  ServiceSound'
<1> USE DEF tables, history
<1>a. /\ hand \in InHand /\ hand' = [hand EXCEPT !.at = "failed"]
      /\ hand' \in InHand /\ hand'.sub = hand.sub /\ hand # None
      /\ hand'.ops = hand.ops /\ hand'.writer = hand.writer
  BY DEF ServiceSound, HandSound, ApplyRaises, InHand
<1>b. \A t : Clean(hand, t) => Clean(hand', t)
  BY <1>a DEF Clean
<1>1. QueueSound'
  BY DEF ServiceSound, QueueSound, ApplyRaises
<1>2. HandSound'
  BY <1>a DEF ServiceSound, HandSound, ApplyRaises
<1>3. TablesSound'
  BY <1>a, ServiceAssumption DEF ServiceSound, TablesSound, ApplyRaises, InHand
<1>4. JobSound'
  BY DEF ServiceSound, JobSound, ApplyRaises
<1>5. OrderSound'
  BY <1>a DEF ServiceSound, OrderSound, Queued, ApplyRaises
<1>6. ScopeSound'
  BY <1>a, <1>b DEF ServiceSound, ScopeSound, Queued, Answers, RowIds, ApplyRaises
<1>7. BarredSound'
  BY <1>a, <1>b DEF ServiceSound, BarredSound, Queued, ApplyRaises
<1> QED BY <1>1, <1>2, <1>3, <1>4, <1>5, <1>6, <1>7 DEF ServiceSound

LEMMA MarkKeeps ==
    ASSUME ServiceSound, Mark
    PROVE  ServiceSound'
<1> USE DEF tables, history
<1>a. hand # None /\ hand \in InHand /\ hand.at \in {"applied", "failed"} /\ hand.sub \in Numbers
  BY DEF ServiceSound, HandSound, Mark, InHand
<1>b. queue \in [Numbers -> Submission \cup {None}]
  BY DEF ServiceSound, QueueSound
<1>c. ASSUME NEW s \in Numbers
      PROVE  /\ queue'[s] \in Submission \cup {None}
             /\ queue[s] = None <=> queue'[s] = None
             /\ queue[s] # None =>
                    queue'[s].ops = queue[s].ops /\ queue'[s].writer = queue[s].writer
             /\ queue'[s] # None /\ queue'[s].state = "queued" =>
                    queue[s] # None /\ queue[s].state = "queued"
  <2> DEFINE row == [queue[s] EXCEPT !.state = hand.at]
  <2>1. queue[s] # None => /\ row \in Submission /\ row.state # "queued" /\ row # None
                           /\ row.ops = queue[s].ops /\ row.writer = queue[s].writer
    BY <1>a, <1>b, ServiceAssumption DEF Submission, States
  <2>2. queue'[s] = queue[s] \/ (queue[s] # None /\ queue'[s] = row)
    BY <1>a, <1>b DEF Mark
  <2> HIDE DEF row
  <2> QED BY <1>b, <2>1, <2>2
<1>d. \A s \in Numbers : s \in Queued' => /\ s \in Queued
                                         /\ \A t : Clean(queue[s], t) => Clean(queue'[s], t)
  BY <1>c DEF Queued, Clean
<1>e. queue' = [s \in Numbers |-> queue'[s]] /\ hand' = None
  BY <1>a, <1>b DEF Mark
<1>1. QueueSound'
  BY <1>c, <1>e DEF ServiceSound, QueueSound, Mark
<1>2. HandSound'
  BY DEF ServiceSound, HandSound, Mark
<1>3. TablesSound'
  BY DEF ServiceSound, TablesSound, Mark
<1>4. JobSound'
  BY <1>c DEF ServiceSound, JobSound, Mark
<1>5. OrderSound'
  <2>1. Queued' \subseteq Queued
    BY <1>d DEF Queued
  <2> QED BY <1>e, <2>1 DEF ServiceSound, OrderSound, Mark
<1>6. ScopeSound'
  <2>1. Queued' \subseteq Numbers
    BY DEF Queued
  <2> QED BY <1>d, <1>e, <2>1 DEF ServiceSound, ScopeSound, Answers, RowIds, Mark
<1>7. BarredSound'
  <2>1. Queued' \subseteq Numbers
    BY DEF Queued
  <2> QED BY <1>d, <1>e, <2>1 DEF ServiceSound, BarredSound, Mark
<1> QED BY <1>1, <1>2, <1>3, <1>4, <1>5, <1>6, <1>7 DEF ServiceSound

LEMMA ApplierDiesKeeps ==
    ASSUME ServiceSound, ApplierDies
    PROVE  ServiceSound'
<1> USE DEF tables, history
<1>1. QueueSound'
  BY DEF ServiceSound, QueueSound, ApplierDies
<1>2. HandSound'
  BY DEF ServiceSound, HandSound, ApplierDies
<1>3. TablesSound'
  BY DEF ServiceSound, TablesSound, ApplierDies
<1>4. JobSound'
  BY DEF ServiceSound, JobSound, ApplierDies
<1>5. OrderSound'
  BY DEF ServiceSound, OrderSound, Queued, ApplierDies
<1>6. ScopeSound'
  BY DEF ServiceSound, ScopeSound, Queued, Answers, RowIds, Early, ApplierDies
<1>7. BarredSound'
  BY DEF ServiceSound, BarredSound, Queued, ApplierDies
<1> QED BY <1>1, <1>2, <1>3, <1>4, <1>5, <1>6, <1>7 DEF ServiceSound

LEMMA BeginKeeps ==
    ASSUME ServiceSound, NEW t \in Targets, Begin(t)
    PROVE  ServiceSound'
<1> USE DEF tables, history
<1>a. job = None /\ count \in Nat
  BY DEF Begin, ServiceSound, QueueSound
<1> DEFINE ids == {id \in Ids : docs[id] # None /\ InScope(t, id[1], docs[id].path)}
           rows == {<<id, docs[id].path>> : id \in ids}
<1>b. /\ job' = [target |-> t, at |-> "decisions", rows |-> rows, left |-> {}, upto |-> count]
      /\ held' = IF hand = None THEN {} ELSE {hand.sub}
  BY DEF Begin
<1>c. rows \subseteq Ids \X Paths
  BY DEF ServiceSound, TablesSound, Document
<1>d. {r[1] : r \in rows} = ids
  <2>1. \A id \in ids : <<id, docs[id].path>>[1] = id
    OBVIOUS
  <2> HIDE DEF ids
  <2> QED BY <2>1
<1>1. QueueSound'
  BY DEF ServiceSound, QueueSound, Begin
<1>2. HandSound'
  BY DEF ServiceSound, HandSound, Begin
<1>3. TablesSound'
  BY DEF ServiceSound, TablesSound, Begin
<1>4. JobSound'
  <2> HIDE DEF rows
  <2> QED BY <1>a, <1>b, <1>c DEF JobSound, Stages, Begin
<1>5. OrderSound'
  BY DEF ServiceSound, OrderSound, Queued, Begin
<1>6. ScopeSound'
  <2>1. job'.rows = rows /\ job'.target = t /\ job'.at = "decisions" /\ job'.upto = count
    BY <1>b
  <2> HIDE DEF rows, ids
  <2>2. RowIds' = ids
    BY <1>d, <2>1 DEF RowIds
  <2>3. docs' = docs /\ hand' = hand
    BY DEF Begin
  <2>4. \A id \in Ids : docs[id] # None /\ InScope(t, id[1], docs[id].path) => id \in ids
    BY DEF ids
  <2>5. hand # None => ~Answers(hand.sub)'
    BY <1>b, <2>3 DEF Answers
  <2> QED BY <2>1, <2>2, <2>3, <2>4, <2>5 DEF ScopeSound
<1>7. BarredSound'
  BY DEF ServiceSound, BarredSound, Queued, Begin
<1> QED BY <1>1, <1>2, <1>3, <1>4, <1>5, <1>6, <1>7 DEF ServiceSound

LEMMA DeleteDecisionsKeeps ==
    ASSUME ServiceSound, DeleteDecisions
    PROVE  ServiceSound'
<1> USE DEF tables, history
<1>a. /\ job # None /\ job.target \in Targets /\ job.at \in Stages
      /\ job.rows \subseteq Ids \X Paths
      /\ job = [target |-> job.target, at |-> job.at, rows |-> job.rows, left |-> job.left,
                upto |-> job.upto]
  BY DEF ServiceSound, JobSound, DeleteDecisions
<1>b. /\ job'.target = job.target /\ job'.at = "list" /\ job'.rows = job.rows
      /\ job'.left = job.left /\ job'.upto = job.upto
      /\ job' = [target |-> job'.target, at |-> job'.at, rows |-> job'.rows, left |-> job'.left,
                 upto |-> job'.upto]
  BY <1>a DEF DeleteDecisions
<1>1. QueueSound'
  BY DEF ServiceSound, QueueSound, DeleteDecisions
<1>2. HandSound'
  BY DEF ServiceSound, HandSound, DeleteDecisions
<1>3. TablesSound'
  BY DEF ServiceSound, TablesSound, DeleteDecisions
<1>4. JobSound'
  BY <1>a, <1>b DEF ServiceSound, JobSound, Stages, DeleteDecisions
<1>5. OrderSound'
  BY DEF ServiceSound, OrderSound, Queued, DeleteDecisions
<1>6. ScopeSound'
  BY <1>a, <1>b DEF ServiceSound, ScopeSound, Queued, Answers, RowIds, Early, DeleteDecisions
<1>7. BarredSound'
  BY DEF ServiceSound, BarredSound, Queued, DeleteDecisions
<1> QED BY <1>1, <1>2, <1>3, <1>4, <1>5, <1>6, <1>7 DEF ServiceSound

LEMMA ListQueuedKeeps ==
    ASSUME ServiceSound, ListQueued
    PROVE  ServiceSound'
<1> USE DEF tables, history
<1> DEFINE listed == {s \in Queued : /\ queue[s].writer = job.target.writer
                                     /\ \E op \in ToSet(queue[s].ops) : TargetedBy(op, job.target)}
<1>a. /\ job # None /\ job.target \in Targets /\ job.at \in Stages
      /\ job.rows \subseteq Ids \X Paths
      /\ job = [target |-> job.target, at |-> job.at, rows |-> job.rows, left |-> job.left,
                upto |-> job.upto]
  BY DEF ServiceSound, JobSound, ListQueued
<1>b. /\ job.at = "list" /\ job.target.scope # "user"
      /\ job'.target = job.target /\ job'.at = "discard" /\ job'.rows = job.rows
      /\ job'.left = listed /\ job'.upto = job.upto
      /\ job' = [target |-> job'.target, at |-> job'.at, rows |-> job'.rows, left |-> job'.left,
                 upto |-> job'.upto]
  BY <1>a DEF ListQueued
<1>1. QueueSound'
  BY DEF ServiceSound, QueueSound, ListQueued
<1>2. HandSound'
  BY DEF ServiceSound, HandSound, ListQueued
<1>3. TablesSound'
  BY DEF ServiceSound, TablesSound, ListQueued
<1>4. JobSound'
  <2>1. \A s \in listed : s \in Numbers /\ queue[s] # None /\ queue[s].writer = job.target.writer
    BY DEF Queued
  <2> HIDE DEF listed
  <2> QED BY <1>a, <1>b, <2>1 DEF ServiceSound, JobSound, Stages, ListQueued
<1>5. OrderSound'
  BY DEF ServiceSound, OrderSound, Queued, ListQueued
<1>6. ScopeSound'
  <2>1. ASSUME NEW s \in Queued, s \notin listed PROVE Clean(queue[s], job.target)
    <3> SUFFICES ASSUME NEW op \in ToSet(queue[s].ops), op.kind # "delete", op.path # None,
                        InScope(job.target, queue[s].writer, op.path)
                 PROVE  FALSE
      BY DEF Clean
    <3>1. queue[s].writer = job.target.writer
      BY <1>a, <1>b DEF InScope, Targets
    <3>2. op.kind \in {"put", "move", "decision"}
      <4>1. queue[s].ops \in Seq(Operation)
        BY DEF ServiceSound, QueueSound, Queued, Submission
      <4>2. op \in Operation
        BY <4>1 DEF ToSet
      <4> QED BY <4>2 DEF Operation
    <3>3. TargetedBy(op, job.target)
      BY <3>1, <3>2 DEF TargetedBy
    <3> QED BY <2>1, <3>1, <3>3
  <2> HIDE DEF listed
  <2>2. Queued' = Queued /\ \A s \in Queued : queue'[s] = queue[s]
    BY DEF ListQueued, Queued
  <2>3. \A s \in Queued : s \in job'.left \/ Clean(queue'[s], job'.target)
    BY <1>b, <2>1, <2>2
  <2> QED BY <1>a, <1>b, <2>2, <2>3
          DEF ServiceSound, ScopeSound, Answers, RowIds, Early, ListQueued
<1>7. BarredSound'
  BY DEF ServiceSound, BarredSound, Queued, ListQueued
<1> QED BY <1>1, <1>2, <1>3, <1>4, <1>5, <1>6, <1>7 DEF ServiceSound

\* _discard_service_submission: the operations of the scope go from one row of the queue,
\* and nothing else changes there.
LEMMA DiscardOneTrims ==
    ASSUME ServiceSound, DiscardOne
    PROVE  /\ job # None /\ job.at = "discard" /\ job.target \in Targets
           /\ job.target.scope # "user"
           /\ \E s \in job.left :
                  /\ s \in Numbers /\ queue[s] \in Submission /\ queue[s] # None
                  /\ queue[s].writer = job.target.writer
                  /\ queue' = [x \in Numbers |-> queue'[x]]
                  /\ \A x \in Numbers : x # s => queue'[x] = queue[x]
                  /\ queue'[s] \in Submission /\ queue'[s].writer = queue[s].writer
                  /\ queue'[s].ops = <<>> => queue[s].ops = <<>>
                  /\ \E S : queue'[s].ops \in {queue[s].ops, Keeping(S, queue[s].ops)}
                  /\ ToSet(queue'[s].ops) \subseteq ToSet(queue[s].ops)
                  /\ queue'[s].state = "queued" =>
                         /\ queue[s].state = "queued"
                         /\ \A op \in ToSet(queue'[s].ops) :
                                op \in Operation /\ ~TargetedBy(op, job.target)
                  /\ job'.target = job.target /\ job'.at = job.at /\ job'.rows = job.rows
                  /\ job'.left = job.left \ {s} /\ job'.upto = job.upto
                  /\ job' = [target |-> job'.target, at |-> job'.at, rows |-> job'.rows,
                             left |-> job'.left, upto |-> job'.upto]
<1> USE DEF tables, history
<1> DEFINE s == CHOOSE x \in job.left : \A y \in job.left : x <= y
           S == {op \in ToSet(queue[s].ops) : ~TargetedBy(op, job.target)}
           kept == Keeping(S, queue[s].ops)
<1>a. /\ job # None /\ job.at = "discard" /\ job.left # {} /\ job.target \in Targets
      /\ job.target.scope # "user"
      /\ \A x \in job.left : x \in Numbers /\ queue[x] # None /\ queue[x].writer = job.target.writer
      /\ job = [target |-> job.target, at |-> job.at, rows |-> job.rows, left |-> job.left,
                upto |-> job.upto]
  BY DEF ServiceSound, JobSound, DiscardOne
<1>b. s \in job.left
  <2> DEFINE T == job.left
  <2>1. T \in SUBSET Nat /\ T # {}
    BY <1>a DEF Numbers
  <2>2. \E x \in T : \A y \in T : x <= y
    <3> HIDE DEF T
    <3> QED BY <2>1, LeastNatural
  <2> QED BY <2>2
<1>c. /\ s \in Numbers /\ queue[s] \in Submission /\ queue[s] # None
      /\ queue[s].writer = job.target.writer /\ queue[s].ops \in Seq(Operation)
      /\ queue \in [Numbers -> Submission \cup {None}]
  <2> HIDE DEF s
  <2> QED BY <1>a, <1>b DEF ServiceSound, QueueSound, Submission
<1>d. /\ queue' = IF kept # <<>> THEN [queue EXCEPT ![s].ops = kept]
                  ELSE [queue EXCEPT ![s].state = "discarded"]
      /\ job' = [job EXCEPT !.left = @ \ {s}]
  BY DEF DiscardOne, Discarded
<1> HIDE DEF s
<1>e. kept \in Seq(Operation) /\ ToSet(kept) = ToSet(queue[s].ops) \cap S
  <2> HIDE DEF S
  <2> QED BY <1>c, KeepingKeeps
<1>f. \A op \in ToSet(kept) :
          op \in ToSet(queue[s].ops) /\ op \in Operation /\ ~TargetedBy(op, job.target)
  <2>1. \A op \in ToSet(queue[s].ops) : op \in Operation
    BY <1>c DEF ToSet
  <2> HIDE DEF kept
  <2> QED BY <1>e, <2>1
<1> HIDE DEF kept
<1>g. /\ queue'[s] \in Submission /\ queue'[s].writer = queue[s].writer
      /\ queue'[s].ops = <<>> => queue[s].ops = <<>>
      /\ ToSet(queue'[s].ops) \subseteq ToSet(queue[s].ops)
      /\ queue'[s].state = "queued" => /\ queue[s].state = "queued" /\ queue'[s].ops = kept
                                        /\ kept # <<>>
      /\ queue'[s].ops \in {queue[s].ops, Keeping(S, queue[s].ops)}
      /\ \A x \in Numbers : x # s => queue'[x] = queue[x]
      /\ queue' = [x \in Numbers |-> queue'[x]]
  <2>1. CASE kept # <<>>
    <3> DEFINE row == [queue[s] EXCEPT !.ops = kept]
    <3>1. row \in Submission /\ row.writer = queue[s].writer /\ row.ops = kept
          /\ row.state = queue[s].state
      BY <1>c, <1>e DEF Submission
    <3>2. queue' = [queue EXCEPT ![s] = row]
      BY <1>d, <2>1
    <3> HIDE DEF row
    <3>3. queue'[s] = row
      BY <1>c, <3>2
    <3>4. ToSet(kept) \subseteq ToSet(queue[s].ops)
      BY <1>f
    <3>5. \A x \in Numbers : x # s => queue'[x] = queue[x]
      BY <1>c, <3>2
    <3>6. queue' = [x \in Numbers |-> queue'[x]]
      BY <1>c, <3>2
    <3> QED BY <2>1, <3>1, <3>3, <3>4, <3>5, <3>6 DEF kept
  <2>2. CASE kept = <<>>
    <3> DEFINE row == [queue[s] EXCEPT !.state = "discarded"]
    <3>1. row \in Submission /\ row.writer = queue[s].writer /\ row.ops = queue[s].ops
          /\ row.state = "discarded"
      BY <1>c, <1>e DEF Submission, States
    <3>2. queue' = [queue EXCEPT ![s] = row]
      BY <1>d, <2>2
    <3> HIDE DEF row
    <3>3. queue'[s] = row
      BY <1>c, <3>2
    <3>4. \A x \in Numbers : x # s => queue'[x] = queue[x]
      BY <1>c, <3>2
    <3>5. queue' = [x \in Numbers |-> queue'[x]]
      BY <1>c, <3>2
    <3> QED BY <3>1, <3>3, <3>4, <3>5
  <2> QED BY <2>1, <2>2
<1>h. /\ job'.target = job.target /\ job'.at = job.at /\ job'.rows = job.rows
      /\ job'.left = job.left \ {s} /\ job'.upto = job.upto
      /\ job' = [target |-> job'.target, at |-> job'.at, rows |-> job'.rows, left |-> job'.left,
                 upto |-> job'.upto]
  BY <1>a, <1>d
<1> QED BY <1>a, <1>b, <1>c, <1>f, <1>g, <1>h

LEMMA DiscardOneKeeps ==
    ASSUME ServiceSound, DiscardOne
    PROVE  ServiceSound'
<1> USE DEF tables, history
<1>a. /\ job # None /\ job.at = "discard" /\ job.left # {} /\ job.target \in Targets
      /\ job.target.scope # "user"
      /\ \A x \in job.left : x \in Numbers /\ queue[x] # None /\ queue[x].writer = job.target.writer
  BY DEF ServiceSound, JobSound, DiscardOne
<1>b. PICK s \in job.left :
          /\ s \in Numbers /\ queue[s] \in Submission /\ queue[s] # None
          /\ queue[s].writer = job.target.writer
          /\ queue' = [x \in Numbers |-> queue'[x]]
          /\ \A x \in Numbers : x # s => queue'[x] = queue[x]
          /\ queue'[s] \in Submission /\ queue'[s].writer = queue[s].writer
          /\ queue'[s].ops = <<>> => queue[s].ops = <<>>
          /\ ToSet(queue'[s].ops) \subseteq ToSet(queue[s].ops)
          /\ queue'[s].state = "queued" =>
                 /\ queue[s].state = "queued"
                 /\ \A op \in ToSet(queue'[s].ops) : op \in Operation /\ ~TargetedBy(op, job.target)
          /\ job'.target = job.target /\ job'.at = job.at /\ job'.rows = job.rows
          /\ job'.left = job.left \ {s} /\ job'.upto = job.upto
          /\ job' = [target |-> job'.target, at |-> job'.at, rows |-> job'.rows,
                     left |-> job'.left, upto |-> job'.upto]
  BY DiscardOneTrims
<1>i. \A x \in Queued' : /\ x \in Queued /\ x \in Numbers
                         /\ \A t : Clean(queue[x], t) => Clean(queue'[x], t)
  <2>1. \A x \in Numbers : /\ queue'[x] # None => queue[x] # None
                           /\ queue'[x].state = "queued" => queue[x].state = "queued"
    BY <1>b
  <2>2. \A x \in Numbers : /\ ToSet(queue'[x].ops) \subseteq ToSet(queue[x].ops)
                           /\ queue'[x].writer = queue[x].writer
    BY <1>b
  <2>3. \A x \in Queued' : x \in Queued /\ x \in Numbers
    BY <2>1 DEF Queued
  <2> QED BY <2>2, <2>3 DEF Clean
<1>1. QueueSound'
  <2>1. ASSUME NEW x \in Numbers
        PROVE  /\ queue'[x] \in Submission \cup {None}
               /\ queue'[x] # None => x <= count
               /\ queue'[x] # None /\ queue'[x].ops = <<>> => <<>> \in Batches[queue'[x].writer]
    BY <1>b DEF ServiceSound, QueueSound
  <2>2. count' = count
    BY DEF DiscardOne
  <2> QED BY <1>b, <2>1, <2>2 DEF ServiceSound, QueueSound
<1>2. HandSound'
  BY DEF ServiceSound, HandSound, DiscardOne
<1>3. TablesSound'
  BY DEF ServiceSound, TablesSound, DiscardOne
<1>4. JobSound'
  <2>1. \A x \in job.left : queue'[x] # None /\ queue'[x].writer = queue[x].writer
    BY <1>a, <1>b, ServiceAssumption
  <2>2. count' = count
    BY DEF DiscardOne
  <2> QED BY <1>a, <1>b, <2>1, <2>2 DEF ServiceSound, JobSound
<1>5. OrderSound'
  BY <1>i DEF ServiceSound, OrderSound, DiscardOne
<1>6. ScopeSound'
  <2>1. s \in Queued' => Clean(queue'[s], job.target)
    <3> SUFFICES ASSUME s \in Queued', NEW op \in ToSet(queue'[s].ops), op.kind # "delete",
                        op.path # None, InScope(job.target, queue'[s].writer, op.path)
                 PROVE  FALSE
      BY DEF Clean
    <3>1. op \in Operation /\ ~TargetedBy(op, job.target)
      BY <1>b DEF Queued
    <3>2. op.kind \in {"put", "move", "decision"}
      BY <3>1 DEF Operation
    <3> QED BY <1>b, <3>1, <3>2 DEF TargetedBy
  <2>2. \A x \in Queued' : Answers(x) => x \in job'.left \/ Clean(queue'[x], job.target)
    BY <1>a, <1>b, <1>i, <2>1 DEF ServiceSound, ScopeSound
  <2>3. /\ hand' = hand /\ held' = held /\ docs' = docs /\ origin' = origin
        /\ decisions' = decisions
    BY DEF DiscardOne
  <2> QED BY <1>a, <1>b, <2>2, <2>3 DEF ServiceSound, ScopeSound, Answers, RowIds, Early
<1>7. BarredSound'
  BY <1>i DEF ServiceSound, BarredSound, DiscardOne
<1> QED BY <1>1, <1>2, <1>3, <1>4, <1>5, <1>6, <1>7 DEF ServiceSound

LEMMA DiscardDoneKeeps ==
    ASSUME ServiceSound, DiscardDone
    PROVE  ServiceSound'
<1> USE DEF tables, history
<1>a. /\ job # None /\ job.target \in Targets /\ job.at \in Stages
      /\ job.rows \subseteq Ids \X Paths
      /\ job = [target |-> job.target, at |-> job.at, rows |-> job.rows, left |-> job.left,
                upto |-> job.upto]
  BY DEF ServiceSound, JobSound, DiscardDone
<1>b. /\ job.at = "discard" /\ job.left = {}
      /\ job'.target = job.target /\ job'.at = "unlink" /\ job'.rows = job.rows
      /\ job'.left = job.rows /\ job'.upto = job.upto
      /\ job' = [target |-> job'.target, at |-> job'.at, rows |-> job'.rows, left |-> job'.left,
                 upto |-> job'.upto]
  BY <1>a DEF DiscardDone
<1>1. QueueSound'
  BY DEF ServiceSound, QueueSound, DiscardDone
<1>2. HandSound'
  BY DEF ServiceSound, HandSound, DiscardDone
<1>3. TablesSound'
  BY DEF ServiceSound, TablesSound, DiscardDone
<1>4. JobSound'
  BY <1>a, <1>b DEF ServiceSound, JobSound, Stages, DiscardDone
<1>5. OrderSound'
  BY DEF ServiceSound, OrderSound, Queued, DiscardDone
<1>6. ScopeSound'
  BY <1>a, <1>b DEF ServiceSound, ScopeSound, Queued, Answers, RowIds, Early, DiscardDone
<1>7. BarredSound'
  BY DEF ServiceSound, BarredSound, Queued, DiscardDone
<1> QED BY <1>1, <1>2, <1>3, <1>4, <1>5, <1>6, <1>7 DEF ServiceSound

LEMMA UnlinkOneKeeps ==
    ASSUME ServiceSound, NEW r \in job.rows, job # None, UnlinkOne(r)
    PROVE  ServiceSound'
<1> USE DEF tables, history
<1>a. /\ job # None /\ job.target \in Targets /\ job.at \in Stages
      /\ job.rows \subseteq Ids \X Paths
      /\ job = [target |-> job.target, at |-> job.at, rows |-> job.rows, left |-> job.left,
                upto |-> job.upto]
  BY DEF ServiceSound, JobSound, UnlinkOne
<1>b. /\ job.at = "unlink"
      /\ job'.target = job.target /\ job'.at = "unlink" /\ job'.rows = job.rows
      /\ job'.left = job.left \ {r} /\ job'.upto = job.upto
      /\ job' = [target |-> job'.target, at |-> job'.at, rows |-> job'.rows, left |-> job'.left,
                 upto |-> job'.upto]
  BY <1>a DEF UnlinkOne
<1>1. QueueSound'
  BY DEF ServiceSound, QueueSound, UnlinkOne
<1>2. HandSound'
  BY DEF ServiceSound, HandSound, UnlinkOne
<1>3. TablesSound'
  BY DEF ServiceSound, TablesSound, UnlinkOne
<1>4. JobSound'
  BY <1>a, <1>b DEF ServiceSound, JobSound, Stages, UnlinkOne
<1>5. OrderSound'
  BY DEF ServiceSound, OrderSound, Queued, UnlinkOne
<1>6. ScopeSound'
  BY <1>a, <1>b DEF ServiceSound, ScopeSound, Queued, Answers, RowIds, Early, UnlinkOne
<1>7. BarredSound'
  BY DEF ServiceSound, BarredSound, Queued, UnlinkOne
<1> QED BY <1>1, <1>2, <1>3, <1>4, <1>5, <1>6, <1>7 DEF ServiceSound

LEMMA DeleteRowsKeeps ==
    ASSUME ServiceSound, DeleteRows
    PROVE  ServiceSound'
<1> USE DEF tables, history
<1>a. /\ job # None /\ job.target \in Targets /\ job.at \in Stages
      /\ job.rows \subseteq Ids \X Paths
      /\ job = [target |-> job.target, at |-> job.at, rows |-> job.rows, left |-> job.left,
                upto |-> job.upto]
  BY DEF ServiceSound, JobSound, DeleteRows, FilesGone
<1>b. /\ job.at = "unlink"
      /\ job'.target = job.target /\ job'.at = "record" /\ job'.rows = job.rows
      /\ job'.left = job.left /\ job'.upto = job.upto
      /\ job' = [target |-> job'.target, at |-> job'.at, rows |-> job'.rows, left |-> job'.left,
                 upto |-> job'.upto]
  BY <1>a DEF DeleteRows, FilesGone
<1>c. \A id \in Ids : docs'[id] # None => docs'[id] = docs[id] /\ id \notin RowIds
  BY DEF DeleteRows
<1>1. QueueSound'
  BY DEF ServiceSound, QueueSound, DeleteRows
<1>2. HandSound'
  BY DEF ServiceSound, HandSound, DeleteRows
<1>3. TablesSound'
  BY DEF ServiceSound, TablesSound, DeleteRows
<1>4. JobSound'
  BY <1>a, <1>b DEF ServiceSound, JobSound, Stages, DeleteRows
<1>5. OrderSound'
  BY DEF ServiceSound, OrderSound, Queued, DeleteRows
<1>6. ScopeSound'
  <2>1. \A s : Answers(s)' = Answers(s)
    BY <1>b DEF Answers, DeleteRows
  <2>2. \A id \in Ids : (/\ docs'[id] # None
                         /\ InScope(job.target, id[1], docs'[id].path)
                         /\ Answers(origin[id])) => FALSE
    BY <1>a, <1>c DEF ServiceSound, ScopeSound
  <2> QED BY <1>a, <1>b, <2>1, <2>2
         DEF ServiceSound, ScopeSound, Queued, RowIds, Early, Answers, DeleteRows
<1>7. BarredSound'
  BY <1>c DEF ServiceSound, BarredSound, Queued, DeleteRows
<1> QED BY <1>1, <1>2, <1>3, <1>4, <1>5, <1>6, <1>7 DEF ServiceSound

LEMMA DeleteQueuedKeeps ==
    ASSUME ServiceSound, DeleteQueued
    PROVE  ServiceSound'
<1> USE DEF tables, history
<1>a. /\ job # None /\ job.target \in Targets /\ job.at \in Stages
      /\ job.rows \subseteq Ids \X Paths
      /\ job = [target |-> job.target, at |-> job.at, rows |-> job.rows, left |-> job.left,
                upto |-> job.upto]
  BY DEF ServiceSound, JobSound, DeleteQueued
<1>b. /\ job.at = "list" /\ job.target.scope = "user"
      /\ job'.target = job.target /\ job'.at = "purge" /\ job'.rows = job.rows
      /\ job'.left = job.left /\ job'.upto = job.upto
      /\ job' = [target |-> job'.target, at |-> job'.at, rows |-> job'.rows, left |-> job'.left,
                 upto |-> job'.upto]
  BY <1>a DEF DeleteQueued
<1>c. \A s \in Numbers : queue'[s] # None => queue'[s] = queue[s]
  BY DEF DeleteQueued
<1>d. \A s \in Queued' : /\ s \in Queued /\ queue'[s] = queue[s]
                         /\ UserOf[queue[s].writer] # job.target.user
  BY <1>c DEF DeleteQueued, Queued
<1>1. QueueSound'
  BY <1>c DEF ServiceSound, QueueSound, DeleteQueued
<1>2. HandSound'
  BY DEF ServiceSound, HandSound, DeleteQueued
<1>3. TablesSound'
  BY DEF ServiceSound, TablesSound, DeleteQueued
<1>4. JobSound'
  BY <1>a, <1>b DEF ServiceSound, JobSound, Stages, DeleteQueued
<1>5. OrderSound'
  BY <1>d DEF ServiceSound, OrderSound, DeleteQueued
<1>6. ScopeSound'
  <2>1. \A s \in Queued' : Clean(queue'[s], job'.target)
    BY <1>b, <1>d DEF Clean, InScope
  <2> QED BY <1>a, <1>b, <2>1 DEF ServiceSound, ScopeSound, RowIds, Early, Answers, DeleteQueued
<1>7. BarredSound'
  BY <1>d DEF ServiceSound, BarredSound, DeleteQueued
<1> QED BY <1>1, <1>2, <1>3, <1>4, <1>5, <1>6, <1>7 DEF ServiceSound

LEMMA PurgeKeeps ==
    ASSUME ServiceSound, Purge
    PROVE  ServiceSound'
<1> USE DEF tables, history
<1>a. /\ job # None /\ job.target \in Targets /\ job.at \in Stages
      /\ job.rows \subseteq Ids \X Paths
      /\ job = [target |-> job.target, at |-> job.at, rows |-> job.rows, left |-> job.left,
                upto |-> job.upto]
  BY DEF ServiceSound, JobSound, Purge
<1>b. /\ job.at = "purge" /\ job.target.scope = "user"
      /\ job'.target = job.target /\ job'.at = "rmtree" /\ job'.rows = job.rows
      /\ job'.left = job.left /\ job'.upto = job.upto
      /\ job' = [target |-> job'.target, at |-> job'.at, rows |-> job'.rows, left |-> job'.left,
                 upto |-> job'.upto]
  BY <1>a DEF Purge, ServiceSound, JobSound
<1>c. \A s \in Numbers : queue'[s] # None => queue'[s] = queue[s]
  BY DEF Purge
<1>d. \A s \in Queued' : s \in Queued /\ queue'[s] = queue[s]
  BY <1>c DEF Queued
<1>e. \A id \in Ids : docs'[id] # None => docs'[id] = docs[id] /\ UserOf[id[1]] # job.target.user
  BY DEF Purge
<1>1. QueueSound'
  BY <1>c DEF ServiceSound, QueueSound, Purge
<1>2. HandSound'
  BY DEF ServiceSound, HandSound, Purge
<1>3. TablesSound'
  BY DEF ServiceSound, TablesSound, Purge
<1>4. JobSound'
  BY <1>a, <1>b DEF ServiceSound, JobSound, Stages, Purge
<1>5. OrderSound'
  BY <1>d DEF ServiceSound, OrderSound, Purge
<1>6. ScopeSound'
  <2>1. \A id \in Ids : docs'[id] # None => ~InScope(job'.target, id[1], docs'[id].path)
    BY <1>b, <1>e DEF InScope
  <2> QED BY <1>a, <1>b, <1>d, <2>1 DEF ServiceSound, ScopeSound, RowIds, Early, Answers, Purge
<1>7. BarredSound'
  BY <1>d, <1>e DEF ServiceSound, BarredSound, Purge
<1> QED BY <1>1, <1>2, <1>3, <1>4, <1>5, <1>6, <1>7 DEF ServiceSound

LEMMA RemoveTreeKeeps ==
    ASSUME ServiceSound, RemoveTree
    PROVE  ServiceSound'
<1> USE DEF tables, history
<1>a. /\ job # None /\ job.target \in Targets /\ job.at \in Stages
      /\ job.rows \subseteq Ids \X Paths
      /\ job = [target |-> job.target, at |-> job.at, rows |-> job.rows, left |-> job.left,
                upto |-> job.upto]
  BY DEF ServiceSound, JobSound, RemoveTree
<1>b. /\ job.at = "rmtree"
      /\ job'.target = job.target /\ job'.at = "record" /\ job'.rows = job.rows
      /\ job'.left = job.left /\ job'.upto = job.upto
      /\ job' = [target |-> job'.target, at |-> job'.at, rows |-> job'.rows, left |-> job'.left,
                 upto |-> job'.upto]
  BY <1>a DEF RemoveTree
<1>1. QueueSound'
  BY DEF ServiceSound, QueueSound, RemoveTree
<1>2. HandSound'
  BY DEF ServiceSound, HandSound, RemoveTree
<1>3. TablesSound'
  BY DEF ServiceSound, TablesSound, RemoveTree
<1>4. JobSound'
  BY <1>a, <1>b DEF ServiceSound, JobSound, Stages, RemoveTree
<1>5. OrderSound'
  BY DEF ServiceSound, OrderSound, Queued, RemoveTree
<1>6. ScopeSound'
  BY <1>a, <1>b DEF ServiceSound, ScopeSound, Queued, Answers, RowIds, Early, RemoveTree
<1>7. BarredSound'
  BY DEF ServiceSound, BarredSound, Queued, RemoveTree
<1> QED BY <1>1, <1>2, <1>3, <1>4, <1>5, <1>6, <1>7 DEF ServiceSound

LEMMA FinishKeeps ==
    ASSUME ServiceSound, Finish
    PROVE  ServiceSound'
<1> USE DEF tables, history
<1>a. /\ job # None /\ job.target \in Targets /\ job.at \in Stages
      /\ job.rows \subseteq Ids \X Paths
      /\ job = [target |-> job.target, at |-> job.at, rows |-> job.rows, left |-> job.left,
                upto |-> job.upto]
  BY DEF ServiceSound, JobSound, Finish
<1>b. job' = None /\ job.at = "record"
  BY DEF Finish
<1>1. QueueSound'
  BY DEF ServiceSound, QueueSound, Finish
<1>2. HandSound'
  BY DEF ServiceSound, HandSound, Finish
<1>3. TablesSound'
  BY DEF ServiceSound, TablesSound, Finish
<1>4. JobSound'
  BY DEF ServiceSound, JobSound, Finish
<1>5. OrderSound'
  BY DEF ServiceSound, OrderSound, Queued, Finish
<1>6. ScopeSound'
  BY DEF ServiceSound, ScopeSound, Queued, Answers, RowIds, Early, Finish
<1>7. BarredSound'
  <2> DEFINE Kept(b) == /\ b \in Numbers \X Targets /\ b[1] <= count
                        /\ b[1] \in Queued => Clean(queue[b[1]], b[2])
                        /\ hand # None /\ hand.sub = b[1] => Clean(hand, b[2])
                        /\ \A id \in Ids : (docs[id] # None /\ origin[id] = b[1]) =>
                               ~InScope(b[2], id[1], docs[id].path)
                        /\ \A d \in decisions : (d.by = b[1] /\ d.path # None) =>
                               ~InScope(b[2], d.writer, d.path)
  <2>1. ASSUME NEW s \in 1..job.upto, s \notin held PROVE Kept(<<s, job.target>>)
    <3>1. Answers(s)
      BY <2>1 DEF Answers, ServiceSound, JobSound, Finish
    <3>2. s \in Numbers /\ s <= count
      <4>1. job.upto \in 0..count /\ count \in 0..MaxSubmissions /\ MaxSubmissions \in Nat
        BY <1>a, ServiceAssumption DEF ServiceSound, JobSound, QueueSound
      <4> QED BY <4>1 DEF Numbers
    <3> QED BY <1>a, <1>b, <3>1, <3>2 DEF ServiceSound, ScopeSound
  <2>2. \A b \in barred : Kept(b)
    BY DEF ServiceSound, BarredSound
  <2>3. barred' \subseteq barred \cup {<<s, job.target>> : s \in (1..job.upto) \ held}
    BY DEF Finish
  <2>4. \A b \in barred' : Kept(b)
    <3> SUFFICES ASSUME NEW b \in barred' PROVE Kept(b)
      OBVIOUS
    <3>1. CASE b \in barred
      BY <2>2, <3>1
    <3>2. CASE b \in {<<s, job.target>> : s \in (1..job.upto) \ held}
      <4>1. PICK s \in (1..job.upto) \ held : b = <<s, job.target>>
        BY <3>2
      <4>2. Kept(<<s, job.target>>)
        BY <2>1
      <4> HIDE DEF Kept
      <4> QED BY <4>1, <4>2
    <3> QED BY <2>3, <3>1, <3>2
  <2> QED BY <2>4 DEF BarredSound, Queued, Finish
<1> QED BY <1>1, <1>2, <1>3, <1>4, <1>5, <1>6, <1>7 DEF ServiceSound

LEMMA ManagerDiesKeeps ==
    ASSUME ServiceSound, ManagerDies
    PROVE  ServiceSound'
<1> USE DEF tables, history
<1>1. QueueSound'
  BY DEF ServiceSound, QueueSound, ManagerDies
<1>2. HandSound'
  BY DEF ServiceSound, HandSound, ManagerDies
<1>3. TablesSound'
  BY DEF ServiceSound, TablesSound, ManagerDies
<1>4. JobSound'
  BY DEF ServiceSound, JobSound, ManagerDies
<1>5. OrderSound'
  BY DEF ServiceSound, OrderSound, Queued, ManagerDies
<1>6. ScopeSound'
  BY DEF ServiceSound, ScopeSound, Queued, Answers, RowIds, Early, ManagerDies
<1>7. BarredSound'
  BY DEF ServiceSound, BarredSound, Queued, ManagerDies
<1> QED BY <1>1, <1>2, <1>3, <1>4, <1>5, <1>6, <1>7 DEF ServiceSound

-----------------------------------------------------------------------------
(***************************************************************************)
(* Theorems                                                                *)
(***************************************************************************)

\* ServiceSound is inductive.
LEMMA ServiceInductive ==
    /\ Init => ServiceSound
    /\ ServiceSound /\ [Next]_vars => ServiceSound'
<1>1. Init => ServiceSound
  <2> SUFFICES ASSUME Init PROVE ServiceSound
    OBVIOUS
  <2> USE ServiceAssumption DEF Init
  <2>1. QueueSound /\ HandSound /\ TablesSound /\ JobSound
    BY DEF QueueSound, HandSound, TablesSound, JobSound
  <2>2. OrderSound
    BY DEF OrderSound, Queued
  <2>3. ScopeSound /\ BarredSound
    BY DEF ScopeSound, BarredSound
  <2> QED BY <2>1, <2>2, <2>3 DEF ServiceSound
<1>2. ServiceSound /\ [Next]_vars => ServiceSound'
  <2> SUFFICES ASSUME ServiceSound, [Next]_vars PROVE ServiceSound'
    OBVIOUS
  <2>1. CASE UNCHANGED vars
    <3> USE <2>1 DEF vars, tables, history
    <3>1. QueueSound' /\ HandSound' /\ TablesSound' /\ JobSound'
      BY DEF ServiceSound, QueueSound, HandSound, TablesSound, JobSound
    <3>2. OrderSound'
      BY DEF ServiceSound, OrderSound, Queued
    <3>3. ScopeSound'
      BY DEF ServiceSound, ScopeSound, Queued, Answers, RowIds
    <3>4. BarredSound'
      BY DEF ServiceSound, BarredSound, Queued
    <3> QED BY <3>1, <3>2, <3>3, <3>4 DEF ServiceSound
  <2>2. CASE \E w \in Writers : RegisterPrefix(w) \/ \E ops \in Batches[w] : Enqueue(w, ops)
    BY <2>2, RegisterPrefixKeeps, EnqueueKeeps
  <2>3. CASE Applier \/ ApplierDies
    BY <2>3, PickKeeps, ApplyKeeps, ApplyRaisesKeeps, MarkKeeps, ApplierDiesKeeps DEF Applier
  <2>4. CASE Manager \/ ManagerDies
    <3>1. CASE \E t \in Targets : Begin(t)
      BY <3>1, BeginKeeps
    <3>2. CASE \E r \in (IF job = None THEN {} ELSE job.rows) : UnlinkOne(r)
      BY <3>2, UnlinkOneKeeps
    <3> QED BY <2>4, <3>1, <3>2, DeleteDecisionsKeeps, ListQueuedKeeps, DiscardOneKeeps,
               DiscardDoneKeeps, DeleteRowsKeeps, DeleteQueuedKeeps, PurgeKeeps,
               RemoveTreeKeeps, FinishKeeps, ManagerDiesKeeps DEF Manager
  <2> QED BY <2>1, <2>2, <2>3, <2>4 DEF Next
<1> QED BY <1>1, <1>2

\* ServiceSound holds in every state of Spec.
THEOREM ServiceInvariant == Spec => []ServiceSound
BY ServiceInductive, PTL DEF Spec

\* The tables, the applier's row and the manager's deletion always have their types, and a
\* submission never loses its last operation without being discarded.
THEOREM ServiceTyped == Spec => []TypeOK
<1>1. ServiceSound => TypeOK
  <2> SUFFICES ASSUME ServiceSound PROVE TypeOK
    OBVIOUS
  <2>1. \A s \in Numbers : queue[s] # None =>
            /\ queue[s].writer \in Writers /\ queue[s].state \in States /\ s <= count
            /\ queue[s].ops = <<>> => <<>> \in Batches[queue[s].writer]
    BY DEF ServiceSound, QueueSound, Submission
  <2>2. hand # None => hand.sub \in Numbers /\ hand.at \in {"read", "applied", "failed"}
    BY DEF ServiceSound, HandSound, InHand
  <2>3. \A id \in Ids : docs[id] # None => docs[id] \in Document
    BY DEF ServiceSound, TablesSound
  <2>4. job # None => /\ job.target \in Targets /\ job.at \in Stages
                      /\ job.rows \subseteq Ids \X Paths /\ job.upto \in 0..count
    BY DEF ServiceSound, JobSound
  <2> QED BY <2>1, <2>2, <2>3, <2>4 DEF TypeOK, ServiceSound, TablesSound
<1> QED BY <1>1, ServiceInvariant, PTL

\* A finished deletion is final: nothing that was queued when it began, and was not in the
\* applier's hand, puts a document or a decision back into its scope.
THEOREM DeletedStaysDeletedAlways == Spec => []DeletedStaysDeleted
<1>1. ServiceSound => DeletedStaysDeleted
  BY DEF ServiceSound, BarredSound, DeletedStaysDeleted
<1> QED BY <1>1, ServiceInvariant, PTL

\* The submission that a document comes from never gives way to an earlier one, although
\* the applier may die and apply a submission again.
THEOREM LatestAlwaysWins == Spec => LatestWins
<1>1. ServiceSound /\ [Next]_vars => [\A id \in Ids : origin'[id] >= origin[id]]_vars
  <2> SUFFICES ASSUME ServiceSound, Next PROVE \A id \in Ids : origin'[id] >= origin[id]
    OBVIOUS
  <2>1. \A id \in Ids : origin[id] \in Nat
    BY DEF ServiceSound, OrderSound, QueueSound
  <2>2. CASE UNCHANGED origin
    BY <2>1, <2>2
  <2>3. CASE Apply
    <3>1. /\ origin' = [id \in Ids |-> IF id \in Written THEN hand.sub ELSE origin[id]]
          /\ hand # None
      BY <2>3 DEF Apply
    <3>2. hand.sub \in Nat /\ \A id \in Ids : origin[id] <= hand.sub
      BY <3>1 DEF ServiceSound, HandSound, InHand, Numbers, OrderSound
    <3> QED BY <2>1, <3>1, <3>2
  <2>4. UNCHANGED origin \/ Apply
    <3> USE DEF tables, history
    <3>1. CASE \E w \in Writers : RegisterPrefix(w) \/ \E ops \in Batches[w] : Enqueue(w, ops)
      BY <3>1 DEF RegisterPrefix, Enqueue
    <3>2. CASE Applier \/ ApplierDies
      BY <3>2 DEF Applier, Pick, ApplyRaises, Mark, ApplierDies
    <3>3. CASE Manager \/ ManagerDies
      <4>1. CASE \E t \in Targets : Begin(t)
        BY <4>1 DEF Begin
      <4>2. CASE DeleteDecisions \/ ListQueued \/ DiscardOne \/ DiscardDone
        BY <4>2 DEF DeleteDecisions, ListQueued, DiscardOne, DiscardDone
      <4>3. CASE \E r \in (IF job = None THEN {} ELSE job.rows) : UnlinkOne(r)
        BY <4>3 DEF UnlinkOne
      <4>4. CASE DeleteRows \/ DeleteQueued \/ Purge \/ RemoveTree
        BY <4>4 DEF DeleteRows, DeleteQueued, Purge, RemoveTree
      <4>5. CASE Finish \/ ManagerDies
        BY <4>5 DEF Finish, ManagerDies
      <4> QED BY <3>3, <4>1, <4>2, <4>3, <4>4, <4>5 DEF Manager
    <3> QED BY <3>1, <3>2, <3>3 DEF Next
  <2> QED BY <2>2, <2>3, <2>4
<1> QED BY <1>1, ServiceInvariant, PTL DEF Spec, LatestWins

-----------------------------------------------------------------------------
(***************************************************************************)
(* What store.submit refuses: the order of the operations leaves none of   *)
(* them out, and the simulation looks at the path of each.                 *)
(***************************************************************************)
\* The order that the plan uses is the one of CtxfsOrder.
LEMMA SameOrder ==
    ASSUME NEW ops, NEW paths, NEW w
    PROVE  Batch!OrderedOperations(ops, paths, w) = OrderedOperations(ops, paths, w)
<1>1. \A moves : Batch!VisitMoves(moves, paths, w) = VisitMoves(moves, paths, w)
  BY DEF Batch!VisitMoves, VisitMoves, Batch!VisitChain, VisitChain, Batch!Iterate, Iterate,
         Batch!Dependency, Dependency, Batch!ToSet, ToSet, Batch!Last, Last,
         Batch!Reverse, Reverse
<1> QED BY <1>1, SameOfKind DEF Batch!OrderedOperations, OrderedOperations

\* _ordered_operations keeps every operation.
LEMMA PlanKeepsAll ==
    ASSUME NEW ops \in Seq(Operation), NEW paths, NEW w
    PROVE  LET ordered == Batch!OrderedOperations(ops, paths, w)
           IN  ordered \in Seq(Operation) /\ ToSet(ops) \subseteq ToSet(ordered)
<1>1. \A op \in Operation : op.kind \in {"put", "move", "delete", "decision"}
  BY DEF Operation
<1>2. /\ OrderedOperations(ops, paths, w) \in Seq(Operation)
      /\ ToSet(OrderedOperations(ops, paths, w)) = ToSet(ops)
  BY <1>1, OrderedHolds
<1> QED BY <1>2, SameOrder

\* The two maps of the simulation, and whether it has gone well so far.
Simulation == [ok : BOOLEAN, paths : [Ids -> Paths \cup {None}],
               sources : [Paths -> Ids \cup {None}]]

\* The simulation looks whether the path of an operation is the writer's.
Allowed(w, op) ==
    op.kind # "delete" /\ op.path # None => w \in granted /\ op.path \in Authorized[w]

\* The two maps show what an operation would leave.
Agrees(sim, w, op) ==
    /\ op.kind = "delete" => sim.paths[<<w, op.key>>] = None
    /\ op.kind \in {"put", "move"} => /\ sim.paths[<<w, op.key>>] = op.path
                                      /\ sim.sources[op.path] = <<w, op.key>>

\* An operation outside of the writer's prefixes ends the simulation, and one that is done
\* already leaves it as it is.
LEMMA PreflightStepKeeps ==
    ASSUME NEW sim \in Simulation, NEW w \in Writers, NEW op \in Operation, NEW moving
    PROVE  LET next == Batch!PreflightStep(sim, w, op, moving)
           IN  /\ next \in Simulation
               /\ next.ok => sim.ok /\ Allowed(w, op)
               /\ sim.ok /\ Allowed(w, op) /\ Agrees(sim, w, op) => next = sim
<1> DEFINE Auth == [v \in Writers |-> IF v \in granted THEN Authorized[v] ELSE {}]
           id == <<w, op.key>>
           Resettled(p) == Batch!Resettle(sim, id, p)
           failed == [sim EXCEPT !.ok = FALSE]
<1>1. /\ id \in Ids /\ Auth[w] \subseteq Paths
      /\ Allowed(w, op) = ((op.kind # "delete" /\ op.path # None) => op.path \in Auth[w])
  BY ServiceAssumption DEF Ids, Operation, Allowed
<1>2. failed \in Simulation /\ ~failed.ok
  BY DEF Simulation
<1>3. ASSUME NEW p \in Paths PROVE Resettled(p) \in Simulation /\ Resettled(p).ok = sim.ok
  <2> DEFINE old == sim.paths[id]
             vacated == IF old \in Paths /\ old # p THEN [sim.sources EXCEPT ![old] = None]
                        ELSE sim.sources
  <2>1. vacated \in [Paths -> Ids \cup {None}]
    BY DEF Simulation
  <2>2. Resettled(p) = [sim EXCEPT !.paths[id] = p, !.sources = [vacated EXCEPT ![p] = id]]
    BY DEF Batch!Resettle
  <2> HIDE DEF vacated
  <2>3. [vacated EXCEPT ![p] = id] \in [Paths -> Ids \cup {None}]
    BY <1>1, <2>1
  <2>4. [sim.paths EXCEPT ![id] = p] \in [Ids -> Paths \cup {None}]
    BY <1>1 DEF Simulation
  <2> HIDE DEF id, Resettled
  <2> QED BY <2>2, <2>3, <2>4 DEF Simulation
<1>10. op.kind \in {"put", "move"} => op.path \in Paths /\ op.path # None
  BY ServiceAssumption DEF Operation
<1>11. ASSUME sim.paths[id] \in Paths, sim.sources[sim.paths[id]] = id
       PROVE  Resettled(sim.paths[id]) = sim
  <2> DEFINE p == sim.paths[id]
  <2>1. Resettled(p) = [sim EXCEPT !.paths[id] = p, !.sources = [sim.sources EXCEPT ![p] = id]]
    BY DEF Batch!Resettle
  <2>2. [sim.paths EXCEPT ![id] = p] = sim.paths /\ [sim.sources EXCEPT ![p] = id] = sim.sources
    <3>1. sim.paths \in [Ids -> Paths \cup {None}] /\ sim.sources \in [Paths -> Ids \cup {None}]
      BY DEF Simulation
    <3> QED BY <1>1, <1>11, <3>1
  <2>3. sim = [ok |-> sim.ok, paths |-> sim.paths, sources |-> sim.sources]
    BY DEF Simulation
  <2> HIDE DEF p, Resettled, id
  <2> QED BY <2>1, <2>2, <2>3 DEF p
<1> HIDE DEF failed
<1>4. CASE ~sim.ok
  BY <1>4 DEF Batch!PreflightStep
<1>5. CASE sim.ok /\ op.kind = "put"
  <2>1. Batch!PreflightStep(sim, w, op, moving) = Batch!PreflightPut(sim, w, op)
    BY <1>5 DEF Batch!PreflightStep
  <2>2. Batch!PreflightPut(sim, w, op) =
            IF op.path \in Auth[w] /\ sim.sources[op.path] \in {None, id} THEN Resettled(op.path)
            ELSE failed
    BY DEF Batch!PreflightPut, failed
  <2>3. Agrees(sim, w, op) => sim.paths[id] = op.path /\ sim.sources[op.path] = id
    BY <1>5 DEF Agrees
  <2> HIDE DEF Auth, Resettled, id
  <2> QED BY <1>1, <1>2, <1>3, <1>5, <1>10, <1>11, <2>1, <2>2, <2>3
<1>6. CASE sim.ok /\ op.kind = "move"
  <2> DEFINE old == sim.paths[id]
  <2>1. Batch!PreflightStep(sim, w, op, moving) = Batch!PreflightMove(sim, w, op, moving)
    BY <1>6 DEF Batch!PreflightStep
  <2>2. Batch!PreflightMove(sim, w, op, moving) =
            IF op.path \in Auth[w] /\ old # None /\ old \in Auth[w]
               /\ sim.sources[op.path] \in {None, id} \cup moving
            THEN IF old = op.path THEN sim ELSE Resettled(op.path)
            ELSE failed
    BY DEF Batch!PreflightMove, failed
  <2>3. Agrees(sim, w, op) => old = op.path /\ sim.sources[op.path] = id
    BY <1>6 DEF Agrees
  <2> HIDE DEF Auth, Resettled, id, old
  <2> QED BY <1>1, <1>2, <1>3, <1>6, <1>10, <2>1, <2>2, <2>3
<1>7. CASE sim.ok /\ op.kind = "delete"
  <2> DEFINE old == sim.paths[id]
             gone == [sim EXCEPT !.paths[id] = None, !.sources[old] = None]
  <2>1. Batch!PreflightStep(sim, w, op, moving) = Batch!PreflightDelete(sim, w, op)
    BY <1>7 DEF Batch!PreflightStep
  <2>2. Batch!PreflightDelete(sim, w, op) =
            IF old = None THEN sim ELSE IF old \notin Auth[w] THEN failed ELSE gone
    BY DEF Batch!PreflightDelete, failed
  <2>3. [sim.paths EXCEPT ![id] = None] \in [Ids -> Paths \cup {None}]
        /\ [sim.sources EXCEPT ![old] = None] \in [Paths -> Ids \cup {None}]
    BY DEF Simulation
  <2>4. gone \in Simulation
    <3> HIDE DEF id, old
    <3> QED BY <2>3 DEF Simulation
  <2>5. Agrees(sim, w, op) => old = None
    BY <1>7 DEF Agrees
  <2>6. gone.ok = sim.ok
    BY DEF Simulation
  <2> HIDE DEF Auth, old, gone
  <2> QED BY <1>1, <1>2, <1>7, <2>1, <2>2, <2>4, <2>5, <2>6
<1>8. CASE sim.ok /\ op.kind = "decision"
  <2>1. Batch!PreflightStep(sim, w, op, moving) = Batch!PreflightDecision(sim, w, op)
    BY <1>8 DEF Batch!PreflightStep
  <2>2. Batch!PreflightDecision(sim, w, op) =
            IF op.path = None \/ op.path \in Auth[w] THEN sim ELSE failed
    BY DEF Batch!PreflightDecision, failed
  <2> HIDE DEF Auth
  <2> QED BY <1>1, <1>2, <1>8, <2>1, <2>2
<1>9. op.kind \in {"put", "move", "delete", "decision"}
  BY DEF Operation
<1> QED BY <1>4, <1>5, <1>6, <1>7, <1>8, <1>9 DEF Simulation

\* A batch that passes the simulation writes only where its writer may; one that would
\* leave the documents as they are passes.
LEMMA PreflightHolds ==
    ASSUME NEW ordered \in Seq(Operation), NEW rows \in [Ids -> Filed \cup {None}],
           NEW w \in Writers
    PROVE  /\ Batch!Preflight(ordered, rows, w) => \A op \in ToSet(ordered) : Allowed(w, op)
           /\ (/\ Apart(rows)
               /\ \A op \in ToSet(ordered) : Allowed(w, op) /\ Done(rows, w, op))
              => Batch!Preflight(ordered, rows, w)
<1> DEFINE N == Len(ordered)
           V == Simulation
           first == [ok |-> TRUE, paths |-> Batch!PathsBySource(rows),
                     sources |-> Batch!SourcesByPath(rows)]
           moving == {<<w, op.key>> : op \in Batch!ToSet(Batch!OfKind(ordered, "move"))}
           Next1(k, n) == Batch!PreflightStep(k, w, ordered[n], moving)
           Eqn(a) == a = [n \in 0..N |->
               IF n = 0 THEN first ELSE CHOOSE r \in {Next1(k, n) : k \in {a[n - 1]}} : TRUE]
           F == CHOOSE a : Eqn(a)
           Fits == \A i \in 1..N : Allowed(w, ordered[i]) /\ Agrees(first, w, ordered[i])
           After(n) == {k \in V : /\ k.ok => \A i \in 1..n : Allowed(w, ordered[i])
                                  /\ Fits => k = first}
<1>1. Batch!Preflight(ordered, rows, w) = F[N].ok
  BY DEF Batch!Preflight, Batch!Iterate
<1>2. N \in Nat
  OBVIOUS
<1> HIDE DEF moving
<1>3. ASSUME NEW n \in 1..N, NEW k \in After(n - 1) PROVE Next1(k, n) \in After(n)
  <2>4. first.ok
    OBVIOUS
  <2> HIDE DEF first
  <2>5. Fits => Allowed(w, ordered[n]) /\ Agrees(first, w, ordered[n])
    BY <1>2
  <2> HIDE DEF Fits
  <2>1. /\ k \in Simulation /\ ordered[n] \in Operation
        /\ k.ok => \A i \in 1..(n - 1) : Allowed(w, ordered[i])
        /\ Fits => k = first
    OBVIOUS
  <2>2. /\ Next1(k, n) \in Simulation
        /\ Next1(k, n).ok => k.ok /\ Allowed(w, ordered[n])
        /\ k.ok /\ Allowed(w, ordered[n]) /\ Agrees(k, w, ordered[n]) => Next1(k, n) = k
    BY <2>1, PreflightStepKeeps
  <2>3. \A i \in 1..n : i \in 1..(n - 1) \/ i = n
    OBVIOUS
  <2> HIDE DEF Next1
  <2> QED BY <2>1, <2>2, <2>3, <2>4, <2>5
<1>4. first \in After(0)
  <2>1. Batch!PathsBySource(rows) \in [Ids -> Paths \cup {None}]
    BY DEF Batch!PathsBySource, Batch!Ids, Ids, Filed
  <2>2. Batch!SourcesByPath(rows) \in [Paths -> Ids \cup {None}]
    BY DEF Batch!SourcesByPath, Batch!Ids, Ids
  <2>3. first \in Simulation
    BY <2>1, <2>2 DEF Simulation
  <2> QED BY <2>3
<1>5. \E a : Eqn(a)
  <2> DEFINE A == [n \in 0..N |-> After(n)]
             f == [n \in 1..N |-> [k \in V |-> Next1(k, n)]]
  <2>1. \A n \in 0..N : After(n) \subseteq V
    OBVIOUS
  <2> HIDE DEF N, Next1, After, V, first
  <2>2. A \in [0..N -> SUBSET V] /\ \A n \in 0..N : A[n] = After(n)
    BY <2>1
  <2>3. \A n \in 1..N : \A k \in V : f[n][k] = Next1(k, n)
    OBVIOUS
  <2>4. 0 \in 0..N /\ \A n \in 1..N : n \in 0..N /\ n - 1 \in 0..N
    BY <1>2
  <2> HIDE DEF A, f
  <2>5. \A n \in 1..N : \A k \in A[n - 1] : f[n][k] \in A[n]
    BY <1>3, <2>1, <2>2, <2>3, <2>4
  <2>6. first \in A[0]
    BY <1>4, <2>2, <2>4
  <2>7. PICK g \in [0..N -> V] : g[0] = first /\ \A n \in 1..N : g[n] = f[n][g[n - 1]]
    <3>1. Closed(N, A, f)
      BY <2>5 DEF Closed
    <3>2. Solved(N, V, first, f)
      BY <1>2, <2>2, <2>6, <3>1, Accumulates
    <3> QED BY <3>2 DEF Solved
  <2>8. ASSUME NEW n \in 0..N
        PROVE  g[n] = IF n = 0 THEN first
                      ELSE CHOOSE r \in {Next1(k, n) : k \in {g[n - 1]}} : TRUE
    <3>1. CASE n = 0
      BY <2>7, <3>1
    <3>2. CASE n \in 1..N
      <4>1. g[n - 1] \in V
        BY <2>4, <3>2
      <4>2. {Next1(k, n) : k \in {g[n - 1]}} = {Next1(g[n - 1], n)}
        OBVIOUS
      <4>3. (CHOOSE r \in {Next1(g[n - 1], n)} : TRUE) = Next1(g[n - 1], n)
        OBVIOUS
      <4> QED BY <1>2, <2>3, <2>7, <3>2, <4>1, <4>2, <4>3
    <3> QED BY <1>2, <3>1, <3>2
  <2>9. Eqn(g)
    BY <2>8
  <2> QED BY <2>9
<1>6. Eqn(F)
  BY <1>5
<1>7. F[0] = first /\ \A n \in 1..N : F[n] = Next1(F[n - 1], n)
  <2> HIDE DEF Next1, F, N, first
  <2> QED BY <1>2, <1>6
<1>8. \A n \in 0..N : F[n] \in After(n)
  <2> DEFINE Holds == {n \in 0..N : F[n] \in After(n)}
  <2> HIDE DEF F, N, After, Next1, first
  <2>1. 0 \in 0..N /\ \A n \in 1..N : n \in 0..N /\ n - 1 \in 0..N
    BY <1>2
  <2>2. 0 \in Holds
    BY <1>4, <1>7, <2>1
  <2>3. \A n \in 1..N : n - 1 \in Holds => n \in Holds
    BY <1>3, <1>7, <2>1
  <2>4. \A n \in 0..N : n \in Holds
    <3> HIDE DEF Holds
    <3> QED BY <1>2, <2>2, <2>3, Upward
  <2> QED BY <2>4
<1>9. F[N] \in After(N)
  <2> HIDE DEF F, N, After
  <2> QED BY <1>2, <1>8
<1>10. ToSet(ordered) = {ordered[i] : i \in 1..N}
  BY DEF ToSet
<1>11. Batch!Preflight(ordered, rows, w) => \A op \in ToSet(ordered) : Allowed(w, op)
  <2> HIDE DEF F
  <2> QED BY <1>1, <1>9, <1>10
<1>12. ASSUME Apart(rows), \A op \in ToSet(ordered) : Allowed(w, op) /\ Done(rows, w, op)
       PROVE  Fits
  <2> SUFFICES ASSUME NEW i \in 1..N PROVE Agrees(first, w, ordered[i])
    BY <1>10, <1>12
  <2> DEFINE op == ordered[i]
             id == <<w, op.key>>
  <2>1. op \in Operation /\ id \in Ids /\ Done(rows, w, op)
    BY <1>10, <1>12 DEF Ids, Operation
  <2>2. op.kind = "delete" => first.paths[id] = None
    BY <2>1 DEF Done, Batch!PathsBySource, Batch!Ids, Ids
  <2>3. ASSUME op.kind \in {"put", "move"}
        PROVE  first.paths[id] = op.path /\ first.sources[op.path] = id
    <3>1. rows[id] # None /\ rows[id].path = op.path /\ op.path \in Paths
      BY <2>1, <2>3 DEF Done, Operation
    <3> HIDE DEF id, op
    <3>2. {x \in Ids : rows[x] # None /\ rows[x].path = op.path} = {id}
      BY <1>12, <2>1, <3>1 DEF Apart
    <3>3. first.sources[op.path] =
              IF {x \in Ids : rows[x] # None /\ rows[x].path = op.path} = {} THEN None
              ELSE CHOOSE x \in {x \in Ids : rows[x] # None /\ rows[x].path = op.path} : TRUE
      BY <3>1 DEF Batch!SourcesByPath, Batch!Ids, Ids
    <3>4. first.sources[op.path] = id
      BY <3>2, <3>3
    <3>5. first.paths[id] = op.path
      BY <2>1, <3>1 DEF Batch!PathsBySource, Batch!Ids, Ids
    <3> QED BY <3>4, <3>5
  <2> HIDE DEF first
  <2> QED BY <2>2, <2>3 DEF Agrees
<1>13. Fits => Batch!Preflight(ordered, rows, w)
  <2>1. first.ok
    OBVIOUS
  <2> HIDE DEF F, Fits, first
  <2> QED BY <1>1, <1>9, <2>1
<1> QED
  <2> HIDE DEF Fits
  <2> QED BY <1>11, <1>12, <1>13

\* An accepted batch writes only where its writer may.
LEMMA SubmittedIsGranted ==
    ASSUME NEW w \in Writers, NEW rows \in [Ids -> Filed \cup {None}],
           NEW ops \in Seq(Operation), Batch!Submitted(rows, w, ops).ok
    PROVE  \A op \in ToSet(ops) : Allowed(w, op)
<1> DEFINE ordered == Batch!OrderedOperations(ops, Batch!PathsBySource(rows), w)
<1>1. Batch!Preflight(ordered, rows, w)
  BY DEF Batch!Submitted
<1>2. ordered \in Seq(Operation) /\ ToSet(ops) \subseteq ToSet(ordered)
  BY PlanKeepsAll
<1> HIDE DEF ordered
<1> QED BY <1>1, <1>2, PreflightHolds

-----------------------------------------------------------------------------
(***************************************************************************)
(* The inductive invariant, on top of ServiceSound                         *)
(***************************************************************************)
\* Documents are where their writer may write, each at a path of its own.
PlacesSound ==
    /\ Apart(docs)
    /\ \A id \in Ids : docs[id] # None => docs[id].path \in Authorized[id[1]]
    /\ \A p \in tree : \E w \in Writers : p \in Authorized[w]

\* The rows that the running deletion has read, unless a submission came in between.
RowsSound ==
    job # None =>
        /\ \A r \in job.rows : \A id \in Ids \ raced :
               (docs[id] # None /\ docs[id].path = r[2]) => id = r[1]
        /\ \A r \in job.rows : docs[r[1]] # None =>
               docs[r[1]].path = r[2] \/ docs[r[1]].path \in raced
        /\ job.at = "unlink" => \A r \in job.rows :
               r \in job.left \/ r[2] \notin tree \/ r[2] \in raced
        /\ job.at = "rmtree" => \A id \in Ids \ raced :
               docs[id] # None => UserOf[id[1]] # job.target.user

\* Files without a document, and documents without a file.
FilesSound ==
    /\ \A p \in tree \ raced :
           \/ \E id \in Ids : docs[id] # None /\ docs[id].path = p
           \/ UserOf[Owner(p)] \in halved
           \/ job # None /\ job.at = "rmtree" /\ job.target.user = UserOf[Owner(p)]
    /\ \A id \in Ids \ raced : docs[id] # None =>
           \/ docs[id].path \in tree
           \/ id \in halved
           \/ job # None /\ job.at = "unlink" /\ id \in RowIds

TreeSound == PlacesSound /\ RowsSound /\ FilesSound

-----------------------------------------------------------------------------
(***************************************************************************)
(* One lemma per step.  ServiceSound is known of every state.              *)
(***************************************************************************)

\* The grants of two writers share no path, so a path in a grant has one owner.
LEMMA OwnerIs ==
    ASSUME NEW w \in Writers, NEW p \in Authorized[w]
    PROVE  Owner(p) = w
<1>1. \A v \in Writers : p \in Authorized[v] => v = w
  BY ServiceAssumption
<1>2. Owner(p) \in Writers /\ p \in Authorized[Owner(p)]
  BY DEF Owner
<1> QED BY <1>1, <1>2

\* A deletion that goes on is not None.
LEMMA DeletionIsSome ==
    ASSUME NEW t \in Targets, NEW stage \in Stages, NEW rows, rows \subseteq Ids \X Paths,
           NEW left, left \subseteq Numbers \cup (Ids \X Paths), NEW upto \in Nat
    PROVE  [target |-> t, at |-> stage, rows |-> rows, left |-> left, upto |-> upto] # None
<1>1. [target |-> t, at |-> stage, rows |-> rows, left |-> left, upto |-> upto] \in Deletion
  <2> HIDE DEF Targets, Stages
  <2> QED BY DEF Deletion
<1> QED BY <1>1, DeletionAssumption

\* Writers and the applier, except for Apply.
LEMMA QuietSteps ==
    ASSUME TreeSound, UNCHANGED <<docs, tree, raced, halved, job>>
    PROVE  TreeSound'
<1>1. PlacesSound'
  BY DEF TreeSound, PlacesSound, Apart
<1>2. RowsSound'
  BY DEF TreeSound, RowsSound
<1>3. FilesSound'
  BY DEF TreeSound, FilesSound, RowIds
<1> QED BY <1>1, <1>2, <1>3 DEF TreeSound

\* The manager at work on the queue and the decisions.
LEMMA QueueSteps ==
    ASSUME ServiceSound, TreeSound,
           DeleteDecisions \/ ListQueued \/ DiscardOne \/ DiscardDone \/ DeleteQueued
    PROVE  TreeSound'
<1> USE DEF tables, history
<1>1. UNCHANGED <<docs, tree, raced, halved>> /\ job # None
  BY DEF DeleteDecisions, ListQueued, DiscardOne, DiscardDone, DeleteQueued
<1>2. job = [target |-> job.target, at |-> job.at, rows |-> job.rows, left |-> job.left,
             upto |-> job.upto]
  BY <1>1 DEF ServiceSound, JobSound
<1>3. /\ job'.rows = job.rows /\ job'.target = job.target
      /\ job.at \notin {"unlink", "rmtree"} /\ job'.at # "rmtree"
      /\ job'.at = "unlink" => job'.left = job'.rows
  <2>1. CASE DeleteDecisions
    BY <1>2, <2>1 DEF DeleteDecisions
  <2>2. CASE ListQueued
    BY <1>2, <2>2 DEF ListQueued
  <2>3. CASE DiscardOne
    <3>1. job.at = "discard" /\ \E L : job' = [job EXCEPT !.left = L]
      BY <2>3 DEF DiscardOne
    <3> QED BY <1>2, <3>1
  <2>4. CASE DiscardDone
    BY <1>2, <2>4 DEF DiscardDone
  <2>5. CASE DeleteQueued
    BY <1>2, <2>5 DEF DeleteQueued
  <2> QED BY <2>1, <2>2, <2>3, <2>4, <2>5
<1>4. PlacesSound'
  BY <1>1 DEF TreeSound, PlacesSound, Apart
<1>5. RowsSound'
  BY <1>1, <1>3 DEF TreeSound, RowsSound
<1>6. FilesSound'
  <2>1. \A p \in tree \ raced : \/ \E id \in Ids : docs[id] # None /\ docs[id].path = p
                                \/ UserOf[Owner(p)] \in halved
    BY <1>3 DEF TreeSound, FilesSound
  <2>2. \A id \in Ids \ raced : docs[id] # None => docs[id].path \in tree \/ id \in halved
    BY <1>3 DEF TreeSound, FilesSound
  <2> QED BY <1>1, <2>1, <2>2 DEF FilesSound
<1> QED BY <1>4, <1>5, <1>6 DEF TreeSound

LEMMA BeginPlaces ==
    ASSUME ServiceSound, TreeSound, NEW t \in Targets, Begin(t)
    PROVE  TreeSound'
<1> USE DEF tables
<1> DEFINE ids == {id \in Ids : docs[id] # None /\ InScope(t, id[1], docs[id].path)}
<1>1. /\ UNCHANGED <<docs, tree, raced, halved>> /\ job = None
      /\ job' = [target |-> t, at |-> "decisions", rows |-> {<<id, docs[id].path>> : id \in ids},
                 left |-> {}, upto |-> count]
  BY DEF Begin
<1>2. \A r \in job'.rows : r[1] \in Ids /\ docs[r[1]] # None /\ r[2] = docs[r[1]].path
  BY <1>1
<1> HIDE DEF ids
<1>3. PlacesSound'
  BY <1>1 DEF TreeSound, PlacesSound, Apart
<1>4. job'.at = "decisions"
  BY <1>1
<1>5. RowsSound'
  <2>1. \A r \in job'.rows : \A id \in Ids \ raced :
            (docs[id] # None /\ docs[id].path = r[2]) => id = r[1]
    BY <1>2 DEF TreeSound, PlacesSound, Apart
  <2> QED BY <1>1, <1>2, <1>4, <2>1 DEF RowsSound
<1>6. FilesSound'
  <2>1. \A p \in tree \ raced : \/ \E id \in Ids : docs[id] # None /\ docs[id].path = p
                                \/ UserOf[Owner(p)] \in halved
    BY <1>1 DEF TreeSound, FilesSound
  <2>2. \A id \in Ids \ raced : docs[id] # None => docs[id].path \in tree \/ id \in halved
    BY <1>1 DEF TreeSound, FilesSound
  <2> QED BY <1>1, <2>1, <2>2 DEF FilesSound
<1> QED BY <1>3, <1>5, <1>6 DEF TreeSound

\* A file goes while its row is still there, and the row is one of those that will go.
LEMMA UnlinkOnePlaces ==
    ASSUME ServiceSound, TreeSound, NEW r, UnlinkOne(r), r \in job.rows
    PROVE  TreeSound'
<1> USE DEF history
<1>1. /\ UNCHANGED <<docs, raced, halved>> /\ job # None /\ job.at = "unlink"
      /\ tree' = tree \ {r[2]} /\ job' = [job EXCEPT !.left = @ \ {r}]
  BY DEF UnlinkOne
<1>2. /\ job'.rows = job.rows /\ job'.at = "unlink" /\ job' # None
      /\ job'.left = job.left \ {r}
  <2>1. job = [target |-> job.target, at |-> job.at, rows |-> job.rows, left |-> job.left,
               upto |-> job.upto]
    BY <1>1 DEF ServiceSound, JobSound
  <2>2. job' = [target |-> job.target, at |-> job.at, rows |-> job.rows, left |-> job.left \ {r},
                upto |-> job.upto]
    BY <1>1, <2>1
  <2>3. job'.rows = job.rows /\ job'.at = "unlink" /\ job'.left = job.left \ {r}
    BY <1>1, <2>2
  <2>4. /\ job.target \in Targets /\ job.at \in Stages /\ job.rows \subseteq Ids \X Paths
        /\ job.left \subseteq Numbers \cup (Ids \X Paths) /\ job.upto \in Nat
    BY <1>1 DEF ServiceSound, JobSound, QueueSound
  <2>5. job' # None
    BY <2>2, <2>4, DeletionIsSome
  <2> QED BY <2>3, <2>5
<1>3. PlacesSound'
  BY <1>1 DEF TreeSound, PlacesSound, Apart
<1>4. RowsSound'
  <2>1. \A x \in job.rows : x \in job.left \ {r} \/ x[2] \notin tree' \/ x[2] \in raced
    BY <1>1 DEF TreeSound, RowsSound
  <2> QED BY <1>1, <1>2, <2>1 DEF TreeSound, RowsSound
<1>5. FilesSound'
  <2>1. \A p \in tree \ raced : \/ \E id \in Ids : docs[id] # None /\ docs[id].path = p
                                \/ UserOf[Owner(p)] \in halved
    BY <1>1 DEF TreeSound, FilesSound
  <2>2. \A id \in Ids \ raced : docs[id] # None /\ docs[id].path = r[2] => id \in RowIds
    BY <1>1 DEF TreeSound, RowsSound, RowIds
  <2>3. \A id \in Ids \ raced : docs[id] # None =>
            docs[id].path \in tree \/ id \in halved \/ id \in RowIds
    BY DEF TreeSound, FilesSound
  <2>4. RowIds' = RowIds
    BY <1>2 DEF RowIds
  <2> QED BY <1>1, <1>2, <2>1, <2>2, <2>3, <2>4 DEF FilesSound
<1> QED BY <1>3, <1>4, <1>5 DEF TreeSound

\* The rows go when their files are gone.
LEMMA DeleteRowsPlaces ==
    ASSUME ServiceSound, TreeSound, DeleteRows
    PROVE  TreeSound'
<1> USE DEF history
<1>1. /\ UNCHANGED <<tree, raced, halved>> /\ job # None /\ job.at = "unlink" /\ job.left = {}
      /\ docs' = [id \in Ids |-> IF id \in RowIds THEN None ELSE docs[id]]
      /\ job' = [job EXCEPT !.at = "record"]
  BY DEF DeleteRows, FilesGone
<1>2. job'.rows = job.rows /\ job'.at = "record"
  <2>1. job = [target |-> job.target, at |-> job.at, rows |-> job.rows, left |-> job.left,
               upto |-> job.upto]
    BY <1>1 DEF ServiceSound, JobSound
  <2> QED BY <1>1, <2>1
<1>3. \A id \in Ids : docs'[id] # None =>
          docs[id] # None /\ docs'[id] = docs[id] /\ id \notin RowIds
  BY <1>1
<1>4. PlacesSound'
  <2>1. \A id, other \in Ids : (id # other /\ docs'[id] # None /\ docs'[other] # None) =>
            docs'[id].path # docs'[other].path
    BY <1>3 DEF TreeSound, PlacesSound, Apart
  <2> QED BY <1>1, <1>3, <2>1 DEF TreeSound, PlacesSound, Apart
<1>5. RowsSound'
  <2>1. \A r \in job.rows : docs'[r[1]] = None
    <3>1. \A r \in job.rows : r[1] \in RowIds /\ r[1] \in Ids
      BY <1>1 DEF RowIds, ServiceSound, JobSound
    <3> QED BY <1>1, <3>1
  <2>2. \A r \in job.rows : \A id \in Ids \ raced :
            (docs'[id] # None /\ docs'[id].path = r[2]) => id = r[1]
    BY <1>1, <1>3 DEF TreeSound, RowsSound
  <2> QED BY <1>1, <1>2, <2>1, <2>2 DEF RowsSound
<1>6. FilesSound'
  <2>1. ASSUME NEW p \in tree \ raced, NEW id \in Ids, docs[id] # None, docs[id].path = p
        PROVE  docs'[id] # None /\ docs'[id].path = p
    <3>1. ASSUME NEW r \in job.rows, r[1] = id PROVE FALSE
      <4>1. docs[id].path = r[2] \/ docs[id].path \in raced
        BY <1>1, <2>1, <3>1 DEF TreeSound, RowsSound
      <4>2. r[2] \notin tree \/ r[2] \in raced
        BY <1>1 DEF TreeSound, RowsSound
      <4> QED BY <2>1, <4>1, <4>2
    <3>2. id \notin RowIds
      BY <3>1 DEF RowIds
    <3> QED BY <1>1, <2>1, <3>2
  <2>2. \A p \in tree \ raced : \/ \E id \in Ids : docs[id] # None /\ docs[id].path = p
                                \/ UserOf[Owner(p)] \in halved
    BY <1>1 DEF TreeSound, FilesSound
  <2>3. \A p \in tree \ raced : \/ \E id \in Ids : docs'[id] # None /\ docs'[id].path = p
                                \/ UserOf[Owner(p)] \in halved
    BY <2>1, <2>2
  <2>4. \A id \in Ids \ raced : docs'[id] # None => docs'[id].path \in tree \/ id \in halved
    BY <1>3 DEF TreeSound, FilesSound
  <2> QED BY <1>1, <2>3, <2>4 DEF FilesSound
<1> QED BY <1>4, <1>5, <1>6 DEF TreeSound

\* The rows of a user go before the tree: its files are without a document until then.
LEMMA PurgePlaces ==
    ASSUME ServiceSound, TreeSound, Purge
    PROVE  TreeSound'
<1> USE DEF history
<1> DEFINE u == job.target.user
<1>1. /\ UNCHANGED <<tree, raced, halved>> /\ job # None /\ job.at = "purge"
      /\ docs' = [id \in Ids |-> IF UserOf[id[1]] = u THEN None ELSE docs[id]]
      /\ job' = [job EXCEPT !.at = "rmtree"]
  BY DEF Purge
<1>2. /\ job'.rows = job.rows /\ job'.at = "rmtree" /\ job'.target.user = u /\ job' # None
  <2>1. /\ job = [target |-> job.target, at |-> job.at, rows |-> job.rows, left |-> job.left,
                  upto |-> job.upto]
        /\ job.target \in Targets /\ job.rows \subseteq Ids \X Paths
        /\ job.left \subseteq Numbers \cup (Ids \X Paths) /\ job.upto \in Nat
    BY <1>1 DEF ServiceSound, JobSound, QueueSound
  <2>2. job' = [target |-> job.target, at |-> "rmtree", rows |-> job.rows, left |-> job.left,
                upto |-> job.upto]
    BY <1>1, <2>1
  <2>3. job' # None
    <3>1. "rmtree" \in Stages
      BY DEF Stages
    <3> QED BY <2>1, <2>2, <3>1, DeletionIsSome
  <2> QED BY <2>2, <2>3
<1> HIDE DEF u
<1>3. \A id \in Ids : docs'[id] # None =>
          docs[id] # None /\ docs'[id] = docs[id] /\ UserOf[id[1]] # u
  BY <1>1
<1>4. PlacesSound'
  <2>1. \A id, other \in Ids : (id # other /\ docs'[id] # None /\ docs'[other] # None) =>
            docs'[id].path # docs'[other].path
    BY <1>3 DEF TreeSound, PlacesSound, Apart
  <2> QED BY <1>1, <1>3, <2>1 DEF TreeSound, PlacesSound, Apart
<1>5. RowsSound'
  <2>1. \A r \in job.rows : r[1] \in Ids
    BY <1>1 DEF ServiceSound, JobSound
  <2>2. \A r \in job.rows : \A id \in Ids \ raced :
            (docs'[id] # None /\ docs'[id].path = r[2]) => id = r[1]
    BY <1>1, <1>3 DEF TreeSound, RowsSound
  <2>3. \A r \in job.rows : docs'[r[1]] # None =>
            docs'[r[1]].path = r[2] \/ docs'[r[1]].path \in raced
    BY <1>1, <1>3, <2>1 DEF TreeSound, RowsSound
  <2> QED BY <1>1, <1>2, <1>3, <2>2, <2>3 DEF RowsSound
<1>6. FilesSound'
  <2>1. ASSUME NEW p \in tree \ raced
        PROVE  \/ \E id \in Ids : docs'[id] # None /\ docs'[id].path = p
               \/ UserOf[Owner(p)] \in halved
               \/ UserOf[Owner(p)] = u
    <3>1. CASE \E id \in Ids : docs[id] # None /\ docs[id].path = p
      <4>1. PICK id \in Ids : docs[id] # None /\ docs[id].path = p
        BY <3>1
      <4>2. id[1] \in Writers /\ p \in Authorized[id[1]]
        BY <4>1 DEF TreeSound, PlacesSound, Ids
      <4>3. Owner(p) = id[1]
        BY <4>2, OwnerIs
      <4>4. CASE UserOf[id[1]] = u
        BY <4>3, <4>4
      <4>5. CASE UserOf[id[1]] # u
        BY <1>1, <4>1, <4>5
      <4> QED BY <4>4, <4>5
    <3>2. CASE UserOf[Owner(p)] \in halved
      BY <3>2
    <3> QED BY <1>1, <3>1, <3>2 DEF TreeSound, FilesSound
  <2>2. \A id \in Ids \ raced : docs'[id] # None => docs'[id].path \in tree \/ id \in halved
    BY <1>1, <1>3 DEF TreeSound, FilesSound
  <2> QED BY <1>1, <1>2, <2>1, <2>2 DEF FilesSound
<1> QED BY <1>4, <1>5, <1>6 DEF TreeSound

LEMMA RemoveTreePlaces ==
    ASSUME ServiceSound, TreeSound, RemoveTree
    PROVE  TreeSound'
<1> DEFINE u == job.target.user
<1>1. /\ UNCHANGED <<docs, raced>> /\ job # None /\ job.at = "rmtree"
      /\ job' = [job EXCEPT !.at = "record"]
      /\ \/ tree' = tree \ UserPaths(u) /\ halved' = halved \ {u}
         \/ tree' = tree /\ halved' = halved \cup {u}
  BY DEF RemoveTree
<1>2. job'.rows = job.rows /\ job'.at = "record" /\ u \in Users
  <2>1. /\ job = [target |-> job.target, at |-> job.at, rows |-> job.rows, left |-> job.left,
                  upto |-> job.upto]
        /\ job.target \in Targets /\ job.target.scope = "user"
    BY <1>1 DEF ServiceSound, JobSound
  <2>2. u \in Users
    BY <2>1 DEF Targets
  <2> QED BY <1>1, <2>1, <2>2
<1> HIDE DEF u
<1>3. PlacesSound'
  BY <1>1 DEF TreeSound, PlacesSound, Apart
<1>4. RowsSound'
  BY <1>1, <1>2 DEF TreeSound, RowsSound
<1>5. \A p \in tree \ raced :
          \/ \E id \in Ids : docs[id] # None /\ docs[id].path = p
          \/ UserOf[Owner(p)] \in halved \/ UserOf[Owner(p)] = u
  BY <1>1 DEF TreeSound, FilesSound, u
<1>6. \A id \in Ids \ raced : docs[id] # None =>
          /\ docs[id].path \in tree \/ id \in halved
          /\ UserOf[id[1]] # u
  BY <1>1 DEF TreeSound, FilesSound, RowsSound, u
<1>7. CASE tree' = tree \ UserPaths(u) /\ halved' = halved \ {u}
  <2>1. ASSUME NEW p \in tree', UserOf[Owner(p)] = u PROVE FALSE
    <3>1. PICK w \in Writers : p \in Authorized[w]
      BY <1>7, <2>1 DEF TreeSound, PlacesSound
    <3>2. Owner(p) = w
      BY <3>1, OwnerIs
    <3>3. p \in UserPaths(u)
      BY <2>1, <3>1, <3>2 DEF UserPaths
    <3> QED BY <1>7, <2>1, <3>3
  <2>2. ASSUME NEW id \in Ids \ raced, docs[id] # None, docs[id].path \in UserPaths(u) PROVE FALSE
    <3>1. PICK w \in Writers : UserOf[w] = u /\ docs[id].path \in Authorized[w]
      BY <2>2 DEF UserPaths
    <3>2. id[1] \in Writers /\ docs[id].path \in Authorized[id[1]]
      BY <2>2 DEF TreeSound, PlacesSound, Ids
    <3>3. w = id[1]
      BY <3>1, <3>2, ServiceAssumption
    <3> QED BY <1>6, <2>2, <3>1, <3>3
  <2>3. \A id \in Ids : id # u
    BY <1>2, ServiceAssumption
  <2> QED BY <1>1, <1>3, <1>4, <1>5, <1>6, <1>7, <2>1, <2>2, <2>3 DEF TreeSound, FilesSound
<1>8. CASE tree' = tree /\ halved' = halved \cup {u}
  <2>1. FilesSound'
    BY <1>1, <1>5, <1>6, <1>8 DEF FilesSound
  <2> QED BY <1>3, <1>4, <2>1 DEF TreeSound
<1> QED BY <1>1, <1>7, <1>8

LEMMA FinishPlaces ==
    ASSUME ServiceSound, TreeSound, Finish
    PROVE  TreeSound'
<1>1. UNCHANGED <<docs, tree, raced, halved>> /\ job # None /\ job.at = "record" /\ job' = None
  BY DEF Finish
<1>2. PlacesSound' /\ RowsSound'
  BY <1>1 DEF TreeSound, PlacesSound, RowsSound, Apart
<1>3. FilesSound'
  BY <1>1 DEF TreeSound, FilesSound
<1> QED BY <1>2, <1>3 DEF TreeSound

LEMMA ManagerDiesPlaces ==
    ASSUME ServiceSound, TreeSound, ManagerDies
    PROVE  TreeSound'
<1> USE DEF tables
<1>1. /\ UNCHANGED <<docs, tree, raced>> /\ job # None /\ job' = None /\ halved \subseteq halved'
      /\ job.at = "unlink" => RowIds \subseteq halved'
      /\ job.at = "rmtree" => job.target.user \in halved'
  BY DEF ManagerDies
<1>2. PlacesSound' /\ RowsSound'
  BY <1>1 DEF TreeSound, PlacesSound, RowsSound, Apart
<1>3. FilesSound'
  BY <1>1 DEF TreeSound, FilesSound
<1> QED BY <1>2, <1>3 DEF TreeSound

\* A batch writes where its writer may and leaves no path twice; what it writes while a
\* deletion runs is on record.
LEMMA ApplyPlaces ==
    ASSUME ServiceSound, TreeSound, Apply
    PROVE  TreeSound'
<1> DEFINE out == Batch!Submitted(WithFiles, hand.writer, hand.ops)
           rows == out.rows
           Names(op, id) == op.kind # "decision" /\ id = <<hand.writer, op.key>>
<1>1. hand.writer \in Writers /\ hand.ops \in Seq(Operation) /\ hand # None
  BY DEF ServiceSound, HandSound, Apply, InHand
<1>2. WithFiles \in [Ids -> Filed \cup {None}]
  BY DEF ServiceSound, TablesSound, WithFiles, Filed, Document
<1>3. /\ out.ok
      /\ docs' = [id \in Ids |-> IF rows[id] = None THEN None
                                 ELSE [path |-> rows[id].path, hash |-> rows[id].hash]]
      /\ tree' = (tree \ PathsOf(docs, Written))
                 \cup PathsOf(rows, {id \in Ids : rows[id] # None /\ rows[id].file})
  BY DEF Apply, Outcome
<1>4. /\ job' = job /\ halved' = halved \cup Parked
      /\ raced' = IF job = None THEN raced
                  ELSE raced \cup Written \cup PathsOf(docs, Written) \cup PathsOf(docs', Written)
  BY DEF Apply
<1>5. \A op \in ToSet(hand.ops) : op.kind \in {"put", "move"} => op.path \in Authorized[hand.writer]
  <2>1. \A op \in ToSet(hand.ops) : Allowed(hand.writer, op)
    BY <1>1, <1>2, <1>3, SubmittedIsGranted
  <2>2. \A op \in ToSet(hand.ops) : op \in Operation
    BY <1>1 DEF ToSet
  <2>3. \A op \in Operation : op.kind \in {"put", "move"} => op.path \in Paths
    BY DEF Operation
  <2> QED BY <2>1, <2>2, <2>3, ServiceAssumption DEF Allowed
<1>6. /\ rows \in [Ids -> Filed \cup {None}]
      /\ \A id \in Ids : (\A op \in ToSet(hand.ops) : ~Names(op, id)) => rows[id] = WithFiles[id]
      /\ \A id \in Ids : (rows[id] # None /\ \E op \in ToSet(hand.ops) : Names(op, id)) =>
             \E op \in ToSet(hand.ops) : /\ op.kind \in {"put", "move"}
                                         /\ id = <<hand.writer, op.key>>
                                         /\ rows[id].path = op.path
      /\ out.ok => Apart(rows)
      /\ out.ok => \A id \in Ids : (rows[id] # None /\ ~rows[id].file) =>
             /\ WithFiles[id] # None
             /\ \/ ~WithFiles[id].file
                \/ \E op \in ToSet(hand.ops) : /\ op.kind = "move" /\ id = <<hand.writer, op.key>>
                                               /\ WithFiles[id].path = op.path
  <2> HIDE DEF rows
  <2> QED BY <1>1, <1>2, SubmittedKeeps DEF rows
<1> HIDE DEF out, rows
<1>7. Written = {id \in Ids : \E op \in ToSet(hand.ops) : Names(op, id)}
  <2>1. \A op \in ToSet(hand.ops) : op.key \in Keys
    BY <1>1 DEF ToSet, Operation
  <2>2. \A op \in ToSet(hand.ops) : <<hand.writer, op.key>> \in Ids
    BY <1>1, <2>1 DEF Ids
  <2> QED BY <2>2 DEF Written
<1>9. ASSUME NEW id \in Ids
      PROVE  /\ rows[id] = None <=> docs'[id] = None
             /\ docs'[id] # None => docs'[id].path = rows[id].path /\ rows[id].path \in Paths
  <2>1. rows[id] # None => /\ [path |-> rows[id].path, hash |-> rows[id].hash] \in Document
                           /\ rows[id].path \in Paths
    BY <1>6 DEF Filed, Document
  <2> QED BY <1>3, <2>1, ServiceAssumption
<1>8. ASSUME NEW id \in Ids, id \notin Written
      PROVE  /\ docs[id] = None <=> docs'[id] = None
             /\ docs'[id] # None => /\ docs'[id].path = docs[id].path
                                    /\ rows[id].file <=> docs[id].path \in tree
  <2>1. rows[id] = WithFiles[id]
    BY <1>6, <1>7, <1>8
  <2>2. /\ docs[id] = None => WithFiles[id] = None
        /\ docs[id] # None => /\ WithFiles[id] # None /\ WithFiles[id].path = docs[id].path
                              /\ WithFiles[id].file = (docs[id].path \in tree)
    <3>1. WithFiles[id] = IF docs[id] = None THEN None
                          ELSE [path |-> docs[id].path, hash |-> docs[id].hash,
                                file |-> docs[id].path \in tree]
      BY DEF WithFiles
    <3>2. docs[id] # None =>
              [path |-> docs[id].path, hash |-> docs[id].hash,
               file |-> docs[id].path \in tree] \in Filed
      BY DEF ServiceSound, TablesSound, Document, Filed
    <3> QED BY <3>1, <3>2, ServiceAssumption
  <2>3. rows[id] = None <=> docs'[id] = None
    BY <1>9
  <2> QED BY <1>3, <2>1, <2>2, <2>3
<1>10. ASSUME NEW id \in Ids, docs'[id] # None PROVE docs'[id].path \in Authorized[id[1]]
  <2>1. CASE id \in Written
    <3>1. PICK op \in ToSet(hand.ops) : /\ op.kind \in {"put", "move"}
                                        /\ id = <<hand.writer, op.key>>
                                        /\ rows[id].path = op.path
      BY <1>6, <1>7, <1>9, <1>10, <2>1
    <3>2. id[1] = hand.writer
      BY <3>1
    <3> QED BY <1>5, <1>9, <1>10, <3>1, <3>2
  <2>2. CASE id \notin Written
    BY <1>8, <1>10, <2>2 DEF TreeSound, PlacesSound
  <2> QED BY <2>1, <2>2
<1>11. PlacesSound'
  <2>1. Apart(docs')
    BY <1>3, <1>6, <1>9 DEF Apart
  <2>2. ASSUME NEW p \in tree' PROVE \E w \in Writers : p \in Authorized[w]
    <3>1. CASE p \in tree
      BY <3>1 DEF TreeSound, PlacesSound
    <3>2. CASE p \notin tree
      <4>1. PICK id \in Ids : rows[id] # None /\ p = rows[id].path
        BY <1>3, <3>2 DEF PathsOf
      <4>2. p \in Authorized[id[1]] /\ id[1] \in Writers
        BY <1>9, <1>10, <4>1 DEF Ids
      <4> QED BY <4>2
    <3> QED BY <3>1, <3>2
  <2>3. \A id \in Ids : docs'[id] # None => docs'[id].path \in Authorized[id[1]]
    BY <1>10
  <2> QED BY <2>1, <2>2, <2>3 DEF PlacesSound, Apart
<1>12. RowsSound'
  <2> SUFFICES ASSUME job # None PROVE RowsSound'
    BY <1>4 DEF RowsSound
  <2>1. raced' = raced \cup Written \cup PathsOf(docs, Written) \cup PathsOf(docs', Written)
    BY <1>4
  <2>2. \A r \in job.rows : r[1] \in Ids
    BY DEF ServiceSound, JobSound
  <2>3. \A r \in job.rows : \A id \in Ids \ raced' :
            (docs'[id] # None /\ docs'[id].path = r[2]) => id = r[1]
    BY <1>8, <2>1 DEF TreeSound, RowsSound
  <2>4. ASSUME NEW r \in job.rows, docs'[r[1]] # None
        PROVE  docs'[r[1]].path = r[2] \/ docs'[r[1]].path \in raced'
    <3>1. CASE r[1] \in Written
      BY <2>1, <2>4, <3>1 DEF PathsOf
    <3>2. CASE r[1] \notin Written
      BY <1>8, <2>1, <2>2, <2>4, <3>2 DEF TreeSound, RowsSound
    <3> QED BY <3>1, <3>2
  <2>5. ASSUME job.at = "unlink", NEW r \in job.rows
        PROVE  r \in job.left \/ r[2] \notin tree' \/ r[2] \in raced'
    <3> SUFFICES ASSUME r[2] \notin tree, r[2] \in tree' PROVE r[2] \in raced'
      BY <2>1, <2>5 DEF TreeSound, RowsSound
    <3>1. PICK id \in Ids : rows[id] # None /\ rows[id].file /\ rows[id].path = r[2]
      BY <1>3 DEF PathsOf
    <3>2. docs'[id] # None /\ docs'[id].path = r[2]
      BY <1>9, <3>1
    <3>3. id \in Written
      BY <1>8, <3>1, <3>2
    <3> QED BY <2>1, <3>2, <3>3 DEF PathsOf
  <2>6. job.at = "rmtree" => \A id \in Ids \ raced' :
            docs'[id] # None => UserOf[id[1]] # job.target.user
    BY <1>8, <2>1 DEF TreeSound, RowsSound
  <2> QED BY <1>4, <2>3, <2>4, <2>5, <2>6 DEF RowsSound
<1>13. raced \subseteq raced' /\ halved \subseteq halved'
  BY <1>4
<1>14. ASSUME NEW p \in tree' \ raced'
       PROVE  \/ \E id \in Ids : docs'[id] # None /\ docs'[id].path = p
              \/ UserOf[Owner(p)] \in halved'
              \/ job # None /\ job.at = "rmtree" /\ job.target.user = UserOf[Owner(p)]
  <2>1. CASE p \in tree \ PathsOf(docs, Written)
    <3>1. CASE \E id \in Ids : docs[id] # None /\ docs[id].path = p
      <4>1. PICK id \in Ids : docs[id] # None /\ docs[id].path = p
        BY <3>1
      <4>2. id \notin Written
        BY <2>1, <4>1 DEF PathsOf
      <4> QED BY <1>8, <4>1, <4>2
    <3> QED BY <1>13, <2>1, <3>1 DEF TreeSound, FilesSound
  <2>2. CASE p \in PathsOf(rows, {id \in Ids : rows[id] # None /\ rows[id].file})
    <3>1. PICK id \in Ids : rows[id] # None /\ p = rows[id].path
      BY <2>2 DEF PathsOf
    <3> QED BY <1>9, <3>1
  <2> QED BY <1>3, <2>1, <2>2
<1>15. ASSUME NEW id \in Ids \ raced', docs'[id] # None
       PROVE  \/ docs'[id].path \in tree'
              \/ id \in halved'
              \/ job # None /\ job.at = "unlink" /\ id \in RowIds
  <2>1. rows[id] # None /\ docs'[id].path = rows[id].path
    BY <1>9, <1>15
  <2>2. CASE rows[id].file
    BY <1>3, <2>1, <2>2 DEF PathsOf
  <2>3. CASE ~rows[id].file
    <3>1. /\ WithFiles[id] # None
          /\ \/ ~WithFiles[id].file
             \/ \E op \in ToSet(hand.ops) : /\ op.kind = "move" /\ id = <<hand.writer, op.key>>
                                            /\ WithFiles[id].path = op.path
      BY <1>3, <1>6, <2>1, <2>3
    <3>2. /\ docs[id] # None /\ WithFiles[id].path = docs[id].path
          /\ WithFiles[id].file <=> docs[id].path \in tree
      BY <3>1 DEF WithFiles
    <3>3. CASE docs[id].path \notin tree
      BY <1>13, <3>2, <3>3 DEF TreeSound, FilesSound
    <3>4. CASE docs[id].path \in tree
      <4>1. PICK op \in ToSet(hand.ops) : /\ op.kind = "move" /\ id = <<hand.writer, op.key>>
                                          /\ docs[id].path = op.path
        BY <3>1, <3>2, <3>4
      <4>2. id \in Written
        BY <1>7, <4>1
      <4>3. PICK i \in DOMAIN hand.ops : hand.ops[i] = op
        BY DEF ToSet
      <4>4. id[2] = op.key
        BY <4>1
      <4>5. id \in Parked
        BY <3>2, <4>1, <4>2, <4>3, <4>4 DEF Parked
      <4> QED BY <1>4, <4>5
    <3> QED BY <3>3, <3>4
  <2> QED BY <2>2, <2>3
<1>16. FilesSound'
  <2>1. RowIds' = RowIds
    BY <1>4 DEF RowIds
  <2> QED BY <1>4, <1>14, <1>15, <2>1 DEF FilesSound
<1> QED BY <1>11, <1>12, <1>16 DEF TreeSound

-----------------------------------------------------------------------------
LEMMA TreeInductive ==
    /\ Init => TreeSound
    /\ ServiceSound /\ TreeSound /\ [Next]_vars => TreeSound'
<1>1. Init => TreeSound
  <2> SUFFICES ASSUME Init PROVE TreeSound
    OBVIOUS
  <2>1. job = None /\ tree = {} /\ \A id \in Ids : docs[id] = None
    BY DEF Init
  <2> QED BY <2>1 DEF TreeSound, PlacesSound, RowsSound, FilesSound, Apart
<1>2. ASSUME ServiceSound, TreeSound, [Next]_vars PROVE TreeSound'
  <2> USE DEF tables, history
  <2>1. CASE UNCHANGED vars
    BY <1>2, <2>1, QuietSteps DEF vars
  <2>2. CASE \E w \in Writers : RegisterPrefix(w) \/ \E ops \in Batches[w] : Enqueue(w, ops)
    <3>1. UNCHANGED <<docs, tree, raced, halved, job>>
      BY <2>2 DEF RegisterPrefix, Enqueue
    <3> QED BY <1>2, <3>1, QuietSteps
  <2>3. CASE Apply
    BY <1>2, <2>3, ApplyPlaces
  <2>4. CASE (\E s \in Numbers : Pick(s)) \/ ApplyRaises \/ Mark \/ ApplierDies
    <3>1. UNCHANGED <<docs, tree, raced, halved, job>>
      BY <2>4 DEF Pick, ApplyRaises, Mark, ApplierDies
    <3> QED BY <1>2, <3>1, QuietSteps
  <2>5. CASE Manager
    <3>1. CASE \E t \in Targets : Begin(t)
      BY <1>2, <3>1, BeginPlaces
    <3>2. CASE DeleteDecisions \/ ListQueued \/ DiscardOne \/ DiscardDone \/ DeleteQueued
      BY <1>2, <3>2, QueueSteps
    <3>3. CASE \E r \in (IF job = None THEN {} ELSE job.rows) : UnlinkOne(r)
      <4>1. PICK r \in job.rows : UnlinkOne(r)
        BY <3>3
      <4> QED BY <1>2, <4>1, UnlinkOnePlaces
    <3> QED BY <1>2, <2>5, <3>1, <3>2, <3>3, DeleteRowsPlaces, PurgePlaces, RemoveTreePlaces,
               FinishPlaces DEF Manager
  <2>6. CASE ManagerDies
    BY <1>2, <2>6, ManagerDiesPlaces
  <2> QED BY <1>2, <2>1, <2>2, <2>3, <2>4, <2>5, <2>6 DEF Next, Applier
<1> QED BY <1>1, <1>2

\* Documents and files stay where their writers may write, no path is taken twice, and what
\* a deletion has read still stands, in every state of Spec.
THEOREM TreeInvariant == Spec => [](ServiceSound /\ TreeSound)
BY ServiceInductive, TreeInductive, PTL DEF Spec

\* The catalog and the tree agree in every state, whatever dies where, with the exceptions
\* that the property lists.
THEOREM TreeMatchesCatalogAlways == Spec => []TreeMatchesCatalog
<1>1. TreeSound => TreeMatchesCatalog
  BY DEF TreeSound, FilesSound, TreeMatchesCatalog
<1> QED BY <1>1, TreeInvariant, PTL

-----------------------------------------------------------------------------
(***************************************************************************)
(* A submission that is applied a second time                              *)
(***************************************************************************)
\* Two rows say the same of a document, but perhaps for its file.
SameDocument(row, other) ==
    /\ row = None <=> other = None
    /\ other # None => row.path = other.path /\ row.hash = other.hash

\* What the plan of a submission starts from says of a document what the catalog says.
LEMMA PlanReadsCatalog ==
    ASSUME docs \in [Ids -> Document \cup {None}]
    PROVE  /\ WithFiles \in [Ids -> Filed \cup {None}]
           /\ \A id \in Ids :
                  /\ SameDocument(docs[id], WithFiles[id])
                  /\ docs[id] # None => docs[id] = [path |-> docs[id].path, hash |-> docs[id].hash]
<1>1. \A id \in Ids : WithFiles[id] = IF docs[id] = None THEN None
          ELSE [path |-> docs[id].path, hash |-> docs[id].hash, file |-> docs[id].path \in tree]
  BY DEF WithFiles
<1>2. ASSUME NEW id \in Ids, docs[id] # None
      PROVE  /\ WithFiles[id] \in Filed
             /\ docs[id] = [path |-> docs[id].path, hash |-> docs[id].hash]
  <2>1. \A d \in Document : /\ d.path \in Paths /\ d.hash \in Hashes
                            /\ d = [path |-> d.path, hash |-> d.hash]
    BY DEF Document
  <2>2. docs[id] \in Document
    BY <1>2
  <2>3. WithFiles[id] = [path |-> docs[id].path, hash |-> docs[id].hash,
                         file |-> docs[id].path \in tree]
    BY <1>1, <1>2
  <2> QED BY <2>1, <2>2, <2>3 DEF Filed
<1>3. WithFiles \in [Ids -> Filed \cup {None}]
  BY <1>1, <1>2 DEF WithFiles
<1>4. \A id \in Ids : SameDocument(docs[id], WithFiles[id])
  <2> SUFFICES ASSUME NEW id \in Ids PROVE SameDocument(docs[id], WithFiles[id])
    OBVIOUS
  <2>1. CASE docs[id] = None
    BY <1>1, <2>1 DEF SameDocument
  <2>2. CASE docs[id] # None
    <3>1. WithFiles[id] # None
      BY <1>2, <2>2, ServiceAssumption
    <3>2. WithFiles[id] = [path |-> docs[id].path, hash |-> docs[id].hash,
                           file |-> docs[id].path \in tree]
      BY <1>1, <2>2
    <3> QED BY <2>2, <3>1, <3>2 DEF SameDocument
  <2> QED BY <2>1, <2>2
<1> QED BY <1>2, <1>3, <1>4

\* A batch that writes each source once leaves every document as its operation says.
LEMMA SubmittedDone ==
    ASSUME NEW w \in Writers, NEW rows \in [Ids -> Filed \cup {None}],
           NEW ops \in Seq(Operation), OncePerSource(ops), Batch!Submitted(rows, w, ops).ok,
           NEW op \in ToSet(ops)
    PROVE  Done(Batch!Submitted(rows, w, ops).rows, w, op)
<1> DEFINE out == Batch!Submitted(rows, w, ops)
           mvs == {m \in ToSet(ops) : m.kind = "move"}
           dels == {d \in ToSet(ops) : d.kind = "delete"}
           settled == Batch!Settle(rows, w, dels, mvs)
           puts == Batch!OfKind(ops, "put")
           put == Batch!PutDocs(settled, w, puts)
           id == <<w, op.key>>
<1>1. out.rows = put.rows
  BY SameToSet DEF Batch!Submitted
<1>2. \A m \in mvs : settled[<<w, m.key>>] # None /\ settled[<<w, m.key>>].hash = m.hash
  BY SameToSet DEF Batch!Submitted
<1>3. op \in Operation /\ id \in Ids
  BY DEF ToSet, Operation, Ids
<1>4. /\ settled \in [Ids -> Filed \cup {None}]
      /\ \A x \in Ids :
             \/ settled[x] = None /\ (rows[x] = None \/ \E d \in dels : x = <<w, d.key>>)
             \/ settled[x] = rows[x] /\ \A m \in mvs \cup dels : x # <<w, m.key>>
             \/ \E m \in mvs : x = <<w, m.key>> /\ rows[x] # None
                               /\ settled[x] = MovedTo(rows[x], m.path)
  BY SettleKeeps
<1>5. /\ puts \in Seq(Operation)
      /\ \A i \in 1..Len(puts) : puts[i] \in ToSet(ops) /\ puts[i].kind = "put"
      /\ \A o \in ToSet(ops) : o.kind = "put" => \E i \in 1..Len(puts) : puts[i] = o
  <2>1. puts \in Seq(Operation) /\ ToSet(puts) = {o \in ToSet(ops) : o.kind = "put"}
    BY KindsKept, SameOfKind
  <2>2. ToSet(puts) = {puts[i] : i \in 1..Len(puts)}
    BY <2>1 DEF ToSet
  <2> QED BY <2>1, <2>2
<1> HIDE DEF puts, settled, out
<1>6. \A x \in Ids :
          \/ /\ put.rows[x] = settled[x]
             /\ \A i \in 1..Len(puts) : x # <<w, puts[i].key>>
          \/ \E i \in 1..Len(puts) : /\ x = <<w, puts[i].key>> /\ put.rows[x] # None
                                     /\ put.rows[x].path = puts[i].path
                                     /\ put.rows[x].hash = puts[i].hash
  BY <1>4, <1>5, PutDocsKeep
<1> HIDE DEF put
<1>7. \A o \in ToSet(ops) : (o.kind # "decision" /\ op.kind # "decision" /\ id = <<w, o.key>>)
          => o = op
  BY DEF OncePerSource
<1>8. CASE op.kind = "put"
  <2>1. PICK i \in 1..Len(puts) : puts[i] = op
    BY <1>5, <1>8
  <2>2. \A j \in 1..Len(puts) : id = <<w, puts[j].key>> => puts[j] = op
    BY <1>5, <1>7, <1>8
  <2>3. put.rows[id] # None /\ put.rows[id].path = op.path /\ put.rows[id].hash = op.hash
    BY <1>3, <1>6, <2>1, <2>2
  <2> QED BY <1>1, <1>8, <2>3 DEF Done, out
<1>9. op.kind \in {"move", "delete"} => put.rows[id] = settled[id]
  BY <1>3, <1>5, <1>6, <1>7
<1>10. CASE op.kind = "move"
  <2>1. op \in mvs /\ settled[id] # None /\ settled[id].hash = op.hash
    BY <1>2, <1>10
  <2>2. \A d \in dels : id # <<w, d.key>>
    BY <1>7, <1>10
  <2>3. rows[id] # None /\ settled[id] = MovedTo(rows[id], op.path)
    BY <1>3, <1>4, <1>7, <1>10, <2>1, <2>2
  <2>4. settled[id].path = op.path
    BY <1>3, <2>3 DEF MovedTo, Filed
  <2> QED BY <1>1, <1>9, <1>10, <2>1, <2>4 DEF Done, out
<1>11. CASE op.kind = "delete"
  <2>1. op \in dels /\ \A m \in mvs : id # <<w, m.key>>
    BY <1>7, <1>11
  <2>2. settled[id] = None
    BY <1>3, <1>4, <2>1
  <2> QED BY <1>1, <1>9, <1>11, <2>2 DEF Done, out
<1>12. CASE op.kind = "decision"
  BY <1>12 DEF Done
<1> QED BY <1>3, <1>8, <1>10, <1>11, <1>12 DEF Operation

\* A batch that finds every document as it would leave it is accepted, and leaves it so.
LEMMA SubmittedAgain ==
    ASSUME NEW w \in Writers, NEW rows \in [Ids -> Filed \cup {None}],
           NEW ops \in Seq(Operation), Apart(rows), ~Batch!DuplicateMoveSources(ops),
           \A op \in ToSet(ops) : Allowed(w, op) /\ Done(rows, w, op)
    PROVE  LET out == Batch!Submitted(rows, w, ops)
           IN  out.ok /\ \A id \in Ids : SameDocument(out.rows[id], rows[id])
<1> DEFINE out == Batch!Submitted(rows, w, ops)
           mvs == {op \in ToSet(ops) : op.kind = "move"}
           dels == {op \in ToSet(ops) : op.kind = "delete"}
           settled == Batch!Settle(rows, w, dels, mvs)
           puts == Batch!OfKind(ops, "put")
           put == Batch!PutDocs(settled, w, puts)
           ordered == Batch!OrderedOperations(ops, Batch!PathsBySource(rows), w)
<1>1. out.rows = put.rows
  BY SameToSet DEF Batch!Submitted
<1>2. out.ok = (/\ ~Batch!DuplicateMoveSources(ops)
                /\ Batch!Preflight(ordered, rows, w)
                /\ \A m \in mvs : /\ settled[<<w, m.key>>] # None
                                  /\ settled[<<w, m.key>>].hash = m.hash
                /\ \A id \in DOMAIN settled :
                       settled[id] # None => Batch!NotTaken(settled, id, settled[id].path)
                /\ put.ok)
  BY SameToSet DEF Batch!Submitted
<1>3. Batch!Preflight(ordered, rows, w)
  <2>1. OrderedOperations(ops, Batch!PathsBySource(rows), w) \in Seq(Operation)
        /\ ToSet(OrderedOperations(ops, Batch!PathsBySource(rows), w)) = ToSet(ops)
    <3>1. \A op \in Operation : op.kind \in {"put", "move", "delete", "decision"}
      BY DEF Operation
    <3> QED BY <3>1, OrderedHolds
  <2>2. ordered \in Seq(Operation) /\ ToSet(ordered) = ToSet(ops)
    BY <2>1, SameOrder
  <2> HIDE DEF ordered
  <2> QED BY <2>2, PreflightHolds
<1> HIDE DEF ordered
<1>4. /\ settled \in [Ids -> Filed \cup {None}]
      /\ \A x \in Ids :
             \/ settled[x] = None /\ (rows[x] = None \/ \E d \in dels : x = <<w, d.key>>)
             \/ settled[x] = rows[x] /\ \A m \in mvs \cup dels : x # <<w, m.key>>
             \/ \E m \in mvs : x = <<w, m.key>> /\ rows[x] # None
                               /\ settled[x] = MovedTo(rows[x], m.path)
  BY SettleKeeps
<1>5. /\ puts \in Seq(Operation)
      /\ \A i \in 1..Len(puts) : puts[i] \in ToSet(ops) /\ puts[i].kind = "put"
  <2>1. puts \in Seq(Operation) /\ ToSet(puts) = {o \in ToSet(ops) : o.kind = "put"}
    BY KindsKept, SameOfKind
  <2>2. ToSet(puts) = {puts[i] : i \in 1..Len(puts)}
    BY <2>1 DEF ToSet
  <2> QED BY <2>1, <2>2
<1> HIDE DEF puts, settled, out
<1>6. \A x \in Ids : SameDocument(settled[x], rows[x])
  <2> SUFFICES ASSUME NEW x \in Ids PROVE SameDocument(settled[x], rows[x])
    OBVIOUS
  <2>1. CASE settled[x] = None /\ (rows[x] = None \/ \E d \in dels : x = <<w, d.key>>)
    BY <2>1 DEF SameDocument, Done
  <2>2. CASE settled[x] = rows[x]
    BY <2>2 DEF SameDocument
  <2>3. CASE \E m \in mvs : x = <<w, m.key>> /\ rows[x] # None
                            /\ settled[x] = MovedTo(rows[x], m.path)
    <3>1. PICK m \in mvs : x = <<w, m.key>> /\ rows[x] # None
                           /\ settled[x] = MovedTo(rows[x], m.path)
      BY <2>3
    <3>2. rows[x] \in Filed /\ rows[x].path = m.path
      BY <3>1 DEF Done
    <3>3. settled[x].path = m.path /\ settled[x].hash = rows[x].hash /\ settled[x] \in Filed
      BY <3>1, <3>2 DEF MovedTo, Filed
    <3> QED BY <3>1, <3>2, <3>3, ServiceAssumption DEF SameDocument
  <2> QED BY <1>4, <2>1, <2>2, <2>3
<1>7. Apart(settled)
  BY <1>6 DEF Apart, SameDocument
<1>8. \A op \in ToSet(ops) : <<w, op.key>> \in Ids
  <2>1. \A op \in ToSet(ops) : op \in Operation
    BY DEF ToSet
  <2>2. \A op \in Operation : op.key \in Keys
    BY DEF Operation
  <2> QED BY <2>1, <2>2 DEF Ids
<1>9. \A op \in ToSet(ops) : Done(settled, w, op)
  BY <1>6, <1>8 DEF Done, SameDocument
<1>10. put.ok /\ put.rows = settled
  BY <1>4, <1>5, <1>7, <1>9, PutDocsKeep
<1> HIDE DEF put
<1>11. \A m \in mvs : settled[<<w, m.key>>] # None /\ settled[<<w, m.key>>].hash = m.hash
  BY <1>9 DEF Done
<1>12. \A id \in DOMAIN settled :
           settled[id] # None => Batch!NotTaken(settled, id, settled[id].path)
  <2>1. DOMAIN settled = Ids
    BY <1>4
  <2> QED BY <1>7, <2>1 DEF Apart, Batch!NotTaken
<1> QED BY <1>1, <1>2, <1>3, <1>6, <1>10, <1>11, <1>12 DEF out

\* Operations taken out of a batch leave no source in two moves that was in one.
LEMMA KeepingOnce ==
    ASSUME NEW S, NEW ops \in Seq(Operation)
    PROVE  /\ Keeping(S, ops) \in Seq(Operation) /\ ToSet(Keeping(S, ops)) = ToSet(ops) \cap S
           /\ ~Batch!DuplicateMoveSources(ops) => ~Batch!DuplicateMoveSources(Keeping(S, ops))
<1> DEFINE R == {p \in Operation \X Operation :
                     (p[1].kind = "move" /\ p[2].kind = "move") => p[1].key # p[2].key}
<1>1. Keeping(S, ops) \in Seq(Operation) /\ ToSet(Keeping(S, ops)) = ToSet(ops) \cap S
  BY KeepingKeeps
<1>2. ASSUME NEW seq \in Seq(Operation)
      PROVE  ~Batch!DuplicateMoveSources(seq) <=> InTurn(R, seq)
  <2>1. /\ DOMAIN seq = 1..Len(seq) /\ Len(seq) \in Nat
        /\ \A i \in 1..Len(seq) : seq[i] \in Operation
    OBVIOUS
  <2>2. \A i, j \in 1..Len(seq) : i # j => i < j \/ j < i
    BY <2>1
  <2>3. \A i, j \in 1..Len(seq) : i < j => i # j
    BY <2>1
  <2>4. \A i, j \in 1..Len(seq) : <<seq[i], seq[j]>> \in R <=>
            ((seq[i].kind = "move" /\ seq[j].kind = "move") => seq[i].key # seq[j].key)
    BY <2>1
  <2> HIDE DEF R
  <2> QED BY <2>1, <2>2, <2>3, <2>4 DEF Batch!DuplicateMoveSources, InTurn
<1> HIDE DEF R
<1>3. InTurn(R, ops) => InTurn(R, Keeping(S, ops))
  BY KeepingInTurn
<1> QED BY <1>1, <1>2, <1>3

\* The operations of a submission that took effect, of sources that no submission wrote
\* while a deletion ran.
Lasting(row, s) ==
    {op \in ToSet(row.ops) :
        s \in effects /\ op.kind # "decision" /\ <<row.writer, op.key>> \notin raced}

\* A submission that took effect was accepted by the plan.
WasAccepted(row, s) ==
    s \in effects =>
        /\ ~Batch!DuplicateMoveSources(row.ops)
        /\ \A op \in ToSet(row.ops) :
               (op.kind # "delete" /\ op.path # None) => op.path \in Authorized[row.writer]

\* Its writer may still write, if it names a path at all.
StillGranted(row) ==
    (\E op \in ToSet(row.ops) : op.kind # "delete" /\ op.path # None) => row.writer \in granted

\* What it wrote is as it left it.
Standing(row, s) ==
    /\ WasAccepted(row, s)
    /\ \A op \in Lasting(row, s) : Done(docs, row.writer, op) /\ StillGranted(row)

\* The running deletion leaves an operation alone.
Spared(row, op) ==
    IF job.target.scope = "user" THEN UserOf[row.writer] # job.target.user
    ELSE row.writer = job.target.writer => ~TargetedBy(op, job.target)

\* The applier is about to apply a submission that it took up when no deletion was at work
\* on the queue.
Reading == hand # None /\ hand.at = "read" /\ hand.sub \notin held

\* Submissions take effect in the order of the queue.
EffectsSound ==
    /\ effects \subseteq 1..count
    /\ \A e \in effects : (\A s \in Queued : e <= s) /\ (hand # None => e <= hand.sub)

\* Batches write each source once, whatever a deletion takes out of them.
RowsOnce ==
    /\ \A s \in Numbers : queue[s] # None => OncePerSource(queue[s].ops)
    /\ hand # None => OncePerSource(hand.ops)

\* The row of the queue holds no more than the one the applier has read.
RowTrimmed ==
    (hand # None /\ queue[hand.sub] # None) =>
        /\ queue[hand.sub].writer = hand.writer
        /\ ToSet(queue[hand.sub].ops) \subseteq ToSet(hand.ops)
        /\ ~Batch!DuplicateMoveSources(hand.ops)
               => ~Batch!DuplicateMoveSources(queue[hand.sub].ops)

\* The documents the running deletion has read have moved only if a submission came in
\* between.
ReadRows ==
    job # None => \A r \in job.rows :
        /\ InScope(job.target, r[1][1], r[2])
        /\ r[1] \in raced \/ docs[r[1]] = None \/ docs[r[1]].path = r[2]

\* Once it is through with the queue, it will not touch what is left there.
QueueSpared ==
    (job # None /\ job.at \notin {"decisions", "list"}) => \A s \in Queued :
        \/ job.at = "discard" /\ s \in job.left
        \/ \A op \in Lasting(queue[s], s) : Spared(queue[s], op)

\* Nor what was taken up since.
HandSpared ==
    (job # None /\ Reading) =>
        job.at \notin Early /\ \A op \in Lasting(hand, hand.sub) : Spared(hand, op)

\* All of it: the inductive invariant, on top of ServiceSound.
RepeatSound ==
    /\ EffectsSound /\ RowsOnce /\ RowTrimmed
    /\ \A s \in Queued : Standing(queue[s], s)
    /\ Reading => Standing(hand, hand.sub)
    /\ ReadRows /\ QueueSpared /\ HandSpared

\* Steps that change neither a document nor the deletion, and take nothing up: a prefix is
\* registered, a submission fails, it is marked, the applier dies.
LEMMA QuietRepeats ==
    ASSUME ServiceSound, RepeatSound, UNCHANGED <<docs, effects, raced, job, held, count>>,
           granted \subseteq granted',
           \A s \in Numbers : queue'[s] # None =>
               /\ queue[s] # None
               /\ queue'[s].writer = queue[s].writer /\ queue'[s].ops = queue[s].ops
               /\ queue'[s].state = "queued" => queue[s].state = "queued",
           hand' # None =>
               /\ hand # None /\ hand'.sub = hand.sub
               /\ hand'.writer = hand.writer /\ hand'.ops = hand.ops
               /\ hand'.at = "read" => hand.at = "read"
    PROVE  RepeatSound'
<1>1. Queued' \subseteq Queued /\ Queued \subseteq Numbers
  BY DEF Queued
<1>2. hand # None => hand.sub \in Numbers
  BY DEF ServiceSound, HandSound, InHand
<1>3. \A s \in Queued' : queue'[s].writer = queue[s].writer /\ queue'[s].ops = queue[s].ops
  BY <1>1 DEF Queued
<1>4. EffectsSound'
  BY <1>1 DEF RepeatSound, EffectsSound
<1>5. RowsOnce'
  BY DEF RepeatSound, RowsOnce, OncePerSource
<1>6. RowTrimmed'
  BY <1>2 DEF RepeatSound, RowTrimmed
<1>7. \A s \in Queued' : Standing(queue[s], s)'
  BY <1>1, <1>3 DEF RepeatSound, Standing, WasAccepted, StillGranted, Lasting, Done
<1>8. Reading' => Reading
  BY DEF Reading
<1>9. Reading' => Standing(hand, hand.sub)'
  BY <1>8 DEF RepeatSound, Reading, Standing, WasAccepted, StillGranted, Lasting, Done
<1>10. ReadRows'
  BY DEF RepeatSound, ReadRows
<1>11. QueueSpared'
  BY <1>1, <1>3 DEF RepeatSound, QueueSpared, Lasting, Spared, TargetedBy, RowIds
<1>12. HandSpared'
  BY <1>8 DEF RepeatSound, HandSpared, Reading, Lasting, Spared, TargetedBy, RowIds
<1> QED BY <1>4, <1>5, <1>6, <1>7, <1>9, <1>10, <1>11, <1>12 DEF RepeatSound

\* enqueue: a new submission has had no effect.
LEMMA EnqueueRepeats ==
    ASSUME ServiceSound, RepeatSound, NEW w \in Writers, NEW ops \in Batches[w],
           OncePerSource(ops), Enqueue(w, ops)
    PROVE  RepeatSound'
<1> USE DEF tables, history
<1> DEFINE n == count + 1
           new == [writer |-> w, ops |-> ops, state |-> "queued"]
<1>1. /\ count \in Nat /\ n \in Numbers /\ count' = n
      /\ queue' = [queue EXCEPT ![n] = new] /\ queue \in [Numbers -> Submission \cup {None}]
      /\ UNCHANGED <<docs, granted, hand, job, origin, effects, raced, held>>
  BY ServiceAssumption DEF ServiceSound, QueueSound, Enqueue, Numbers
<1>2. queue'[n] = new /\ new.ops = ops /\ \A s \in Numbers \ {n} : queue'[s] = queue[s]
  <2> HIDE DEF n, new
  <2>1. queue'[n] = new /\ \A s \in Numbers \ {n} : queue'[s] = queue[s]
    BY <1>1
  <2> QED BY <2>1 DEF new
<1>3. n \notin effects /\ \A e \in effects : e <= n
  <2>1. count \in Nat /\ \A e \in effects : e \in 1..count
    BY <1>1 DEF RepeatSound, EffectsSound
  <2> QED BY <2>1
<1>4. hand # None => hand.sub \in Numbers /\ hand.sub # n
  BY <1>1 DEF ServiceSound, HandSound, InHand, Numbers
<1> HIDE DEF n, new
<1>5. Queued' \subseteq Queued \cup {n} /\ Queued \subseteq Numbers
  BY <1>1, <1>2 DEF Queued
<1>6. EffectsSound'
  <2>1. effects' \subseteq 1..count'
    BY <1>1 DEF RepeatSound, EffectsSound, n
  <2> QED BY <1>1, <1>3, <1>5, <2>1 DEF RepeatSound, EffectsSound
<1>7. RowsOnce'
  <2>1. ASSUME NEW s \in Numbers, queue'[s] # None PROVE OncePerSource(queue'[s].ops)
    <3>1. CASE s = n
      BY <1>2, <3>1
    <3>2. CASE s # n
      BY <1>2, <2>1, <3>2 DEF RepeatSound, RowsOnce
    <3> QED BY <3>1, <3>2
  <2> QED BY <1>1, <2>1 DEF RepeatSound, RowsOnce, OncePerSource
<1>8. RowTrimmed'
  BY <1>1, <1>2, <1>4 DEF RepeatSound, RowTrimmed
<1>9. ASSUME NEW s \in Queued' PROVE Standing(queue[s], s)'
  <2>1. CASE s = n
    BY <1>1, <1>3, <2>1 DEF Standing, WasAccepted, Lasting
  <2>2. CASE s # n
    BY <1>1, <1>2, <1>5, <2>2
       DEF RepeatSound, Standing, WasAccepted, StillGranted, Lasting, Done
  <2> QED BY <2>1, <2>2
<1>10. Reading' => Standing(hand, hand.sub)'
  BY <1>1 DEF RepeatSound, Reading, Standing, WasAccepted, StillGranted, Lasting, Done
<1>11. ReadRows'
  BY <1>1 DEF RepeatSound, ReadRows
<1>12. QueueSpared'
  <2> SUFFICES ASSUME job # None, job.at \notin {"decisions", "list"}, NEW s \in Queued'
               PROVE  (\/ job.at = "discard" /\ s \in job.left
                       \/ \A op \in Lasting(queue[s], s) : Spared(queue[s], op))'
    BY <1>1 DEF QueueSpared
  <2>1. CASE s = n
    BY <1>1, <1>3, <2>1 DEF Lasting
  <2>2. CASE s # n
    <3>1. s \in Queued /\ queue'[s] = queue[s]
      BY <1>2, <1>5, <2>2
    <3>2. \/ job.at = "discard" /\ s \in job.left
          \/ \A op \in Lasting(queue[s], s) : Spared(queue[s], op)
      BY <3>1 DEF RepeatSound, QueueSpared
    <3> QED BY <1>1, <3>1, <3>2 DEF Lasting, Spared, TargetedBy, RowIds
  <2> QED BY <2>1, <2>2
<1>13. HandSpared'
  BY <1>1 DEF RepeatSound, HandSpared, Reading, Lasting, Spared, TargetedBy, RowIds
<1> QED BY <1>6, <1>7, <1>8, <1>9, <1>10, <1>11, <1>12, <1>13 DEF RepeatSound

\* apply_next takes up the first row of the queue.
LEMMA PickRepeats ==
    ASSUME ServiceSound, RepeatSound, NEW s \in Numbers, Pick(s)
    PROVE  RepeatSound'
<1> USE DEF tables, history
<1>1. /\ hand = None /\ s \in Queued /\ s \in Numbers /\ (\A t \in Queued : s <= t)
      /\ hand' = Row(s) /\ UNCHANGED <<tables, job, count, effects, raced>>
      /\ held' = IF job # None /\ job.at \in Early THEN held \cup {s} ELSE held
  BY DEF Pick, NextInLine, Early
<1>2. /\ hand'.sub = s /\ hand'.writer = queue[s].writer /\ hand'.ops = queue[s].ops
      /\ hand'.at = "read"
  BY <1>1 DEF Row
<1>3. UNCHANGED <<queue, docs, granted>> /\ Queued' = Queued
  BY <1>1 DEF Queued
<1>4. queue[s] # None
  BY <1>1 DEF Queued
<1>5. EffectsSound'
  BY <1>1, <1>2, <1>3 DEF RepeatSound, EffectsSound
<1>6. RowsOnce'
  BY <1>1, <1>2, <1>3, <1>4 DEF RepeatSound, RowsOnce, OncePerSource
<1>7. RowTrimmed'
  BY <1>2, <1>3 DEF RowTrimmed
<1>8. Standing(queue[s], s)
  BY <1>1 DEF RepeatSound
<1>9. \A t \in Queued' : Standing(queue[t], t)'
  BY <1>1, <1>3 DEF RepeatSound, Standing, WasAccepted, StillGranted, Lasting, Done
<1>10. Standing(hand, hand.sub)'
  BY <1>1, <1>2, <1>3, <1>8 DEF Standing, WasAccepted, StillGranted, Lasting, Done
<1>11. ReadRows'
  BY <1>1, <1>3 DEF RepeatSound, ReadRows
<1>12. QueueSpared'
  BY <1>1, <1>3 DEF RepeatSound, QueueSpared, Lasting, Spared, TargetedBy, RowIds
<1>13. HandSpared'
  <2> SUFFICES ASSUME job # None, Reading'
               PROVE  job.at \notin Early /\ \A op \in Lasting(hand, hand.sub)' : Spared(hand, op)'
    BY <1>1 DEF HandSpared
  <2>1. job.at \notin Early
    BY <1>1, <1>2 DEF Reading
  <2>2. \A op \in Lasting(queue[s], s) : Spared(queue[s], op)
    BY <1>1, <2>1 DEF RepeatSound, QueueSpared, Early
  <2> QED BY <1>1, <1>2, <2>1, <2>2 DEF Lasting, Spared, TargetedBy, RowIds
<1> QED BY <1>5, <1>6, <1>7, <1>9, <1>10, <1>11, <1>12, <1>13 DEF RepeatSound

\* store.submit: of what is queued, only the submission itself has taken effect, and its
\* documents are as it leaves them.
LEMMA ApplyRepeats ==
    ASSUME ServiceSound, RepeatSound, Apply
    PROVE  RepeatSound'
<1> USE DEF tables, history
<1> DEFINE out == Batch!Submitted(WithFiles, hand.writer, hand.ops)
           n == hand.sub
           w == hand.writer
<1>1. /\ hand # None /\ hand \in InHand /\ hand.at = "read" /\ n \in Numbers /\ n <= count
      /\ w \in Writers /\ hand.ops \in Seq(Operation)
      /\ hand' = [hand EXCEPT !.at = "applied"]
      /\ UNCHANGED <<queue, granted, job, count, held>>
      /\ effects' = effects \cup {n}
      /\ job # None => raced \cup Written \subseteq raced'
      /\ raced \subseteq raced'
  BY DEF ServiceSound, HandSound, InHand, Apply
<1>2. /\ out.ok
      /\ docs' = [id \in Ids |-> IF out.rows[id] = None THEN None
                                 ELSE [path |-> out.rows[id].path, hash |-> out.rows[id].hash]]
  BY DEF Apply, Outcome
<1>3. WithFiles \in [Ids -> Filed \cup {None}]
  BY PlanReadsCatalog DEF ServiceSound, TablesSound
<1>4. /\ hand'.sub = n /\ hand'.writer = w /\ hand'.ops = hand.ops
      /\ hand'.at = "applied"
  BY <1>1 DEF InHand
<1>5. \A op \in ToSet(hand.ops) : Allowed(w, op)
  BY <1>1, <1>2, <1>3, SubmittedIsGranted
<1>6. OncePerSource(hand.ops)
  BY <1>1 DEF RepeatSound, RowsOnce
<1>7. \A op \in ToSet(hand.ops) : Done(out.rows, w, op)
  BY <1>1, <1>2, <1>3, <1>6, SubmittedDone
<1>8. ~Batch!DuplicateMoveSources(hand.ops)
  BY <1>2 DEF Batch!Submitted
<1>9. \A id \in Ids \ Written : out.rows[id] = WithFiles[id]
  <2> SUFFICES ASSUME NEW id \in Ids, id \notin Written PROVE out.rows[id] = WithFiles[id]
    OBVIOUS
  <2>1. \A op \in ToSet(hand.ops) : ~(op.kind # "decision" /\ id = <<w, op.key>>)
    BY DEF Written
  <2> HIDE DEF out, w
  <2> QED BY <1>1, <1>3, <2>1, SubmittedKeeps DEF out, w
<1> HIDE DEF out
<1>10. \A op \in ToSet(hand.ops) : <<w, op.key>> \in Ids
  <2>1. \A op \in ToSet(hand.ops) : op \in Operation
    BY <1>1 DEF ToSet
  <2>2. \A op \in Operation : op.key \in Keys
    BY DEF Operation
  <2> QED BY <1>1, <2>1, <2>2 DEF Ids
<1>11. ASSUME NEW op \in ToSet(hand.ops) PROVE Done(docs', w, op)
  <2>1. docs'[<<w, op.key>>] = IF out.rows[<<w, op.key>>] = None THEN None
            ELSE [path |-> out.rows[<<w, op.key>>].path, hash |-> out.rows[<<w, op.key>>].hash]
    BY <1>2, <1>10
  <2>2. out.rows[<<w, op.key>>] # None =>
            [path |-> out.rows[<<w, op.key>>].path, hash |-> out.rows[<<w, op.key>>].hash] # None
    <3>1. out.rows \in [Ids -> Filed \cup {None}]
      BY <1>1, <1>3, SubmittedKeeps DEF out
    <3>2. out.rows[<<w, op.key>>] # None =>
              [path |-> out.rows[<<w, op.key>>].path, hash |-> out.rows[<<w, op.key>>].hash]
                  \in Document
      BY <1>10, <3>1 DEF Filed, Document
    <3> QED BY <3>2, ServiceAssumption
  <2> QED BY <1>7, <2>1, <2>2 DEF Done
<1>12. \A id \in Ids \ Written : docs'[id] = docs[id]
  <2> SUFFICES ASSUME NEW id \in Ids \ Written PROVE docs'[id] = docs[id]
    OBVIOUS
  <2>1. docs \in [Ids -> Document \cup {None}]
    BY DEF ServiceSound, TablesSound
  <2>2. docs'[id] = IF out.rows[id] = None THEN None
                    ELSE [path |-> out.rows[id].path, hash |-> out.rows[id].hash]
    BY <1>2
  <2> QED BY <1>9, <2>1, <2>2, PlanReadsCatalog DEF SameDocument
<1>13. Queued' = Queued /\ Queued \subseteq Numbers /\ \A s \in Queued : n <= s /\ queue[s] # None
  BY <1>1 DEF ServiceSound, OrderSound, Queued
<1>14. \A s \in Queued \ {n} : s \notin effects'
  <2>1. \A s \in Queued \cap effects : s <= n /\ n <= s
    BY <1>1, <1>13 DEF RepeatSound, EffectsSound
  <2> QED BY <1>1, <1>13, <2>1 DEF Numbers
<1>15. \A op \in ToSet(hand.ops) : op.kind # "decision" => <<w, op.key>> \in Written
  BY DEF Written
<1>16. n \in Queued => /\ queue[n].writer = w /\ ToSet(queue[n].ops) \subseteq ToSet(hand.ops)
                       /\ ~Batch!DuplicateMoveSources(queue[n].ops)
  BY <1>1, <1>8, <1>13 DEF RepeatSound, RowTrimmed
<1> HIDE DEF n, w
<1>17. EffectsSound'
  <2>1. effects' \subseteq 1..count'
    BY <1>1 DEF RepeatSound, EffectsSound, Numbers
  <2>2. \A e \in effects' : (\A s \in Queued : e <= s) /\ e <= n
    BY <1>1, <1>13 DEF RepeatSound, EffectsSound, Numbers, n
  <2> QED BY <1>4, <1>13, <2>1, <2>2 DEF EffectsSound
<1>18. RowsOnce'
  BY <1>1, <1>4, <1>6 DEF RepeatSound, RowsOnce, OncePerSource
<1>19. RowTrimmed'
  BY <1>1, <1>4 DEF RepeatSound, RowTrimmed, n, w
<1>20. ASSUME NEW s \in Queued PROVE Standing(queue[s], s)'
  <2>1. CASE s # n
    BY <1>14, <2>1 DEF Standing, WasAccepted, Lasting
  <2>2. CASE s = n
    <3>1. /\ queue'[s] = queue[s] /\ granted' = granted /\ queue[s].writer = w
          /\ ToSet(queue[s].ops) \subseteq ToSet(hand.ops)
          /\ ~Batch!DuplicateMoveSources(queue[s].ops)
      BY <1>1, <1>16, <2>2
    <3>2. WasAccepted(queue[s], s)'
      BY <1>5, <3>1 DEF WasAccepted, Allowed
    <3>3. StillGranted(queue[s])'
      BY <1>5, <3>1 DEF StillGranted, Allowed
    <3>4. \A op \in Lasting(queue[s], s)' : Done(docs, queue[s].writer, op)'
      BY <1>11, <3>1 DEF Lasting, Done
    <3> QED BY <3>2, <3>3, <3>4 DEF Standing
  <2> QED BY <2>1, <2>2
<1>21. ~Reading'
  BY <1>4 DEF Reading
<1>22. ReadRows'
  <2> SUFFICES ASSUME job # None, NEW r \in job.rows
               PROVE  /\ InScope(job.target, r[1][1], r[2])
                      /\ r[1] \in raced' \/ docs'[r[1]] = None \/ docs'[r[1]].path = r[2]
    BY <1>1 DEF ReadRows
  <2>1. r[1] \in Ids
    BY DEF ServiceSound, JobSound
  <2> QED BY <1>1, <1>12, <2>1 DEF RepeatSound, ReadRows
<1>23. QueueSpared'
  <2> SUFFICES ASSUME job # None, NEW s \in Queued PROVE Lasting(queue[s], s)' = {}
    BY <1>1, <1>13 DEF QueueSpared
  <2>1. CASE s # n
    BY <1>14, <2>1 DEF Lasting
  <2>2. CASE s = n
    BY <1>1, <1>15, <1>16, <2>2 DEF Lasting
  <2> QED BY <2>1, <2>2
<1>24. HandSpared'
  BY <1>21 DEF HandSpared
<1> QED BY <1>13, <1>17, <1>18, <1>19, <1>20, <1>21, <1>22, <1>23, <1>24 DEF RepeatSound

\* A step leaves the document of an operation and the grants of its writer alone.
Untouched(w, op) ==
    /\ docs'[<<w, op.key>>] = docs[<<w, op.key>>]
    /\ w \in granted => w \in granted'

\* The steps of a deletion, but for those that begin it and that shorten a submission: what
\* they remove is not what a queued submission has left.
LEMMA ManagedRepeats ==
    ASSUME ServiceSound, RepeatSound, UNCHANGED <<effects, raced, held, hand, count>>, job # None,
           \A s \in Numbers : queue'[s] = queue[s] \/ queue'[s] = None,
           job' # None => /\ job'.target = job.target /\ job'.rows = job.rows
                          /\ job'.at \in Early => job.at \in Early,
           \A s \in Queued' : \A op \in Lasting(queue[s], s) : Untouched(queue[s].writer, op),
           Reading => \A op \in Lasting(hand, hand.sub) : Untouched(hand.writer, op),
           \A r \in job.rows : docs'[r[1]] = docs[r[1]] \/ docs'[r[1]] = None,
           QueueSpared'
    PROVE  RepeatSound'
<1>1. \A s \in Queued' : s \in Queued /\ s \in Numbers /\ queue'[s] = queue[s]
  BY DEF Queued
<1>2. hand # None => hand.sub \in Numbers
  BY DEF ServiceSound, HandSound, InHand
<1>3. EffectsSound'
  BY <1>1 DEF RepeatSound, EffectsSound
<1>4. RowsOnce'
  BY DEF RepeatSound, RowsOnce, OncePerSource
<1>5. RowTrimmed'
  BY <1>2 DEF RepeatSound, RowTrimmed
<1>6. ASSUME NEW s \in Queued' PROVE Standing(queue[s], s)'
  <2>1. Standing(queue[s], s) /\ queue'[s] = queue[s]
    BY <1>1 DEF RepeatSound
  <2>2. \A op \in Lasting(queue[s], s) : Untouched(queue[s].writer, op)
    OBVIOUS
  <2> QED BY <2>1, <2>2 DEF Standing, WasAccepted, StillGranted, Lasting, Done, Untouched
<1>7. Reading' <=> Reading
  BY DEF Reading
<1>8. Reading' => Standing(hand, hand.sub)'
  <2> SUFFICES ASSUME Reading PROVE Standing(hand, hand.sub)'
    BY <1>7
  <2>1. Standing(hand, hand.sub)
    BY DEF RepeatSound
  <2>2. \A op \in Lasting(hand, hand.sub) : Untouched(hand.writer, op)
    OBVIOUS
  <2> QED BY <2>1, <2>2 DEF Standing, WasAccepted, StillGranted, Lasting, Done, Untouched
<1>9. ReadRows'
  <2> SUFFICES ASSUME job' # None, NEW r \in job.rows
               PROVE  /\ InScope(job'.target, r[1][1], r[2])
                      /\ r[1] \in raced' \/ docs'[r[1]] = None \/ docs'[r[1]].path = r[2]
    BY DEF ReadRows
  <2>1. docs'[r[1]] = docs[r[1]] \/ docs'[r[1]] = None
    OBVIOUS
  <2> QED BY <2>1 DEF RepeatSound, ReadRows
<1>10. HandSpared'
  BY <1>7 DEF RepeatSound, HandSpared, Lasting, Spared, TargetedBy, RowIds
<1> QED BY <1>3, <1>4, <1>5, <1>6, <1>8, <1>9, <1>10 DEF RepeatSound

\* The steps that change neither rows nor documents.
LEMMA TurnRepeats ==
    ASSUME ServiceSound, RepeatSound,
           UNCHANGED <<queue, docs, granted, effects, raced, held, hand, count>>, job # None,
           job' # None => /\ job'.target = job.target /\ job'.rows = job.rows
                          /\ job'.at \in Early => job.at \in Early,
           QueueSpared'
    PROVE  RepeatSound'
<1>1. \A w, op : Untouched(w, op)
  BY DEF Untouched
<1> QED BY <1>1, ManagedRepeats

\* A deletion begins: what it has read is where it read it.
LEMMA BeginRepeats ==
    ASSUME ServiceSound, RepeatSound, NEW t \in Targets, Begin(t)
    PROVE  RepeatSound'
<1> USE DEF tables, history
<1> DEFINE ids == {id \in Ids : docs[id] # None /\ InScope(t, id[1], docs[id].path)}
           rows == {<<id, docs[id].path>> : id \in ids}
<1>1. /\ UNCHANGED <<queue, docs, granted, effects, raced, hand, count>>
      /\ job' = [target |-> t, at |-> "decisions", rows |-> rows, left |-> {}, upto |-> count]
      /\ held' = IF hand = None THEN {} ELSE {hand.sub}
  BY DEF Begin
<1>2. ~Reading'
  BY <1>1 DEF Reading
<1>3. Queued' = Queued
  BY <1>1 DEF Queued
<1>4. EffectsSound' /\ RowsOnce' /\ RowTrimmed'
  BY <1>1, <1>3 DEF RepeatSound, EffectsSound, RowsOnce, RowTrimmed, OncePerSource
<1>5. \A s \in Queued' : Standing(queue[s], s)'
  BY <1>1, <1>3 DEF RepeatSound, Standing, WasAccepted, StillGranted, Lasting, Done
<1>6. ReadRows'
  <2>1. \A r \in rows : InScope(t, r[1][1], r[2]) /\ docs[r[1]].path = r[2]
    OBVIOUS
  <2>2. job'.target = t /\ job'.rows = rows
    BY <1>1
  <2> HIDE DEF rows
  <2> QED BY <1>1, <2>1, <2>2 DEF ReadRows
<1>7. QueueSpared'
  BY <1>1 DEF QueueSpared
<1>8. HandSpared'
  BY <1>2 DEF HandSpared
<1> QED BY <1>2, <1>4, <1>5, <1>6, <1>7, <1>8 DEF RepeatSound

\* Decisions go; the queue is listed; the discarding is done; a file goes; the tree goes;
\* the manager dies.
LEMMA StageRepeats ==
    ASSUME ServiceSound, RepeatSound,
           \/ DeleteDecisions \/ ListQueued \/ DiscardDone \/ RemoveTree \/ ManagerDies
           \/ \E r \in job.rows : UnlinkOne(r)
    PROVE  RepeatSound'
<1> USE DEF tables, history
<1>1. /\ UNCHANGED <<queue, docs, granted, effects, raced, held, hand, count>> /\ job # None
      /\ Queued' = Queued
  BY DEF DeleteDecisions, ListQueued, DiscardDone, RemoveTree, ManagerDies, UnlinkOne, Queued
<1>2. job = [target |-> job.target, at |-> job.at, rows |-> job.rows, left |-> job.left,
             upto |-> job.upto]
  BY <1>1 DEF ServiceSound, JobSound
<1>3. CASE DeleteDecisions
  <2>1. job.at = "decisions" /\ job'.at = "list" /\ job'.target = job.target /\ job'.rows = job.rows
    BY <1>2, <1>3 DEF DeleteDecisions
  <2>2. QueueSpared'
    BY <2>1 DEF QueueSpared
  <2> QED BY <1>1, <2>1, <2>2, TurnRepeats DEF Early
<1>4. CASE ListQueued
  <2>1. /\ job.at = "list" /\ job.target.scope # "user"
        /\ job'.at = "discard" /\ job'.target = job.target /\ job'.rows = job.rows
        /\ job'.left = {s \in Queued :
                           /\ queue[s].writer = job.target.writer
                           /\ \E op \in ToSet(queue[s].ops) : TargetedBy(op, job.target)}
    BY <1>2, <1>4 DEF ListQueued
  <2>2. QueueSpared'
    <3> SUFFICES ASSUME NEW s \in Queued, s \notin job'.left,
                        NEW op \in ToSet(queue[s].ops)
                 PROVE  queue[s].writer = job.target.writer => ~TargetedBy(op, job.target)
      BY <1>1, <2>1 DEF QueueSpared, Lasting, Spared, TargetedBy, RowIds
    <3> QED BY <2>1
  <2> QED BY <1>1, <2>1, <2>2, TurnRepeats DEF Early
<1>5. CASE DiscardDone
  <2>1. /\ job.at = "discard" /\ job.left = {}
        /\ job'.at = "unlink" /\ job'.target = job.target /\ job'.rows = job.rows
    BY <1>2, <1>5 DEF DiscardDone
  <2>2. QueueSpared'
    BY <1>1, <2>1 DEF RepeatSound, QueueSpared, Lasting, Spared, TargetedBy, RowIds
  <2> QED BY <1>1, <2>1, <2>2, TurnRepeats DEF Early
<1>6. CASE RemoveTree
  <2>1. job.at = "rmtree" /\ job'.at = "record" /\ job'.target = job.target /\ job'.rows = job.rows
    BY <1>2, <1>6 DEF RemoveTree
  <2>2. QueueSpared'
    BY <1>1, <2>1 DEF RepeatSound, QueueSpared, Lasting, Spared, TargetedBy, RowIds
  <2> QED BY <1>1, <2>1, <2>2, TurnRepeats DEF Early
<1>7. CASE ManagerDies
  <2>1. job' = None
    BY <1>7 DEF ManagerDies
  <2>2. QueueSpared'
    BY <2>1 DEF QueueSpared
  <2> QED BY <1>1, <2>1, <2>2, TurnRepeats
<1>8. CASE \E r \in job.rows : UnlinkOne(r)
  <2>1. job.at = "unlink" /\ job'.at = "unlink" /\ job'.target = job.target /\ job'.rows = job.rows
    BY <1>2, <1>8 DEF UnlinkOne
  <2>2. QueueSpared'
    BY <1>1, <2>1 DEF RepeatSound, QueueSpared, Lasting, Spared, TargetedBy, RowIds
  <2> QED BY <1>1, <2>1, <2>2, TurnRepeats DEF Early
<1> QED BY <1>3, <1>4, <1>5, <1>6, <1>7, <1>8

\* What the deletion leaves alone it does not touch, although it goes by the documents that
\* it read when it began.
LEMMA SparedUntouched ==
    ASSUME ServiceSound, RepeatSound, DeleteRows \/ Purge \/ Finish, NEW row, NEW s,
           row.writer \in Writers, row.ops \in Seq(Operation),
           NEW op \in Lasting(row, s), Spared(row, op), Done(docs, row.writer, op)
    PROVE  Untouched(row.writer, op)
<1> USE DEF tables, history
<1> DEFINE w == row.writer
           t == job.target
           id == <<w, op.key>>
<1>1. op \in Operation /\ op.kind \in {"put", "move", "delete"} /\ id \in Ids /\ id \notin raced
  <2>1. op \in Operation
    BY DEF Lasting, ToSet
  <2> QED BY <2>1 DEF Operation, Lasting, Ids
<1>2. /\ job # None /\ t \in Targets /\ job.rows \subseteq Ids \X Paths
      /\ job.at = "unlink" => t.scope # "user"
      /\ job.at = "purge" => t.scope = "user"
  BY DEF ServiceSound, JobSound, DeleteRows, FilesGone, Purge, Finish
<1>3. t.scope \in {"prefix", "integration", "user"}
  BY <1>2 DEF Targets
<1>4. CASE DeleteRows
  <2>1. /\ t.scope # "user" /\ granted' = granted
        /\ docs' = [x \in Ids |-> IF x \in RowIds THEN None ELSE docs[x]]
    BY <1>2, <1>4 DEF DeleteRows, FilesGone
  <2>2. id \notin RowIds
    <3> SUFFICES ASSUME id \in RowIds PROVE FALSE
      OBVIOUS
    <3>1. PICK r \in job.rows : r[1] = id
      BY DEF RowIds
    <3>2. /\ InScope(t, w, r[2])
          /\ id \in raced \/ docs[id] = None \/ docs[id].path = r[2]
      BY <1>2, <3>1 DEF RepeatSound, ReadRows
    <3>3. w = t.writer
      BY <1>3, <2>1, <3>2 DEF InScope
    <3>4. ~TargetedBy(op, t)
      BY <2>1, <3>3 DEF Spared
    <3>5. op.kind = "put"
      BY <1>1, <3>3, <3>4 DEF TargetedBy
    <3>6. docs[id] # None /\ docs[id].path = op.path /\ op.path \in Paths /\ op.path # None
      BY <1>1, <3>5, ServiceAssumption DEF Done, Operation
    <3>7. InScope(t, t.writer, op.path)
      BY <1>1, <3>2, <3>3, <3>6
    <3> QED BY <3>4, <3>5, <3>6, <3>7 DEF TargetedBy
  <2> QED BY <1>1, <2>1, <2>2 DEF Untouched
<1>5. CASE Purge
  <2>1. /\ UserOf[w] # t.user
        /\ granted' = {v \in granted : UserOf[v] # t.user}
        /\ docs' = [x \in Ids |-> IF UserOf[x[1]] = t.user THEN None ELSE docs[x]]
    BY <1>2, <1>5 DEF Purge, Spared
  <2> QED BY <1>1, <2>1 DEF Untouched
<1>6. CASE Finish
  <2>1. /\ docs' = docs
        /\ granted' = IF t.scope = "integration" THEN granted \ {t.writer} ELSE granted
    BY <1>6 DEF Finish
  <2>2. t.scope = "integration" => w # t.writer
    BY DEF Spared, TargetedBy
  <2> QED BY <2>1, <2>2 DEF Untouched
<1> QED BY <1>4, <1>5, <1>6

\* Rows and documents go.
LEMMA RemovalRepeats ==
    ASSUME ServiceSound, RepeatSound, DeleteRows \/ Purge \/ Finish
    PROVE  RepeatSound'
<1> USE DEF tables, history
<1>1. /\ UNCHANGED <<effects, raced, held, hand, count>> /\ job # None
      /\ job.at \in {"unlink", "purge", "record"}
  BY DEF DeleteRows, FilesGone, Purge, Finish
<1>2. \A s \in Numbers : queue'[s] = queue[s] \/ queue'[s] = None
  BY DEF DeleteRows, Purge, Finish
<1>3. /\ job = [target |-> job.target, at |-> job.at, rows |-> job.rows, left |-> job.left,
                upto |-> job.upto]
      /\ job.rows \subseteq Ids \X Paths
  BY <1>1 DEF ServiceSound, JobSound
<1>4. job' # None => /\ job'.target = job.target /\ job'.rows = job.rows
                     /\ job'.at \in {"record", "rmtree"}
  BY <1>3 DEF DeleteRows, Purge, Finish
<1>5. \A s \in Queued' : s \in Queued /\ s \in Numbers /\ queue'[s] = queue[s]
  BY <1>2 DEF Queued
<1>6. ASSUME NEW s \in Queued', NEW op \in Lasting(queue[s], s)
      PROVE  Untouched(queue[s].writer, op)
  <2>1. queue[s].writer \in Writers /\ queue[s].ops \in Seq(Operation)
    BY <1>5 DEF ServiceSound, QueueSound, Submission, Queued
  <2>2. Done(docs, queue[s].writer, op)
    BY <1>5 DEF RepeatSound, Standing
  <2>3. Spared(queue[s], op)
    BY <1>1, <1>5 DEF RepeatSound, QueueSpared
  <2> QED BY <2>1, <2>2, <2>3, SparedUntouched
<1>7. ASSUME Reading, NEW op \in Lasting(hand, hand.sub) PROVE Untouched(hand.writer, op)
  <2>1. hand.writer \in Writers /\ hand.ops \in Seq(Operation)
    BY <1>7 DEF ServiceSound, HandSound, InHand, Reading
  <2>2. Done(docs, hand.writer, op)
    BY <1>7 DEF RepeatSound, Standing
  <2>3. Spared(hand, op)
    BY <1>1, <1>7 DEF RepeatSound, HandSpared
  <2> QED BY <2>1, <2>2, <2>3, SparedUntouched
<1>8. \A r \in job.rows : docs'[r[1]] = docs[r[1]] \/ docs'[r[1]] = None
  <2>1. \A r \in job.rows : r[1] \in Ids
    BY <1>3
  <2> QED BY <2>1 DEF DeleteRows, Purge, Finish
<1>9. QueueSpared'
  <2> SUFFICES ASSUME job' # None, NEW s \in Queued', NEW op \in Lasting(queue[s], s)'
               PROVE  Spared(queue[s], op)'
    BY DEF QueueSpared
  <2>1. op \in Lasting(queue[s], s)
    BY <1>1, <1>5 DEF Lasting
  <2>2. Spared(queue[s], op)
    BY <1>1, <1>5, <2>1 DEF RepeatSound, QueueSpared
  <2> QED BY <1>4, <1>5, <2>2 DEF Spared, TargetedBy, RowIds
<1> QED BY <1>1, <1>2, <1>4, <1>6, <1>7, <1>8, <1>9, ManagedRepeats DEF Early

\* delete_user drops the user's part of the queue.
LEMMA DeleteQueuedRepeats ==
    ASSUME ServiceSound, RepeatSound, DeleteQueued
    PROVE  RepeatSound'
<1> USE DEF tables, history
<1>1. /\ UNCHANGED <<docs, granted, effects, raced, held, hand, count>> /\ job # None
      /\ job.at = "list" /\ job.target.scope = "user"
      /\ queue' = [s \in Numbers |->
             IF s \in Queued /\ UserOf[queue[s].writer] = job.target.user THEN None ELSE queue[s]]
  BY DEF DeleteQueued
<1>2. job = [target |-> job.target, at |-> job.at, rows |-> job.rows, left |-> job.left,
             upto |-> job.upto]
  BY <1>1 DEF ServiceSound, JobSound
<1>3. job'.target = job.target /\ job'.rows = job.rows /\ job'.at = "purge"
  BY <1>2 DEF DeleteQueued
<1>4. \A s \in Queued' : queue'[s] = queue[s] /\ UserOf[queue[s].writer] # job.target.user
  BY <1>1 DEF Queued
<1>5. \A w, op : Untouched(w, op)
  BY <1>1 DEF Untouched
<1>6. QueueSpared'
  BY <1>1, <1>3, <1>4 DEF QueueSpared, Spared
<1>7. \A s \in Numbers : queue'[s] = queue[s] \/ queue'[s] = None
  BY <1>1
<1> QED BY <1>1, <1>3, <1>5, <1>6, <1>7, ManagedRepeats DEF Early

\* The operations of the scope go from a row of the queue: what is left is spared.
LEMMA DiscardOneRepeats ==
    ASSUME ServiceSound, RepeatSound, DiscardOne
    PROVE  RepeatSound'
<1> USE DEF tables, history
<1>1. /\ job # None /\ job.at = "discard" /\ job.target.scope # "user"
      /\ UNCHANGED <<docs, granted, effects, raced, held, hand, count>>
  BY DiscardOneTrims DEF DiscardOne
<1>2. PICK s \in job.left :
          /\ s \in Numbers /\ queue[s] \in Submission /\ queue[s] # None
          /\ queue[s].writer = job.target.writer
          /\ \A x \in Numbers : x # s => queue'[x] = queue[x]
          /\ queue'[s] \in Submission /\ queue'[s].writer = queue[s].writer
          /\ \E S : queue'[s].ops \in {queue[s].ops, Keeping(S, queue[s].ops)}
          /\ ToSet(queue'[s].ops) \subseteq ToSet(queue[s].ops)
          /\ queue'[s].state = "queued" =>
                 /\ queue[s].state = "queued"
                 /\ \A op \in ToSet(queue'[s].ops) : ~TargetedBy(op, job.target)
          /\ job'.target = job.target /\ job'.at = job.at /\ job'.rows = job.rows
          /\ job'.left = job.left \ {s}
  BY DiscardOneTrims
<1>3. \A x \in Numbers :
          /\ queue'[x] # None => queue[x] # None
          /\ queue'[x].writer = queue[x].writer
          /\ ToSet(queue'[x].ops) \subseteq ToSet(queue[x].ops)
  BY <1>2
<1>4. \A x \in Numbers : (queue[x] # None /\ ~Batch!DuplicateMoveSources(queue[x].ops))
                             => ~Batch!DuplicateMoveSources(queue'[x].ops)
  <2>1. queue[s].ops \in Seq(Operation)
    BY <1>2 DEF Submission
  <2>2. \A S : ~Batch!DuplicateMoveSources(queue[s].ops)
                   => ~Batch!DuplicateMoveSources(Keeping(S, queue[s].ops))
    BY <2>1, KeepingOnce
  <2>3. ~Batch!DuplicateMoveSources(queue[s].ops) => ~Batch!DuplicateMoveSources(queue'[s].ops)
    BY <1>2, <2>2
  <2> QED BY <1>2, <2>3
<1>5. \A x \in Queued' : x \in Queued /\ x \in Numbers
  BY <1>2, <1>3 DEF Queued
<1>6. \A x \in Queued' : Lasting(queue[x], x)' \subseteq Lasting(queue[x], x)
  BY <1>1, <1>3, <1>5 DEF Lasting
<1>7. EffectsSound'
  BY <1>1, <1>5 DEF RepeatSound, EffectsSound
<1>8. RowsOnce'
  BY <1>1, <1>3 DEF RepeatSound, RowsOnce, OncePerSource
<1>9. RowTrimmed'
  <2>1. hand # None => hand.sub \in Numbers
    BY DEF ServiceSound, HandSound, InHand
  <2> QED BY <1>1, <1>3, <1>4, <2>1 DEF RepeatSound, RowTrimmed
<1>10. ASSUME NEW x \in Queued' PROVE Standing(queue[x], x)'
  <2>1. /\ x \in Numbers /\ queue[x] # None /\ Standing(queue[x], x)
        /\ queue'[x].writer = queue[x].writer /\ ToSet(queue'[x].ops) \subseteq ToSet(queue[x].ops)
    BY <1>3, <1>5 DEF RepeatSound, Queued
  <2>2. WasAccepted(queue[x], x)'
    BY <1>1, <1>4, <2>1 DEF Standing, WasAccepted
  <2>3. StillGranted(queue[x]) => StillGranted(queue[x])'
    BY <1>1, <2>1 DEF StillGranted
  <2>4. \A op \in Lasting(queue[x], x)' : Done(docs, queue[x].writer, op)'
    BY <1>1, <1>6, <2>1 DEF Standing, Done
  <2>5. Lasting(queue[x], x)' # {} => StillGranted(queue[x])'
    BY <1>6, <2>1, <2>3 DEF Standing
  <2> QED BY <2>2, <2>4, <2>5 DEF Standing
<1>11. ~Reading /\ ~Reading'
  BY <1>1 DEF RepeatSound, HandSpared, Reading, Early
<1>12. ReadRows'
  BY <1>1, <1>2 DEF RepeatSound, ReadRows
<1>13. QueueSpared'
  <2> SUFFICES ASSUME NEW x \in Queued', x \notin job'.left, NEW op \in Lasting(queue[x], x)'
               PROVE  Spared(queue[x], op)'
    BY <1>1, <1>2 DEF QueueSpared
  <2>1. CASE x = s
    <3>1. ~TargetedBy(op, job.target)
      BY <1>2, <2>1 DEF Lasting, Queued
    <3>2. ~TargetedBy(op, job.target)'
      BY <1>2, <3>1 DEF TargetedBy, RowIds
    <3> QED BY <1>1, <1>2, <3>2 DEF Spared
  <2>2. CASE x # s
    <3>1. x \notin job.left /\ op \in Lasting(queue[x], x) /\ x \in Queued
      BY <1>2, <1>5, <1>6, <2>2
    <3>2. Spared(queue[x], op)
      BY <1>1, <3>1 DEF RepeatSound, QueueSpared
    <3> QED BY <1>2, <1>3, <1>5, <3>2 DEF Spared, TargetedBy, RowIds
  <2> QED BY <2>1, <2>2
<1>14. HandSpared'
  BY <1>11 DEF HandSpared
<1> QED BY <1>7, <1>8, <1>9, <1>10, <1>11, <1>12, <1>13, <1>14 DEF RepeatSound

\* The steps of writers and of the applier that write no document.
LEMMA OthersRepeat ==
    ASSUME ServiceSound, RepeatSound,
           \/ \E w \in Writers : RegisterPrefix(w)
           \/ ApplyRaises \/ Mark \/ ApplierDies \/ UNCHANGED vars
    PROVE  RepeatSound'
<1> USE DEF tables, history
<1>1. UNCHANGED <<docs, effects, raced, job, held, count>> /\ granted \subseteq granted'
  BY DEF RegisterPrefix, ApplyRaises, Mark, ApplierDies, vars
<1>2. ASSUME NEW s \in Numbers, queue'[s] # None
      PROVE  /\ queue[s] # None
             /\ queue'[s].writer = queue[s].writer /\ queue'[s].ops = queue[s].ops
             /\ queue'[s].state = "queued" => queue[s].state = "queued"
  <2>1. CASE queue' = queue
    BY <1>2, <2>1
  <2>2. CASE Mark
    <3>1. /\ hand \in InHand /\ hand.at \in {"applied", "failed"}
          /\ queue \in [Numbers -> Submission \cup {None}]
      BY <2>2 DEF ServiceSound, HandSound, QueueSound, InHand, Mark
    <3>2. CASE queue'[s] = queue[s]
      BY <1>2, <3>2
    <3>3. CASE queue'[s] # queue[s]
      <4>1. queue[s] # None /\ queue'[s] = [queue[s] EXCEPT !.state = hand.at]
        BY <2>2, <3>1, <3>3 DEF Mark
      <4>2. queue[s] \in Submission
        BY <3>1, <4>1
      <4> QED BY <3>1, <4>1, <4>2 DEF Submission
    <3> QED BY <3>2, <3>3
  <2> QED BY <2>1, <2>2 DEF RegisterPrefix, ApplyRaises, ApplierDies, vars
<1>3. hand' # None =>
          /\ hand # None /\ hand'.sub = hand.sub
          /\ hand'.writer = hand.writer /\ hand'.ops = hand.ops
          /\ hand'.at = "read" => hand.at = "read"
  <2>1. hand # None => hand \in InHand
    BY DEF ServiceSound, HandSound
  <2>2. CASE ApplyRaises
    BY <2>1, <2>2 DEF ApplyRaises, InHand
  <2>3. CASE hand' \in {None, hand}
    BY <2>3
  <2> QED BY <2>2, <2>3 DEF RegisterPrefix, Mark, ApplierDies, vars
<1> QED BY <1>1, <1>2, <1>3, QuietRepeats

\* What a submission that took effect has left stands, until it is applied again.
LEMMA RepeatInductive ==
    ASSUME \A w \in Writers : \A ops \in Batches[w] : OncePerSource(ops)
    PROVE  /\ Init => RepeatSound
           /\ ServiceSound /\ RepeatSound /\ [Next]_vars => RepeatSound'
<1>1. Init => RepeatSound
  <2> SUFFICES ASSUME Init PROVE RepeatSound
    OBVIOUS
  <2>1. /\ job = None /\ hand = None /\ effects = {} /\ Queued = {}
        /\ \A s \in Numbers : queue[s] = None
    BY DEF Init, Queued
  <2>2. EffectsSound /\ RowsOnce /\ RowTrimmed
    BY <2>1 DEF EffectsSound, RowsOnce, RowTrimmed
  <2>3. ReadRows /\ QueueSpared /\ HandSpared /\ ~Reading
    BY <2>1 DEF ReadRows, QueueSpared, HandSpared, Reading
  <2> QED BY <2>1, <2>2, <2>3 DEF RepeatSound
<1>2. ASSUME ServiceSound, RepeatSound, [Next]_vars PROVE RepeatSound'
  <2>1. CASE \E w \in Writers : RegisterPrefix(w) \/ \E ops \in Batches[w] : Enqueue(w, ops)
    BY <1>2, <2>1, OthersRepeat, EnqueueRepeats
  <2>2. CASE Applier \/ ApplierDies
    BY <1>2, <2>2, PickRepeats, ApplyRepeats, OthersRepeat DEF Applier
  <2>3. CASE Manager
    <3>1. CASE \E t \in Targets : Begin(t)
      BY <1>2, <3>1, BeginRepeats
    <3>2. CASE \E r \in (IF job = None THEN {} ELSE job.rows) : UnlinkOne(r)
      <4>1. \E r \in job.rows : UnlinkOne(r)
        BY <3>2
      <4> QED BY <1>2, <4>1, StageRepeats
    <3> QED BY <1>2, <2>3, <3>1, <3>2, StageRepeats, DiscardOneRepeats, RemovalRepeats,
               DeleteQueuedRepeats DEF Manager
  <2>4. CASE ManagerDies
    BY <1>2, <2>4, StageRepeats
  <2>5. CASE UNCHANGED vars
    BY <1>2, <2>5, OthersRepeat
  <2> QED BY <1>2, <2>1, <2>2, <2>3, <2>4, <2>5 DEF Next
<1> QED BY <1>1, <1>2

\* A step that leaves the count of the faults alone is not a fault.
Counted == faults \in Nat

\* The count is a number in every state.
LEMMA FaultsCounted ==
    /\ Init => Counted
    /\ Counted /\ [Next]_vars => Counted'
<1>1. Init => Counted
  BY DEF Init, Counted
<1>2. ASSUME Counted, [Next]_vars PROVE Counted'
  <2> USE DEF tables, history, Fault, Counted
  <2>1. CASE UNCHANGED faults
    BY <1>2, <2>1
  <2>2. CASE Fault
    BY <1>2, <2>2
  <2>3. CASE \E w \in Writers : RegisterPrefix(w) \/ \E ops \in Batches[w] : Enqueue(w, ops)
    BY <2>1, <2>3 DEF RegisterPrefix, Enqueue
  <2>4. CASE Applier \/ ApplierDies
    BY <2>1, <2>2, <2>4 DEF Applier, Pick, Apply, ApplyRaises, Mark, ApplierDies
  <2>5. CASE Manager
    <3>1. CASE \E t \in Targets : Begin(t)
      BY <2>1, <3>1 DEF Begin
    <3>2. CASE \E r \in (IF job = None THEN {} ELSE job.rows) : UnlinkOne(r)
      BY <2>1, <3>2 DEF UnlinkOne
    <3>3. CASE DeleteDecisions \/ ListQueued \/ DiscardOne \/ DiscardDone
      BY <2>1, <3>3 DEF DeleteDecisions, ListQueued, DiscardOne, DiscardDone
    <3>4. CASE DeleteRows \/ DeleteQueued \/ Purge \/ RemoveTree \/ Finish
      BY <2>1, <2>2, <3>4 DEF DeleteRows, DeleteQueued, Purge, RemoveTree, Finish
    <3> QED BY <2>5, <3>1, <3>2, <3>3, <3>4 DEF Manager
  <2>6. CASE ManagerDies
    BY <2>2, <2>6 DEF ManagerDies
  <2>7. CASE UNCHANGED vars
    BY <2>1, <2>7 DEF vars
  <2> QED BY <1>2, <2>3, <2>4, <2>5, <2>6, <2>7 DEF Next
<1> QED BY <1>1, <1>2

\* A submission in hand whose documents stand is accepted again, and changes none.
LEMMA AcceptedAgain ==
    ASSUME ServiceSound, TreeSound, RepeatSound, Reading, hand.sub \in effects,
           Written # {}, Written \cap raced = {}
    PROVE  Outcome.ok /\ \A id \in Ids : SameDocument(Outcome.rows[id], WithFiles[id])
<1> DEFINE w == hand.writer
<1>1. w \in Writers /\ hand.ops \in Seq(Operation)
  BY DEF ServiceSound, HandSound, InHand, Reading
<1>2. /\ WithFiles \in [Ids -> Filed \cup {None}] /\ docs \in [Ids -> Document \cup {None}]
      /\ \A id \in Ids : SameDocument(docs[id], WithFiles[id])
  BY PlanReadsCatalog DEF ServiceSound, TablesSound
<1>3. Apart(WithFiles)
  <2>1. Apart(docs)
    BY DEF TreeSound, PlacesSound
  <2> QED BY <1>2, <2>1 DEF Apart, SameDocument
<1>4. Standing(hand, hand.sub)
  BY DEF RepeatSound
<1>5. \A op \in ToSet(hand.ops) : op.kind # "decision" => op \in Lasting(hand, hand.sub)
  <2>1. \A op \in ToSet(hand.ops) : op.kind # "decision" => <<w, op.key>> \in Written
    BY DEF Written
  <2> QED BY <2>1 DEF Lasting
<1>6. \E op \in Lasting(hand, hand.sub) : TRUE
  BY <1>5 DEF Written
<1>7. /\ ~Batch!DuplicateMoveSources(hand.ops)
      /\ \A op \in ToSet(hand.ops) : Allowed(w, op)
  BY <1>4, <1>6 DEF Standing, WasAccepted, StillGranted, Allowed
<1>8. ASSUME NEW op \in ToSet(hand.ops) PROVE Done(WithFiles, w, op)
  <2>1. CASE op.kind = "decision"
    BY <2>1 DEF Done
  <2>2. CASE op.kind # "decision"
    <3>1. Done(docs, w, op)
      BY <1>4, <1>5, <2>2 DEF Standing
    <3>2. <<w, op.key>> \in Ids
      <4>1. op \in Operation
        BY <1>1 DEF ToSet
      <4> QED BY <1>1, <4>1 DEF Operation, Ids
    <3>3. SameDocument(docs[<<w, op.key>>], WithFiles[<<w, op.key>>])
      BY <1>2, <3>2
    <3> QED BY <3>1, <3>3 DEF Done, SameDocument
  <2> QED BY <2>1, <2>2
<1> QED BY <1>1, <1>2, <1>3, <1>7, <1>8, SubmittedAgain DEF Outcome

\* apply_next may take up a submission that it has applied already, when it died before it
\* had marked the row: store.submit accepts it again and leaves every document as it is,
\* unless a deletion was at work when the submission was applied or taken up again.  Batches
\* write each source with one operation.
THEOREM RepeatChangesNothingAlways ==
    ASSUME \A w \in Writers : \A ops \in Batches[w] : OncePerSource(ops)
    PROVE  Spec => RepeatChangesNothing
<1> DEFINE Repeated == /\ hand # None /\ hand.sub \in effects \ held /\ hand.at = "read"
                       /\ hand' \notin {None, hand}
                       /\ Written # {} /\ Written \cap raced = {} /\ faults' = faults
           Inv == ServiceSound /\ TreeSound /\ RepeatSound /\ Counted
<1>1. ASSUME Inv, Next, Repeated PROVE docs' = docs /\ hand'.at = "applied"
  <2> USE DEF tables, history
  <2>1. Outcome.ok /\ \A id \in Ids : SameDocument(Outcome.rows[id], WithFiles[id])
    BY <1>1, AcceptedAgain DEF Reading
  <2>2. Apply \/ ApplyRaises
    <3>1. CASE \E w \in Writers : RegisterPrefix(w) \/ \E ops \in Batches[w] : Enqueue(w, ops)
      BY <1>1, <3>1 DEF RegisterPrefix, Enqueue
    <3>2. CASE Applier \/ ApplierDies
      BY <1>1, <3>2 DEF Applier, Pick, Mark, ApplierDies
    <3>3. CASE Manager
      <4>1. CASE \E t \in Targets : Begin(t)
        BY <1>1, <4>1 DEF Begin
      <4>2. CASE \E r \in (IF job = None THEN {} ELSE job.rows) : UnlinkOne(r)
        BY <1>1, <4>2 DEF UnlinkOne
      <4>3. CASE DeleteDecisions \/ ListQueued \/ DiscardOne \/ DiscardDone
        BY <1>1, <4>3 DEF DeleteDecisions, ListQueued, DiscardOne, DiscardDone
      <4>4. CASE DeleteRows \/ DeleteQueued \/ Purge \/ RemoveTree \/ Finish
        BY <1>1, <4>4 DEF DeleteRows, DeleteQueued, Purge, RemoveTree, Finish
      <4> QED BY <3>3, <4>1, <4>2, <4>3, <4>4 DEF Manager
    <3>4. CASE ManagerDies
      BY <1>1, <3>4 DEF ManagerDies
    <3> QED BY <1>1, <3>1, <3>2, <3>3, <3>4 DEF Next
  <2>3. Apply
    <3> SUFFICES ASSUME ApplyRaises PROVE FALSE
      BY <2>2
    <3>1. faults' = faults + 1
      BY <2>1 DEF ApplyRaises, Fault
    <3> QED BY <1>1, <3>1 DEF Counted
  <2>4. hand'.at = "applied"
    BY <1>1, <2>3 DEF Apply, ServiceSound, HandSound, InHand
  <2>5. docs' = docs
    <3>1. docs' = [id \in Ids |-> IF Outcome.rows[id] = None THEN None
              ELSE [path |-> Outcome.rows[id].path, hash |-> Outcome.rows[id].hash]]
      BY <2>3 DEF Apply
    <3>2. docs \in [Ids -> Document \cup {None}]
      BY <1>1 DEF ServiceSound, TablesSound
    <3>3. ASSUME NEW id \in Ids PROVE docs'[id] = docs[id]
      <4>1. docs'[id] = IF Outcome.rows[id] = None THEN None
                ELSE [path |-> Outcome.rows[id].path, hash |-> Outcome.rows[id].hash]
        BY <3>1
      <4> QED BY <2>1, <3>2, <4>1, PlanReadsCatalog DEF SameDocument
    <3> QED BY <3>1, <3>2, <3>3
  <2> QED BY <2>4, <2>5
<1>2. Inv /\ [Next]_vars => [Repeated => docs' = docs /\ hand'.at = "applied"]_vars
  BY <1>1
<1>3. Init => RepeatSound /\ Counted
  BY RepeatInductive, FaultsCounted
<1>4. ServiceSound /\ RepeatSound /\ [Next]_vars => RepeatSound'
  BY RepeatInductive
<1>5. Counted /\ [Next]_vars => Counted'
  BY FaultsCounted
<1> QED BY <1>2, <1>3, <1>4, <1>5, TreeInvariant, PTL DEF Spec, RepeatChangesNothing

=============================================================================
