---------------------------- MODULE MCCtxfsStore ----------------------------
(***************************************************************************)
(* Instances of CtxfsStore for TLC.                                        *)
(***************************************************************************)
EXTENDS CtxfsStore, TLC

CONSTANTS w1, w2, k1, k2, k3, a, b, c, d, e, h1, h2, o1, o2, o3, o4

TwoGrants  == w1 :> {a, b, c, e} @@ w2 :> {d}
OneGrant   == w1 :> {a, b, c}
Flat       == [p \in Paths |-> {}]
BAboveE    == [p \in Paths |-> IF p = e THEN {b} ELSE {}]

At(p, h, o) == [path |-> p, hash |-> h, obj |-> o]

-----------------------------------------------------------------------------
\* Two keys of w1 anywhere under its prefix (b is a directory when e is a file),
\* and one document of w2.
TwoKeyRows ==
    {[id \in Ids |->
        CASE id = <<w1, k1>> -> IF p = None THEN None ELSE At(p, h1, o1)
          [] id = <<w1, k2>> -> IF q = None THEN None ELSE At(q, h2, o2)
          [] id = <<w2, k1>> -> At(d, h1, o3)
          [] OTHER           -> None] :
       <<p, q>> \in {x \in {None, a, b, e} \X {None, a, b, e} :
                        x[1] = None \/ (x[1] # x[2] /\ x # <<b, e>> /\ x # <<e, b>>)}}

SomeOps ==
    {PutOp(k, p, h) : k \in {k1, k2}, p \in {a, b, e}, h \in {h1, h2}}
        \cup {MoveOp(k, p, h) : k \in {k1, k2}, p \in {a, b, e}, h \in {h1, h2}}
        \cup {DeleteOp(k) : k \in {k1, k2}} \cup {DecisionOp(k1, a)}

ForeignOps == {PutOp(k1, d, h2), MoveOp(k1, d, h1), DecisionOp(k1, d), DecisionOp(k2, None)}

\* Every list of one or two operations.
PairBatches ==
    {<<x>> : x \in SomeOps \cup ForeignOps} \cup {<<x, y>> : x, y \in SomeOps}
        \cup {<<x, y>> : x \in {PutOp(k1, a, h2), DeleteOp(k1)}, y \in ForeignOps}

-----------------------------------------------------------------------------
\* Three documents of one writer, in place or missing.
ThreeKeyRows ==
    {[id \in Ids |-> IF id \notin there THEN None
                     ELSE CASE id[2] = k1 -> At(a, h1, o1)
                            [] id[2] = k2 -> At(b, h1, o2)
                            [] id[2] = k3 -> At(c, h1, o3)] : there \in SUBSET ({w1} \X Keys)}

KeyList == <<k1, k2, k3>>

\* The moves of a list are of k1, k2, k3 in turn: another order of keys is the same list on
\* the same catalogs with keys and paths renamed.
MoveLists(n) ==
    {[i \in 1..n |-> MoveOp(KeyList[i], ps[i], h1)] : ps \in [1..n -> {a, b, c}]}

\* Every list of one to three moves, and every pair of moves followed by a put.
MoveBatches ==
    UNION {MoveLists(n) : n \in 1..3}
        \cup {Append(ms, PutOp(k, p, h2)) : ms \in MoveLists(2), k \in Keys, p \in {a, b, c}}

\* Both, of either kind of catalog.
PlannedBatches == PairBatches \cup MoveBatches

PlannedRows == TwoKeyRows \cup ThreeKeyRows

-----------------------------------------------------------------------------
\* Two documents, and batches that retry, continue or revert one another.
TwoInPlace ==
    {[id \in Ids |-> IF id[2] = k1 THEN At(a, h1, o1) ELSE At(b, h1, o2)]}

RetryBatches ==
    {<<op>> : op \in {PutOp(k1, a, h2), PutOp(k1, b, h2), PutOp(k2, a, h1), PutOp(k2, b, h2)}
                        \cup {PutOp(k1, c, h1), DeleteOp(k1), DeleteOp(k2)}
                        \cup {MoveOp(k1, b, h1), MoveOp(k1, c, h1), MoveOp(k2, a, h1), MoveOp(k2, c, h2)}}
        \cup {<<MoveOp(k1, b, h1), MoveOp(k2, p, h1)>> : p \in {a, c}}
        \cup {<<DeleteOp(k1), MoveOp(k2, a, h1)>>, <<PutOp(k1, c, h2), DeleteOp(k2)>>,
              <<DeleteOp(k2), PutOp(k1, b, h2)>>}

\* One move, sent again after it was applied.
RepeatedMove == {<<MoveOp(k1, c, h1)>>}
=============================================================================
