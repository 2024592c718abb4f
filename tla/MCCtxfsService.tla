--------------------------- MODULE MCCtxfsService ---------------------------
(***************************************************************************)
(* An instance of CtxfsService for TLC.                                    *)
(***************************************************************************)
EXTENDS CtxfsService, TLC

CONSTANTS w1, u1, k1, k2, a, b, h1

OneUser == w1 :> u1
OneGrant == w1 :> {a, b}

Put(k, p, h)   == [kind |-> "put", key |-> k, path |-> p, hash |-> h]
Move(k, p, h)  == [kind |-> "move", key |-> k, path |-> p, hash |-> h]
Delete(k)      == [kind |-> "delete", key |-> k, path |-> None, hash |-> None]
Decide(k, p)   == [kind |-> "decision", key |-> k, path |-> p, hash |-> None]

\* Two batches around the subtree {a}, each partly inside and partly outside of it.  The
\* second needs the first, and clears the way for a move of its own.
SomeBatches ==
    w1 :> {<<Put(k1, a, h1), Put(k2, b, h1)>>,
           <<Delete(k1), Move(k2, a, h1), Decide(k1, b)>>}

=============================================================================
