----------------------------- MODULE CtxfsOrder -----------------------------
(***************************************************************************)
(* The order of a submission's operations (src/ctxfs/store.py): deletes,   *)
(* moves, puts, decisions; a move after the move that vacates its          *)
(* destination.  And the cycles among its moves, which no order serves.    *)
(*                                                                         *)
(* An operation is a record with the fields kind, key, path and hash.      *)
(***************************************************************************)
EXTENDS Naturals, SequencesExt, Iteration

OfKind(ops, kind) == Keeping({op \in ToSet(ops) : op.kind = kind}, ops)

(***************************************************************************)
(* _reject_duplicate_move_sources                                          *)
(***************************************************************************)
DuplicateMoveSources(ops) ==
    \E i, j \in DOMAIN ops :
        i # j /\ ops[i].kind = "move" /\ ops[j].kind = "move" /\ ops[i].key = ops[j].key

(***************************************************************************)
(* _ordered_operations.  paths[id] is the catalog path of an identity.  A  *)
(* move depends on the move (of another key) whose current path is its     *)
(* destination.  visit() is depth first along that single dependency, so   *)
(* one call from the loop appends a chain in reverse; it stops at a move   *)
(* already appended (permanent) or on the chain (temporary).               *)
(***************************************************************************)
Dependency(moves, paths, w, m) ==
    {d \in ToSet(moves) : d.key # m.key /\ paths[<<w, d.key>>] = m.path}

VisitChain(moves, paths, w, permanent, m) ==
    Iterate(LAMBDA chain, fuel :
                LET next == Dependency(moves, paths, w, Last(chain))
                            \ (permanent \cup ToSet(chain))
                IN  IF next = {} THEN chain ELSE Append(chain, CHOOSE d \in next : TRUE),
             <<m>>, moves)

\* Faulty variant: a move before the one that vacates its destination.
VisitMovesForward(moves, paths, w) ==
    Iterate(LAMBDA ordered, m :
                IF m \in ToSet(ordered) THEN ordered
                ELSE ordered \o VisitChain(moves, paths, w, ToSet(ordered), m),
             <<>>, moves)

VisitMoves(moves, paths, w) ==
    Iterate(LAMBDA ordered, m :
                IF m \in ToSet(ordered) THEN ordered
                ELSE ordered \o Reverse(VisitChain(moves, paths, w, ToSet(ordered), m)),
             <<>>, moves)

\* Faulty variant: the order of the client.
SubmittedOrder(ops, paths, w) == ops

OrderedOperations(ops, paths, w) ==
    LET moves == OfKind(ops, "move")
    IN  OfKind(ops, "delete")
        \o (IF Len(moves) < 2 THEN moves ELSE VisitMoves(moves, paths, w))
        \o OfKind(ops, "put")
        \o OfKind(ops, "decision")

(***************************************************************************)
(* _move_cycles.  dest maps each moved entry's current path to its         *)
(* destination; starts lists those paths in batch order.  The walk from a  *)
(* start stops outside dest, at a path seen by an earlier walk, or back on *)
(* its own stack, which is a cycle whose first element is that path.       *)
(* _break_move_cycles parks the file at the DESTINATION of that element.   *)
(***************************************************************************)
CycleWalk(dest, starts, seen, start) ==
    Iterate(LAMBDA stack, fuel :
                LET p == dest[Last(stack)]
                IN  IF p \in DOMAIN dest /\ p \notin seen \cup ToSet(stack)
                    THEN Append(stack, p) ELSE stack,
             <<start>>, starts)

MoveCycleBreaks(dest, starts) ==
    Iterate(LAMBDA acc, start :
                IF start \in acc.seen THEN acc
                ELSE LET stack == CycleWalk(dest, starts, acc.seen, start)
                         back  == dest[Last(stack)]
                     IN  [seen   |-> acc.seen \cup ToSet(stack),
                          breaks |-> IF back \in ToSet(stack)
                                     THEN Append(acc.breaks, dest[back])
                                     ELSE acc.breaks],
             [seen |-> {}, breaks |-> <<>>], starts).breaks

=============================================================================
