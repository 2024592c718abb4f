----------------------------- MODULE Iteration ------------------------------
(***************************************************************************)
(* Loops over a list, as the planner of the store (src/ctxfs/store.py) and *)
(* the discarding of queued operations (src/ctxfs/service.py) have them,   *)
(* and ripgrep over the lines of a file.                                   *)
(* Both are recursive functions, so that CtxfsOrderProofs can say what     *)
(* they compute.                                                           *)
(***************************************************************************)
EXTENDS Naturals, SequencesExt

\* A fold from the left in which each accumulator is a value, not an expression
\* that the step would expand at each of its uses.
Iterate(step(_, _), base, seq) ==
    LET after[n \in 0..Len(seq)] ==
            IF n = 0 THEN base
            ELSE CHOOSE r \in {step(acc, seq[n]) : acc \in {after[n - 1]}} : TRUE
    IN  after[Len(seq)]

\* A list comprehension with a condition: the elements of seq that are in S, in order.
Keeping(S, seq) ==
    Iterate(LAMBDA kept, x : IF x \in S THEN Append(kept, x) ELSE kept, <<>>, seq)

=============================================================================
