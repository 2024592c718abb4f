---------------------------- MODULE CtxfsAtomic ----------------------------
(***************************************************************************)
(* What CtxfsStore promises a client of submit: a batch takes effect as a  *)
(* whole or not at all, its order does not matter beyond "deletes, then    *)
(* moves, then puts", its moves happen at once, and the readable tree is   *)
(* always the tree the catalog describes.                                  *)
(*                                                                         *)
(* docs maps an identity to the path and content of its document; view is  *)
(* the content a reader finds at each path; request is the submission      *)
(* being served and its state in the submissions table.                    *)
(***************************************************************************)
EXTENDS Naturals, Sequences

CONSTANTS Writers, Keys, Paths, Hashes, Batches, None

VARIABLES docs, decided, view, request

avars == <<docs, decided, view, request>>

DocIds == Writers \X Keys

Doc == [path : Paths, hash : Hashes]

OnePathEach(d) ==
    \A i, j \in DocIds : i # j /\ d[i] # None /\ d[j] # None => d[i].path # d[j].path

ViewOf(d) ==
    [p \in Paths |-> LET at == {id \in DocIds : d[id] # None /\ d[id].path = p}
                     IN  IF at = {} THEN None ELSE d[CHOOSE id \in at : TRUE].hash]

\* The operations of one kind on one key, and the last of them as submitted.
On(batch, kind, k) == {i \in DOMAIN batch : batch[i].kind = kind /\ batch[i].key = k}

Latest(batch, kind, k) ==
    batch[CHOOSE i \in On(batch, kind, k) : \A j \in On(batch, kind, k) : j <= i]

\* The document that a put or a move leaves.
Written(op) == [path |-> op.path, hash |-> op.hash]

\* What the batch makes of key k, whatever the order of operations of
\* different keys: the last put decides, then the move, then the delete.
Outcome(doc, batch, k) ==
    IF On(batch, "put", k) # {} THEN Written(Latest(batch, "put", k))
    ELSE IF On(batch, "move", k) # {} THEN Written(Latest(batch, "move", k))
    ELSE IF On(batch, "delete", k) # {} THEN None ELSE doc

\* A request still QUEUED when the next one comes is never taken up again.
Receive ==
    /\ request' # request
    /\ request' \in [writer : Writers, ops : Batches, state : {"queued"}]
    /\ UNCHANGED <<docs, decided, view>>

Apply ==
    LET w == request.writer
        batch == request.ops
    IN  /\ request.state = "queued"
        /\ request' = [request EXCEPT !.state = "applied"]
        /\ docs' = [id \in DocIds |->
                       IF id[1] = w THEN Outcome(docs[id], batch, id[2]) ELSE docs[id]]
        /\ OnePathEach(docs')
        /\ decided' = decided \cup
               {<<w, batch[i].key>> : i \in {j \in DOMAIN batch : batch[j].kind = "decision"}}
        /\ view' = ViewOf(docs')

Refuse ==
    /\ request.state = "queued"
    /\ request' = [request EXCEPT !.state = "failed"]
    /\ UNCHANGED <<docs, decided, view>>

Init ==
    /\ docs \in [DocIds -> Doc \cup {None}]
    /\ OnePathEach(docs)
    /\ decided = {}
    /\ view = ViewOf(docs)
    /\ request.state = "none"

Next == Receive \/ Apply \/ Refuse

Spec == Init /\ [][Next]_avars

=============================================================================
