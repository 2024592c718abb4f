------------------------- MODULE MCWriterAuthority -------------------------
(***************************************************************************)
(* An instance of WriterAuthority for TLC: two disjoint roots.             *)
(***************************************************************************)
EXTENDS WriterAuthority

Disjoint == [p \in Prefixes |-> {}]
=============================================================================
