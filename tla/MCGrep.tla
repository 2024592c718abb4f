------------------------------- MODULE MCGrep -------------------------------
(***************************************************************************)
(* An instance of Grep for TLC: three files, of which the second sorts     *)
(* after the third in the catalog (a/b and a-x).                           *)
(***************************************************************************)
EXTENDS Grep

AcrossDirectories == [p \in Paths |-> CASE p = 1 -> 1 [] p = 2 -> 3 [] OTHER -> 2]

one   == <<"needle">>
two   == <<"needle", "needle">>
other == <<"hay", "old needle">>
long  == <<"long needle">>
AllContents == {one, two, other, long}

Three(x, y, z) == [p \in Paths |-> CASE p = 1 -> x [] p = 2 -> y [] OTHER -> z]

\* In step; with a file no row names; with a row of another content; with a row no file has, beside a long line.
MCStores ==
    {[texts |-> Three(one, other, two), rows |-> Three(one, other, two)],
     [texts |-> Three(two, one, one), rows |-> Three(None, one, one)],
     [texts |-> Three(one, two, other), rows |-> Three(two, two, other)],
     [texts |-> Three(one, None, long), rows |-> Three(one, one, long)]}
=============================================================================
