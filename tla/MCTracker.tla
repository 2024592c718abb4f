----------------------------- MODULE MCTracker -----------------------------
(***************************************************************************)
(* Instances of Tracker for TLC.                                           *)
(***************************************************************************)
EXTENDS Tracker, TLC

CONSTANTS f1, f2, i1, i2, i3, lf, crlf, other

\* The same text with two kinds of line ends, and another text.
LineEnds == [v \in Versions |-> IF v = crlf THEN lf ELSE v]

\* All names end in .md.
Markdown == [n \in Names |-> "md"]

\* 1.md, 2.txt.
Mixed == [n \in Names |-> IF n = 1 THEN "md" ELSE "txt"]

\* 1.md lies in the root, 2.txt in a directory of it.
Nested == [n \in Names |-> IF n = 1 THEN {"root"} ELSE {"root", "sub"}]

FileOf(i, v) == [ino |-> i, ver |-> v, readable |-> TRUE]

Folder(files) == [n \in Names |-> IF n \in DOMAIN files THEN files[n] ELSE None]

\* A folder of two files and one of a single file.
TwoFiles ==
    {[f \in Folders |-> IF f = f1 THEN Folder(<<FileOf(i1, lf), FileOf(i2, other)>>)
                                  ELSE Folder(<<FileOf(i1, lf)>>)]}

OneFile == {[f \in Folders |-> Folder(<<FileOf(i1, lf)>>)]}

=============================================================================
