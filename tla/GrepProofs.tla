----------------------------- MODULE GrepProofs -----------------------------
(***************************************************************************)
(* Theorems about Grep, for every set of files, every content, any pages,  *)
(* writes and time-outs.                                                   *)
(***************************************************************************)
EXTENDS Grep, CtxfsOrderProofs

(***************************************************************************)
(* Types.                                                                  *)
(***************************************************************************)

Clients ==
    [limit : Limits, cursor : Cursors \cup {None}, start : Cursors \cup {None},
     items : Seq(Matches), pages : Nat, state : {"asking", "complete", "limited", "failed"}]

Scans ==
    [resume : Cursors \cup {None}, anchorFound : BOOLEAN, replayed : BOOLEAN, mismatch : BOOLEAN,
     anchor : Snapshots \cup {None}, active : Snapshots \cup {None}, last : Matches \cup {None},
     matches : Seq(Matches), candidates : Seq(Matches)]

GrepTyped ==
    /\ tree \in [Paths -> Files \cup {None}]
    /\ \A p \in Paths : tree[p] # None => tree[p].id \in 0 .. 2 * MaxWrites
    /\ rows \in [Paths -> Contents \cup {None}]
    /\ write \in Writing \cup {None}
    /\ client \in Clients
    /\ pc \in {"client", "scan", "read", "stat", "row"}
    /\ scan \in Scans
    /\ rg \in Processes \cup {None}
    /\ snap \in Reading \cup {None}
    /\ touched \in SUBSET Paths
    /\ committed \in [Paths -> SUBSET Contents]
    /\ writes \in 0 .. MaxWrites /\ timeouts \in Nat

(***************************************************************************)
(* The store, the phases of a request and the cursors of a search.         *)
(***************************************************************************)

\* What is being written is counted as touched; what the rows have, as committed.
StoreSound ==
    /\ write # None => write.path \in touched
    /\ \A p \in Paths : rows[p] # None => rows[p] \in committed[p]

\* Where a scan resumes that was asked for with a cursor.
Resume(cursor) == IF cursor # None /\ cursor.mode = "search_start" THEN None ELSE cursor

\* The old cursors name a file that is looked at before ripgrep runs.
NamesAnchor(cursor) == InLogicalOrder(cursor) \/ FromFileStart(cursor)

Untried == scan.matches = <<>> /\ scan.candidates = <<>> /\ scan.last = None /\ scan.active = None

PhaseSound ==
    /\ pc = "client" => rg = None /\ scan = IdleScan
    /\ pc # "client" => client.state = "asking" /\ scan.resume = Resume(client.cursor)
    /\ pc = "scan" => rg # None
    /\ pc \in {"stat", "row"} <=> snap # None
    /\ snap # None => snap.path = SnapshotPath
    /\ pc \in {"read", "stat", "row"} /\ rg = None =>
           /\ NamesAnchor(scan.resume) /\ ~scan.anchorFound /\ scan.anchor = None /\ Untried
           /\ FromFileStart(scan.resume) => ~scan.replayed
    /\ pc \in {"read", "stat", "row"} /\ rg # None =>
           /\ rg.pipe # <<>> /\ Head(rg.pipe).kind = "match" /\ ~ActiveFor(Head(rg.pipe))
           /\ ~SkippedRecord(Head(rg.pipe))

\* A place in the order in which ripgrep reads.
DiskBefore(m, n) == m.path < n.path \/ (m.path = n.path /\ m.line < n.line)

Spot(p, i) == [path |-> p, line |-> i]

\* What a page asked for with this cursor still has to give.
After(cursor, p, i) ==
    \/ cursor = None
    \/ cursor.mode = "search_start"
    \/ InLogicalOrder(cursor) /\ Before(cursor, Spot(p, i))
    \/ FromFileStart(cursor) /\ p >= cursor.path
    \/ cursor.mode = "after_match" /\ DiskBefore(cursor, Spot(p, i))

\* A cursor with which nothing has been answered.
Fresh(cursor) ==
    cursor = None \/ cursor.mode \in {"search_start", "file_start", "v2_after_match"}

\* The matches of the files that stayed as they were.
Settled == {p \in Paths \ touched : tree[p] # None}

Has(S, p, i) == \E m \in S : m.path = p /\ m.line = i

\* A search that began with a file_start cursor and ran out of time may start over.
StartedOver == FromFileStart(client.start) /\ timeouts # 0

StartSound ==
    client.start # None =>
        client.start.mode \in {"v2_after_match", "file_start"} /\ client.start.path \in Paths

\* What cursor asks for is what the search still owes, and was not answered.
Within(cursor) == \A p \in Paths, i \in Nat : After(cursor, p, i) => Owed(p, i)

Follows(items, cursor) ==
    /\ cursor # None /\ cursor.mode # "search_start" =>
           cursor.path \in Paths /\ cursor.text \in Contents
    /\ InLogicalOrder(cursor) <=> InLogicalOrder(client.start)
    /\ FromFileStart(cursor) => FromFileStart(client.start)
    /\ Fresh(cursor) => items = <<>>
    /\ ~Fresh(cursor) =>
           \A m \in ToSet(items) :
               /\ \/ m.path = cursor.path /\ m.line = cursor.line
                  \/ InOrder(m, cursor)
               /\ m.path = cursor.path => m.text = cursor.text
    /\ \A p \in Settled : \A i \in Matching(tree[p].text) :
           Owed(p, i) => Has(ToSet(items), p, i) \/ After(cursor, p, i)
    /\ \A m \in ToSet(items) : m.text \in committed[m.path] \/ (cursor # None /\ cursor.mismatch)

\* A search can go on with cursor from items.
Continues(items, cursor) == Follows(items, cursor) /\ (~StartedOver => Within(cursor))

\* The matches answered so far.
ItemsSound ==
    /\ PagesFit
    /\ \A m \in ToSet(client.items) : m.line \in Matching(m.text)

ClientSound ==
    /\ StartSound /\ ItemsSound /\ Exhaustive /\ CompleteIsCommitted
    /\ client.state = "asking" => Continues(client.items, client.cursor)

(***************************************************************************)
(* A page under way.                                                       *)
(***************************************************************************)

Page == ToSet(scan.matches) \cup ToSet(scan.candidates)

Passed == Page \cup ({scan.last} \ {None})

DiskOrder    == {e \in Matches \X Matches : DiskBefore(e[1], e[2])}
LogicalOrder == {e \in Matches \X Matches : Before(e[1], e[2])}
EventOrder   == {e \in Events \X Events : DiskBefore(e[1], e[2])}

\* What a snapshot tells of a file.
SnapshotSound(s) ==
    /\ s.verified => s.text \in Contents
    /\ s.verified /\ ~s.mismatch => s.text \in committed[s.path]
    /\ s.mismatch => scan.mismatch

\* A page remembers why it may not be complete.
MismatchSound ==
    /\ client.cursor # None /\ client.cursor.mismatch => scan.mismatch
    /\ scan.active # None => SnapshotSound(scan.active)
    /\ scan.anchor # None => SnapshotSound(scan.anchor)
    /\ \A m \in Page : /\ m.line \in Matching(m.text)
                       /\ m.text \in committed[m.path] \/ scan.mismatch

\* What the page has so far, and where it resumed.
PageSound ==
    LET resume == scan.resume
    IN  /\ resume = None => scan.anchorFound
        /\ ~scan.replayed => FromFileStart(resume) /\ Untried
        /\ ~scan.anchorFound => scan.matches = <<>> /\ scan.last = None
        /\ InLogicalOrder(resume) => scan.matches = <<>> /\ scan.last = None
        /\ ~InLogicalOrder(resume) => scan.candidates = <<>>
        /\ scan.anchor # None => scan.anchor.path = resume.path /\ scan.anchor.text = resume.text
        /\ InTurn(DiskOrder, scan.matches) /\ InTurn(LogicalOrder, scan.candidates)
        /\ Len(scan.candidates) <= client.limit + 1
        /\ \A m \in Page : After(resume, m.path, m.line)
        /\ scan.last = None => scan.matches = <<>>
        /\ scan.last # None =>
               /\ \A m \in ToSet(scan.matches) : m = scan.last \/ DiskBefore(m, scan.last)
               /\ \/ scan.last \in ToSet(scan.matches)
                  \/ /\ resume # None /\ resume.mode = "after_match" /\ scan.matches = <<>>
                     /\ scan.last.path = resume.path /\ scan.last.line = resume.line
                     /\ scan.last.line \in Matching(scan.last.text)
        /\ resume # None /\ resume.mode = "after_match" /\ scan.anchorFound => scan.last # None
        /\ ~Fresh(resume) \/ InLogicalOrder(resume) =>
               \A m \in Passed : m.path = resume.path => m.text = resume.text
        /\ \A m, n \in Passed : m.path = n.path => m.text = n.text

\* The records to come: those in the pipe, then those of the files ripgrep has not read.
PipeSound ==
    /\ InTurn(EventOrder, rg.pipe)
    /\ \A ev \in ToSet(rg.pipe) :
           /\ \A p \in rg.todo : ev.path < p
           /\ ev.kind = "match" => ev.seen \in Needles
           /\ ev.kind = "begin" => ev.line = 0

\* The records to come are beyond all that was passed, and of a file that was passed
\* the snapshot is at hand.
AheadSound ==
    /\ \A m \in Passed :
           /\ \A p \in rg.todo : m.path < p
           /\ \A ev \in ToSet(rg.pipe) :
                  /\ DiskBefore(m, ev)
                  /\ m.path = ev.path =>
                         /\ scan.active # None
                         /\ scan.active.path = m.path /\ scan.active.text = m.text
    /\ scan.active # None =>
           /\ \A p \in rg.todo : scan.active.path < p
           /\ \A ev \in ToSet(rg.pipe) : scan.active.path <= ev.path
    /\ FromFileStart(scan.resume) => scan.anchorFound
    /\ ~scan.replayed =>
           \A ev \in ToSet(rg.pipe) : ev.kind = "match" /\ ev.path >= scan.resume.path =>
               \E b \in ToSet(rg.pipe) : b.kind = "begin" /\ b.path = ev.path
    /\ FromFileStart(scan.resume) /\ scan.replayed =>
           /\ \A p \in rg.todo : p >= scan.resume.path
           /\ \A ev \in ToSet(rg.pipe) : ev.path >= scan.resume.path
    /\ InLogicalOrder(scan.resume) =>
           /\ scan.anchor # None
           /\ \A ev \in ToSet(rg.pipe) : ev.kind = "match" /\ ev.path = scan.resume.path =>
                  \/ \E b \in ToSet(rg.pipe) : b.kind = "begin" /\ b.path = ev.path
                  \/ scan.active = scan.anchor

\* Why a match need not be on this page: the page is full of earlier ones, or the
\* cursor's match is not there any more.
Excused(p, i) ==
    \/ /\ InLogicalOrder(scan.resume) /\ Len(scan.candidates) = client.limit + 1
       /\ \A m \in ToSet(scan.candidates) : Before(m, Spot(p, i))
    \/ /\ ~scan.anchorFound /\ ~InLogicalOrder(scan.resume)
       /\ \A ev \in ToSet(rg.pipe) : DiskBefore(scan.resume, ev)
       /\ \A q \in rg.todo : q > scan.resume.path

\* Nothing is lost between the pipe and the page.
CoverSound ==
    \A p \in Settled : \A i \in Matching(tree[p].text) :
        After(scan.resume, p, i) =>
            \/ Has(Page, p, i)
            \/ p \in rg.todo
            \/ [kind |-> "match", path |-> p, line |-> i, seen |-> tree[p].text[i]]
                    \in ToSet(rg.pipe)
            \/ Excused(p, i)

ScanSound ==
    /\ pc # "client" => MismatchSound /\ PageSound
    /\ rg # None => PipeSound /\ AheadSound /\ CoverSound

GrepSound == GrepTyped /\ StoreSound /\ PhaseSound /\ ClientSound /\ ScanSound

-----------------------------------------------------------------------------
(***************************************************************************)
(* Lists in order.                                                         *)
(***************************************************************************)

\* The elements of a list are those at its indices.
LEMMA Elements ==
    ASSUME NEW X, NEW s \in Seq(X)
    PROVE  /\ ToSet(s) = {s[i] : i \in 1..Len(s)} /\ ToSet(s) \subseteq X /\ Len(s) \in Nat
           /\ (s = <<>> <=> Len(s) = 0) /\ (s = <<>> <=> ToSet(s) = {})
<1>1. DOMAIN s = 1..Len(s) /\ Len(s) \in Nat /\ \A i \in 1..Len(s) : s[i] \in X
  OBVIOUS
<1>2. ToSet(s) = {s[i] : i \in 1..Len(s)}
  BY <1>1 DEF ToSet
<1>3. s = <<>> <=> Len(s) = 0
  OBVIOUS
<1>4. Len(s) = 0 <=> 1..Len(s) = {}
  <2>1. Len(s) # 0 => 1 \in 1..Len(s)
    BY <1>1
  <2>2. Len(s) = 0 => 1..Len(s) = {}
    BY <1>1
  <2> QED BY <2>1, <2>2
<1> QED BY <1>1, <1>2, <1>3, <1>4

\* The head of a list comes before the rest, which is in order.
LEMMA TailInTurn ==
    ASSUME NEW X, NEW R, NEW s \in Seq(X), s # <<>>, InTurn(R, s)
    PROVE  InTurn(R, Tail(s)) /\ \A y \in ToSet(Tail(s)) : <<Head(s), y>> \in R
<1>1. /\ Len(s) \in Nat /\ Len(s) > 0 /\ Head(s) = s[1]
      /\ Tail(s) \in Seq(X) /\ Len(Tail(s)) = Len(s) - 1
  OBVIOUS
<1>2. ASSUME NEW i \in 1..Len(s) - 1 PROVE Tail(s)[i] = s[i + 1] /\ i + 1 \in 1..Len(s)
  BY <1>1
<1>3. ASSUME NEW i \in 1..Len(s) - 1, NEW j \in 1..Len(s) - 1, i < j
      PROVE  <<Tail(s)[i], Tail(s)[j]>> \in R
  BY <1>2, <1>3 DEF InTurn
<1>4. ASSUME NEW i \in 1..Len(s) - 1 PROVE <<Head(s), Tail(s)[i]>> \in R
  <2>1. 1 \in 1..Len(s) /\ 1 < i + 1
    BY <1>1
  <2> QED BY <1>1, <1>2, <2>1 DEF InTurn
<1>5. InTurn(R, Tail(s))
  BY <1>1, <1>3 DEF InTurn
<1>6. ToSet(Tail(s)) = {Tail(s)[i] : i \in 1..Len(s) - 1}
  <2>1. \A t \in Seq(X) : ToSet(t) = {t[i] : i \in 1..Len(t)}
    BY Elements
  <2> QED BY <1>1, <2>1
<1> QED BY <1>4, <1>5, <1>6

\* The beginning of a list in order.
LEMMA SubSeqInTurn ==
    ASSUME NEW X, NEW R, NEW s \in Seq(X), NEW n \in 0..Len(s), InTurn(R, s)
    PROVE  LET t == SubSeq(s, 1, n)
           IN  /\ t \in Seq(X) /\ Len(t) = n /\ InTurn(R, t) /\ ToSet(t) \subseteq ToSet(s)
               /\ \A i \in 1..n : t[i] = s[i]
               /\ \A i \in n + 1..Len(s) : \A y \in ToSet(t) : <<y, s[i]>> \in R
<1> DEFINE t == SubSeq(s, 1, n)
<1>1. t \in Seq(X) /\ Len(t) = n /\ \A i \in 1..n : t[i] = s[i]
  OBVIOUS
<1>2. n \in Nat /\ Len(s) \in Nat /\ n <= Len(s)
  OBVIOUS
<1> HIDE DEF t
<1>3. \A i \in 1..n : i \in 1..Len(s) /\ s[i] \in ToSet(s)
  BY <1>2, Elements
<1>4. ToSet(t) = {t[i] : i \in 1..n}
  BY <1>1, Elements
<1>5. InTurn(R, t)
  BY <1>1, <1>3 DEF InTurn
<1>6. ASSUME NEW i \in n + 1..Len(s), NEW j \in 1..n PROVE <<t[j], s[i]>> \in R
  <2>1. i \in 1..Len(s) /\ j \in 1..Len(s) /\ j < i
    BY <1>2
  <2> QED BY <1>1, <2>1 DEF InTurn
<1>7. ToSet(t) \subseteq ToSet(s)
  BY <1>1, <1>3, <1>4
<1> QED BY <1>1, <1>4, <1>5, <1>6, <1>7 DEF t

-----------------------------------------------------------------------------
(***************************************************************************)
(* The list of candidates.                                                 *)
(***************************************************************************)

\* In the order of the catalog, two matches at different places come one after the other.
LEMMA LogicalFacts ==
    ASSUME NEW a, NEW b, a.path \in Paths, b.path \in Paths, a.line \in Nat, b.line \in Nat
    PROVE  /\ ~Before(a, a)
           /\ Before(a, b) => ~Before(b, a)
           /\ Before(a, b) \/ Before(b, a) \/ (a.path = b.path /\ a.line = b.line)
<1>1. Logical[a.path] \in Nat /\ Logical[b.path] \in Nat
  BY GrepAssumption
<1>2. a.path # b.path => Logical[a.path] # Logical[b.path]
  BY GrepAssumption
<1> QED BY <1>1, <1>2 DEF Before

\* The order of the catalog is transitive.
LEMMA LogicalTransitive ==
    ASSUME NEW a, NEW b, NEW c, a.path \in Paths, b.path \in Paths, c.path \in Paths,
           a.line \in Nat, b.line \in Nat, c.line \in Nat, Before(a, b), Before(b, c)
    PROVE  Before(a, c)
<1>1. Logical[a.path] \in Nat /\ Logical[b.path] \in Nat /\ Logical[c.path] \in Nat
  BY GrepAssumption
<1> QED BY <1>1 DEF Before

\* bisect_right finds its place.
LEMMA InsertionFound ==
    ASSUME NEW s \in Seq(Matches), NEW m \in Matches, InTurn(LogicalOrder, s)
    PROVE  /\ Insertion(s, m) \in 1..Len(s) + 1
           /\ \A i \in 1..Insertion(s, m) - 1 : ~Before(m, s[i])
           /\ \A i \in Insertion(s, m)..Len(s) : Before(m, s[i])
<1> DEFINE T == {i \in 1..Len(s) : Before(m, s[i])}
           Fits(k) == /\ \A i \in 1..k - 1 : ~Before(m, s[i])
                      /\ \A i \in k..Len(s) : Before(m, s[i])
<1>0. Len(s) \in Nat /\ \A i \in 1..Len(s) : s[i] \in Matches
  OBVIOUS
<1>1. CASE T = {}
  <2>1. Len(s) + 1 \in 1..Len(s) + 1 /\ Fits(Len(s) + 1)
    BY <1>0, <1>1
  <2> QED BY <2>1 DEF Insertion
<1>2. CASE T # {}
  <2>1. PICK k \in T : \A j \in T : k <= j
    <3>1. T \in SUBSET Nat
      OBVIOUS
    <3> HIDE DEF T
    <3> QED BY <1>2, <3>1, LeastNatural
  <2>2. k \in 1..Len(s) /\ Before(m, s[k])
    OBVIOUS
  <2>3. ASSUME NEW i \in 1..k - 1 PROVE ~Before(m, s[i])
    <3>1. i \in 1..Len(s) /\ ~(k <= i)
      BY <1>0, <2>2
    <3> QED BY <2>1, <3>1
  <2>4. ASSUME NEW i \in k..Len(s) PROVE Before(m, s[i])
    <3>1. i \in 1..Len(s) /\ (i = k \/ k < i)
      BY <1>0, <2>2
    <3>2. CASE k < i
      <4>1. Before(s[k], s[i])
        BY <2>2, <3>1, <3>2 DEF InTurn, LogicalOrder
      <4>2. s[k] \in Matches /\ s[i] \in Matches
        BY <1>0, <2>2, <3>1
      <4> QED BY <2>2, <4>1, <4>2, LogicalTransitive DEF Matches
    <3> QED BY <2>2, <3>1, <3>2
  <2>5. k \in 1..Len(s) + 1 /\ Fits(k)
    BY <1>0, <2>2, <2>3, <2>4
  <2> QED BY <2>5 DEF Insertion
<1> QED BY <1>1, <1>2

\* The list stays in order, and what it leaves out comes after all it has.
LEMMA InsertedFacts ==
    ASSUME NEW s \in Seq(Matches), NEW m \in Matches, NEW limit \in Nat,
           InTurn(LogicalOrder, s), Len(s) <= limit + 1,
           \A x \in ToSet(s) : x.path # m.path \/ x.line # m.line
    PROVE  LET t == Inserted(limit, s, m)
           IN  /\ t \in Seq(Matches) /\ InTurn(LogicalOrder, t) /\ Len(t) <= limit + 1
               /\ ToSet(t) \subseteq ToSet(s) \cup {m}
               /\ \A x \in ToSet(s) \cup {m} : x \notin ToSet(t) =>
                      Len(t) = limit + 1 /\ \A y \in ToSet(t) : Before(y, x)
               /\ Len(s) = limit + 1 => \E x \in ToSet(s) \cup {m} : x \notin ToSet(t)
<1> DEFINE k == Insertion(s, m)
           u == InsertAt(s, k, m)
<1>1. /\ k \in 1..Len(s) + 1
      /\ \A i \in 1..k - 1 : ~Before(m, s[i])
      /\ \A i \in k..Len(s) : Before(m, s[i])
  BY InsertionFound
<1> HIDE DEF k
<1>2. Len(s) \in Nat /\ \A i \in 1..Len(s) : s[i] \in Matches /\ s[i] \in ToSet(s)
  BY Elements
<1>3. /\ u \in Seq(Matches) /\ Len(u) = Len(s) + 1
      /\ \A i \in 1..Len(u) : u[i] = IF i < k THEN s[i] ELSE IF i = k THEN m ELSE s[i - 1]
  <2> DEFINE a == SubSeq(s, 1, k - 1)
             b == SubSeq(s, k, Len(s))
  <2>1. a \in Seq(Matches) /\ Len(a) = k - 1 /\ \A i \in 1..k - 1 : a[i] = s[i]
    BY <1>1, <1>2
  <2>2. /\ b \in Seq(Matches) /\ Len(b) = (Len(s) - k) + 1
        /\ \A i \in 1..(Len(s) - k) + 1 : b[i] = s[(k - 1) + i]
    BY <1>1, <1>2
  <2>3. u = (a \o <<m>>) \o b
    BY DEF InsertAt
  <2> HIDE DEF a, b, u
  <2>4. /\ a \o <<m>> \in Seq(Matches) /\ Len(a \o <<m>>) = k
        /\ \A i \in 1..k : (a \o <<m>>)[i] = IF i < k THEN s[i] ELSE m
    BY <1>1, <1>2, <2>1
  <2> DEFINE c == a \o <<m>>
  <2> HIDE DEF c
  <2>5. /\ c \o b \in Seq(Matches) /\ Len(c \o b) = Len(s) + 1
        /\ \A i \in 1..Len(s) + 1 : (c \o b)[i] = IF i <= k THEN c[i] ELSE b[i - k]
    <3>1. c \in Seq(Matches) /\ Len(c) = k
      BY <2>4 DEF c
    <3>2. k + ((Len(s) - k) + 1) = Len(s) + 1 /\ k \in Nat /\ (Len(s) - k) + 1 \in Nat
      BY <1>1, <1>2
    <3>3. /\ Len(c \o b) = Len(c) + Len(b) /\ c \o b \in Seq(Matches)
          /\ \A i \in 1..Len(c) + Len(b) :
                 (c \o b)[i] = IF i <= Len(c) THEN c[i] ELSE b[i - Len(c)]
      BY <2>2, <3>1
    <3> QED BY <2>2, <3>1, <3>2, <3>3
  <2>6. ASSUME NEW i \in 1..Len(s) + 1
        PROVE  u[i] = IF i < k THEN s[i] ELSE IF i = k THEN m ELSE s[i - 1]
    <3>1. CASE i <= k
      BY <1>1, <2>3, <2>4, <2>5, <3>1 DEF c
    <3>2. CASE ~(i <= k)
      <4>1. i - k \in 1..(Len(s) - k) + 1 /\ (k - 1) + (i - k) = i - 1
        BY <1>1, <1>2, <3>2
      <4> QED BY <1>1, <2>2, <2>3, <2>5, <3>2, <4>1 DEF c
    <3> QED BY <3>1, <3>2
  <2> QED BY <2>3, <2>5, <2>6 DEF c
<1> HIDE DEF u
<1>4. InTurn(LogicalOrder, u)
  <2> SUFFICES ASSUME NEW i \in 1..Len(s) + 1, NEW j \in 1..Len(s) + 1, i < j
               PROVE  <<u[i], u[j]>> \in LogicalOrder
    BY <1>3 DEF InTurn
  <2>0. u[i] \in Matches /\ u[j] \in Matches
    BY <1>3
  <2>1. CASE j < k
    <3>1. i \in 1..Len(s) /\ j \in 1..Len(s) /\ u[i] = s[i] /\ u[j] = s[j]
      BY <1>1, <1>2, <1>3, <2>1
    <3> QED BY <3>1 DEF InTurn
  <2>2. CASE j = k
    <3>1. i \in 1..Len(s) /\ i \in 1..k - 1 /\ u[i] = s[i] /\ u[j] = m
      BY <1>1, <1>2, <1>3, <2>2
    <3>2. ~Before(m, s[i]) /\ s[i] \in ToSet(s) /\ s[i] \in Matches
      BY <1>1, <1>2, <3>1
    <3>3. Before(s[i], m)
      BY <3>2, LogicalFacts DEF Matches
    <3> QED BY <2>0, <3>1, <3>3 DEF LogicalOrder
  <2>3. CASE i = k
    <3>1. j - 1 \in k..Len(s) /\ u[i] = m /\ u[j] = s[j - 1]
      BY <1>1, <1>2, <1>3, <2>3
    <3> QED BY <1>1, <2>0, <3>1 DEF LogicalOrder
  <2>4. CASE i < k /\ j > k
    <3>1. i \in 1..Len(s) /\ j - 1 \in 1..Len(s) /\ i < j - 1 /\ u[i] = s[i] /\ u[j] = s[j - 1]
      BY <1>1, <1>2, <1>3, <2>4
    <3> QED BY <3>1 DEF InTurn
  <2>5. CASE i > k
    <3>1. /\ i - 1 \in 1..Len(s) /\ j - 1 \in 1..Len(s) /\ i - 1 < j - 1
          /\ u[i] = s[i - 1] /\ u[j] = s[j - 1]
      BY <1>1, <1>2, <1>3, <2>5
    <3> QED BY <3>1 DEF InTurn
  <2> QED BY <1>1, <2>1, <2>2, <2>3, <2>4, <2>5
<1>5. ToSet(u) = ToSet(s) \cup {m}
  <2>1. ToSet(u) = {u[i] : i \in 1..Len(s) + 1} /\ ToSet(s) = {s[i] : i \in 1..Len(s)}
    BY <1>3, Elements
  <2>2. ASSUME NEW i \in 1..Len(s) + 1 PROVE u[i] \in ToSet(s) \cup {m}
    <3>1. CASE i < k
      BY <1>1, <1>2, <1>3, <3>1
    <3>2. CASE i = k
      BY <1>3, <3>2
    <3>3. CASE i > k
      <4>1. i - 1 \in 1..Len(s) /\ u[i] = s[i - 1]
        BY <1>1, <1>2, <1>3, <3>3
      <4> QED BY <1>2, <4>1
    <3> QED BY <1>1, <3>1, <3>2, <3>3
  <2>3. ASSUME NEW i \in 1..Len(s) PROVE s[i] \in ToSet(u)
    <3>1. CASE i < k
      <4>1. i \in 1..Len(s) + 1 /\ u[i] = s[i]
        BY <1>1, <1>2, <1>3, <3>1
      <4> QED BY <2>1, <4>1
    <3>2. CASE ~(i < k)
      <4>1. i + 1 \in 1..Len(s) + 1 /\ u[i + 1] = s[(i + 1) - 1] /\ (i + 1) - 1 = i
        BY <1>1, <1>2, <1>3, <3>2
      <4> QED BY <2>1, <4>1
    <3> QED BY <3>1, <3>2
  <2>4. m \in ToSet(u)
    BY <1>1, <1>2, <1>3, <2>1
  <2> QED BY <2>1, <2>2, <2>3, <2>4
<1>6. Inserted(limit, s, m) = IF Len(u) > limit + 1 THEN Front(u) ELSE u
  BY DEF Inserted, u, k
<1>7. CASE ~(Len(u) > limit + 1)
  BY <1>2, <1>3, <1>4, <1>5, <1>6, <1>7
<1>8. CASE Len(u) > limit + 1
  <2> DEFINE t == SubSeq(u, 1, limit + 1)
  <2>1. Len(s) = limit + 1 /\ Len(u) = limit + 2 /\ limit + 1 \in 0..Len(u)
    BY <1>2, <1>3, <1>8
  <2>2. Front(u) = t
    <3>1. Len(u) - 1 = limit + 1
      BY <2>1
    <3> QED BY <3>1 DEF Front
  <2>3. /\ t \in Seq(Matches) /\ Len(t) = limit + 1 /\ InTurn(LogicalOrder, t)
        /\ ToSet(t) \subseteq ToSet(u)
        /\ \A i \in 1..limit + 1 : t[i] = u[i]
        /\ \A i \in (limit + 1) + 1..Len(u) : \A y \in ToSet(t) : <<y, u[i]>> \in LogicalOrder
    BY <1>3, <1>4, <2>1, SubSeqInTurn
  <2> HIDE DEF t
  <2>4. ASSUME NEW x \in ToSet(u), x \notin ToSet(t) PROVE \A y \in ToSet(t) : Before(y, x)
    <3>1. PICK i \in 1..Len(u) : x = u[i]
      BY <1>3, Elements
    <3>2. ~(i \in 1..limit + 1)
      BY <2>3, <2>4, <3>1, Elements
    <3>3. i \in (limit + 1) + 1..Len(u)
      BY <2>1, <3>2
    <3> QED BY <2>3, <3>1, <3>3 DEF LogicalOrder
  <2>5. u[Len(u)] \in ToSet(u) /\ u[Len(u)] \notin ToSet(t)
    <3>1. Len(u) \in 1..Len(u) /\ Len(u) \in (limit + 1) + 1..Len(u)
      BY <2>1
    <3>2. u[Len(u)] \in Matches /\ u[Len(u)] \in ToSet(u)
      BY <1>3, <3>1, Elements
    <3>3. ~Before(u[Len(u)], u[Len(u)])
      BY <3>2, LogicalFacts DEF Matches
    <3> QED BY <2>3, <3>1, <3>2, <3>3 DEF LogicalOrder
  <2> QED BY <1>5, <1>6, <1>8, <2>2, <2>3, <2>4, <2>5
<1> QED BY <1>7, <1>8

-----------------------------------------------------------------------------
(***************************************************************************)
(* What other threads and ripgrep do.                                      *)
(***************************************************************************)

\* The store moves on: files that stay settled stay the same, and what was committed
\* stays committed.
LEMMA StoreMoves ==
    ASSUME GrepSound, UNCHANGED <<client, pc, scan, rg, snap, timeouts>>,
           Settled' \subseteq Settled, \A p \in Settled' : tree'[p] = tree[p],
           \A p \in Paths : committed[p] \subseteq committed'[p]
    PROVE  PhaseSound' /\ ClientSound' /\ ScanSound'
<1>1. client \in Clients /\ scan \in Scans
  BY DEF GrepSound, GrepTyped
<1>2. PhaseSound'
  BY DEF GrepSound, PhaseSound, SnapshotPath, Untried, ActiveFor, SkippedRecord
<1>3. StartSound' /\ ItemsSound'
  BY DEF GrepSound, ClientSound, StartSound, ItemsSound, PagesFit, InOrder, Owed
<1>4. Exhaustive'
  BY DEF GrepSound, ClientSound, Exhaustive, Settled, Owed
<1>5. ToSet(client.items) \subseteq Matches /\ \A m \in Matches : m.path \in Paths
  BY <1>1, Elements DEF Clients, Matches
<1>6. CompleteIsCommitted'
  BY <1>1, <1>5 DEF GrepSound, ClientSound, CompleteIsCommitted, Range, ToSet
<1>7. client.state = "asking" => Continues(client.items, client.cursor)'
  BY <1>5 DEF GrepSound, ClientSound, Continues, Follows, Within, Owed, InOrder, StartedOver
<1>8. Page \subseteq Matches /\ Page' = Page
  BY <1>1, Elements DEF Scans, Page
<1>9. scan.active \in Snapshots \cup {None} /\ scan.anchor \in Snapshots \cup {None}
  BY <1>1 DEF Scans
<1>10. \A s \in Snapshots : SnapshotSound(s) => SnapshotSound(s)'
  BY DEF SnapshotSound, Snapshots
<1>11. MismatchSound => MismatchSound'
  BY <1>5, <1>8, <1>9, <1>10 DEF MismatchSound
<1>12. (PageSound => PageSound') /\ (PipeSound => PipeSound') /\ (AheadSound => AheadSound')
  BY DEF PageSound, PipeSound, AheadSound, Passed, Page, Untried
<1>13. CoverSound => CoverSound'
  BY <1>8 DEF CoverSound, Excused
<1> QED BY <1>2, <1>3, <1>4, <1>6, <1>7, <1>11, <1>12, <1>13 DEF GrepSound, ClientSound, ScanSound

\* A submission changes the file: it is touched from then on.
LEMMA SubmitTreeSound ==
    ASSUME GrepSound, NEW p \in Paths, NEW text \in Contents \cup {None}, SubmitTree(p, text)
    PROVE  GrepSound'
<1>1. /\ tree \in [Paths -> Files \cup {None}] /\ writes \in 0..MaxWrites
      /\ touched \in SUBSET Paths /\ MaxWrites \in Nat
  BY GrepAssumption DEF GrepSound, GrepTyped
<1>2. /\ writes < MaxWrites /\ writes' = writes + 1 /\ touched' = touched \cup {p}
      /\ tree' = [tree EXCEPT ![p] = File(text, 2 * writes + 1)]
      /\ write' = [path |-> p, text |-> text, old |-> TextAt(p)]
      /\ UNCHANGED <<rows, client, pc, scan, rg, snap, committed, timeouts>>
  BY DEF SubmitTree
<1>3. TextAt(p) \in Contents \cup {None}
  BY <1>1 DEF TextAt, Files
<1>4. File(text, 2 * writes + 1) \in Files \cup {None}
  BY <1>1 DEF File, Files
<1>5. tree' \in [Paths -> Files \cup {None}] /\ write' \in Writing
  BY <1>1, <1>2, <1>3, <1>4 DEF Writing
<1>6. ASSUME NEW q \in Paths, tree'[q] # None PROVE tree'[q].id \in 0..2 * MaxWrites
  <2>1. CASE q = p
    <3>1. tree'[q] = [text |-> text, id |-> 2 * writes + 1]
      BY <1>1, <1>2, <1>6, <2>1 DEF File
    <3>2. 2 * writes + 1 \in 0..2 * MaxWrites
      BY <1>1, <1>2
    <3> QED BY <3>1, <3>2
  <2>2. CASE q # p
    BY <1>1, <1>2, <1>6, <2>2 DEF GrepSound, GrepTyped
  <2> QED BY <2>1, <2>2
<1>7. GrepTyped'
  BY <1>1, <1>2, <1>5, <1>6 DEF GrepSound, GrepTyped
<1>8. StoreSound'
  BY <1>2 DEF GrepSound, StoreSound
<1>9. Settled' \subseteq Settled /\ \A q \in Settled' : tree'[q] = tree[q]
  BY <1>1, <1>2 DEF Settled
<1>10. PhaseSound' /\ ClientSound' /\ ScanSound'
  BY <1>2, <1>9, StoreMoves
<1> QED BY <1>7, <1>8, <1>10 DEF GrepSound

\* The row follows the file.
LEMMA SubmitCommitSound ==
    ASSUME GrepSound, SubmitCommit
    PROVE  GrepSound'
<1>1. /\ write \in Writing /\ write # None /\ rows \in [Paths -> Contents \cup {None}]
      /\ committed \in [Paths -> SUBSET Contents]
  BY DEF GrepSound, GrepTyped, SubmitCommit
<1>2. /\ rows' = [rows EXCEPT ![write.path] = write.text] /\ write' = None
      /\ committed' = [committed EXCEPT ![write.path] = @ \cup ({write.text} \ {None})]
      /\ UNCHANGED <<tree, client, pc, scan, rg, snap, touched, writes, timeouts>>
  BY DEF SubmitCommit
<1>3. write.path \in Paths /\ write.text \in Contents \cup {None}
  BY <1>1 DEF Writing
<1>4. /\ rows' \in [Paths -> Contents \cup {None}]
      /\ committed' \in [Paths -> SUBSET Contents]
      /\ \A p \in Paths : committed[p] \subseteq committed'[p]
  BY <1>1, <1>2, <1>3
<1>5. GrepTyped'
  BY <1>2, <1>4 DEF GrepSound, GrepTyped
<1>6. StoreSound'
  BY <1>1, <1>2, <1>3, <1>4 DEF GrepSound, StoreSound
<1>7. Settled' = Settled /\ \A p \in Settled' : tree'[p] = tree[p]
  BY <1>2 DEF Settled
<1>8. PhaseSound' /\ ClientSound' /\ ScanSound'
  BY <1>2, <1>4, <1>7, StoreMoves
<1> QED BY <1>5, <1>6, <1>8 DEF GrepSound

\* The row does not follow, and the file is as before.
LEMMA SubmitUndoSound ==
    ASSUME GrepSound, SubmitUndo
    PROVE  GrepSound'
<1>1. /\ write \in Writing /\ write # None /\ write.path \in touched
      /\ tree \in [Paths -> Files \cup {None}] /\ writes \in 0..MaxWrites /\ MaxWrites \in Nat
  BY GrepAssumption DEF GrepSound, GrepTyped, StoreSound, SubmitUndo
<1>2. /\ tree' = [tree EXCEPT ![write.path] = File(write.old, 2 * writes)] /\ write' = None
      /\ UNCHANGED <<rows, client, pc, scan, rg, snap, touched, committed, writes, timeouts>>
  BY DEF SubmitUndo
<1>3. write.path \in Paths /\ write.old \in Contents \cup {None}
  BY <1>1 DEF Writing
<1>4. File(write.old, 2 * writes) \in Files \cup {None}
  BY <1>1, <1>3 DEF File, Files
<1>5. tree' \in [Paths -> Files \cup {None}]
  BY <1>1, <1>2, <1>3, <1>4
<1>6. ASSUME NEW q \in Paths, tree'[q] # None PROVE tree'[q].id \in 0..2 * MaxWrites
  <2>1. CASE q = write.path
    <3>1. tree'[q] = [text |-> write.old, id |-> 2 * writes]
      BY <1>1, <1>2, <1>6, <2>1 DEF File
    <3>2. 2 * writes \in 0..2 * MaxWrites
      BY <1>1
    <3> QED BY <3>1, <3>2
  <2>2. CASE q # write.path
    BY <1>1, <1>2, <1>6, <2>2 DEF GrepSound, GrepTyped
  <2> QED BY <2>1, <2>2
<1>7. GrepTyped'
  BY <1>2, <1>5, <1>6 DEF GrepSound, GrepTyped
<1>8. StoreSound'
  BY <1>2 DEF GrepSound, StoreSound
<1>9. Settled' \subseteq Settled /\ \A q \in Settled' : tree'[q] = tree[q]
  BY <1>1, <1>2 DEF Settled
<1>10. PhaseSound' /\ ClientSound' /\ ScanSound'
  BY <1>2, <1>9, StoreMoves
<1> QED BY <1>7, <1>8, <1>10 DEF GrepSound

\* A step that leaves the store, the client and the clock alone.
LEMMA ClientFrame ==
    ASSUME GrepSound, UNCHANGED <<store, client, timeouts>>
    PROVE  StoreSound' /\ ClientSound'
<1>1. StoreSound'
  BY DEF GrepSound, StoreSound, store
<1>2. StartSound' /\ ItemsSound' /\ Exhaustive' /\ CompleteIsCommitted'
  BY DEF GrepSound, ClientSound, StartSound, ItemsSound, PagesFit, InOrder, Owed, Exhaustive,
         CompleteIsCommitted, store
<1>3. Settled' = Settled
  BY DEF Settled, store
<1>4. client.state = "asking" => Continues(client.items, client.cursor)'
  BY <1>3 DEF GrepSound, ClientSound, Continues, Follows, Within, Owed, InOrder, StartedOver, store
<1> QED BY <1>1, <1>2, <1>4 DEF ClientSound

\* The records of a file: its begin, then its matching lines in order.
LEMMA RecordsFacts ==
    ASSUME GrepSound, NEW p \in Paths, tree[p] # None
    PROVE  /\ Records(p) \in Seq(Events) /\ InTurn(EventOrder, Records(p))
           /\ \A ev \in ToSet(Records(p)) :
                  /\ ev.path = p
                  /\ ev.kind = "match" => ev.seen \in Needles
                  /\ ev.kind = "begin" => ev.line = 0
           /\ \E b \in ToSet(Records(p)) : b.kind = "begin" /\ b.path = p
           /\ \A i \in Matching(tree[p].text) :
                  [kind |-> "match", path |-> p, line |-> i, seen |-> tree[p].text[i]]
                      \in ToSet(Records(p))
<1> DEFINE text == tree[p].text
           rec(i) == [kind |-> "match", path |-> p, line |-> i, seen |-> text[i]]
           lines == [i \in 1..Len(text) |-> rec(i)]
           S == {ev \in ToSet(lines) : ev.seen \in Needles}
           begin == [kind |-> "begin", path |-> p, line |-> 0, seen |-> None]
           kept == Keeping(S, lines)
<1>1. text \in Seq(STRING) /\ p \in Nat
  BY GrepAssumption DEF GrepSound, GrepTyped, Files
<1>2. Records(p) = <<begin>> \o kept
  BY DEF Records
<1> HIDE DEF text
<1>3. /\ Len(text) \in Nat /\ DOMAIN text = 1..Len(text)
      /\ \A i \in 1..Len(text) : text[i] \in STRING /\ i \in Nat /\ i > 0
  BY <1>1
<1>4. /\ begin \in Events /\ begin.kind = "begin" /\ begin.path = p /\ begin.line = 0
      /\ \A i \in 1..Len(text) : /\ rec(i) \in Events /\ rec(i).kind = "match"
                                 /\ rec(i).path = p /\ rec(i).line = i /\ rec(i).seen = text[i]
  BY <1>3 DEF Events
<1> HIDE DEF rec, begin
<1>5. lines \in Seq(Events) /\ Len(lines) = Len(text) /\ \A i \in 1..Len(text) : lines[i] = rec(i)
  BY <1>3, <1>4
<1> HIDE DEF lines
<1>6. InTurn(EventOrder, lines)
  BY <1>3, <1>4, <1>5 DEF InTurn, EventOrder, DiskBefore
<1>7. ToSet(lines) = {rec(i) : i \in 1..Len(text)}
  BY <1>5, Elements
<1>8. /\ kept \in Seq(Events) /\ ToSet(kept) = ToSet(lines) \cap S
      /\ InTurn(EventOrder, kept)
  <2> HIDE DEF S
  <2> QED BY <1>5, <1>6, KeepingKeeps, KeepingInTurn
<1> HIDE DEF kept
<1>9. ASSUME NEW ev \in ToSet(kept)
      PROVE  /\ ev \in Events /\ ev.kind = "match" /\ ev.path = p /\ ev.line > 0
             /\ ev.seen \in Needles
  <2>1. PICK i \in 1..Len(text) : ev = rec(i)
    BY <1>7, <1>8
  <2> QED BY <1>3, <1>4, <1>8, <2>1
<1>10. /\ <<begin>> \in Seq(Events) /\ ToSet(<<begin>>) = {begin}
       /\ InTurn(EventOrder, <<begin>>)
  <2>1. <<begin>> \in Seq(Events) /\ Len(<<begin>>) = 1 /\ <<begin>>[1] = begin
    BY <1>4
  <2>2. ToSet(<<begin>>) = {<<begin>>[i] : i \in 1..1}
    BY <2>1, Elements
  <2> QED BY <2>1, <2>2 DEF InTurn
<1>11. \A ev \in ToSet(kept) : <<begin, ev>> \in EventOrder
  BY <1>4, <1>9 DEF EventOrder, DiskBefore
<1> DEFINE head == <<begin>>
<1> HIDE DEF head
<1>12. /\ head \o kept \in Seq(Events) /\ InTurn(EventOrder, head \o kept)
       /\ ToSet(head \o kept) = {begin} \cup ToSet(kept)
  <2>1. head \in Seq(Events) /\ ToSet(head) = {begin} /\ InTurn(EventOrder, head)
    BY <1>10 DEF head
  <2>2. \A x \in ToSet(head), y \in ToSet(kept) : <<x, y>> \in EventOrder
    BY <1>11, <2>1
  <2> QED BY <1>8, <2>1, <2>2, ConcatHolds, ConcatInTurn
<1>13. Records(p) = head \o kept
  BY <1>2 DEF head
<1>14. ASSUME NEW i \in Matching(text) PROVE rec(i) \in ToSet(kept)
  <2>1. i \in 1..Len(text) /\ text[i] \in Needles
    BY <1>3 DEF Matching
  <2> QED BY <1>4, <1>7, <1>8, <2>1
<1>15. /\ \A ev \in ToSet(Records(p)) :
              /\ ev.path = p
              /\ ev.kind = "match" => ev.seen \in Needles
              /\ ev.kind = "begin" => ev.line = 0
       /\ \E b \in ToSet(Records(p)) : b.kind = "begin" /\ b.path = p
  BY <1>4, <1>9, <1>12, <1>13
<1> QED BY <1>12, <1>13, <1>14, <1>15 DEF text, rec

\* What ripgrep writes for one of its files.
Written(p) ==
    CASE tree[p] = None -> <<[kind |-> "error", path |-> p, line |-> 0, seen |-> None]>>
      [] tree[p] # None /\ Matching(tree[p].text) = {} -> <<>>
      [] OTHER -> Records(p)

\* The records of one file are in the order of its lines, and none is missing.
LEMMA WrittenFacts ==
    ASSUME GrepSound, NEW p \in Paths
    PROVE  /\ Written(p) \in Seq(Events) /\ InTurn(EventOrder, Written(p))
           /\ \A ev \in ToSet(Written(p)) :
                  /\ ev.path = p
                  /\ ev.kind = "match" =>
                         /\ ev.seen \in Needles
                         /\ \E b \in ToSet(Written(p)) : b.kind = "begin" /\ b.path = p
                  /\ ev.kind = "begin" => ev.line = 0
           /\ tree[p] # None => \A i \in Matching(tree[p].text) :
                  [kind |-> "match", path |-> p, line |-> i, seen |-> tree[p].text[i]]
                      \in ToSet(Written(p))
<1>1. CASE tree[p] = None
  <2> DEFINE err == [kind |-> "error", path |-> p, line |-> 0, seen |-> None]
  <2>1. Written(p) = <<err>> /\ err \in Events /\ err.kind = "error" /\ err.path = p
    BY <1>1 DEF Written, Events
  <2> HIDE DEF err
  <2>2. <<err>> \in Seq(Events) /\ Len(<<err>>) = 1 /\ <<err>>[1] = err
    BY <2>1
  <2>3. ToSet(<<err>>) = {<<err>>[i] : i \in 1..1}
    BY <2>2, Elements
  <2>4. InTurn(EventOrder, <<err>>)
    BY <2>2 DEF InTurn
  <2> QED BY <1>1, <2>1, <2>2, <2>3, <2>4
<1>2. CASE tree[p] # None /\ Matching(tree[p].text) = {}
  <2>1. Written(p) = <<>>
    BY <1>2 DEF Written
  <2>2. <<>> \in Seq(Events) /\ ToSet(<<>>) = {} /\ InTurn(EventOrder, <<>>)
    BY DEF InTurn, ToSet
  <2> QED BY <1>2, <2>1, <2>2
<1>3. CASE tree[p] # None /\ Matching(tree[p].text) # {}
  <2>1. Written(p) = Records(p)
    BY <1>3 DEF Written
  <2> QED BY <1>3, <2>1, RecordsFacts
<1> QED BY <1>1, <1>2, <1>3

\* Ripgrep reads a file: its matches pass from the files to come to the pipe.
LEMMA RgReadSound ==
    ASSUME GrepSound, RgRead
    PROVE  GrepSound'
<1> DEFINE p == Min(rg.todo)
           new == Written(p)
<1>1. /\ rg # None /\ rg.todo # {} /\ rg' = [todo |-> rg.todo \ {p}, pipe |-> rg.pipe \o new]
      /\ UNCHANGED <<store, client, pc, scan, snap, timeouts>>
  BY DEF RgRead, Written
<1>2. rg \in Processes /\ rg.todo \in SUBSET Paths /\ rg.pipe \in Seq(Events)
  BY <1>1 DEF GrepSound, GrepTyped, Processes
<1>3. p \in rg.todo /\ \A q \in rg.todo : p <= q
  <2>1. rg.todo \in SUBSET Nat
    BY <1>2, GrepAssumption
  <2>2. \E x \in rg.todo : \A y \in rg.todo : x <= y
    BY <1>1, <2>1, LeastNatural
  <2> QED BY <2>2 DEF Min
<1>4. p \in Paths
  BY <1>2, <1>3
<1> HIDE DEF p
<1>5. /\ new \in Seq(Events) /\ InTurn(EventOrder, new)
      /\ \A ev \in ToSet(new) :
             /\ ev.path = p
             /\ ev.kind = "match" =>
                    ev.seen \in Needles /\ \E b \in ToSet(new) : b.kind = "begin" /\ b.path = p
             /\ ev.kind = "begin" => ev.line = 0
      /\ tree[p] # None => \A i \in Matching(tree[p].text) :
             [kind |-> "match", path |-> p, line |-> i, seen |-> tree[p].text[i]] \in ToSet(new)
  BY <1>4, WrittenFacts
<1> HIDE DEF new
<1>6. /\ rg' \in Processes /\ rg'.todo = rg.todo \ {p} /\ rg'.pipe = rg.pipe \o new
      /\ rg'.pipe \in Seq(Events) /\ ToSet(rg'.pipe) = ToSet(rg.pipe) \cup ToSet(new)
  <2>1. rg.pipe \o new \in Seq(Events)
    BY <1>2, <1>5
  <2> QED BY <1>1, <1>2, <1>5, <2>1, ConcatHolds DEF Processes
<1>7. GrepTyped'
  BY <1>1, <1>6 DEF GrepSound, GrepTyped, store
<1>8. StoreSound' /\ ClientSound'
  BY <1>1, ClientFrame
<1>9. rg.pipe # <<>> => rg'.pipe # <<>> /\ Head(rg'.pipe) = Head(rg.pipe)
  BY <1>2, <1>5, <1>6
<1>10. rg' # None
  BY <1>6, RecordAssumption
<1>11. PhaseSound'
  <2>1. pc = "client" => FALSE
    BY <1>1 DEF GrepSound, PhaseSound
  <2>2. pc \in {"read", "stat", "row"} => rg.pipe # <<>>
    BY <1>1 DEF GrepSound, PhaseSound
  <2>3. snap # None => SnapshotPath' = SnapshotPath
    BY <1>1, <1>9, <1>10, <2>2 DEF GrepSound, PhaseSound, SnapshotPath
  <2> QED BY <1>1, <1>9, <1>10, <2>1, <2>2, <2>3
          DEF GrepSound, PhaseSound, ActiveFor, SkippedRecord
<1>12. PipeSound /\ AheadSound /\ CoverSound
  BY <1>1 DEF GrepSound, ScanSound
<1>13. \A ev \in Events, q \in Paths : ev.path \in Nat /\ q \in Nat
  BY GrepAssumption DEF Events
<1>14. ToSet(rg.pipe) \subseteq Events /\ ToSet(new) \subseteq Events
  BY <1>2, <1>5, Elements
<1>15. \A x \in ToSet(rg.pipe) : x.path < p
  BY <1>3, <1>12 DEF PipeSound
<1>16. PipeSound'
  <2>1. \A x \in ToSet(rg.pipe), y \in ToSet(new) : <<x, y>> \in EventOrder
    BY <1>5, <1>14, <1>15 DEF EventOrder, DiskBefore
  <2>2. InTurn(EventOrder, rg'.pipe)
    BY <1>2, <1>5, <1>6, <1>12, <2>1, ConcatInTurn DEF PipeSound
  <2>3. ASSUME NEW q \in rg.todo \ {p} PROVE p < q
    <3>1. q \in Nat /\ p \in Nat
      BY <1>2, <1>4, GrepAssumption
    <3>2. p <= q /\ q # p
      BY <1>3
    <3> QED BY <3>1, <3>2
  <2> QED BY <1>5, <1>6, <1>12, <2>2, <2>3 DEF PipeSound
<1>17. AheadSound'
  <2>1. Passed' = Passed /\ \A m \in Passed : m.path < p
    BY <1>1, <1>3, <1>12 DEF Passed, Page, AheadSound
  <2>2. scan \in Scans /\ Passed \subseteq Matches
    <3>1. scan \in Scans
      BY DEF GrepSound, GrepTyped
    <3> QED BY <3>1, Elements DEF Scans, Passed, Page
  <2>3. ASSUME NEW m \in Passed
        PROVE  /\ \A q \in rg'.todo : m.path < q
               /\ \A ev \in ToSet(rg'.pipe) :
                     /\ DiskBefore(m, ev)
                     /\ m.path = ev.path =>
                           /\ scan.active # None
                           /\ scan.active.path = m.path /\ scan.active.text = m.text
    <3>1. ASSUME NEW ev \in ToSet(new) PROVE DiskBefore(m, ev) /\ m.path # ev.path
      <4>1. m.path < p /\ ev.path = p /\ m.path \in Nat /\ p \in Nat
        BY <1>4, <1>5, <2>1, <2>2, GrepAssumption DEF Matches
      <4> QED BY <4>1 DEF DiskBefore
    <3> QED BY <1>6, <1>12, <3>1 DEF AheadSound
  <2>4. FromFileStart(scan.resume) /\ scan.replayed => p >= scan.resume.path
    BY <1>3, <1>12 DEF AheadSound
  <2>5. FromFileStart(scan.resume) /\ scan.replayed =>
            /\ \A q \in rg'.todo : q >= scan.resume.path
            /\ \A ev \in ToSet(rg'.pipe) : ev.path >= scan.resume.path
    BY <1>5, <1>6, <1>12, <2>4 DEF AheadSound
  <2>6. InLogicalOrder(scan.resume) =>
            /\ scan.anchor # None
            /\ \A ev \in ToSet(rg'.pipe) : ev.kind = "match" /\ ev.path = scan.resume.path =>
                   \/ \E b \in ToSet(rg'.pipe) : b.kind = "begin" /\ b.path = ev.path
                   \/ scan.active = scan.anchor
    BY <1>5, <1>6, <1>12 DEF AheadSound
  <2>7. FromFileStart(scan.resume) => scan.anchorFound
    BY <1>12 DEF AheadSound
  <2>8. scan.active # None =>
            /\ \A q \in rg'.todo : scan.active.path < q
            /\ \A ev \in ToSet(rg'.pipe) : scan.active.path <= ev.path
    <3> SUFFICES ASSUME scan.active # None, NEW ev \in ToSet(new) PROVE scan.active.path <= ev.path
      BY <1>6, <1>12 DEF AheadSound
    <3>1. scan.active.path < p /\ ev.path = p
      BY <1>3, <1>5, <1>12 DEF AheadSound
    <3>2. scan.active.path \in Nat /\ p \in Nat
      BY <1>4, GrepAssumption DEF GrepSound, GrepTyped, Scans, Snapshots
    <3> QED BY <3>1, <3>2
  <2>9. ~scan.replayed =>
            \A ev \in ToSet(rg'.pipe) : ev.kind = "match" /\ ev.path >= scan.resume.path =>
                \E b \in ToSet(rg'.pipe) : b.kind = "begin" /\ b.path = ev.path
    BY <1>5, <1>6, <1>12 DEF AheadSound
  <2> QED BY <1>1, <2>1, <2>3, <2>5, <2>6, <2>7, <2>8, <2>9 DEF AheadSound
<1>18. CoverSound'
  <2>1. Settled' = Settled /\ tree' = tree /\ Page' = Page /\ scan' = scan
    BY <1>1 DEF Settled, Page, store
  <2> SUFFICES ASSUME NEW q \in Settled, NEW i \in Matching(tree[q].text),
                      After(scan.resume, q, i), ~Has(Page, q, i), q \notin rg'.todo,
                      [kind |-> "match", path |-> q, line |-> i, seen |-> tree[q].text[i]]
                          \notin ToSet(rg'.pipe)
               PROVE  Excused(q, i)'
    BY <2>1 DEF CoverSound
  <2>2. q # p
    BY <1>5, <1>6 DEF Settled
  <2>3. Excused(q, i)
    BY <1>6, <1>12, <2>2 DEF CoverSound
  <2>4. CASE InLogicalOrder(scan.resume)
    BY <1>1, <2>3, <2>4 DEF Excused
  <2>5. CASE ~InLogicalOrder(scan.resume)
    <3>1. /\ ~scan.anchorFound /\ p > scan.resume.path
          /\ \A ev \in ToSet(rg.pipe) : DiskBefore(scan.resume, ev)
          /\ \A r \in rg.todo : r > scan.resume.path
      BY <1>3, <2>3, <2>5 DEF Excused
    <3>2. ASSUME NEW ev \in ToSet(new) PROVE DiskBefore(scan.resume, ev)
      <4>1. ev.path = p
        BY <1>5
      <4> QED BY <3>1, <4>1 DEF DiskBefore
    <3> QED BY <1>1, <1>6, <2>5, <3>1, <3>2 DEF Excused
  <2> QED BY <2>4, <2>5
<1>19. (pc # "client" => MismatchSound /\ PageSound)'
  BY <1>1 DEF GrepSound, ScanSound, MismatchSound, SnapshotSound, PageSound, Page, Passed, Untried,
              store
<1> QED BY <1>7, <1>8, <1>11, <1>16, <1>17, <1>18, <1>19 DEF GrepSound, ScanSound


-----------------------------------------------------------------------------
(***************************************************************************)
(* A request begins, looks at a file, and ends.                            *)
(***************************************************************************)

\* Nothing is left of a page that has ended.
LEMMA PageEnds ==
    ASSUME GrepSound, Ended, client' \in Clients, timeouts' \in Nat
    PROVE  GrepTyped' /\ StoreSound' /\ PhaseSound' /\ ScanSound'
<1>1. /\ pc' = "client" /\ scan' = IdleScan /\ rg' = None /\ snap' = None /\ tree' = tree
      /\ rows' = rows /\ write' = write /\ touched' = touched /\ committed' = committed
      /\ writes' = writes
  BY DEF Ended, store
<1>2. IdleScan \in Scans
  <2>1. <<>> \in Seq(Matches)
    OBVIOUS
  <2> QED BY <2>1 DEF IdleScan, Scans
<1>3. GrepTyped'
  BY <1>1, <1>2 DEF GrepSound, GrepTyped
<1>4. StoreSound'
  BY <1>1 DEF GrepSound, StoreSound
<1>5. PhaseSound' /\ ScanSound'
  BY <1>1 DEF PhaseSound, ScanSound
<1> QED BY <1>3, <1>4, <1>5

\* A page that fails ends the search, whether the time is up or not.
LEMMA FailedSound ==
    ASSUME GrepSound, Failed, timeouts' \in Nat, timeouts' = 0 => timeouts = 0
    PROVE  GrepSound'
<1>1. client \in Clients /\ client' = [client EXCEPT !.state = "failed"] /\ Ended
  BY DEF GrepSound, GrepTyped, Failed
<1>2. /\ client' \in Clients /\ client'.items = client.items /\ client'.start = client.start
      /\ client'.state = "failed"
  BY <1>1 DEF Clients
<1>3. GrepTyped' /\ StoreSound' /\ PhaseSound' /\ ScanSound'
  BY <1>1, <1>2, PageEnds
<1>4. ClientSound'
  BY <1>1, <1>2 DEF GrepSound, ClientSound, StartSound, ItemsSound, PagesFit, InOrder, Owed,
                    Exhaustive, CompleteIsCommitted
<1> QED BY <1>3, <1>4 DEF GrepSound

\* An exception that is not about time: the cursor is stale, or ripgrep failed.
LEMMA FailSound ==
    ASSUME GrepSound, Fail
    PROVE  GrepSound'
<1>1. Failed /\ timeouts' = timeouts /\ timeouts \in Nat
  BY DEF GrepSound, GrepTyped, Fail
<1> QED BY <1>1, FailedSound

\* ripgrep is started: all that is settled is still to be read.
LEMMA LaunchFacts ==
    ASSUME GrepSound, Launch
    PROVE  /\ rg' \in Processes /\ rg'.pipe = <<>> /\ ToSet(rg'.pipe) = {}
           /\ rg'.todo = {p \in Paths : tree[p] # None} /\ Settled \subseteq rg'.todo
<1>1. <<>> \in Seq(Events) /\ ToSet(<<>>) = {}
  BY DEF ToSet
<1>2. /\ rg' = [todo |-> {p \in Paths : tree[p] # None}, pipe |-> <<>>]
      /\ {p \in Paths : tree[p] # None} \in SUBSET Paths
  BY DEF Launch
<1> QED BY <1>1, <1>2 DEF Processes, Settled

\* A request begins where its cursor says, and nothing after that is left out.
LEMMA RequestSound ==
    ASSUME GrepSound, Request
    PROVE  GrepSound'
<1> DEFINE cursor == client.cursor
           resume == Resume(cursor)
<1>1. /\ pc = "client" /\ client.state = "asking" /\ rg = None /\ snap = None
      /\ client \in Clients /\ scan = IdleScan
  BY DEF GrepSound, GrepTyped, PhaseSound, Request
<1>2. /\ scan' = [IdleScan EXCEPT !.resume = resume, !.anchorFound = resume = None,
                      !.mismatch = cursor # None /\ cursor.mismatch,
                      !.replayed = ~FromFileStart(resume)]
      /\ client' = [client EXCEPT !.pages = @ + 1]
      /\ UNCHANGED <<store, snap, timeouts>>
      /\ IF NamesAnchor(resume) THEN pc' = "read" /\ rg' = rg ELSE pc' = "scan" /\ Launch
  BY DEF Request, Resume, NamesAnchor
<1>3. cursor \in Cursors \cup {None} /\ Continues(client.items, cursor)
  BY <1>1 DEF GrepSound, ClientSound, Clients
<1>4. resume \in Cursors \cup {None} /\ (resume # None => resume.path \in Paths)
  BY <1>3 DEF Resume, Continues, Follows, Within
<1>5. cursor # None => cursor.mismatch \in BOOLEAN
  BY <1>3 DEF Cursors
<1>6. <<>> \in Seq(Matches) /\ ToSet(<<>>) = {} /\ Len(<<>>) = 0
  BY DEF ToSet
<1> HIDE DEF cursor, resume
<1>7. /\ scan'.resume = resume /\ scan'.anchorFound = (resume = None)
      /\ scan'.mismatch = (cursor # None /\ cursor.mismatch)
      /\ scan'.replayed = ~FromFileStart(resume)
      /\ scan'.anchor = None /\ scan'.active = None /\ scan'.last = None
      /\ scan'.matches = <<>> /\ scan'.candidates = <<>>
  BY <1>2 DEF IdleScan
<1>8. scan' \in Scans
  <2>1. scan' = [resume |-> resume, anchorFound |-> resume = None,
                 replayed |-> ~FromFileStart(resume),
                 mismatch |-> cursor # None /\ cursor.mismatch,
                 anchor |-> None, active |-> None, last |-> None,
                 matches |-> <<>>, candidates |-> <<>>]
    BY <1>2 DEF IdleScan
  <2>2. /\ (resume = None) \in BOOLEAN /\ (~FromFileStart(resume)) \in BOOLEAN
        /\ (cursor # None /\ cursor.mismatch) \in BOOLEAN
    BY <1>5
  <2> QED BY <1>4, <1>6, <2>1, <2>2 DEF Scans
<1>9. /\ client' \in Clients /\ client'.items = client.items /\ client'.start = client.start
      /\ client'.state = "asking" /\ client'.cursor = cursor /\ client'.limit = client.limit
      /\ client'.limit \in Nat
  BY <1>1, <1>2, GrepAssumption DEF Clients, cursor
<1>10. rg' \in Processes \cup {None} /\ pc' \in {"read", "scan"}
  BY <1>1, <1>2, LaunchFacts
<1>11. GrepTyped'
  BY <1>2, <1>8, <1>9, <1>10 DEF GrepSound, GrepTyped, store
<1>12. StoreSound'
  BY <1>2 DEF GrepSound, StoreSound, store
<1>13. ClientSound'
  <2>1. StartSound' /\ ItemsSound' /\ Exhaustive' /\ CompleteIsCommitted'
    BY <1>2, <1>9 DEF GrepSound, ClientSound, StartSound, ItemsSound, PagesFit, InOrder, Owed,
                      Exhaustive, CompleteIsCommitted, store
  <2>2. Settled' = Settled /\ tree' = tree /\ committed' = committed
    BY <1>2 DEF Settled, store
  <2>3. Continues(client.items, client.cursor)'
    BY <1>2, <1>3, <1>9, <2>2 DEF Continues, Follows, Within, Owed, InOrder, StartedOver, cursor
  <2> QED BY <2>1, <2>3 DEF ClientSound
<1>14. PhaseSound'
  <2>1. CASE NamesAnchor(resume)
    <3>1. pc' = "read" /\ rg' = None /\ snap' = None /\ resume # None
      BY <1>1, <1>2, <2>1 DEF NamesAnchor, InLogicalOrder, FromFileStart
    <3> QED BY <1>7, <1>9, <2>1, <3>1 DEF PhaseSound, Untried, resume
  <2>2. CASE ~NamesAnchor(resume)
    <3>1. pc' = "scan" /\ rg' # None /\ snap' = None
      BY <1>1, <1>2, <2>2, LaunchFacts, RecordAssumption
    <3> QED BY <1>7, <1>9, <3>1 DEF PhaseSound, resume
  <2> QED BY <2>1, <2>2
<1>15. Page' = {} /\ Passed' = {}
  BY <1>6, <1>7 DEF Page, Passed
<1>16. MismatchSound' /\ PageSound'
  <2>1. MismatchSound'
    BY <1>7, <1>9, <1>15 DEF MismatchSound
  <2>2. InTurn(DiskOrder, <<>>) /\ InTurn(LogicalOrder, <<>>)
    BY DEF InTurn
  <2>3. Len(scan'.candidates) <= client'.limit + 1
    BY <1>6, <1>7, <1>9
  <2>4. (~scan.replayed => FromFileStart(scan.resume) /\ Untried)'
    BY <1>7 DEF Untried
  <2> QED BY <1>7, <1>15, <2>1, <2>2, <2>3, <2>4 DEF PageSound
<1>17. rg' # None => PipeSound' /\ AheadSound' /\ CoverSound'
  <2> SUFFICES ASSUME rg' # None PROVE PipeSound' /\ AheadSound' /\ CoverSound'
    OBVIOUS
  <2>1. /\ ~NamesAnchor(resume) /\ rg'.pipe = <<>> /\ ToSet(rg'.pipe) = {}
        /\ Settled \subseteq rg'.todo
    BY <1>1, <1>2, LaunchFacts
  <2>2. PipeSound'
    BY <2>1 DEF PipeSound, InTurn
  <2>3. AheadSound'
    BY <1>7, <1>15, <2>1 DEF AheadSound, NamesAnchor
  <2>4. Settled' = Settled
    BY <1>2 DEF Settled, store
  <2>5. CoverSound'
    BY <2>1, <2>4 DEF CoverSound
  <2> QED BY <2>2, <2>3, <2>5
<1> QED BY <1>11, <1>12, <1>13, <1>14, <1>16, <1>17 DEF GrepSound, ScanSound

-----------------------------------------------------------------------------
(***************************************************************************)
(* _snapshot_grep_file.                                                    *)
(***************************************************************************)

\* Only the locals of the snapshot change.
LEMMA ScanFrame ==
    ASSUME GrepSound, pc # "client", UNCHANGED <<store, client, scan, rg, timeouts>>
    PROVE  StoreSound' /\ ClientSound' /\ ScanSound'
<1>1. StoreSound' /\ ClientSound'
  BY ClientFrame
<1>2. MismatchSound' /\ PageSound'
  BY DEF GrepSound, ScanSound, MismatchSound, SnapshotSound, PageSound, Page, Passed, Untried,
         store
<1>3. rg # None => PipeSound' /\ AheadSound'
  BY DEF GrepSound, ScanSound, PipeSound, AheadSound, Page, Passed
<1>4. Settled' = Settled /\ tree' = tree /\ Page' = Page
  BY DEF Settled, Page, store
<1>5. rg # None => CoverSound'
  BY <1>4 DEF GrepSound, ScanSound, CoverSound, Excused
<1> QED BY <1>1, <1>2, <1>3, <1>5 DEF ScanSound

\* The file that is looked at is one of the files.
LEMMA SnapshotPathTyped ==
    ASSUME GrepSound, pc \in {"read", "stat", "row"}
    PROVE  SnapshotPath \in Paths
<1>1. CASE rg = None
  <2>1. NamesAnchor(scan.resume) /\ scan.resume = Resume(client.cursor) /\ client.state = "asking"
    BY <1>1 DEF GrepSound, PhaseSound
  <2>2. Continues(client.items, client.cursor)
    BY <2>1 DEF GrepSound, ClientSound
  <2>3. scan.resume.path \in Paths
    BY <2>1, <2>2 DEF Resume, Continues, Follows, Within, NamesAnchor, InLogicalOrder, FromFileStart
  <2> QED BY <1>1, <2>3 DEF SnapshotPath
<1>2. CASE rg # None
  <2>1. rg \in Processes /\ rg.pipe # <<>>
    BY <1>2 DEF GrepSound, GrepTyped, PhaseSound
  <2>2. rg.pipe \in Seq(Events)
    BY <2>1 DEF Processes
  <2>3. Head(rg.pipe) \in Events
    BY <2>1, <2>2, TailHolds
  <2> QED BY <1>2, <2>3 DEF SnapshotPath, Events
<1> QED BY <1>1, <1>2

\* The first step of a snapshot: the file.
LEMMA ReadFileSound ==
    ASSUME GrepSound, ReadFile
    PROVE  GrepSound'
<1>1. /\ pc = "read" /\ tree[SnapshotPath] # None /\ pc' = "stat"
      /\ snap' = [path |-> SnapshotPath, file |-> tree[SnapshotPath], stable |-> TRUE]
      /\ UNCHANGED <<store, client, scan, rg, timeouts>>
  BY DEF ReadFile
<1>2. SnapshotPath \in Paths /\ tree[SnapshotPath] \in Files
  BY <1>1, SnapshotPathTyped DEF GrepSound, GrepTyped
<1>3. snap' \in Reading /\ snap' # None /\ snap'.path = SnapshotPath
  <2>1. snap' \in Reading /\ snap'.path = SnapshotPath
    BY <1>1, <1>2 DEF Reading
  <2> QED BY <2>1, RecordAssumption
<1>4. GrepTyped'
  BY <1>1, <1>3 DEF GrepSound, GrepTyped, store
<1>5. PhaseSound'
  BY <1>1, <1>3 DEF GrepSound, PhaseSound, SnapshotPath, Untried, ActiveFor, SkippedRecord
<1> QED BY <1>1, <1>4, <1>5, ScanFrame DEF GrepSound

\* The second: whether the file is still the one that was read.
LEMMA StatFileSound ==
    ASSUME GrepSound, StatFile
    PROVE  GrepSound'
<1>1. /\ pc = "stat" /\ pc' = "row" /\ snap' = [snap EXCEPT !.stable = tree[snap.path] = snap.file]
      /\ UNCHANGED <<store, client, scan, rg, timeouts>>
  BY DEF StatFile
<1>2. snap \in Reading /\ snap # None
  BY <1>1 DEF GrepSound, GrepTyped, PhaseSound
<1>3. snap' \in Reading /\ snap' # None /\ snap'.path = snap.path
  <2>1. (tree[snap.path] = snap.file) \in BOOLEAN
    OBVIOUS
  <2> QED BY <1>1, <1>2, <2>1, RecordAssumption DEF Reading
<1>4. GrepTyped'
  BY <1>1, <1>3 DEF GrepSound, GrepTyped, store
<1>5. PhaseSound'
  BY <1>1, <1>2, <1>3 DEF GrepSound, PhaseSound, SnapshotPath, Untried, ActiveFor, SkippedRecord
<1> QED BY <1>1, <1>4, <1>5, ScanFrame DEF GrepSound

\* A record of another file asks for a snapshot.
LEMMA NeedSnapshotSound ==
    ASSUME GrepSound, NeedSnapshot
    PROVE  GrepSound'
<1>1. /\ pc = "scan" /\ pc' = "read" /\ rg.pipe # <<>> /\ Head(rg.pipe).kind = "match"
      /\ ~ActiveFor(Head(rg.pipe)) /\ ~SkippedRecord(Head(rg.pipe))
      /\ UNCHANGED <<store, client, scan, rg, snap, timeouts>>
  BY DEF NeedSnapshot, Candidate, At
<1>2. GrepTyped'
  BY <1>1 DEF GrepSound, GrepTyped, store
<1>3. PhaseSound'
  BY <1>1 DEF GrepSound, PhaseSound, SnapshotPath, Untried, ActiveFor, SkippedRecord
<1> QED BY <1>1, <1>2, <1>3, ScanFrame DEF GrepSound

\* The record at the head of the pipe comes before all that follow.
LEMMA HeadFacts ==
    ASSUME GrepSound, rg # None, rg.pipe # <<>>
    PROVE  LET ev == Head(rg.pipe)
           IN  /\ ev \in Events /\ ev \in ToSet(rg.pipe) /\ Tail(rg.pipe) \in Seq(Events)
               /\ ToSet(rg.pipe) = {ev} \cup ToSet(Tail(rg.pipe))
               /\ InTurn(EventOrder, Tail(rg.pipe))
               /\ \A y \in ToSet(Tail(rg.pipe)) : y \in Events /\ DiskBefore(ev, y)
               /\ \A q \in rg.todo : q \in Paths /\ ev.path < q
               /\ \A y \in ToSet(rg.pipe) : ev.path <= y.path
               /\ ev.path \in Nat /\ ev.line \in Nat
<1> DEFINE ev == Head(rg.pipe)
<1>1. rg \in Processes /\ PipeSound
  BY DEF GrepSound, GrepTyped, ScanSound
<1>2. rg.pipe \in Seq(Events) /\ rg.todo \in SUBSET Paths
  BY <1>1 DEF Processes
<1>3. /\ ev \in Events /\ Tail(rg.pipe) \in Seq(Events)
      /\ ToSet(rg.pipe) = {ev} \cup ToSet(Tail(rg.pipe))
  BY <1>2, TailHolds
<1>4. InTurn(EventOrder, rg.pipe)
  BY <1>1 DEF PipeSound
<1>5. /\ InTurn(EventOrder, Tail(rg.pipe))
      /\ \A y \in ToSet(Tail(rg.pipe)) : <<ev, y>> \in EventOrder
  BY <1>2, <1>4, TailInTurn
<1>6. \A y \in ToSet(Tail(rg.pipe)) : y \in Events /\ DiskBefore(ev, y)
  BY <1>5 DEF EventOrder
<1>7. \A q \in rg.todo : q \in Paths /\ ev.path < q
  BY <1>1, <1>2, <1>3 DEF PipeSound
<1>8. \A y \in Events : y.path \in Nat /\ y.line \in Nat
  BY GrepAssumption DEF Events
<1>9. ASSUME NEW y \in ToSet(rg.pipe) PROVE ev.path <= y.path
  BY <1>3, <1>6, <1>8 DEF DiskBefore
<1> HIDE DEF ev
<1>10. ev.path \in Nat /\ ev.line \in Nat /\ ev \in ToSet(rg.pipe)
  BY <1>3, <1>8
<1> QED BY <1>3, <1>5, <1>6, <1>7, <1>9, <1>10 DEF ev

\* The begin of its file came before a match.
LEMMA HeadMatch ==
    ASSUME GrepSound, rg # None, rg.pipe # <<>>, Head(rg.pipe).kind = "match",
           ~SkippedRecord(Head(rg.pipe))
    PROVE  /\ scan.replayed
           /\ InLogicalOrder(scan.resume) /\ Head(rg.pipe).path = scan.resume.path =>
                  scan.anchor # None /\ scan.active = scan.anchor
<1> DEFINE ev == Head(rg.pipe)
<1>1. /\ ev \in ToSet(rg.pipe) /\ ToSet(rg.pipe) = {ev} \cup ToSet(Tail(rg.pipe))
      /\ \A y \in ToSet(Tail(rg.pipe)) : DiskBefore(ev, y)
      /\ ev.path \in Nat /\ ev.line \in Nat /\ ev.kind = "match"
  BY HeadFacts
<1>2. ~SkippedRecord(ev)
  OBVIOUS
<1>3. PipeSound /\ AheadSound /\ PageSound
  <2>1. pc # "client"
    BY DEF GrepSound, PhaseSound
  <2> QED BY <2>1 DEF GrepSound, ScanSound
<1> HIDE DEF ev
<1>4. \A b \in ToSet(rg.pipe) : ~(b.kind = "begin" /\ b.path = ev.path)
  <2> SUFFICES ASSUME NEW b \in ToSet(rg.pipe), b.kind = "begin", b.path = ev.path PROVE FALSE
    OBVIOUS
  <2>1. b \in ToSet(Tail(rg.pipe))
    BY <1>1
  <2>2. DiskBefore(ev, b) /\ b.line = 0
    BY <1>1, <1>3, <2>1 DEF PipeSound
  <2> QED BY <1>1, <2>2 DEF DiskBefore
<1>5. scan.replayed
  <2> SUFFICES ASSUME ~scan.replayed PROVE FALSE
    OBVIOUS
  <2>1. FromFileStart(scan.resume) /\ ~(ev.path < scan.resume.path)
    BY <1>2, <1>3 DEF SkippedRecord, PageSound
  <2>2. scan.resume.path \in Nat
    <3>1. /\ scan.resume = client.cursor /\ client.state = "asking" /\ scan.resume # None
          /\ scan.resume.mode = "file_start"
      <4>1. pc # "client"
        BY DEF GrepSound, PhaseSound
      <4> QED BY <2>1, <4>1 DEF GrepSound, PhaseSound, FromFileStart, Resume
    <3>2. Continues(client.items, client.cursor)
      BY <3>1 DEF GrepSound, ClientSound
    <3>3. scan.resume.path \in Paths
      BY <3>1, <3>2 DEF Continues, Follows, Within
    <3> QED BY <3>3, GrepAssumption
  <2>3. ev.path >= scan.resume.path
    BY <1>1, <2>1, <2>2
  <2> QED BY <1>1, <1>3, <1>4, <2>3 DEF AheadSound
<1>6. InLogicalOrder(scan.resume) /\ ev.path = scan.resume.path =>
          scan.anchor # None /\ scan.active = scan.anchor
  BY <1>1, <1>3, <1>4 DEF AheadSound
<1> QED BY <1>5, <1>6 DEF ev

\* The file a cursor of the previous release names.
LEMMA AnchorTakenSound ==
    ASSUME GrepSound, pc \in {"read", "row"}, rg = None, NEW s \in Snapshots,
           s.path = SnapshotPath, s.verified => s.text \in Contents,
           s.verified /\ ~s.mismatch => s.text \in committed[s.path], AnchorTaken(s)
    PROVE  GrepSound'
<1>1. CASE s.text # scan.resume.text
  BY <1>1, FailSound DEF AnchorTaken
<1>2. CASE s.text = scan.resume.text
  <2>1. /\ scan' = [scan EXCEPT !.anchor = s, !.mismatch = @ \/ s.mismatch,
                        !.anchorFound = @ \/ FromFileStart(scan.resume)]
        /\ pc' = "scan" /\ snap' = None /\ Launch /\ UNCHANGED <<store, client, timeouts>>
    BY <1>2 DEF AnchorTaken
  <2>2. /\ scan \in Scans /\ client.state = "asking" /\ scan.resume = Resume(client.cursor)
        /\ NamesAnchor(scan.resume) /\ ~scan.anchorFound /\ Untried
        /\ FromFileStart(scan.resume) => ~scan.replayed
    BY DEF GrepSound, GrepTyped, PhaseSound
  <2>3. MismatchSound /\ PageSound
    BY DEF GrepSound, ScanSound
  <2>4. /\ scan' \in Scans /\ scan'.resume = scan.resume /\ scan'.anchor = s
        /\ scan'.mismatch = (scan.mismatch \/ s.mismatch)
        /\ scan'.anchorFound = (scan.anchorFound \/ FromFileStart(scan.resume))
        /\ scan'.replayed = scan.replayed
        /\ scan'.matches = scan.matches /\ scan'.candidates = scan.candidates
        /\ scan'.last = scan.last /\ scan'.active = scan.active
    <3>1. scan.mismatch \in BOOLEAN /\ s.mismatch \in BOOLEAN /\ scan.anchorFound \in BOOLEAN
      BY <2>2 DEF Scans, Snapshots
    <3>2. (scan.mismatch \/ s.mismatch) \in BOOLEAN
      BY <3>1
    <3>3. (scan.anchorFound \/ FromFileStart(scan.resume)) \in BOOLEAN
      BY <3>1
    <3> QED BY <2>1, <2>2, <3>2, <3>3 DEF Scans
  <2>5. /\ rg' \in Processes /\ rg'.pipe = <<>> /\ ToSet(rg'.pipe) = {} /\ rg' # None
        /\ Settled \subseteq rg'.todo
    BY <2>1, LaunchFacts, RecordAssumption
  <2>6. GrepTyped'
    BY <2>1, <2>4, <2>5 DEF GrepSound, GrepTyped, store
  <2>7. StoreSound' /\ ClientSound'
    BY <2>1, ClientFrame
  <2>8. PhaseSound'
    BY <2>1, <2>2, <2>4, <2>5 DEF PhaseSound
  <2>9. ToSet(<<>>) = {}
    BY DEF ToSet
  <2>10. Page' = {} /\ Passed' = {} /\ Untried'
    BY <2>2, <2>4, <2>9 DEF Page, Passed, Untried
  <2>11. MismatchSound'
    <3>1. SnapshotSound(s)'
      BY <2>1, <2>4 DEF SnapshotSound, store
    <3>2. scan'.active = None
      BY <2>2, <2>4 DEF Untried
    <3>3. (client.cursor # None /\ client.cursor.mismatch => scan.mismatch)'
      BY <2>1, <2>3, <2>4 DEF MismatchSound
    <3> QED BY <2>4, <2>10, <3>1, <3>2, <3>3 DEF MismatchSound
  <2>12. PageSound'
    <3>1. s.path = scan.resume.path
      BY DEF SnapshotPath
    <3>2. scan.resume # None /\ scan.resume.mode # "after_match"
      BY <2>2 DEF NamesAnchor, InLogicalOrder, FromFileStart
    <3>3. /\ scan'.matches = <<>> /\ scan'.candidates = <<>> /\ scan'.last = None
          /\ client' = client
      BY <2>1, <2>2, <2>4 DEF Untried
    <3>4. /\ InTurn(DiskOrder, scan'.matches) /\ InTurn(LogicalOrder, scan'.candidates)
          /\ Len(scan'.candidates) <= client'.limit + 1
      BY <2>3, <2>4, <3>3 DEF PageSound
    <3>5. ~scan'.replayed => FromFileStart(scan'.resume)
      BY <2>3, <2>4 DEF PageSound
    <3> QED BY <1>2, <2>4, <2>10, <3>1, <3>2, <3>3, <3>4, <3>5 DEF PageSound
  <2>13. PipeSound' /\ AheadSound' /\ CoverSound'
    <3>1. PipeSound'
      BY <2>5 DEF PipeSound, InTurn
    <3>2. scan'.active = None /\ s # None
      BY <2>2, <2>4, RecordAssumption DEF Untried
    <3>3. AheadSound'
      BY <2>2, <2>4, <2>5, <2>10, <3>2 DEF AheadSound
    <3>4. Settled' = Settled
      BY <2>1 DEF Settled, store
    <3>5. CoverSound'
      BY <2>5, <3>4 DEF CoverSound
    <3> QED BY <3>1, <3>3, <3>5
  <2> QED BY <2>6, <2>7, <2>8, <2>11, <2>12, <2>13 DEF GrepSound, ScanSound
<1> QED BY <1>1, <1>2

-----------------------------------------------------------------------------
(***************************************************************************)
(* consume_record: the records that are not the end of a page.             *)
(***************************************************************************)

\* The matches of the page and the records of the pipe.
LEMMA PassedTyped ==
    ASSUME GrepSound
    PROVE  /\ Passed \subseteq Matches /\ Page \subseteq Passed
           /\ \A m \in Matches : m.path \in Paths /\ m.path \in Nat /\ m.line \in Nat
<1>1. scan \in Scans
  BY DEF GrepSound, GrepTyped
<1>2. /\ scan.matches \in Seq(Matches) /\ scan.candidates \in Seq(Matches)
      /\ scan.last \in Matches \cup {None}
  BY <1>1 DEF Scans
<1>3. ToSet(scan.matches) \subseteq Matches /\ ToSet(scan.candidates) \subseteq Matches
  BY <1>2, Elements
<1>4. Passed \subseteq Matches /\ Page \subseteq Passed
  BY <1>2, <1>3 DEF Passed, Page
<1>5. \A m \in Matches : m.path \in Paths /\ m.path \in Nat /\ m.line \in Nat
  BY GrepAssumption DEF Matches
<1> QED BY <1>4, <1>5

\* The records in the pipe have a path and a line.
LEMMA PipeTyped ==
    ASSUME GrepSound, rg # None
    PROVE  /\ rg.pipe \in Seq(Events) /\ ToSet(rg.pipe) \subseteq Events
           /\ \A ev \in Events : ev.path \in Paths /\ ev.path \in Nat /\ ev.line \in Nat
<1>1. rg \in Processes
  BY DEF GrepSound, GrepTyped
<1>2. rg.pipe \in Seq(Events)
  BY <1>1 DEF Processes
<1>3. ToSet(rg.pipe) \subseteq Events
  BY <1>2, Elements
<1>4. \A ev \in Events : ev.path \in Paths /\ ev.path \in Nat /\ ev.line \in Nat
  BY GrepAssumption DEF Events
<1> QED BY <1>2, <1>3, <1>4

\* The cursor a page resumes from.
LEMMA ResumeFacts ==
    ASSUME GrepSound, pc # "client"
    PROVE  /\ client.state = "asking" /\ Continues(client.items, client.cursor)
           /\ scan.resume = Resume(client.cursor) /\ client.cursor \in Cursors \cup {None}
           /\ scan.resume # None =>
                  /\ scan.resume = client.cursor /\ scan.resume.mode # "search_start"
                  /\ scan.resume.path \in Paths /\ scan.resume.text \in Contents
                  /\ scan.resume.path \in Nat /\ scan.resume.line \in Nat
                  /\ \/ InLogicalOrder(scan.resume)
                     \/ FromFileStart(scan.resume)
                     \/ scan.resume.mode = "after_match"
<1>1. /\ client.state = "asking" /\ Continues(client.items, client.cursor)
      /\ scan.resume = Resume(client.cursor) /\ client.cursor \in Cursors \cup {None}
  BY DEF GrepSound, GrepTyped, PhaseSound, ClientSound, Clients
<1> SUFFICES ASSUME scan.resume # None
             PROVE  /\ scan.resume = client.cursor /\ scan.resume.mode # "search_start"
                    /\ scan.resume.path \in Paths /\ scan.resume.text \in Contents
                    /\ scan.resume.path \in Nat /\ scan.resume.line \in Nat
                    /\ \/ InLogicalOrder(scan.resume)
                       \/ FromFileStart(scan.resume)
                       \/ scan.resume.mode = "after_match"
  BY <1>1
<1>2. scan.resume = client.cursor /\ scan.resume.mode # "search_start"
  BY <1>1 DEF Resume
<1>3. scan.resume \in Cursors
  BY <1>1, <1>2
<1>4. scan.resume.path \in Paths /\ scan.resume.text \in Contents
  BY <1>1, <1>2 DEF Continues, Follows, Within
<1>5. scan.resume.path \in Nat
  BY <1>4, GrepAssumption
<1>6. scan.resume.line \in Nat
  BY <1>3 DEF Cursors
<1>7. \/ InLogicalOrder(scan.resume)
      \/ FromFileStart(scan.resume)
      \/ scan.resume.mode = "after_match"
  BY <1>2, <1>3 DEF Cursors, InLogicalOrder, FromFileStart
<1> QED BY <1>2, <1>4, <1>5, <1>6, <1>7

\* A record is taken from the pipe and the scan goes on.
LEMMA ProceedFacts ==
    ASSUME GrepSound, pc = "scan", rg.pipe # <<>>, NEW new \in Scans, new.resume = scan.resume,
           Proceed(new)
    PROVE  /\ GrepTyped' /\ StoreSound' /\ PhaseSound' /\ ClientSound' /\ PipeSound'
           /\ scan' = new /\ client' = client /\ tree' = tree /\ committed' = committed
           /\ Settled' = Settled /\ rg # None /\ rg' # None /\ pc' = "scan"
           /\ rg'.todo = rg.todo /\ rg'.pipe = Tail(rg.pipe)
           /\ ToSet(rg.pipe) = {Head(rg.pipe)} \cup ToSet(rg'.pipe)
           /\ \A y \in ToSet(rg'.pipe) : y \in Events /\ DiskBefore(Head(rg.pipe), y)
<1>1. /\ rg # None /\ snap = None
  BY DEF GrepSound, PhaseSound
<1>2. /\ rg' = [rg EXCEPT !.pipe = Tail(@)] /\ scan' = new
      /\ UNCHANGED <<store, client, pc, snap, timeouts>>
  BY DEF Proceed, Consumed
<1>3. rg \in Processes
  BY <1>1 DEF GrepSound, GrepTyped
<1>4. /\ Tail(rg.pipe) \in Seq(Events)
      /\ ToSet(rg.pipe) = {Head(rg.pipe)} \cup ToSet(Tail(rg.pipe))
      /\ InTurn(EventOrder, Tail(rg.pipe))
      /\ \A y \in ToSet(Tail(rg.pipe)) : y \in Events /\ DiskBefore(Head(rg.pipe), y)
  BY <1>1, HeadFacts
<1>5. rg' \in Processes /\ rg'.todo = rg.todo /\ rg'.pipe = Tail(rg.pipe)
  BY <1>2, <1>3, <1>4 DEF Processes
<1>6. rg' # None
  BY <1>5, RecordAssumption
<1>7. GrepTyped'
  BY <1>2, <1>5 DEF GrepSound, GrepTyped, store
<1>8. StoreSound' /\ ClientSound'
  BY <1>2, ClientFrame
<1>9. PhaseSound'
  BY <1>1, <1>2, <1>6 DEF GrepSound, PhaseSound
<1>10. PipeSound'
  <2>1. PipeSound
    BY <1>1 DEF GrepSound, ScanSound
  <2> QED BY <1>4, <1>5, <2>1 DEF PipeSound
<1>11. tree' = tree /\ committed' = committed /\ Settled' = Settled
  BY <1>2 DEF Settled, store
<1> QED BY <1>1, <1>2, <1>4, <1>5, <1>6, <1>7, <1>8, <1>9, <1>10, <1>11

\* What follows in the order of the disk.
LEMMA DiskTransitive ==
    ASSUME NEW a, NEW b, NEW c, a.path \in Nat, b.path \in Nat, c.path \in Nat,
           a.line \in Nat, b.line \in Nat, c.line \in Nat, DiskBefore(a, b), DiskBefore(b, c)
    PROVE  DiskBefore(a, c)
BY DEF DiskBefore

\* A search that looks for the cursor's match and meets a record beyond it will not find it.
LEMMA BeyondAnchor ==
    ASSUME GrepSound, rg # None, rg.pipe # <<>>, scan.resume # None,
           DiskBefore(scan.resume, Head(rg.pipe))
    PROVE  /\ \A y \in ToSet(Tail(rg.pipe)) : DiskBefore(scan.resume, y)
           /\ \A q \in rg.todo : q > scan.resume.path
<1> DEFINE ev == Head(rg.pipe)
<1>1. pc # "client"
  BY DEF GrepSound, PhaseSound
<1>2. scan.resume.path \in Nat /\ scan.resume.line \in Nat
  BY <1>1, ResumeFacts
<1>3. /\ \A y \in ToSet(Tail(rg.pipe)) : y \in Events /\ DiskBefore(ev, y)
      /\ \A q \in rg.todo : q \in Paths /\ ev.path < q
      /\ ev.path \in Nat /\ ev.line \in Nat
  BY HeadFacts
<1>4. DiskBefore(scan.resume, ev)
  OBVIOUS
<1> HIDE DEF ev
<1>5. ASSUME NEW y \in ToSet(Tail(rg.pipe)) PROVE DiskBefore(scan.resume, y)
  <2>1. y.path \in Nat /\ y.line \in Nat
    BY <1>3, GrepAssumption DEF Events
  <2> QED BY <1>2, <1>3, <1>4, <2>1, DiskTransitive
<1>6. ASSUME NEW q \in rg.todo PROVE q > scan.resume.path
  <2>1. q \in Nat /\ ev.path < q
    BY <1>3, GrepAssumption
  <2> QED BY <1>2, <1>3, <1>4, <2>1 DEF DiskBefore
<1> QED BY <1>5, <1>6

\* The record of a match the page owes leaves the pipe.
Leaves(p, i) ==
    Head(rg.pipe) = [kind |-> "match", path |-> p, line |-> i, seen |-> tree[p].text[i]]

\* Where a match that is not on the page is.
LEMMA Uncovered ==
    ASSUME CoverSound, NEW p \in Settled, NEW i \in Matching(tree[p].text),
           After(scan.resume, p, i), ~Has(Page, p, i), p \notin rg.todo,
           ToSet(rg.pipe) = {Head(rg.pipe)} \cup ToSet(Tail(rg.pipe)),
           [kind |-> "match", path |-> p, line |-> i, seen |-> tree[p].text[i]]
               \notin ToSet(Tail(rg.pipe))
    PROVE  Leaves(p, i) \/ Excused(p, i)
BY DEF CoverSound, Leaves

\* A record before the cursor is passed over.
LEMMA SkipSound ==
    ASSUME GrepSound, Skip
    PROVE  GrepSound'
<1> DEFINE ev == Head(rg.pipe)
<1>1. pc = "scan" /\ rg.pipe # <<>> /\ SkippedRecord(ev) /\ Proceed(scan)
  BY DEF Skip, At
<1>2. scan \in Scans
  BY DEF GrepSound, GrepTyped
<1>3. /\ GrepTyped' /\ StoreSound' /\ PhaseSound' /\ ClientSound' /\ PipeSound'
      /\ scan' = scan /\ client' = client /\ tree' = tree /\ committed' = committed
      /\ Settled' = Settled /\ rg # None /\ rg' # None /\ pc' = "scan"
      /\ rg'.todo = rg.todo /\ rg'.pipe = Tail(rg.pipe)
      /\ ToSet(rg.pipe) = {ev} \cup ToSet(rg'.pipe)
  BY <1>1, <1>2, ProceedFacts
<1>4. MismatchSound /\ PageSound /\ AheadSound /\ CoverSound
  BY <1>1, <1>3 DEF GrepSound, ScanSound
<1>5. MismatchSound' /\ PageSound'
  BY <1>3, <1>4 DEF MismatchSound, SnapshotSound, PageSound, Page, Passed, Untried
<1>6. /\ ev \in Events /\ ev.path \in Nat /\ ev.line \in Nat
  BY <1>1, <1>3, HeadFacts
<1>7. /\ scan.resume # None =>
             /\ scan.resume.path \in Paths /\ scan.resume.path \in Nat /\ scan.resume.line \in Nat
             /\ scan.resume.mode # "search_start"
             /\ \/ InLogicalOrder(scan.resume)
                \/ FromFileStart(scan.resume)
                \/ scan.resume.mode = "after_match"
  BY <1>1, ResumeFacts
<1>8. ~scan.replayed => ev.path < scan.resume.path /\ FromFileStart(scan.resume)
  <2>1. ~scan.replayed => FromFileStart(scan.resume) /\ scan.anchorFound
    BY <1>4 DEF PageSound, AheadSound
  <2>2. ~scan.replayed => ~InLogicalOrder(scan.resume)
    BY <2>1 DEF FromFileStart, InLogicalOrder
  <2> QED BY <1>1, <2>1, <2>2 DEF SkippedRecord
<1>9. scan.replayed => ev.kind = "match"
  BY <1>1 DEF SkippedRecord
<1>10. AheadSound'
  <2>1. Passed' = Passed
    BY <1>3 DEF Passed, Page
  <2>2. ~scan.replayed =>
            \A y \in ToSet(rg'.pipe) : y.kind = "match" /\ y.path >= scan.resume.path =>
                \E b \in ToSet(rg'.pipe) : b.kind = "begin" /\ b.path = y.path
    <3> SUFFICES ASSUME ~scan.replayed, NEW y \in ToSet(rg'.pipe), y.kind = "match",
                        y.path >= scan.resume.path
                 PROVE  \E b \in ToSet(rg'.pipe) : b.kind = "begin" /\ b.path = y.path
      OBVIOUS
    <3>1. PICK b \in ToSet(rg.pipe) : b.kind = "begin" /\ b.path = y.path
      BY <1>3, <1>4 DEF AheadSound
    <3>2. scan.resume.path \in Nat
      BY <1>7, <1>8 DEF FromFileStart
    <3>3. b # ev
      BY <1>6, <1>8, <3>1, <3>2
    <3> QED BY <1>3, <3>1, <3>3
  <2>3. InLogicalOrder(scan.resume) =>
            /\ scan.anchor # None
            /\ \A y \in ToSet(rg'.pipe) : y.kind = "match" /\ y.path = scan.resume.path =>
                   \/ \E b \in ToSet(rg'.pipe) : b.kind = "begin" /\ b.path = y.path
                   \/ scan.active = scan.anchor
    <3>1. InLogicalOrder(scan.resume) => ev.kind # "begin"
      BY <1>8, <1>9 DEF InLogicalOrder, FromFileStart
    <3> QED BY <1>3, <1>4, <3>1 DEF AheadSound
  <2> QED BY <1>3, <1>4, <2>1, <2>2, <2>3 DEF AheadSound
<1>11. CoverSound'
  <2>1. Page' = Page
    BY <1>3 DEF Page
  <2> SUFFICES ASSUME NEW q \in Settled, NEW i \in Matching(tree[q].text),
                      After(scan.resume, q, i), ~Has(Page, q, i), q \notin rg.todo,
                      [kind |-> "match", path |-> q, line |-> i, seen |-> tree[q].text[i]]
                          \notin ToSet(rg'.pipe)
               PROVE  Excused(q, i)'
    BY <1>3, <2>1 DEF CoverSound
  <2>2. CASE Excused(q, i)
    BY <1>3, <2>2 DEF Excused
  <2>3. CASE Leaves(q, i)
    <3>1. ev.kind = "match" /\ ev.path = q /\ ev.line = i /\ q \in Nat /\ i \in Nat
      <4>1. ev.kind = "match" /\ ev.path = q /\ ev.line = i
        BY <2>3 DEF Leaves
      <4> QED BY <1>6, <4>1
    <3>2. CASE ~scan.replayed
      <4>1. ev.path < scan.resume.path /\ FromFileStart(scan.resume)
        BY <1>8, <3>2
      <4>2. scan.resume.path \in Nat /\ q >= scan.resume.path
        BY <1>7, <4>1 DEF After, FromFileStart, InLogicalOrder
      <4> QED BY <3>1, <4>1, <4>2
    <3>3. CASE scan.replayed /\ InLogicalOrder(scan.resume)
      <4>1. Logical[q] < Logical[scan.resume.path]
        BY <1>1, <3>1, <3>3 DEF SkippedRecord
      <4>2. Before(scan.resume, Spot(q, i)) /\ scan.resume.path \in Paths
        BY <1>7, <3>3 DEF After, InLogicalOrder, FromFileStart
      <4>3. \/ Logical[scan.resume.path] < Logical[q]
            \/ scan.resume.path = q
        BY <4>2 DEF Before, Spot
      <4>4. q \in Paths /\ Logical[q] \in Nat /\ Logical[scan.resume.path] \in Nat
        BY <4>2, GrepAssumption DEF Settled
      <4> QED BY <4>1, <4>3, <4>4
    <3>4. CASE scan.replayed /\ ~InLogicalOrder(scan.resume)
      <4>1. ~scan.anchorFound
        BY <1>1, <3>4 DEF SkippedRecord
      <4>2. scan.resume # None /\ scan.resume.mode = "after_match"
        BY <1>4, <1>7, <3>4, <4>1 DEF PageSound, AheadSound
      <4>3. DiskBefore(scan.resume, Spot(q, i))
        BY <4>2 DEF After, InLogicalOrder, FromFileStart
      <4>4. DiskBefore(scan.resume, ev)
        BY <3>1, <4>3 DEF DiskBefore, Spot
      <4>5. /\ \A y \in ToSet(rg'.pipe) : DiskBefore(scan.resume, y)
            /\ \A r \in rg'.todo : r > scan.resume.path
        BY <1>1, <1>3, <4>2, <4>4, BeyondAnchor
      <4> QED BY <1>3, <3>4, <4>1, <4>5 DEF Excused
    <3> QED BY <3>2, <3>3, <3>4
  <2> QED BY <1>3, <1>4, <2>2, <2>3, Uncovered
<1> QED BY <1>3, <1>5, <1>10, <1>11 DEF GrepSound, ScanSound

\* The begin record of a file is taken.
LEMMA BeginFileSound ==
    ASSUME GrepSound, BeginFile
    PROVE  GrepSound'
<1> DEFINE ev == Head(rg.pipe)
           active == IF scan.anchor # None /\ ev.path = scan.anchor.path THEN scan.anchor ELSE None
           new == [scan EXCEPT !.replayed = TRUE, !.active = active]
<1>1. /\ pc = "scan" /\ rg.pipe # <<>> /\ ev.kind = "begin" /\ ~SkippedRecord(ev) /\ Proceed(new)
  BY DEF BeginFile, At
<1>2. /\ scan \in Scans /\ new \in Scans /\ new.replayed = TRUE /\ new.active = active
      /\ new.resume = scan.resume /\ new.anchorFound = scan.anchorFound
      /\ new.mismatch = scan.mismatch /\ new.anchor = scan.anchor /\ new.last = scan.last
      /\ new.matches = scan.matches /\ new.candidates = scan.candidates
  <2>1. scan \in Scans
    BY DEF GrepSound, GrepTyped
  <2>2. active \in Snapshots \cup {None}
    BY <2>1 DEF Scans
  <2> QED BY <2>1, <2>2 DEF Scans
<1>3. active # None => scan.anchor # None /\ active = scan.anchor /\ active.path = ev.path
  OBVIOUS
<1>4. scan.anchor # None /\ ev.path = scan.anchor.path => active = scan.anchor
  OBVIOUS
<1> HIDE DEF new, active
<1>5. /\ GrepTyped' /\ StoreSound' /\ PhaseSound' /\ ClientSound' /\ PipeSound'
      /\ scan' = new /\ client' = client /\ tree' = tree /\ committed' = committed
      /\ Settled' = Settled /\ rg # None /\ rg' # None /\ pc' = "scan"
      /\ rg'.todo = rg.todo /\ rg'.pipe = Tail(rg.pipe)
      /\ ToSet(rg.pipe) = {ev} \cup ToSet(rg'.pipe)
  BY <1>1, <1>2, ProceedFacts
<1>6. MismatchSound /\ PageSound /\ PipeSound /\ AheadSound /\ CoverSound
  BY <1>1, <1>5 DEF GrepSound, ScanSound
<1>7. /\ ev \in ToSet(rg.pipe) /\ ev.path \in Nat /\ ev.line = 0
      /\ \A y \in ToSet(rg.pipe) : ev.path <= y.path
      /\ \A q \in rg.todo : q \in Paths /\ ev.path < q
  <2>1. /\ ev \in ToSet(rg.pipe) /\ ev.path \in Nat
        /\ \A y \in ToSet(rg.pipe) : ev.path <= y.path
        /\ \A q \in rg.todo : q \in Paths /\ ev.path < q
    BY <1>1, <1>5, HeadFacts
  <2> QED BY <1>1, <1>6, <2>1 DEF PipeSound
<1>8. Page' = Page /\ Passed' = Passed
  BY <1>2, <1>5 DEF Page, Passed
<1>9. MismatchSound' /\ PageSound'
  <2>1. MismatchSound'
    <3>1. scan'.active # None => SnapshotSound(scan.active)'
      BY <1>2, <1>3, <1>5, <1>6 DEF MismatchSound, SnapshotSound
    <3>2. scan'.anchor # None => SnapshotSound(scan.anchor)'
      BY <1>2, <1>5, <1>6 DEF MismatchSound, SnapshotSound
    <3> QED BY <1>2, <1>5, <1>6, <1>8, <3>1, <3>2 DEF MismatchSound
  <2> QED BY <1>2, <1>5, <1>6, <1>8, <2>1 DEF PageSound
<1>10. AheadSound'
  <2>1. Passed \subseteq Matches /\ \A m \in Matches : m.path \in Nat /\ m.line \in Nat
    BY PassedTyped
  <2>2. \A y \in ToSet(rg.pipe) : y.path \in Nat
    BY <1>5, PipeTyped
  <2>3. ASSUME NEW m \in Passed, NEW y \in ToSet(rg'.pipe)
        PROVE  DiskBefore(m, y) /\ m.path # y.path
    <3>1. DiskBefore(m, y) /\ DiskBefore(m, ev)
      BY <1>5, <1>6, <1>7 DEF AheadSound
    <3>2. m.path < ev.path /\ ev.path <= y.path /\ m.path \in Nat /\ y.path \in Nat
      BY <1>5, <1>7, <2>1, <2>2, <3>1 DEF DiskBefore
    <3> QED BY <1>7, <3>1, <3>2
  <2>4. scan'.active # None =>
            /\ \A p \in rg'.todo : scan'.active.path < p
            /\ \A y \in ToSet(rg'.pipe) : scan'.active.path <= y.path
    BY <1>2, <1>3, <1>5, <1>7
  <2>5. FromFileStart(scan.resume) =>
            /\ \A q \in rg'.todo : q >= scan.resume.path
            /\ \A y \in ToSet(rg'.pipe) : y.path >= scan.resume.path
    <3> SUFFICES ASSUME FromFileStart(scan.resume), ~scan.replayed
                 PROVE  /\ \A q \in rg'.todo : q >= scan.resume.path
                        /\ \A y \in ToSet(rg'.pipe) : y.path >= scan.resume.path
      BY <1>5, <1>6 DEF AheadSound
    <3>1. scan.resume.path \in Nat
      BY <1>1, ResumeFacts DEF FromFileStart
    <3>2. scan.resume.path <= ev.path
      BY <1>1, <1>7, <3>1 DEF SkippedRecord
    <3>3. \A q \in rg.todo : q \in Nat
      BY <1>7, GrepAssumption
    <3> QED BY <1>5, <1>7, <2>2, <3>1, <3>2, <3>3
  <2>6. ASSUME InLogicalOrder(scan.resume), NEW y \in ToSet(rg'.pipe), y.kind = "match",
               y.path = scan.resume.path
        PROVE  \/ \E b \in ToSet(rg'.pipe) : b.kind = "begin" /\ b.path = y.path
               \/ active = scan.anchor
    <3>1. scan.anchor # None /\ scan.anchor.path = y.path
      BY <1>6, <2>6 DEF AheadSound, PageSound
    <3>2. CASE \E b \in ToSet(rg.pipe) : b.kind = "begin" /\ b.path = y.path
      BY <1>4, <1>5, <3>1, <3>2
    <3>3. CASE scan.active = scan.anchor
      <4>1. scan.active.path <= ev.path /\ ev.path <= y.path /\ y.path \in Nat
        BY <1>5, <1>6, <1>7, <2>2, <3>1, <3>3 DEF AheadSound
      <4>2. ev.path = scan.anchor.path
        BY <1>7, <3>1, <3>3, <4>1
      <4> QED BY <1>4, <3>1, <4>2
    <3> QED BY <1>5, <1>6, <2>6, <3>2, <3>3 DEF AheadSound
  <2>7. /\ FromFileStart(scan.resume) => scan.anchorFound
        /\ InLogicalOrder(scan.resume) => scan.anchor # None
        /\ \A m \in Passed : \A p \in rg.todo : m.path < p
    BY <1>6 DEF AheadSound
  <2> QED BY <1>2, <1>5, <1>8, <2>3, <2>4, <2>5, <2>6, <2>7 DEF AheadSound
<1>11. CoverSound'
  <2> SUFFICES ASSUME NEW q \in Settled, NEW i \in Matching(tree[q].text),
                      After(scan.resume, q, i), ~Has(Page, q, i), q \notin rg.todo,
                      [kind |-> "match", path |-> q, line |-> i, seen |-> tree[q].text[i]]
                          \notin ToSet(rg'.pipe)
               PROVE  Excused(q, i)'
    BY <1>2, <1>5, <1>8 DEF CoverSound
  <2>1. ~Leaves(q, i)
    BY <1>1 DEF Leaves
  <2>2. Excused(q, i)
    BY <1>5, <1>6, <2>1, Uncovered
  <2> QED BY <1>2, <1>5, <2>2 DEF Excused
<1> QED BY <1>5, <1>9, <1>10, <1>11 DEF GrepSound, ScanSound

\* The match at the head of the pipe, when it stands in the snapshot of its file.
LEMMA FoundFacts ==
    ASSUME GrepSound, Ready, Verified(Head(rg.pipe))
    PROVE  LET ev == Head(rg.pipe)
           IN  /\ pc = "scan" /\ rg # None /\ rg.pipe # <<>> /\ ev.kind = "match"
               /\ ~SkippedRecord(ev) /\ scan.replayed
               /\ Found \in Matches /\ Found.path = ev.path /\ Found.line = ev.line
               /\ scan.active # None /\ scan.active.path = Found.path
               /\ scan.active.text = Found.text /\ Found.line \in Matching(Found.text)
               /\ Found.text \in committed[Found.path] \/ scan.mismatch
               /\ \A m \in Passed : /\ DiskBefore(m, Found)
                                    /\ m.path = Found.path => m.text = Found.text
               /\ \A y \in ToSet(Tail(rg.pipe)) : DiskBefore(Found, y)
               /\ \A q \in rg.todo : Found.path < q
               /\ InLogicalOrder(scan.resume) /\ Found.path = scan.resume.path =>
                      Found.text = scan.resume.text
<1> DEFINE ev == Head(rg.pipe)
<1>1. /\ pc = "scan" /\ rg.pipe # <<>> /\ ev.kind = "match" /\ ~SkippedRecord(ev)
      /\ scan.active # None /\ scan.active.path = ev.path
  BY DEF Ready, Candidate, At, ActiveFor
<1>2. rg # None /\ scan \in Scans
  BY <1>1 DEF GrepSound, GrepTyped, PhaseSound
<1>3. MismatchSound /\ PageSound /\ PipeSound /\ AheadSound
  BY <1>1, <1>2 DEF GrepSound, ScanSound
<1>4. /\ ev \in Events /\ ev \in ToSet(rg.pipe) /\ ev.path \in Nat /\ ev.line \in Nat
      /\ \A y \in ToSet(Tail(rg.pipe)) : y \in Events /\ DiskBefore(ev, y)
      /\ \A q \in rg.todo : ev.path < q
  BY <1>1, <1>2, HeadFacts
<1>5. /\ scan.replayed
      /\ InLogicalOrder(scan.resume) /\ ev.path = scan.resume.path =>
             scan.anchor # None /\ scan.active = scan.anchor
  BY <1>1, <1>2, HeadMatch
<1>6. /\ scan.active.verified /\ ev.line \in DOMAIN scan.active.text
      /\ scan.active.text[ev.line] = ev.seen
  BY DEF Verified
<1>7. scan.active \in Snapshots /\ scan.active.text \in Contents
  BY <1>1, <1>2, <1>3, <1>6 DEF Scans, MismatchSound, SnapshotSound
<1>8. Found.path = ev.path /\ Found.line = ev.line /\ Found.text = scan.active.text
  BY <1>1 DEF Found
<1>9. Found \in Matches
  <2>1. scan.active.path \in Paths
    BY <1>7 DEF Snapshots
  <2> QED BY <1>4, <1>7, <2>1 DEF Found, Matches
<1>10. Found.line \in Matching(Found.text)
  <2>1. ev.seen \in Needles
    BY <1>1, <1>3, <1>4 DEF PipeSound
  <2> QED BY <1>6, <1>8, <2>1 DEF Matching
<1>11. Found.text \in committed[Found.path] \/ scan.mismatch
  BY <1>1, <1>3, <1>6, <1>8 DEF MismatchSound, SnapshotSound
<1>12. ASSUME NEW m \in Passed
       PROVE  DiskBefore(m, Found) /\ (m.path = Found.path => m.text = Found.text)
  <2>1. DiskBefore(m, ev) /\ (m.path = ev.path => scan.active.text = m.text)
    BY <1>3, <1>4 DEF AheadSound
  <2> QED BY <1>8, <2>1 DEF DiskBefore
<1>13. \A y \in ToSet(Tail(rg.pipe)) : DiskBefore(Found, y)
  BY <1>4, <1>8 DEF DiskBefore
<1>14. InLogicalOrder(scan.resume) /\ Found.path = scan.resume.path =>
           Found.text = scan.resume.text
  BY <1>3, <1>5, <1>8 DEF PageSound
<1> HIDE DEF ev
<1>15. scan.active.path = Found.path /\ \A q \in rg.todo : Found.path < q
  BY <1>1, <1>4, <1>8
<1> QED BY <1>1, <1>2, <1>5, <1>8, <1>9, <1>10, <1>11, <1>12, <1>13, <1>14, <1>15 DEF ev

\* The match leaves the pipe, and may be the last one passed.
LEMMA FoundProceeds ==
    ASSUME GrepSound, Ready, Verified(Head(rg.pipe)), NEW new \in Scans,
           new.resume = scan.resume, new.replayed = scan.replayed, new.active = scan.active,
           new.anchor = scan.anchor, new.mismatch = scan.mismatch,
           scan.anchorFound => new.anchorFound, Proceed(new),
           Page' \subseteq Page \cup {Found}, Passed' \subseteq Passed \cup {Found}
    PROVE  /\ GrepTyped' /\ StoreSound' /\ PhaseSound' /\ ClientSound' /\ PipeSound'
           /\ MismatchSound' /\ AheadSound'
           /\ scan' = new /\ client' = client /\ tree' = tree
           /\ Settled' = Settled /\ rg # None /\ rg' # None /\ pc' = "scan"
           /\ rg'.todo = rg.todo /\ rg'.pipe = Tail(rg.pipe)
           /\ ToSet(rg.pipe) = {Head(rg.pipe)} \cup ToSet(rg'.pipe)
           /\ \A m, n \in Passed' : m.path = n.path => m.text = n.text
<1> DEFINE ev == Head(rg.pipe)
<1>1. /\ pc = "scan" /\ rg # None /\ rg.pipe # <<>> /\ ev.kind = "match"
      /\ scan.replayed /\ Found \in Matches
      /\ scan.active # None /\ scan.active.path = Found.path
      /\ scan.active.text = Found.text /\ Found.line \in Matching(Found.text)
      /\ Found.text \in committed[Found.path] \/ scan.mismatch
      /\ \A m \in Passed : m.path = Found.path => m.text = Found.text
      /\ \A y \in ToSet(Tail(rg.pipe)) : DiskBefore(Found, y)
      /\ \A q \in rg.todo : Found.path < q
  BY FoundFacts
<1>2. /\ GrepTyped' /\ StoreSound' /\ PhaseSound' /\ ClientSound' /\ PipeSound'
      /\ scan' = new /\ client' = client /\ tree' = tree /\ committed' = committed
      /\ Settled' = Settled /\ rg # None /\ rg' # None /\ pc' = "scan"
      /\ rg'.todo = rg.todo /\ rg'.pipe = Tail(rg.pipe)
      /\ ToSet(rg.pipe) = {ev} \cup ToSet(rg'.pipe)
  BY <1>1, ProceedFacts
<1>3. MismatchSound /\ PageSound /\ AheadSound
  BY <1>1 DEF GrepSound, ScanSound
<1>4. MismatchSound'
  <2>1. /\ (scan.active # None => SnapshotSound(scan.active))'
        /\ (scan.anchor # None => SnapshotSound(scan.anchor))'
    BY <1>2, <1>3 DEF MismatchSound, SnapshotSound
  <2>2. \A m \in Page' : /\ m.line \in Matching(m.text)
                         /\ m.text \in committed[m.path] \/ scan.mismatch
    BY <1>1, <1>3 DEF MismatchSound
  <2> QED BY <1>2, <1>3, <2>1, <2>2 DEF MismatchSound
<1>5. \A m, n \in Passed' : m.path = n.path => m.text = n.text
  BY <1>1, <1>3 DEF PageSound
<1>6. AheadSound'
  <2>1. ASSUME NEW m \in Passed'
        PROVE  /\ \A p \in rg'.todo : m.path < p
               /\ \A y \in ToSet(rg'.pipe) :
                      /\ DiskBefore(m, y)
                      /\ m.path = y.path =>
                             /\ scan.active # None
                             /\ scan.active.path = m.path /\ scan.active.text = m.text
    <3>1. CASE m \in Passed
      BY <1>2, <1>3, <3>1 DEF AheadSound
    <3>2. CASE m = Found
      BY <1>1, <1>2, <3>2
    <3> QED BY <3>1, <3>2
  <2>2. InLogicalOrder(scan.resume) =>
            /\ scan.anchor # None
            /\ \A y \in ToSet(rg'.pipe) : y.kind = "match" /\ y.path = scan.resume.path =>
                   \/ \E b \in ToSet(rg'.pipe) : b.kind = "begin" /\ b.path = y.path
                   \/ scan.active = scan.anchor
    BY <1>1, <1>2, <1>3 DEF AheadSound
  <2>3. scan.active # None =>
            /\ \A p \in rg'.todo : scan.active.path < p
            /\ \A y \in ToSet(rg'.pipe) : scan.active.path <= y.path
    BY <1>2, <1>3 DEF AheadSound
  <2>4. FromFileStart(scan.resume) =>
            /\ scan'.anchorFound
            /\ \A p \in rg'.todo : p >= scan.resume.path
            /\ \A y \in ToSet(rg'.pipe) : y.path >= scan.resume.path
    BY <1>1, <1>2, <1>3 DEF AheadSound
  <2>5. /\ scan'.resume = scan.resume /\ scan'.replayed /\ scan'.active = scan.active
        /\ scan'.anchor = scan.anchor
    BY <1>1, <1>2
  <2> QED BY <2>1, <2>2, <2>3, <2>4, <2>5 DEF AheadSound
<1> QED BY <1>2, <1>4, <1>5, <1>6

\* Looking for the cursor's match in its file, as the client left it.
LEMMA SeekAnchorSound ==
    ASSUME GrepSound, SeekAnchor
    PROVE  GrepSound'
<1>1. CASE Found.text # scan.resume.text
  BY <1>1, FailSound DEF SeekAnchor
<1>2. CASE Found.text = scan.resume.text
  <2> DEFINE ev == Head(rg.pipe)
             new == IF Found.line = scan.resume.line
                    THEN [scan EXCEPT !.anchorFound = TRUE, !.last = Found] ELSE scan
  <2>1. /\ Ready /\ Verified(ev) /\ ~scan.anchorFound /\ ~InLogicalOrder(scan.resume)
        /\ Proceed(new)
    BY <1>2 DEF SeekAnchor
  <2>2. /\ pc = "scan" /\ rg # None /\ rg.pipe # <<>> /\ ev.kind = "match"
        /\ ~SkippedRecord(ev) /\ Found \in Matches /\ Found.path = ev.path /\ Found.line = ev.line
        /\ Found.line \in Matching(Found.text)
    BY <2>1, FoundFacts
  <2>3. MismatchSound /\ PageSound /\ AheadSound /\ CoverSound /\ scan \in Scans
    BY <2>2 DEF GrepSound, GrepTyped, ScanSound
  <2>4. /\ scan.resume # None /\ scan.resume.mode = "after_match"
        /\ scan.resume.path \in Nat /\ scan.resume.line \in Nat
    <3>1. scan.resume # None /\ ~FromFileStart(scan.resume)
      BY <2>1, <2>3 DEF PageSound, AheadSound
    <3> QED BY <2>1, <2>2, <3>1, ResumeFacts
  <2>5. Found.path = scan.resume.path
    BY <2>1, <2>2 DEF SkippedRecord
  <2>6. /\ scan.matches = <<>> /\ scan.candidates = <<>> /\ scan.last = None
    BY <2>1, <2>3 DEF PageSound
  <2>7. ToSet(<<>>) = {} /\ Found # None
    BY <2>2, RecordAssumption DEF ToSet
  <2>8. /\ new \in Scans /\ new.resume = scan.resume /\ new.replayed = scan.replayed
        /\ new.active = scan.active /\ new.anchor = scan.anchor /\ new.mismatch = scan.mismatch
        /\ new.matches = scan.matches /\ new.candidates = scan.candidates
        /\ Found.line = scan.resume.line => new.anchorFound /\ new.last = Found
        /\ Found.line # scan.resume.line => new = scan
    BY <2>2, <2>3 DEF Scans
  <2> HIDE DEF new
  <2>9. Page = {} /\ Passed = {}
    BY <2>6, <2>7 DEF Page, Passed
  <2>10. scan' = new
    BY <2>1 DEF Proceed
  <2>11. Page' = {} /\ Passed' \subseteq {Found}
    BY <2>6, <2>7, <2>8, <2>10 DEF Page, Passed
  <2>12. /\ GrepTyped' /\ StoreSound' /\ PhaseSound' /\ ClientSound' /\ PipeSound'
         /\ MismatchSound' /\ AheadSound'
         /\ client' = client /\ tree' = tree
         /\ Settled' = Settled /\ rg' # None /\ pc' = "scan"
         /\ rg'.todo = rg.todo /\ rg'.pipe = Tail(rg.pipe)
         /\ ToSet(rg.pipe) = {ev} \cup ToSet(rg'.pipe)
         /\ \A m, n \in Passed' : m.path = n.path => m.text = n.text
    <3>1. Page' \subseteq Page \cup {Found} /\ Passed' \subseteq Passed \cup {Found}
      BY <2>11
    <3> QED BY <2>1, <2>8, <3>1, FoundProceeds
  <2>13. CASE Found.line = scan.resume.line
    <3>1. scan'.anchorFound /\ scan'.last = Found
      BY <2>8, <2>10, <2>13
    <3>2. PageSound'
      <4>1. ~scan'.replayed => FALSE
        BY <2>1, <2>8, <2>10, FoundFacts
      <4>2. /\ scan'.resume = scan.resume /\ scan'.anchor = scan.anchor
            /\ scan'.matches = scan.matches /\ scan'.candidates = scan.candidates
            /\ client'.limit = client.limit
        BY <2>8, <2>10, <2>12
      <4>3. /\ scan.anchor # None =>
                   scan.anchor.path = scan.resume.path /\ scan.anchor.text = scan.resume.text
            /\ InTurn(DiskOrder, scan.matches) /\ InTurn(LogicalOrder, scan.candidates)
            /\ Len(scan.candidates) <= client.limit + 1
        BY <2>3 DEF PageSound
      <4>4. \A m \in Passed' : m.path = scan.resume.path => m.text = scan.resume.text
        BY <1>2, <2>11
      <4>5. ToSet(scan'.matches) = {} /\ ~InLogicalOrder(scan.resume)
        BY <2>1, <2>6, <2>7, <4>2
      <4> QED BY <2>2, <2>4, <2>5, <2>6, <2>7, <2>11, <2>12, <2>13, <3>1, <4>1, <4>2, <4>3, <4>4,
                 <4>5
              DEF PageSound
    <3>3. ~DiskBefore(scan.resume, ev)
      BY <2>2, <2>4, <2>5, <2>13 DEF DiskBefore
    <3>4. CoverSound'
      <4> SUFFICES ASSUME NEW q \in Settled, NEW i \in Matching(tree[q].text),
                          After(scan.resume, q, i), q \notin rg.todo,
                          [kind |-> "match", path |-> q, line |-> i, seen |-> tree[q].text[i]]
                              \notin ToSet(rg'.pipe)
                   PROVE  FALSE
        BY <2>8, <2>10, <2>12 DEF CoverSound
      <4>1. ~Has(Page, q, i)
        BY <2>9 DEF Has
      <4>2. CASE Excused(q, i)
        BY <2>1, <2>12, <3>3, <4>2 DEF Excused
      <4>3. CASE Leaves(q, i)
        <5>1. DiskBefore(scan.resume, Spot(q, i))
          BY <2>4 DEF After, InLogicalOrder, FromFileStart
        <5>2. ev.path = q /\ ev.line = i
          BY <4>3 DEF Leaves
        <5> QED BY <3>3, <5>1, <5>2 DEF DiskBefore, Spot
      <4> QED BY <2>3, <2>12, <4>1, <4>2, <4>3, Uncovered
    <3> QED BY <2>12, <3>2, <3>4 DEF GrepSound, ScanSound
  <2>14. CASE Found.line # scan.resume.line
    <3>1. scan' = scan
      BY <2>8, <2>10, <2>14
    <3>2. PageSound'
      BY <2>3, <2>12, <3>1 DEF PageSound, Page, Passed, Untried
    <3>3. CoverSound'
      <4> SUFFICES ASSUME NEW q \in Settled, NEW i \in Matching(tree[q].text),
                          After(scan.resume, q, i), q \notin rg.todo,
                          [kind |-> "match", path |-> q, line |-> i, seen |-> tree[q].text[i]]
                              \notin ToSet(rg'.pipe)
                   PROVE  Excused(q, i)'
        BY <2>12, <3>1 DEF CoverSound
      <4>1. ~Has(Page, q, i)
        BY <2>9 DEF Has
      <4>2. CASE Excused(q, i)
        BY <2>12, <3>1, <4>2 DEF Excused
      <4>3. CASE Leaves(q, i)
        <5>1. DiskBefore(scan.resume, Spot(q, i))
          BY <2>4 DEF After, InLogicalOrder, FromFileStart
        <5>2. ev.path = q /\ ev.line = i
          BY <4>3 DEF Leaves
        <5>3. DiskBefore(scan.resume, ev)
          BY <5>1, <5>2 DEF DiskBefore, Spot
        <5>4. /\ \A y \in ToSet(rg'.pipe) : DiskBefore(scan.resume, y)
              /\ \A r \in rg'.todo : r > scan.resume.path
          BY <2>2, <2>4, <2>12, <5>3, BeyondAnchor
        <5> QED BY <2>1, <3>1, <5>4 DEF Excused
      <4> QED BY <2>3, <2>12, <4>1, <4>2, <4>3, Uncovered
    <3> QED BY <2>12, <3>2, <3>3 DEF GrepSound, ScanSound
  <2> QED BY <2>13, <2>14
<1> QED BY <1>1, <1>2

\* The compatibility scan passes the cursor's match, or one before it.
LEMMA PassAnchorSound ==
    ASSUME GrepSound, Ready, Verified(Head(rg.pipe)), InLogicalOrder(scan.resume),
           Found.path = scan.resume.path, Found.line <= scan.resume.line,
           NEW found \in BOOLEAN, scan.anchorFound => found,
           Proceed([scan EXCEPT !.anchorFound = found])
    PROVE  GrepSound'
<1> DEFINE ev == Head(rg.pipe)
           new == [scan EXCEPT !.anchorFound = found]
<1>1. /\ pc = "scan" /\ rg # None /\ ev.kind = "match" /\ Found.path = ev.path
      /\ Found.line = ev.line /\ Found \in Matches
  BY FoundFacts
<1>2. PageSound /\ CoverSound /\ scan \in Scans
  BY <1>1 DEF GrepSound, GrepTyped, ScanSound
<1>3. /\ new \in Scans /\ new.resume = scan.resume /\ new.replayed = scan.replayed
      /\ new.active = scan.active /\ new.anchor = scan.anchor /\ new.mismatch = scan.mismatch
      /\ new.matches = scan.matches /\ new.candidates = scan.candidates
      /\ new.last = scan.last /\ new.anchorFound = found
  BY <1>2 DEF Scans
<1>4. Proceed(new)
  OBVIOUS
<1> HIDE DEF new
<1>5. scan' = new
  BY <1>4 DEF Proceed
<1>6. Page' = Page /\ Passed' = Passed
  BY <1>3, <1>5 DEF Page, Passed
<1>7. /\ GrepTyped' /\ StoreSound' /\ PhaseSound' /\ ClientSound' /\ PipeSound'
      /\ MismatchSound' /\ AheadSound'
      /\ client' = client /\ tree' = tree
      /\ Settled' = Settled /\ rg' # None /\ pc' = "scan"
      /\ rg'.todo = rg.todo /\ rg'.pipe = Tail(rg.pipe)
      /\ ToSet(rg.pipe) = {ev} \cup ToSet(rg'.pipe)
  BY <1>3, <1>4, <1>6, FoundProceeds
<1>8. PageSound'
  <2>1. scan.replayed
    BY FoundFacts
  <2>2. scan.resume # None /\ scan.resume.mode # "after_match"
    BY DEF InLogicalOrder
  <2>3. scan.matches = <<>> /\ scan.last = None
    BY <1>2 DEF PageSound
  <2> QED BY <1>2, <1>3, <1>5, <1>6, <1>7, <2>1, <2>2, <2>3 DEF PageSound
<1>9. CoverSound'
  <2> SUFFICES ASSUME NEW q \in Settled, NEW i \in Matching(tree[q].text),
                      After(scan.resume, q, i), ~Has(Page, q, i), q \notin rg.todo,
                      [kind |-> "match", path |-> q, line |-> i, seen |-> tree[q].text[i]]
                          \notin ToSet(rg'.pipe)
               PROVE  Excused(q, i)'
    BY <1>3, <1>5, <1>6, <1>7 DEF CoverSound
  <2>1. CASE Leaves(q, i)
    <3>1. q = scan.resume.path /\ i = Found.line
      BY <1>1, <2>1 DEF Leaves
    <3>2. Before(scan.resume, Spot(q, i))
      BY DEF After, InLogicalOrder, FromFileStart
    <3>3. \/ Logical[scan.resume.path] < Logical[scan.resume.path]
          \/ scan.resume.line < Found.line
      BY <3>1, <3>2 DEF Before, Spot
    <3>4. /\ Logical[scan.resume.path] \in Nat /\ scan.resume.line \in Nat
          /\ Found.line \in Nat
      <4>1. scan.resume.path \in Paths /\ scan.resume.line \in Nat
        BY <1>1, ResumeFacts DEF InLogicalOrder
      <4> QED BY <1>1, <4>1, GrepAssumption, PassedTyped
    <3> QED BY <3>3, <3>4
  <2>2. CASE Excused(q, i)
    BY <1>3, <1>5, <1>7, <2>2 DEF Excused
  <2> QED BY <1>2, <1>7, <2>1, <2>2, Uncovered
<1> QED BY <1>7, <1>8, <1>9 DEF GrepSound, ScanSound

\* The compatibility scan keeps a match, and drops the last when it has too many.
LEMMA KeepCandidateSound ==
    ASSUME GrepSound, Ready, Verified(Head(rg.pipe)), InLogicalOrder(scan.resume),
           Found.path = scan.resume.path => Found.line > scan.resume.line,
           Proceed([scan EXCEPT !.candidates = Inserted(client.limit, @, Found)])
    PROVE  GrepSound'
<1> DEFINE ev == Head(rg.pipe)
           s == scan.candidates
           t == Inserted(client.limit, s, Found)
           new == [scan EXCEPT !.candidates = t]
<1>1. /\ pc = "scan" /\ rg # None /\ ev.kind = "match" /\ Found.path = ev.path
      /\ Found.line = ev.line /\ Found \in Matches /\ ~SkippedRecord(ev) /\ scan.replayed
      /\ \A m \in Passed : DiskBefore(m, Found)
      /\ Found.path = scan.resume.path => Found.text = scan.resume.text
  BY FoundFacts
<1>2. PageSound /\ CoverSound /\ scan \in Scans /\ client \in Clients
  BY <1>1 DEF GrepSound, GrepTyped, ScanSound
<1>3. /\ scan.resume # None /\ scan.resume.path \in Paths /\ scan.resume.line \in Nat
      /\ scan.resume.mode # "after_match"
  BY <1>1, ResumeFacts DEF InLogicalOrder
<1>4. /\ Passed \subseteq Matches
      /\ \A m \in Matches : m.path \in Paths /\ m.path \in Nat /\ m.line \in Nat
  BY PassedTyped
<1>5. /\ scan.matches = <<>> /\ scan.last = None /\ s \in Seq(Matches)
      /\ client.limit \in Nat /\ InTurn(LogicalOrder, s) /\ Len(s) <= client.limit + 1
      /\ \A m \in Page : After(scan.resume, m.path, m.line)
      /\ \A m \in Passed : m.path = scan.resume.path => m.text = scan.resume.text
  BY <1>2, GrepAssumption DEF PageSound, Scans, Clients
<1>6. ToSet(<<>>) = {}
  BY DEF ToSet
<1>7. Page = ToSet(s) /\ Passed = ToSet(s)
  BY <1>5, <1>6 DEF Page, Passed
<1>8. ASSUME NEW x \in ToSet(s) PROVE x.path # Found.path \/ x.line # Found.line
  <2>1. DiskBefore(x, Found) /\ x.path \in Nat /\ x.line \in Nat
    BY <1>1, <1>4, <1>7
  <2> QED BY <2>1 DEF DiskBefore
<1>9. /\ t \in Seq(Matches) /\ InTurn(LogicalOrder, t) /\ Len(t) <= client.limit + 1
      /\ ToSet(t) \subseteq ToSet(s) \cup {Found}
      /\ \A x \in ToSet(s) \cup {Found} : x \notin ToSet(t) =>
             Len(t) = client.limit + 1 /\ \A y \in ToSet(t) : Before(y, x)
      /\ Len(s) = client.limit + 1 => \E x \in ToSet(s) \cup {Found} : x \notin ToSet(t)
  <2> HIDE DEF s
  <2> QED BY <1>1, <1>5, <1>8, InsertedFacts
<1> HIDE DEF t
<1>10. /\ new \in Scans /\ new.resume = scan.resume /\ new.replayed = scan.replayed
       /\ new.active = scan.active /\ new.anchor = scan.anchor /\ new.mismatch = scan.mismatch
       /\ new.matches = scan.matches /\ new.candidates = t
       /\ new.last = scan.last /\ new.anchorFound = scan.anchorFound
  BY <1>2, <1>9 DEF Scans
<1>11. Proceed(new)
  BY DEF t
<1> HIDE DEF new
<1>12. scan' = new
  BY <1>11 DEF Proceed
<1>13. Page' = ToSet(t) /\ Passed' = ToSet(t)
  BY <1>5, <1>6, <1>10, <1>12 DEF Page, Passed
<1>14. /\ GrepTyped' /\ StoreSound' /\ PhaseSound' /\ ClientSound' /\ PipeSound'
       /\ MismatchSound' /\ AheadSound'
       /\ client' = client /\ tree' = tree
       /\ Settled' = Settled /\ rg' # None /\ pc' = "scan"
       /\ rg'.todo = rg.todo /\ rg'.pipe = Tail(rg.pipe)
       /\ ToSet(rg.pipe) = {ev} \cup ToSet(rg'.pipe)
       /\ \A m, n \in Passed' : m.path = n.path => m.text = n.text
  <2>1. Page' \subseteq Page \cup {Found} /\ Passed' \subseteq Passed \cup {Found}
    BY <1>7, <1>9, <1>13
  <2> QED BY <1>10, <1>11, <2>1, FoundProceeds
<1>15. After(scan.resume, Found.path, Found.line)
  <2>1. Found.path \in Paths /\ Found.line \in Nat
    BY <1>1, <1>4
  <2>2. Logical[Found.path] \in Nat /\ Logical[scan.resume.path] \in Nat
    BY <1>3, <2>1, GrepAssumption
  <2>3. ~(Logical[Found.path] < Logical[scan.resume.path])
    BY <1>1 DEF SkippedRecord
  <2>4. Found.path # scan.resume.path => Logical[Found.path] # Logical[scan.resume.path]
    BY <1>3, <2>1, GrepAssumption
  <2>5. Before(scan.resume, Spot(Found.path, Found.line))
    BY <1>3, <2>1, <2>2, <2>3, <2>4 DEF Before, Spot
  <2> QED BY <1>3, <2>5, ResumeFacts DEF After, InLogicalOrder, FromFileStart
<1>16. PageSound'
  <2>1. \A m \in Page' : After(scan.resume, m.path, m.line)
    BY <1>5, <1>7, <1>9, <1>13, <1>15
  <2>2. \A m \in Passed' : m.path = scan.resume.path => m.text = scan.resume.text
    BY <1>1, <1>5, <1>7, <1>9, <1>13
  <2>3. scan.anchor # None =>
            scan.anchor.path = scan.resume.path /\ scan.anchor.text = scan.resume.text
    BY <1>2 DEF PageSound
  <2>4. InTurn(DiskOrder, scan.matches)
    BY <1>2 DEF PageSound
  <2>5. /\ scan'.resume = scan.resume /\ scan'.replayed /\ scan'.anchor = scan.anchor
        /\ scan'.matches = <<>> /\ scan'.candidates = t /\ scan'.last = None
        /\ client' = client
    BY <1>1, <1>5, <1>10, <1>12, <1>14
  <2> QED BY <1>3, <1>5, <1>6, <1>9, <1>14, <2>1, <2>2, <2>3, <2>4, <2>5 DEF PageSound
<1>17. CoverSound'
  <2> SUFFICES ASSUME NEW q \in Settled, NEW i \in Matching(tree[q].text),
                      After(scan.resume, q, i), ~Has(ToSet(t), q, i), q \notin rg.todo,
                      [kind |-> "match", path |-> q, line |-> i, seen |-> tree[q].text[i]]
                          \notin ToSet(rg'.pipe)
               PROVE  Excused(q, i)'
    BY <1>10, <1>12, <1>13, <1>14 DEF CoverSound
  <2>1. q \in Paths /\ i \in Nat
    <3>1. tree[q].text \in Contents
      BY DEF Settled, GrepSound, GrepTyped, Files
    <3>2. tree[q].text \in Seq(STRING)
      BY <3>1, GrepAssumption
    <3> QED BY <3>2 DEF Settled, Matching
  <2>2. ASSUME NEW x \in ToSet(s) \cup {Found}, x \notin ToSet(t),
               \/ x.path = q /\ x.line = i
               \/ Before(x, Spot(q, i))
        PROVE  Excused(q, i)'
    <3>1. Len(t) = client.limit + 1 /\ \A y \in ToSet(t) : Before(y, x)
      BY <1>9, <2>2
    <3>2. ASSUME NEW y \in ToSet(t) PROVE Before(y, Spot(q, i))
      <4>1. Before(y, x) /\ x \in Matches /\ y \in Matches
        BY <1>1, <1>4, <1>7, <1>9, <3>1
      <4>2. CASE x.path = q /\ x.line = i
        BY <4>1, <4>2 DEF Before, Spot
      <4>3. CASE Before(x, Spot(q, i))
        <5>1. Spot(q, i).path \in Paths /\ Spot(q, i).line \in Nat
          BY <2>1 DEF Spot
        <5> QED BY <1>4, <4>1, <4>3, <5>1, LogicalTransitive
      <4> QED BY <2>2, <4>2, <4>3
    <3> QED BY <1>10, <1>12, <1>14, <3>1, <3>2 DEF Excused
  <2>3. CASE Has(Page, q, i)
    <3>1. PICK x \in ToSet(s) : x.path = q /\ x.line = i
      BY <1>7, <2>3 DEF Has
    <3>2. x \notin ToSet(t)
      BY <3>1 DEF Has
    <3> QED BY <2>2, <3>1, <3>2
  <2>4. CASE Leaves(q, i)
    <3>1. Found.path = q /\ Found.line = i
      BY <1>1, <2>4 DEF Leaves
    <3>2. Found \notin ToSet(t)
      BY <3>1 DEF Has
    <3> QED BY <2>2, <3>1, <3>2
  <2>5. CASE Excused(q, i)
    <3>1. Len(s) = client.limit + 1 /\ \A m \in ToSet(s) : Before(m, Spot(q, i))
      BY <2>5 DEF Excused
    <3>2. PICK x \in ToSet(s) \cup {Found} : x \notin ToSet(t)
      BY <1>9, <3>1
    <3>3. CASE x \in ToSet(s)
      BY <2>2, <3>1, <3>2, <3>3
    <3>4. CASE x = Found
      <4>1. Len(t) = client.limit + 1 /\ ToSet(t) \subseteq ToSet(s)
        BY <1>9, <3>2, <3>4
      <4> QED BY <1>10, <1>12, <1>14, <3>1, <4>1 DEF Excused
    <3> QED BY <3>2, <3>3, <3>4
  <2> QED BY <1>2, <1>14, <2>3, <2>4, <2>5, Uncovered
<1> QED BY <1>14, <1>16, <1>17 DEF GrepSound, ScanSound

\* A match of a search in the order of the catalog is a candidate.
LEMMA CollectLogicalSound ==
    ASSUME GrepSound, CollectLogical
    PROVE  GrepSound'
<1> DEFINE there == Found.path = scan.resume.path
           kept == [scan EXCEPT !.candidates = Inserted(client.limit, @, Found)]
<1>1. /\ Ready /\ Verified(Head(rg.pipe)) /\ InLogicalOrder(scan.resume)
      /\ Proceed(CASE there /\ Found.line = scan.resume.line -> [scan EXCEPT !.anchorFound = TRUE]
                   [] there /\ Found.line < scan.resume.line -> scan
                   [] OTHER -> kept)
  BY DEF CollectLogical
<1>2. /\ pc = "scan" /\ Found \in Matches
  BY <1>1, FoundFacts
<1>3. scan.resume.line \in Nat /\ Found.line \in Nat /\ scan \in Scans
  <2>1. scan.resume.line \in Nat
    BY <1>1, <1>2, ResumeFacts DEF InLogicalOrder
  <2> QED BY <1>2, <2>1, PassedTyped DEF GrepSound, GrepTyped
<1> HIDE DEF kept
<1>4. CASE there /\ Found.line = scan.resume.line
  <2>1. Found.line <= scan.resume.line /\ ~(Found.line < scan.resume.line)
    BY <1>3, <1>4
  <2> DEFINE passed == [scan EXCEPT !.anchorFound = TRUE]
  <2> HIDE DEF passed
  <2>2. Proceed(CASE there /\ Found.line = scan.resume.line -> passed
                  [] there /\ Found.line < scan.resume.line -> scan
                  [] OTHER -> kept)
    BY <1>1 DEF passed
  <2>3. Proceed(passed)
    BY <1>4, <2>1, <2>2
  <2>4. Proceed([scan EXCEPT !.anchorFound = TRUE])
    BY <2>3 DEF passed
  <2> QED BY <1>1, <1>4, <2>1, <2>4, PassAnchorSound
<1>5. CASE there /\ Found.line < scan.resume.line
  <2>1. Found.line # scan.resume.line /\ Found.line <= scan.resume.line
    BY <1>3, <1>5
  <2>2. Proceed(scan)
    BY <1>1, <1>5, <2>1
  <2>3. scan = [scan EXCEPT !.anchorFound = scan.anchorFound] /\ scan.anchorFound \in BOOLEAN
    BY <1>3 DEF Scans
  <2>4. Proceed([scan EXCEPT !.anchorFound = scan.anchorFound])
    BY <2>2, <2>3
  <2> QED BY <1>1, <1>5, <2>1, <2>3, <2>4, PassAnchorSound
<1>6. CASE ~there \/ Found.line > scan.resume.line
  <2>1. ~(there /\ Found.line = scan.resume.line) /\ ~(there /\ Found.line < scan.resume.line)
    BY <1>3, <1>6
  <2>2. Proceed(kept)
    BY <1>1, <2>1
  <2> QED BY <1>1, <1>6, <2>2, KeepCandidateSound DEF kept
<1> QED BY <1>3, <1>4, <1>5, <1>6

\* A match that the scan meets after the cursor's is one the page owes.
LEMMA FoundAfter ==
    ASSUME GrepSound, Ready, Verified(Head(rg.pipe)), scan.anchorFound,
           ~InLogicalOrder(scan.resume)
    PROVE  After(scan.resume, Found.path, Found.line)
<1> DEFINE ev == Head(rg.pipe)
<1>1. /\ pc = "scan" /\ rg # None /\ rg.pipe # <<>> /\ scan.replayed /\ Found \in Matches
      /\ Found.path = ev.path /\ \A m \in Passed : DiskBefore(m, Found)
  BY FoundFacts
<1>2. PageSound /\ AheadSound
  BY <1>1 DEF GrepSound, ScanSound
<1>3. CASE scan.resume = None
  BY <1>3 DEF After
<1>4. CASE scan.resume # None /\ FromFileStart(scan.resume)
  <2>1. ev \in ToSet(rg.pipe)
    BY <1>1, HeadFacts
  <2>2. Found.path >= scan.resume.path
    BY <1>1, <1>2, <1>4, <2>1 DEF AheadSound
  <2> QED BY <1>4, <2>2 DEF After, FromFileStart, InLogicalOrder
<1>5. CASE scan.resume # None /\ scan.resume.mode = "after_match"
  <2>1. scan.resume.path \in Nat /\ scan.resume.line \in Nat
    BY <1>1, <1>5, ResumeFacts
  <2>2. scan.last # None
    BY <1>2, <1>5 DEF PageSound
  <2>3. scan.last \in Passed /\ DiskBefore(scan.last, Found)
    BY <1>1, <2>2 DEF Passed
  <2>4. /\ scan.last.path \in Nat /\ scan.last.line \in Nat
        /\ Found.path \in Nat /\ Found.line \in Nat
    BY <1>1, <2>3, PassedTyped
  <2>5. DiskBefore(scan.resume, Found)
    <3>1. CASE scan.last \in ToSet(scan.matches)
      <4>1. After(scan.resume, scan.last.path, scan.last.line)
        BY <1>2, <3>1 DEF PageSound, Page
      <4>2. DiskBefore(scan.resume, Spot(scan.last.path, scan.last.line))
        BY <1>5, <4>1 DEF After, InLogicalOrder, FromFileStart
      <4>3. DiskBefore(scan.resume, scan.last)
        BY <4>2 DEF DiskBefore, Spot
      <4> QED BY <2>1, <2>3, <2>4, <4>3, DiskTransitive
    <3>2. CASE scan.last \notin ToSet(scan.matches)
      <4>1. scan.last.path = scan.resume.path /\ scan.last.line = scan.resume.line
        BY <1>2, <2>2, <3>2 DEF PageSound
      <4> QED BY <2>3, <4>1 DEF DiskBefore
    <3> QED BY <3>1, <3>2
  <2> QED BY <1>5, <2>5 DEF After, InLogicalOrder, FromFileStart, DiskBefore, Spot
<1> QED BY <1>1, <1>3, <1>4, <1>5, ResumeFacts

\* In the cursor's file, what it has is of the content the client knows.
LEMMA FoundText ==
    ASSUME GrepSound, Ready, Verified(Head(rg.pipe)), scan.anchorFound,
           ~InLogicalOrder(scan.resume), ~Fresh(scan.resume), Found.path = scan.resume.path
    PROVE  Found.text = scan.resume.text
<1>1. /\ pc = "scan" /\ Found \in Matches
      /\ \A m \in Passed : DiskBefore(m, Found) /\ (m.path = Found.path => m.text = Found.text)
  BY FoundFacts
<1>2. PageSound
  BY <1>1 DEF GrepSound, ScanSound
<1>3. scan.resume # None /\ scan.resume.mode = "after_match"
  BY <1>1, ResumeFacts DEF Fresh, FromFileStart
<1>4. scan.last # None /\ scan.last \in Passed
  BY <1>2, <1>3 DEF PageSound, Passed
<1>5. CASE scan.last.path = scan.resume.path
  <2>1. scan.last.text = scan.resume.text
    BY <1>2, <1>4, <1>5 DEF PageSound
  <2> QED BY <1>1, <1>4, <1>5, <2>1
<1>6. CASE scan.last.path # scan.resume.path
  <2>1. scan.last \in Page
    BY <1>2, <1>3, <1>4, <1>6 DEF PageSound, Page
  <2>2. DiskBefore(scan.resume, Spot(scan.last.path, scan.last.line))
    BY <1>2, <1>3, <2>1 DEF PageSound, After, InLogicalOrder, FromFileStart
  <2>3. scan.resume.path < scan.last.path
    BY <1>6, <2>2 DEF DiskBefore, Spot
  <2>4. DiskBefore(scan.last, Found) /\ scan.last.path \in Nat /\ Found.path \in Nat
    BY <1>1, <1>4, PassedTyped
  <2> QED BY <2>3, <2>4 DEF DiskBefore
<1> QED BY <1>5, <1>6

\* The matches of the page with the one just found.
LEMMA MatchesGrow ==
    ASSUME GrepSound, Ready, Verified(Head(rg.pipe)), scan.anchorFound,
           ~InLogicalOrder(scan.resume)
    PROVE  LET ms == Append(scan.matches, Found)
           IN  /\ ms \in Seq(Matches) /\ ToSet(ms) = Page \cup {Found}
               /\ InTurn(DiskOrder, ms) /\ scan.candidates = <<>>
<1> DEFINE ms == Append(scan.matches, Found)
<1>1. /\ pc = "scan" /\ Found \in Matches /\ \A m \in Passed : DiskBefore(m, Found)
  BY FoundFacts
<1>2. PageSound /\ scan \in Scans
  BY <1>1 DEF GrepSound, GrepTyped, ScanSound
<1>3. scan.matches \in Seq(Matches) /\ scan.candidates = <<>>
  BY <1>2 DEF Scans, PageSound
<1>4. ToSet(<<>>) = {} /\ Page = ToSet(scan.matches)
  BY <1>3 DEF ToSet, Page
<1>5. ms \in Seq(Matches) /\ ToSet(ms) = ToSet(scan.matches) \cup {Found}
  BY <1>1, <1>3, AppendAdds
<1>6. \A m \in ToSet(scan.matches) : <<m, Found>> \in DiskOrder
  BY <1>1, <1>4, PassedTyped DEF DiskOrder
<1>7. InTurn(DiskOrder, scan.matches)
  BY <1>2 DEF PageSound
<1>8. InTurn(DiskOrder, ms)
  BY <1>1, <1>3, <1>6, <1>7, AppendInTurn
<1> QED BY <1>3, <1>4, <1>5, <1>8

\* The page is not full yet.
LEMMA CollectMoreSound ==
    ASSUME GrepSound, Ready, Verified(Head(rg.pipe)), scan.anchorFound,
           ~InLogicalOrder(scan.resume),
           Proceed([scan EXCEPT !.matches = Append(scan.matches, Found), !.last = Found])
    PROVE  GrepSound'
<1> DEFINE ev == Head(rg.pipe)
           ms == Append(scan.matches, Found)
           new == [scan EXCEPT !.matches = ms, !.last = Found]
<1>1. /\ pc = "scan" /\ rg # None /\ ev.kind = "match" /\ Found.path = ev.path
      /\ Found.line = ev.line /\ Found \in Matches /\ scan.replayed
      /\ \A m \in Passed : DiskBefore(m, Found)
      /\ \A m \in Passed : m.path = Found.path => m.text = Found.text
  BY FoundFacts
<1>2. PageSound /\ AheadSound /\ CoverSound /\ scan \in Scans
  BY <1>1 DEF GrepSound, GrepTyped, ScanSound
<1>3. /\ ms \in Seq(Matches) /\ ToSet(ms) = Page \cup {Found}
      /\ InTurn(DiskOrder, ms) /\ scan.candidates = <<>>
  BY MatchesGrow
<1>4. Found # None /\ ToSet(<<>>) = {}
  BY <1>1, RecordAssumption DEF ToSet
<1> HIDE DEF ms
<1>5. /\ new \in Scans /\ new.resume = scan.resume /\ new.replayed = scan.replayed
      /\ new.active = scan.active /\ new.anchor = scan.anchor /\ new.mismatch = scan.mismatch
      /\ new.matches = ms /\ new.candidates = <<>>
      /\ new.last = Found /\ new.anchorFound = scan.anchorFound
  BY <1>1, <1>2, <1>3 DEF Scans
<1>6. Proceed(new)
  BY DEF ms
<1> HIDE DEF new
<1>7. scan' = new
  BY <1>6 DEF Proceed
<1>8. Page' = Page \cup {Found} /\ Passed' = Page \cup {Found}
  BY <1>3, <1>4, <1>5, <1>7 DEF Page, Passed
<1>9. /\ GrepTyped' /\ StoreSound' /\ PhaseSound' /\ ClientSound' /\ PipeSound'
      /\ MismatchSound' /\ AheadSound'
      /\ client' = client /\ tree' = tree
      /\ Settled' = Settled /\ rg' # None /\ pc' = "scan"
      /\ rg'.todo = rg.todo /\ rg'.pipe = Tail(rg.pipe)
      /\ ToSet(rg.pipe) = {ev} \cup ToSet(rg'.pipe)
      /\ \A m, n \in Passed' : m.path = n.path => m.text = n.text
  <2>1. Page' \subseteq Page \cup {Found} /\ Passed' \subseteq Passed \cup {Found}
    BY <1>8, PassedTyped
  <2> QED BY <1>5, <1>6, <2>1, FoundProceeds
<1>10. PageSound'
  <2>1. \A m \in Page' : After(scan.resume, m.path, m.line)
    BY <1>2, <1>8, FoundAfter DEF PageSound
  <2>2. ~Fresh(scan.resume) =>
            \A m \in Passed' : m.path = scan.resume.path => m.text = scan.resume.text
    BY <1>2, <1>8, FoundText, PassedTyped DEF PageSound
  <2>3. /\ scan.anchor # None =>
               scan.anchor.path = scan.resume.path /\ scan.anchor.text = scan.resume.text
        /\ InTurn(LogicalOrder, scan.candidates) /\ Len(scan.candidates) <= client.limit + 1
    BY <1>2 DEF PageSound
  <2>4. \A m \in ToSet(ms) : m = Found \/ DiskBefore(m, Found)
    BY <1>1, <1>3, PassedTyped
  <2>5. Found \in ToSet(ms)
    BY <1>3
  <2>6. /\ scan'.resume = scan.resume /\ scan'.replayed /\ scan'.anchor = scan.anchor
        /\ scan'.matches = ms /\ scan'.candidates = <<>> /\ scan'.last = Found
        /\ scan'.anchorFound /\ client' = client
    BY <1>1, <1>5, <1>7, <1>9
  <2> QED BY <1>3, <1>4, <1>9, <2>1, <2>2, <2>3, <2>4, <2>5, <2>6 DEF PageSound
<1>11. CoverSound'
  <2> SUFFICES ASSUME NEW q \in Settled, NEW i \in Matching(tree[q].text),
                      After(scan.resume, q, i), ~Has(Page', q, i), q \notin rg.todo,
                      [kind |-> "match", path |-> q, line |-> i, seen |-> tree[q].text[i]]
                          \notin ToSet(rg'.pipe)
               PROVE  FALSE
    BY <1>5, <1>7, <1>9 DEF CoverSound
  <2>1. ~Has(Page, q, i)
    BY <1>8 DEF Has
  <2>2. ~Leaves(q, i)
    BY <1>1, <1>8 DEF Leaves, Has
  <2>3. ~Excused(q, i)
    BY DEF Excused
  <2> QED BY <1>2, <1>9, <2>1, <2>2, <2>3, Uncovered
<1> QED BY <1>9, <1>10, <1>11 DEF GrepSound, ScanSound

-----------------------------------------------------------------------------
(***************************************************************************)
(* The answer of a page.                                                   *)
(***************************************************************************)

\* The list of the matches grows by those of a page that fits.
LEMMA AnswerSound ==
    ASSUME GrepSound, NEW by, NEW ms \in Seq(Matches), NEW cursor \in Cursors \cup {None},
           Answer(by, ms, cursor), timeouts' \in Nat, timeouts' = 0 => timeouts = 0,
           \A i, j \in 1..Len(ms) : i < j => InOrder(ms[i], ms[j]),
           \A m, n \in ToSet(ms) : m.path = n.path => m.text = n.text,
           \A m \in ToSet(client.items), n \in ToSet(ms) :
               InOrder(m, n) /\ (m.path = n.path => m.text = n.text),
           \A m \in ToSet(ms) : /\ m.line \in Matching(m.text)
                                /\ ~StartedOver => Owed(m.path, m.line),
           by = None =>
               /\ \A p \in Settled : \A i \in Matching(tree[p].text) :
                      Owed(p, i) => Has(ToSet(client.items) \cup ToSet(ms), p, i)
               /\ \A m \in ToSet(client.items) \cup ToSet(ms) : m.text \in committed[m.path],
           by # None /\ cursor # None =>
               /\ Follows(client.items \o ms, cursor)
               /\ ~FromFileStart(client.start) \/ timeouts' = 0 => Within(cursor)
    PROVE  GrepSound'
<1> DEFINE items == client.items
           all == items \o ms
<1>1. PICK state \in Reactions(by, cursor) :
          client' = [client EXCEPT !.items = @ \o ms, !.cursor = cursor, !.state = state]
  BY DEF Answer
<1>2. Ended
  BY DEF Answer
<1>3. /\ state \in {"asking", "complete", "limited", "failed"}
      /\ state = "complete" => by = None
      /\ state = "asking" => by # None /\ cursor # None
  <2>1. CASE by = None
    <3>1. None # "limit"
      BY RecordAssumption DEF Reasons
    <3> QED BY <2>1, <3>1 DEF Reactions
  <2>2. CASE by # None /\ cursor = None
    BY <2>2 DEF Reactions
  <2>3. CASE by # None /\ cursor # None
    BY <2>3 DEF Reactions
  <2> QED BY <2>1, <2>2, <2>3
<1>4. client \in Clients /\ ClientSound
  BY DEF GrepSound, GrepTyped
<1>5. items \in Seq(Matches)
  BY <1>4 DEF Clients
<1>6. all \in Seq(Matches) /\ ToSet(all) = ToSet(items) \cup ToSet(ms)
  BY <1>5, ConcatHolds
<1>7. /\ Len(all) = Len(items) + Len(ms) /\ Len(items) \in Nat /\ Len(ms) \in Nat
      /\ \A i \in 1..Len(all) : all[i] = IF i <= Len(items) THEN items[i] ELSE ms[i - Len(items)]
  BY <1>5
<1> HIDE DEF all
<1>8. /\ client' \in Clients /\ client'.items = all /\ client'.cursor = cursor
      /\ client'.state = state /\ client'.start = client.start
  <2>1. client' = [client EXCEPT !.items = all, !.cursor = cursor, !.state = state]
    BY <1>1 DEF all
  <2> QED BY <1>3, <1>4, <1>6, <2>1 DEF Clients
<1>9. GrepTyped' /\ StoreSound' /\ PhaseSound' /\ ScanSound'
  BY <1>2, <1>8, PageEnds
<1>10. tree' = tree /\ committed' = committed /\ touched' = touched /\ Settled' = Settled
  BY <1>2 DEF Ended, store, Settled
<1>11. /\ \A i \in 1..Len(items) : items[i] \in ToSet(items)
       /\ \A i \in 1..Len(ms) : ms[i] \in ToSet(ms)
       /\ DOMAIN items = 1..Len(items) /\ DOMAIN all = 1..Len(all)
       /\ Range(all) = ToSet(all) /\ Range(items) = ToSet(items)
  BY <1>5, <1>6, Elements DEF Range, ToSet
<1>12. /\ \A i, j \in 1..Len(items) : i < j =>
              /\ InOrder(items[i], items[j])
              /\ items[i].path = items[j].path => items[i].text = items[j].text
       /\ ~StartedOver => \A m \in ToSet(items) : Owed(m.path, m.line)
       /\ \A m \in ToSet(items) : m.line \in Matching(m.text)
  <2>1. PagesFit /\ \A m \in ToSet(items) : m.line \in Matching(m.text)
    BY <1>4 DEF ClientSound, ItemsSound
  <2>2. \A i, j \in 1..Len(items) : i < j =>
              /\ InOrder(items[i], items[j])
              /\ items[i].path = items[j].path => items[i].text = items[j].text
    BY <1>11, <2>1 DEF PagesFit
  <2>3. ~StartedOver => \A m \in ToSet(items) : Owed(m.path, m.line)
    BY <1>11, <2>1 DEF PagesFit, StartedOver
  <2> QED BY <2>1, <2>2, <2>3
<1> HIDE DEF items
<1>13. ASSUME NEW i \in 1..Len(all), NEW j \in 1..Len(all), i < j
       PROVE  InOrder(all[i], all[j]) /\ (all[i].path = all[j].path => all[i].text = all[j].text)
  <2>1. CASE j <= Len(items)
    <3>1. /\ i \in 1..Len(items) /\ j \in 1..Len(items)
          /\ all[i] = items[i] /\ all[j] = items[j]
      BY <1>7, <1>13, <2>1
    <3> QED BY <1>12, <1>13, <3>1
  <2>2. CASE i <= Len(items) /\ ~(j <= Len(items))
    <3>1. /\ i \in 1..Len(items) /\ j - Len(items) \in 1..Len(ms)
          /\ all[i] = items[i] /\ all[j] = ms[j - Len(items)]
      BY <1>7, <1>13, <2>2
    <3>2. all[i] \in ToSet(items) /\ all[j] \in ToSet(ms)
      BY <1>11, <3>1
    <3> QED BY <3>2 DEF items
  <2>3. CASE ~(i <= Len(items))
    <3>1. /\ i - Len(items) \in 1..Len(ms) /\ j - Len(items) \in 1..Len(ms)
          /\ i - Len(items) < j - Len(items)
      BY <1>7, <1>13, <2>3
    <3>2. all[i] = ms[i - Len(items)] /\ all[j] = ms[j - Len(items)]
      BY <1>7, <1>13, <2>3
    <3>3. InOrder(all[i], all[j]) /\ all[i] \in ToSet(ms) /\ all[j] \in ToSet(ms)
      BY <1>11, <3>1, <3>2
    <3> QED BY <3>3
  <2> QED BY <1>7, <2>1, <2>2, <2>3
<1>14. ~StartedOver' => ~StartedOver
  BY <1>8 DEF StartedOver
<1>15. /\ \A m, n : InOrder(m, n)' = InOrder(m, n)
       /\ \A p, i : Owed(p, i)' = Owed(p, i)
  BY <1>8 DEF InOrder, Owed
<1>16. ~StartedOver => \A m \in ToSet(all) : Owed(m.path, m.line)
  BY <1>6, <1>12
<1>17. PagesFit'
  <2> DEFINE Late(m, n) == InOrder(m, n) /\ (m.path = n.path => m.text = n.text)
  <2>1. \A i, j \in DOMAIN client'.items : i < j => Late(client'.items[i], client'.items[j])
    BY <1>8, <1>11, <1>13
  <2>2. (~FromFileStart(client.start) \/ timeouts = 0)' => ~StartedOver
    BY <1>8 DEF StartedOver
  <2>3. (~FromFileStart(client.start) \/ timeouts = 0)' =>
            \A m \in Range(client'.items) : Owed(m.path, m.line)
    BY <1>8, <1>11, <1>16, <2>2
  <2>4. \A m, n : Late(m, n) => InOrder(m, n)' /\ (m.path = n.path => m.text = n.text)
    BY <1>15
  <2> HIDE DEF Late
  <2> QED BY <1>15, <2>1, <2>3, <2>4 DEF PagesFit
<1>18. ItemsSound'
  BY <1>6, <1>8, <1>12, <1>17 DEF ItemsSound
<1>19. StartSound'
  BY <1>4, <1>8 DEF ClientSound, StartSound
<1>20. Exhaustive'
  <2> SUFFICES ASSUME state = "complete", NEW p \in Settled, NEW i \in Matching(tree[p].text),
                      Owed(p, i)
               PROVE  \E m \in ToSet(all) : m.path = p /\ m.line = i
    BY <1>8, <1>10, <1>11, <1>15 DEF Exhaustive, Settled
  <2>1. Has(ToSet(client.items) \cup ToSet(ms), p, i)
    BY <1>3
  <2> QED BY <1>6, <2>1 DEF Has, items
<1>21. CompleteIsCommitted'
  <2>1. state = "complete" =>
            \A m \in ToSet(all) : m.text \in committed[m.path] /\ m.line \in Matching(m.text)
    BY <1>3, <1>6, <1>12 DEF items
  <2> QED BY <1>8, <1>10, <1>11, <2>1 DEF CompleteIsCommitted
<1>22. state = "asking" => Continues(client.items, client.cursor)'
  <2> SUFFICES ASSUME state = "asking" PROVE Continues(client.items, client.cursor)'
    OBVIOUS
  <2>1. Follows(all, cursor) /\ (~StartedOver' => Within(cursor))
    BY <1>3, <1>8 DEF StartedOver, all, items
  <2>2. Follows(client.items, client.cursor)'
    BY <1>8, <1>10, <1>15, <2>1 DEF Follows
  <2>3. ~StartedOver' => Within(client.cursor)'
    BY <1>8, <1>15, <2>1 DEF Within
  <2> QED BY <2>2, <2>3 DEF Continues
<1>23. ClientSound'
  BY <1>8, <1>18, <1>19, <1>20, <1>21, <1>22 DEF ClientSound
<1> QED BY <1>9, <1>23 DEF GrepSound

\* The time is up before the page has begun.
LEMMA TimeoutEarlySound ==
    ASSUME GrepSound, TimeoutEarly
    PROVE  GrepSound'
<1> DEFINE cursor == IF client.cursor = None THEN SearchStart(FALSE) ELSE client.cursor
<1>1. /\ client.state = "asking" /\ Answer("timeout", <<>>, cursor) /\ timeouts' = timeouts + 1
      /\ timeouts \in Nat /\ client \in Clients
  BY DEF TimeoutEarly, TimeUp, GrepSound, GrepTyped
<1>2. timeouts' \in Nat /\ timeouts' # 0
  BY <1>1
<1>3. <<>> \in Seq(Matches) /\ Len(<<>>) = 0 /\ ToSet(<<>>) = {}
  BY DEF ToSet
<1>4. /\ Continues(client.items, client.cursor) /\ client.cursor \in Cursors \cup {None}
      /\ client.items \in Seq(Matches)
  BY <1>1 DEF GrepSound, ClientSound, Clients
<1>5. SearchStart(FALSE) \in Cursors /\ SearchStart(FALSE).mode = "search_start"
  BY DEF SearchStart, Cursor, Cursors
<1>6. client.items \o <<>> = client.items
  BY <1>4
<1>7. cursor \in Cursors /\ Follows(client.items, cursor) /\ (~StartedOver => Within(cursor))
  <2>1. CASE client.cursor # None
    BY <1>4, <2>1 DEF Continues
  <2>2. CASE client.cursor = None
    <3>1. cursor = SearchStart(FALSE) /\ cursor # None
      BY <1>5, <2>2, RecordAssumption
    <3>2. client.items = <<>> /\ ~InLogicalOrder(client.start)
      BY <1>4, <2>2 DEF Continues, Follows, Fresh, InLogicalOrder
    <3>3. ~InLogicalOrder(cursor) /\ ~FromFileStart(cursor) /\ Fresh(cursor)
      BY <1>5, <3>1 DEF InLogicalOrder, FromFileStart, Fresh
    <3>4. \A p, i : After(cursor, p, i)
      BY <1>5, <3>1 DEF After
    <3>5. Follows(client.items, cursor)
      BY <1>3, <1>5, <3>1, <3>2, <3>3, <3>4 DEF Follows
    <3>6. ~StartedOver => Within(cursor)
      <4>1. \A p, i : After(client.cursor, p, i)
        BY <2>2 DEF After
      <4> QED BY <1>4, <4>1 DEF Continues, Within
    <3> QED BY <1>5, <3>1, <3>5, <3>6
  <2> QED BY <2>1, <2>2
<1>8. ~FromFileStart(client.start) => Within(cursor)
  BY <1>7 DEF StartedOver
<1>9. "timeout" # None
  BY RecordAssumption DEF Reasons
<1> HIDE DEF cursor
<1>10. Follows(client.items \o <<>>, cursor)
  BY <1>6, <1>7
<1>11. /\ \A i, j \in 1..Len(<<>>) : i < j => InOrder(<<>>[i], <<>>[j])
       /\ cursor \in Cursors \cup {None}
  BY <1>3, <1>7
<1> DEFINE none == <<>>
<1> HIDE DEF none
<1>12. /\ none \in Seq(Matches) /\ ToSet(none) = {} /\ Follows(client.items \o none, cursor)
       /\ \A i, j \in 1..Len(none) : i < j => InOrder(none[i], none[j])
       /\ Answer("timeout", none, cursor)
  BY <1>1, <1>3, <1>10, <1>11 DEF none
<1> QED BY <1>2, <1>8, <1>9, <1>11, <1>12, AnswerSound

\* The cursor a page was asked for with, and the one it resumes from, ask for the same.
LEMMA AfterResume ==
    ASSUME GrepSound, pc # "client"
    PROVE  /\ \A p, i : After(client.cursor, p, i) <=> After(scan.resume, p, i)
           /\ InLogicalOrder(scan.resume) <=> InLogicalOrder(client.start)
           /\ Fresh(client.cursor) <=> Fresh(scan.resume)
<1>1. /\ scan.resume = Resume(client.cursor) /\ Follows(client.items, client.cursor)
  BY ResumeFacts DEF Continues
<1>2. InLogicalOrder(client.cursor) <=> InLogicalOrder(client.start)
  BY <1>1 DEF Follows
<1>3. CASE scan.resume = client.cursor
  BY <1>2, <1>3
<1>4. CASE scan.resume # client.cursor
  <2>1. scan.resume = None /\ client.cursor # None /\ client.cursor.mode = "search_start"
    BY <1>1, <1>4 DEF Resume
  <2> QED BY <1>2, <2>1 DEF After, InLogicalOrder, Fresh
<1> QED BY <1>3, <1>4

\* A match the page may answer.
Fitting(n) ==
    /\ n \in Matches /\ n.line \in Matching(n.text) /\ After(scan.resume, n.path, n.line)
    /\ ~Fresh(scan.resume) /\ n.path = scan.resume.path => n.text = scan.resume.text

\* All that the page has so far fits behind the cursor.
LEMMA PageFitting ==
    ASSUME GrepSound, pc # "client"
    PROVE  \A n \in Page : Fitting(n)
<1>1. MismatchSound /\ PageSound
  BY DEF GrepSound, ScanSound
<1> QED BY <1>1, PassedTyped DEF Fitting, MismatchSound, PageSound

\* It comes after the matches answered before, and is of their content.
LEMMA FitsBehind ==
    ASSUME GrepSound, pc # "client", NEW n, Fitting(n)
    PROVE  /\ \A m \in ToSet(client.items) :
                  InOrder(m, n) /\ (m.path = n.path => m.text = n.text)
           /\ ~StartedOver => Owed(n.path, n.line)
<1> DEFINE c == client.cursor
<1>1. /\ Follows(client.items, c) /\ (~StartedOver => Within(c)) /\ c \in Cursors \cup {None}
      /\ scan.resume = Resume(c)
  BY ResumeFacts DEF Continues
<1>2. /\ \A p, i : After(c, p, i) <=> After(scan.resume, p, i)
      /\ InLogicalOrder(scan.resume) <=> InLogicalOrder(client.start)
      /\ Fresh(c) <=> Fresh(scan.resume)
  BY AfterResume
<1>3. n \in Matches /\ n.path \in Paths /\ n.path \in Nat /\ n.line \in Nat
  BY PassedTyped DEF Fitting
<1>4. After(c, n.path, n.line)
  BY <1>2 DEF Fitting
<1>5. ~StartedOver => Owed(n.path, n.line)
  BY <1>1, <1>3, <1>4 DEF Within
<1>6. ASSUME NEW m \in ToSet(client.items)
      PROVE  InOrder(m, n) /\ (m.path = n.path => m.text = n.text)
  <2>1. client.items \in Seq(Matches)
    BY DEF GrepSound, GrepTyped, Clients
  <2>2. m \in Matches /\ m.path \in Paths /\ m.path \in Nat /\ m.line \in Nat
    BY <2>1, Elements, PassedTyped
  <2>3. ~Fresh(c)
    <3>1. ToSet(<<>>) = {}
      BY DEF ToSet
    <3> QED BY <1>1, <3>1 DEF Follows
  <2>4. /\ (m.path = c.path /\ m.line = c.line) \/ InOrder(m, c)
        /\ m.path = c.path => m.text = c.text
    BY <1>1, <2>3 DEF Follows
  <2>5. c = scan.resume /\ c # None
    BY <1>1, <2>3 DEF Resume, Fresh
  <2>6. c.path \in Paths /\ c.path \in Nat /\ c.line \in Nat
    BY <2>5, ResumeFacts
  <2>7. n.path = c.path => n.text = c.text
    BY <1>2, <2>3, <2>5 DEF Fitting
  <2>8. CASE InLogicalOrder(c)
    <3>1. Before(c, Spot(n.path, n.line))
      BY <1>4, <2>3, <2>5, <2>8 DEF After, InLogicalOrder, FromFileStart, Fresh
    <3>2. Before(c, n)
      BY <3>1 DEF Before, Spot
    <3>3. \A a, b : InOrder(a, b) <=> Before(a, b)
      BY <1>2, <2>5, <2>8 DEF InOrder
    <3>4. Before(m, n)
      <4>1. CASE m.path = c.path /\ m.line = c.line
        BY <3>2, <4>1 DEF Before
      <4>2. CASE Before(m, c)
        BY <1>3, <2>2, <2>6, <3>2, <4>2, LogicalTransitive
      <4> QED BY <2>4, <3>3, <4>1, <4>2
    <3>5. ASSUME m.path = n.path, m.path # c.path PROVE FALSE
      <4>1. Logical[m.path] < Logical[c.path] /\ Logical[c.path] < Logical[m.path]
        BY <2>4, <3>2, <3>3, <3>5 DEF Before
      <4>2. Logical[m.path] \in Nat /\ Logical[c.path] \in Nat
        BY <2>2, <2>6, GrepAssumption
      <4> QED BY <4>1, <4>2
    <3> QED BY <2>4, <2>7, <3>3, <3>4, <3>5
  <2>9. CASE ~InLogicalOrder(c)
    <3>1. c.mode = "after_match"
      BY <2>3, <2>5, <2>9, ResumeFacts DEF Fresh, FromFileStart
    <3>2. DiskBefore(c, n)
      BY <1>4, <2>5, <2>9, <3>1 DEF After, FromFileStart, DiskBefore, Spot
    <3>3. \A a, b : InOrder(a, b) <=> DiskBefore(a, b)
      BY <1>2, <2>5, <2>9 DEF InOrder, DiskBefore
    <3>4. DiskBefore(m, n)
      <4>1. CASE m.path = c.path /\ m.line = c.line
        BY <3>2, <4>1 DEF DiskBefore
      <4>2. CASE DiskBefore(m, c)
        BY <1>3, <2>2, <2>6, <3>2, <4>2, DiskTransitive
      <4> QED BY <2>4, <3>3, <4>1, <4>2
    <3>5. ASSUME m.path = n.path, m.path # c.path PROVE FALSE
      <4>1. m.path < c.path /\ c.path < m.path
        BY <2>4, <3>2, <3>3, <3>5 DEF DiskBefore
      <4> QED BY <2>2, <2>6, <4>1
    <3> QED BY <2>4, <2>7, <3>3, <3>4, <3>5
  <2> QED BY <2>8, <2>9
<1> QED BY <1>5, <1>6

\* A page ends with matches that fit.
LEMMA PageAnswerSound ==
    ASSUME GrepSound, pc # "client",
           NEW by, NEW ms \in Seq(Matches), NEW cursor \in Cursors \cup {None},
           Answer(by, ms, cursor), timeouts' \in Nat, timeouts' = 0 => timeouts = 0,
           IF InLogicalOrder(scan.resume) THEN InTurn(LogicalOrder, ms) ELSE InTurn(DiskOrder, ms),
           \A n \in ToSet(ms) : Fitting(n),
           \A m, n \in ToSet(ms) : m.path = n.path => m.text = n.text,
           by = None =>
               /\ \A p \in Settled : \A i \in Matching(tree[p].text) :
                      After(scan.resume, p, i) => Has(ToSet(ms), p, i)
               /\ ~scan.mismatch /\ \A m \in ToSet(ms) : m.text \in committed[m.path],
           by # None /\ cursor # None =>
               /\ Follows(client.items \o ms, cursor)
               /\ ~FromFileStart(client.start) \/ timeouts' = 0 => Within(cursor)
    PROVE  GrepSound'
<1>1. \A i, j \in 1..Len(ms) : i < j => InOrder(ms[i], ms[j])
  <2>1. InLogicalOrder(scan.resume) <=> InLogicalOrder(client.start)
    BY AfterResume
  <2>2. CASE InLogicalOrder(scan.resume)
    BY <2>1, <2>2 DEF InTurn, LogicalOrder, InOrder
  <2>3. CASE ~InLogicalOrder(scan.resume)
    BY <2>1, <2>3 DEF InTurn, DiskOrder, InOrder, DiskBefore
  <2> QED BY <2>2, <2>3
<1>2. \A m \in ToSet(client.items), n \in ToSet(ms) :
          InOrder(m, n) /\ (m.path = n.path => m.text = n.text)
  BY FitsBehind
<1>3. \A m \in ToSet(ms) : m.line \in Matching(m.text) /\ (~StartedOver => Owed(m.path, m.line))
  BY FitsBehind DEF Fitting
<1>4. Follows(client.items, client.cursor)
  BY ResumeFacts DEF Continues
<1>5. ASSUME by = None, NEW p \in Settled, NEW i \in Matching(tree[p].text), Owed(p, i)
      PROVE  Has(ToSet(client.items) \cup ToSet(ms), p, i)
  <2>1. Has(ToSet(client.items), p, i) \/ After(client.cursor, p, i)
    BY <1>4, <1>5 DEF Follows
  <2>2. After(client.cursor, p, i) => After(scan.resume, p, i)
    BY AfterResume
  <2>3. After(scan.resume, p, i) => Has(ToSet(ms), p, i)
    BY <1>5
  <2> QED BY <2>1, <2>2, <2>3 DEF Has
<1>6. ASSUME by = None, NEW m \in ToSet(client.items) \cup ToSet(ms)
      PROVE  m.text \in committed[m.path]
  <2>1. MismatchSound
    BY DEF GrepSound, ScanSound
  <2>2. ~(client.cursor # None /\ client.cursor.mismatch)
    BY <1>6, <2>1 DEF MismatchSound
  <2> QED BY <1>4, <1>6, <2>2 DEF Follows
<1> QED BY <1>1, <1>2, <1>3, <1>5, <1>6, AnswerSound

\* The search can go on behind a match: all that the page has is there or before it,
\* and all that it still owes comes after.
LEMMA BehindContinues ==
    ASSUME GrepSound, pc # "client", NEW n \in Matches, NEW ms \in Seq(Matches),
           NEW mode \in {"after_match", "legacy_after_match"},
           InLogicalOrder(scan.resume) <=> mode = "legacy_after_match",
           \/ Fitting(n)
           \/ /\ scan.resume # None /\ scan.resume.mode = "after_match"
              /\ n.path = scan.resume.path /\ n.line = scan.resume.line
              /\ n.text = scan.resume.text,
           \A m \in ToSet(ms) : /\ m = n \/ InOrder(m, n)
                                /\ m.path = n.path => m.text = n.text
                                /\ m.text \in committed[m.path] \/ scan.mismatch,
           \A p \in Settled : \A i \in Matching(tree[p].text) :
               After(scan.resume, p, i) => Has(ToSet(ms), p, i) \/ InOrder(n, Spot(p, i))
    PROVE  LET c == AfterMatch(mode, n, scan.mismatch)
           IN  /\ c \in Cursors /\ Follows(client.items \o ms, c) /\ (~StartedOver => Within(c))
<1> DEFINE c == AfterMatch(mode, n, scan.mismatch)
           old == client.cursor
           resume == scan.resume
<1>1. /\ Follows(client.items, old) /\ (~StartedOver => Within(old)) /\ old \in Cursors \cup {None}
      /\ resume = Resume(old)
      /\ resume # None => /\ resume.path \in Nat /\ resume.line \in Nat /\ resume.path \in Paths
                          /\ \/ InLogicalOrder(resume)
                             \/ FromFileStart(resume)
                             \/ resume.mode = "after_match"
  BY ResumeFacts DEF Continues
<1>2. /\ \A p, i : After(old, p, i) <=> After(resume, p, i)
      /\ InLogicalOrder(resume) <=> InLogicalOrder(client.start)
      /\ Fresh(old) <=> Fresh(resume)
  BY AfterResume
<1>3. /\ n.path \in Paths /\ n.path \in Nat /\ n.line \in Nat /\ n.text \in Contents
      /\ scan.mismatch \in BOOLEAN
  BY PassedTyped DEF Matches, GrepSound, GrepTyped, Scans
<1>4. /\ c \in Cursors /\ c.mode = mode /\ c.path = n.path /\ c.line = n.line /\ c.text = n.text
      /\ c.mismatch = scan.mismatch
  BY <1>3 DEF AfterMatch, Cursor, Cursors
<1>5. c # None
  BY <1>4, RecordAssumption
<1> HIDE DEF c
<1>6. /\ InLogicalOrder(c) <=> InLogicalOrder(resume)
      /\ ~FromFileStart(c) /\ ~Fresh(c) /\ c.mode # "search_start"
  BY <1>4, <1>5 DEF InLogicalOrder, FromFileStart, Fresh
<1>7. \A p, i : After(c, p, i) <=> InOrder(n, Spot(p, i))
  <2>1. CASE mode = "legacy_after_match"
    BY <1>2, <1>4, <1>5, <1>6, <2>1
       DEF After, InOrder, InLogicalOrder, FromFileStart, Before, Spot
  <2>2. CASE mode = "after_match"
    BY <1>2, <1>4, <1>5, <1>6, <2>2
       DEF After, InOrder, InLogicalOrder, FromFileStart, DiskBefore, Spot
  <2> QED BY <2>1, <2>2
<1>8. ASSUME NEW m \in ToSet(client.items)
      PROVE  /\ (m.path = n.path /\ m.line = n.line) \/ InOrder(m, n)
             /\ m.path = n.path => m.text = n.text
  <2>1. CASE Fitting(n)
    BY <2>1, FitsBehind
  <2>2. CASE /\ resume # None /\ resume.mode = "after_match"
             /\ n.path = resume.path /\ n.line = resume.line /\ n.text = resume.text
    <3>1. old = resume /\ ~Fresh(old)
      BY <1>1, <2>2 DEF Resume, Fresh
    <3>2. /\ (m.path = old.path /\ m.line = old.line) \/ InOrder(m, old)
          /\ m.path = old.path => m.text = old.text
      BY <1>1, <3>1 DEF Follows
    <3> QED BY <2>2, <3>1, <3>2 DEF InOrder, Before
  <2> QED BY <2>1, <2>2
<1>9. client.items \in Seq(Matches)
  BY DEF GrepSound, GrepTyped, Clients
<1>10. ToSet(client.items \o ms) = ToSet(client.items) \cup ToSet(ms)
  BY <1>9, ConcatHolds
<1>11. ASSUME NEW m \in ToSet(client.items \o ms)
       PROVE  /\ (m.path = c.path /\ m.line = c.line) \/ InOrder(m, c)
              /\ m.path = c.path => m.text = c.text
              /\ m.text \in committed[m.path] \/ c.mismatch
  <2>1. \A a : InOrder(a, n) => InOrder(a, c)
    BY <1>4 DEF InOrder, Before
  <2>2. CASE m \in ToSet(ms)
    BY <1>4, <2>1, <2>2
  <2>3. CASE m \in ToSet(client.items)
    <3>1. MismatchSound
      BY DEF GrepSound, ScanSound
    <3>2. m.text \in committed[m.path] \/ scan.mismatch
      BY <1>1, <2>3, <3>1 DEF Follows, MismatchSound
    <3> QED BY <1>4, <1>8, <2>1, <2>3, <3>2
  <2> QED BY <1>10, <2>2, <2>3
<1>12. ASSUME NEW p \in Settled, NEW i \in Matching(tree[p].text), Owed(p, i)
       PROVE  Has(ToSet(client.items \o ms), p, i) \/ After(c, p, i)
  <2>1. Has(ToSet(client.items), p, i) \/ After(old, p, i)
    BY <1>1, <1>12 DEF Follows
  <2>2. CASE Has(ToSet(client.items), p, i)
    BY <1>10, <2>2 DEF Has
  <2>3. CASE After(old, p, i)
    <3>1. Has(ToSet(ms), p, i) \/ InOrder(n, Spot(p, i))
      BY <1>2, <2>3
    <3> QED BY <1>7, <1>10, <3>1 DEF Has
  <2> QED BY <2>1, <2>2, <2>3
<1>13. Follows(client.items \o ms, c)
  BY <1>2, <1>3, <1>4, <1>5, <1>6, <1>11, <1>12 DEF Follows
<1>14. ASSUME ~StartedOver, NEW p \in Paths, NEW i \in Nat, InOrder(n, Spot(p, i))
       PROVE  Owed(p, i)
  <2>0. Spot(p, i).path = p /\ Spot(p, i).line = i /\ p \in Nat
    BY GrepAssumption DEF Spot
  <2>1. After(resume, p, i)
    <3>1. CASE ~Fitting(n)
      <4>1. /\ resume # None /\ resume.mode = "after_match"
            /\ n.path = resume.path /\ n.line = resume.line
        BY <3>1
      <4>2. ~InLogicalOrder(resume)
        BY <4>1 DEF InLogicalOrder
      <4>3. DiskBefore(resume, Spot(p, i))
        BY <1>2, <1>14, <4>1, <4>2 DEF InOrder, DiskBefore
      <4> QED BY <4>1, <4>3 DEF After
    <3>2. CASE Fitting(n) /\ resume = None
      BY <3>2 DEF After
    <3>3. CASE Fitting(n) /\ resume # None /\ InLogicalOrder(resume)
      <4>1. After(resume, n.path, n.line) /\ resume.mode # "search_start"
        BY <3>3 DEF Fitting, InLogicalOrder
      <4>2. Before(resume, Spot(n.path, n.line))
        BY <3>3, <4>1 DEF After, InLogicalOrder, FromFileStart
      <4>3. Before(resume, n) /\ Before(n, Spot(p, i))
        BY <1>2, <1>14, <3>3, <4>2 DEF Before, Spot, InOrder
      <4>4. Before(resume, Spot(p, i))
        BY <1>1, <1>3, <2>0, <3>3, <4>3, LogicalTransitive
      <4> QED BY <3>3, <4>4 DEF After
    <3>4. CASE Fitting(n) /\ resume # None /\ FromFileStart(resume)
      <4>1. After(resume, n.path, n.line) /\ ~InLogicalOrder(resume)
        BY <3>4 DEF Fitting, FromFileStart, InLogicalOrder
      <4>2. n.path >= resume.path
        BY <3>4, <4>1 DEF After, FromFileStart
      <4>3. n.path <= p
        BY <1>2, <1>3, <1>14, <2>0, <4>1 DEF InOrder
      <4>4. p >= resume.path
        BY <1>1, <1>3, <2>0, <3>4, <4>2, <4>3
      <4> QED BY <3>4, <4>4 DEF After
    <3>5. CASE Fitting(n) /\ resume # None /\ resume.mode = "after_match"
      <4>1. After(resume, n.path, n.line) /\ ~InLogicalOrder(resume)
        BY <3>5 DEF Fitting, InLogicalOrder
      <4>2. DiskBefore(resume, Spot(n.path, n.line))
        BY <3>5, <4>1 DEF After, FromFileStart
      <4>3. DiskBefore(resume, n) /\ DiskBefore(n, Spot(p, i))
        BY <1>2, <1>14, <4>1, <4>2 DEF DiskBefore, Spot, InOrder
      <4>4. DiskBefore(resume, Spot(p, i))
        BY <1>1, <1>3, <2>0, <3>5, <4>3, DiskTransitive
      <4> QED BY <3>5, <4>4 DEF After
    <3> QED BY <1>1, <3>1, <3>2, <3>3, <3>4, <3>5
  <2> QED BY <1>1, <1>2, <1>14, <2>1 DEF Within
<1>15. ~StartedOver => Within(c)
  BY <1>7, <1>14 DEF Within
<1> QED BY <1>4, <1>13, <1>15 DEF c

\* A page that can say no more than that it failed.
LEMMA FailedPageSound ==
    ASSUME GrepSound, pc # "client", NEW by \in Reasons, Answer(by, scan.matches, None),
           timeouts' \in Nat, timeouts' = 0 => timeouts = 0
    PROVE  GrepSound'
<1> DEFINE ms == scan.matches
<1>1. Answer(by, ms, None) /\ by # None
  BY RecordAssumption
<1>2. PageSound /\ scan \in Scans
  BY DEF GrepSound, GrepTyped, ScanSound
<1>3. ms \in Seq(Matches) /\ ToSet(ms) \subseteq Page /\ InTurn(DiskOrder, ms)
  BY <1>2 DEF Scans, Page, PageSound
<1>4. IF InLogicalOrder(scan.resume) THEN InTurn(LogicalOrder, ms) ELSE InTurn(DiskOrder, ms)
  <2>1. InLogicalOrder(scan.resume) => ms = <<>>
    BY <1>2 DEF PageSound
  <2>2. InTurn(LogicalOrder, <<>>)
    BY DEF InTurn
  <2> QED BY <1>3, <2>1, <2>2
<1>5. \A n \in ToSet(ms) : Fitting(n)
  BY <1>3, PageFitting
<1>6. \A m, n \in ToSet(ms) : m.path = n.path => m.text = n.text
  BY <1>2, <1>3, PassedTyped DEF PageSound
<1> HIDE DEF ms
<1> QED BY <1>1, <1>3, <1>4, <1>5, <1>6, PageAnswerSound

\* The same, of a page that stops before its time is up.
LEMMA StoppedPageSound ==
    ASSUME GrepSound, pc # "client", NEW by \in Reasons, StopPage(by, scan.matches, None)
    PROVE  GrepSound'
<1>1. Answer(by, scan.matches, None) /\ timeouts' = timeouts /\ timeouts \in Nat
  BY DEF StopPage, GrepSound, GrepTyped
<1> QED BY <1>1, FailedPageSound

\* A line beyond the byte limit ends the search.
LEMMA TooLongSound ==
    ASSUME GrepSound, TooLong
    PROVE  GrepSound'
<1>1. pc = "scan" /\ "max_bytes" \in Reasons /\ StopPage("max_bytes", scan.matches, None)
  BY DEF TooLong, At, Reasons
<1> QED BY <1>1, StoppedPageSound

\* A record that the snapshot does not bear out ends the search.
LEMMA UnverifiedSound ==
    ASSUME GrepSound, Unverified
    PROVE  GrepSound'
<1>1. /\ pc = "scan" /\ "catalog_mismatch" \in Reasons
      /\ StopPage("catalog_mismatch", scan.matches, None)
  BY DEF Unverified, Ready, Candidate, At, Reasons
<1> QED BY <1>1, StoppedPageSound

\* The file of the match at the head of the pipe.
LEMMA TakenSound ==
    ASSUME GrepSound, pc \in {"read", "row"}, NEW s \in Snapshots,
           s.path = SnapshotPath, s.verified => s.text \in Contents,
           s.verified /\ ~s.mismatch => s.text \in committed[s.path], Taken(s)
    PROVE  GrepSound'
<1>1. CASE rg = None
  BY <1>1, AnchorTakenSound DEF Taken
<1>2. CASE rg # None /\ ~s.verified
  <2>1. StopPage("catalog_mismatch", scan.matches, None) /\ "catalog_mismatch" \in Reasons
    BY <1>2 DEF Taken, MatchTaken, Reasons
  <2> QED BY <2>1, StoppedPageSound
<1>3. CASE rg # None /\ s.verified
  <2> DEFINE ev == Head(rg.pipe)
  <2>1. /\ scan' = [scan EXCEPT !.active = s, !.mismatch = @ \/ s.mismatch]
        /\ pc' = "scan" /\ snap' = None /\ UNCHANGED <<store, client, rg, timeouts>>
    BY <1>3 DEF Taken, MatchTaken
  <2>2. /\ scan \in Scans /\ client.state = "asking" /\ scan.resume = Resume(client.cursor)
        /\ rg.pipe # <<>> /\ ev.kind = "match" /\ ~ActiveFor(ev) /\ ~SkippedRecord(ev)
    BY <1>3 DEF GrepSound, GrepTyped, PhaseSound
  <2>3. MismatchSound /\ PageSound /\ PipeSound /\ AheadSound /\ CoverSound
    BY <1>3 DEF GrepSound, ScanSound
  <2>4. /\ scan' \in Scans /\ scan'.resume = scan.resume /\ scan'.active = s
        /\ scan'.mismatch = (scan.mismatch \/ s.mismatch)
        /\ scan'.anchorFound = scan.anchorFound /\ scan'.replayed = scan.replayed
        /\ scan'.matches = scan.matches /\ scan'.candidates = scan.candidates
        /\ scan'.last = scan.last /\ scan'.anchor = scan.anchor
    <3>1. scan.mismatch \in BOOLEAN /\ s.mismatch \in BOOLEAN
      BY <2>2 DEF Scans, Snapshots
    <3>2. (scan.mismatch \/ s.mismatch) \in BOOLEAN
      BY <3>1
    <3> QED BY <2>1, <2>2, <3>2 DEF Scans
  <2>5. /\ scan.replayed
        /\ InLogicalOrder(scan.resume) /\ ev.path = scan.resume.path =>
               scan.anchor # None /\ scan.active = scan.anchor
    BY <1>3, <2>2, HeadMatch
  <2>6. /\ ev \in ToSet(rg.pipe) /\ \A y \in ToSet(rg.pipe) : ev.path <= y.path
        /\ \A q \in rg.todo : ev.path < q
        /\ ev.path \in Nat
    BY <1>3, <2>2, HeadFacts
  <2>7. s.path = ev.path
    BY <1>3 DEF SnapshotPath
  <2> HIDE DEF ev
  <2>8. GrepTyped'
    BY <2>1, <2>4 DEF GrepSound, GrepTyped, store
  <2>9. StoreSound' /\ ClientSound'
    BY <2>1, ClientFrame
  <2>10. PhaseSound'
    BY <1>3, <2>1, <2>2, <2>4 DEF PhaseSound
  <2>11. Page' = Page /\ Passed' = Passed
    BY <2>4 DEF Page, Passed
  <2>12. MismatchSound'
    <3>1. SnapshotSound(s)'
      BY <2>1, <2>4 DEF SnapshotSound, store
    <3>2. scan.anchor # None => SnapshotSound(scan.anchor)'
      BY <2>1, <2>3, <2>4 DEF SnapshotSound, MismatchSound, store
    <3> QED BY <2>1, <2>3, <2>4, <2>11, <3>1, <3>2 DEF MismatchSound, store
  <2>13. PageSound'
    BY <2>1, <2>3, <2>4, <2>5, <2>11 DEF PageSound
  <2>14. AheadSound'
    <3>1. ASSUME NEW m \in Passed, NEW y \in ToSet(rg.pipe) PROVE m.path # y.path
      <4> SUFFICES ASSUME m.path = y.path PROVE FALSE
        OBVIOUS
      <4>1. scan.active # None /\ scan.active.path = m.path
        BY <2>3 DEF AheadSound
      <4>2. DiskBefore(m, ev) /\ ev.path <= m.path
        BY <2>3, <2>6 DEF AheadSound
      <4>3. m.path \in Nat
        <5>1. Passed \subseteq Matches
          BY <2>2, Elements DEF Passed, Page, Scans
        <5> QED BY <5>1, GrepAssumption DEF Matches
      <4>4. m.path = ev.path
        BY <2>6, <4>2, <4>3 DEF DiskBefore
      <4> QED BY <2>2, <4>1, <4>4 DEF ActiveFor
    <3>2. ASSUME InLogicalOrder(scan.resume), NEW y \in ToSet(rg.pipe), y.kind = "match",
                 y.path = scan.resume.path
          PROVE  \E b \in ToSet(rg.pipe) : b.kind = "begin" /\ b.path = y.path
      <4> SUFFICES ASSUME scan.active = scan.anchor, scan.anchor # None PROVE FALSE
        BY <2>3, <3>2 DEF AheadSound
      <4>1. scan.active.path = y.path
        BY <2>3, <3>2 DEF PageSound
      <4>2. scan.active.path <= ev.path /\ ev.path <= y.path
        BY <2>3, <2>6 DEF AheadSound
      <4>3. scan.active.path = ev.path
        <5>1. scan.active.path \in Nat
          BY <2>2, GrepAssumption DEF Scans, Snapshots
        <5> QED BY <2>6, <4>1, <4>2, <5>1
      <4> QED BY <2>2, <4>3 DEF ActiveFor
    <3>3. scan'.active # None =>
              /\ \A p \in rg.todo : scan'.active.path < p
              /\ \A y \in ToSet(rg.pipe) : scan'.active.path <= y.path
      BY <2>4, <2>6, <2>7
    <3> QED BY <2>1, <2>3, <2>4, <2>5, <2>11, <3>1, <3>2, <3>3 DEF AheadSound
  <2>15. PipeSound' /\ CoverSound'
    <3>1. Settled' = Settled /\ tree' = tree
      BY <2>1 DEF Settled, store
    <3>2. \A p, i : Excused(p, i)' <=> Excused(p, i)
      BY <2>1, <2>4 DEF Excused
    <3> QED BY <2>1, <2>3, <2>4, <2>11, <3>1, <3>2 DEF PipeSound, CoverSound
  <2> QED BY <2>8, <2>9, <2>10, <2>12, <2>13, <2>14, <2>15 DEF GrepSound, ScanSound
<1> QED BY <1>1, <1>2, <1>3

\* A snapshot of a file that is gone.
LEMMA ReadUnreadableSound ==
    ASSUME GrepSound, ReadUnreadable
    PROVE  GrepSound'
<1> DEFINE s == Snapshot(SnapshotPath, None, TRUE, FALSE)
<1>1. pc = "read" /\ Taken(s)
  BY DEF ReadUnreadable
<1>2. s \in Snapshots /\ s.path = SnapshotPath /\ ~s.verified
  BY <1>1, SnapshotPathTyped DEF Snapshot, Snapshots
<1> HIDE DEF s
<1> QED BY <1>1, <1>2, TakenSound

\* The third step of a snapshot: the row, and what the two say of each other.
LEMMA ReadRowSound ==
    ASSUME GrepSound, ReadRow
    PROVE  GrepSound'
<1> DEFINE row == rows[snap.path]
           text == snap.file.text
           bad == row # text \/ ~snap.stable
           good == snap.stable /\ row \in {None, text}
           s == Snapshot(snap.path, text, bad, good)
<1>1. pc = "row" /\ Taken(s)
  BY DEF ReadRow
<1>2. snap \in Reading /\ snap.path = SnapshotPath /\ StoreSound
  BY <1>1 DEF GrepSound, GrepTyped, PhaseSound
<1>3. snap.path \in Paths /\ text \in Contents /\ snap.stable \in BOOLEAN
  BY <1>2 DEF Reading, Files
<1>4. bad \in BOOLEAN /\ good \in BOOLEAN
  BY <1>3
<1>5. ~bad => text \in committed[snap.path]
  <2>1. ~bad => row = text
    OBVIOUS
  <2>2. text # None
    BY <1>3, GrepAssumption
  <2> QED BY <1>2, <1>3, <2>1, <2>2 DEF StoreSound
<1> HIDE DEF bad, good, text
<1>6. /\ s \in Snapshots /\ s.path = SnapshotPath /\ s.text \in Contents
      /\ ~s.mismatch => s.text \in committed[s.path]
  BY <1>2, <1>3, <1>4, <1>5 DEF Snapshot, Snapshots
<1> HIDE DEF s
<1> QED BY <1>1, <1>6, TakenSound

\* The time is up while a file that is there is read: an exception, or a page that can say
\* no more than that it failed.
LEMMA ReadLateSound ==
    ASSUME GrepSound, ReadLate
    PROVE  GrepSound'
<1>1. pc = "read" /\ timeouts' = timeouts + 1 /\ timeouts \in Nat /\ "catalog_mismatch" \in Reasons
  BY DEF ReadLate, TimeUp, GrepSound, GrepTyped, Reasons
<1>2. timeouts' \in Nat /\ timeouts' # 0
  BY <1>1
<1>3. CASE rg = None
  BY <1>2, <1>3, FailedSound DEF ReadLate
<1>4. CASE rg # None
  <2>1. Answer("catalog_mismatch", scan.matches, None)
    BY <1>4 DEF ReadLate
  <2> QED BY <1>1, <1>2, <2>1, FailedPageSound
<1> QED BY <1>3, <1>4

\* The page is full.
LEMMA FullPageSound ==
    ASSUME GrepSound, Ready, Verified(Head(rg.pipe)), scan.anchorFound,
           ~InLogicalOrder(scan.resume),
           StopPage("limit", Append(scan.matches, Found),
                    AfterMatch("after_match", Found, scan.mismatch))
    PROVE  GrepSound'
<1> DEFINE ev == Head(rg.pipe)
           ms == Append(scan.matches, Found)
           c == AfterMatch("after_match", Found, scan.mismatch)
<1>1. Answer("limit", ms, c) /\ timeouts' = timeouts /\ timeouts \in Nat /\ "limit" # None
  BY RecordAssumption DEF StopPage, GrepSound, GrepTyped, Reasons
<1>2. /\ pc = "scan" /\ rg # None /\ rg.pipe # <<>> /\ Found.path = ev.path /\ Found.line = ev.line
      /\ Found \in Matches /\ Found.line \in Matching(Found.text)
      /\ Found.text \in committed[Found.path] \/ scan.mismatch
      /\ \A m \in Passed : /\ DiskBefore(m, Found)
                           /\ m.path = Found.path => m.text = Found.text
      /\ \A y \in ToSet(Tail(rg.pipe)) : DiskBefore(Found, y)
      /\ \A q \in rg.todo : Found.path < q
  BY FoundFacts
<1>3. MismatchSound /\ PageSound /\ CoverSound
  BY <1>2 DEF GrepSound, ScanSound
<1>4. /\ ms \in Seq(Matches) /\ ToSet(ms) = Page \cup {Found} /\ InTurn(DiskOrder, ms)
  BY MatchesGrow
<1>5. ToSet(rg.pipe) = {ev} \cup ToSet(Tail(rg.pipe))
  BY <1>2, HeadFacts
<1> HIDE DEF ms
<1>6. Fitting(Found)
  BY <1>2, FoundAfter, FoundText DEF Fitting
<1>7. \A n \in ToSet(ms) : Fitting(n)
  BY <1>2, <1>4, <1>6, PageFitting
<1>8. \A m, n \in ToSet(ms) : m.path = n.path => m.text = n.text
  BY <1>2, <1>3, <1>4, PassedTyped DEF PageSound
<1>9. ~InLogicalOrder(client.start)
  BY <1>2, AfterResume
<1>10. \A a, b : InOrder(a, b) <=> DiskBefore(a, b)
  BY <1>9 DEF InOrder, DiskBefore
<1>11. \A m \in ToSet(ms) : /\ m = Found \/ InOrder(m, Found)
                            /\ m.path = Found.path => m.text = Found.text
                            /\ m.text \in committed[m.path] \/ scan.mismatch
  BY <1>2, <1>3, <1>4, <1>10, PassedTyped DEF MismatchSound
<1>12. ASSUME NEW p \in Settled, NEW i \in Matching(tree[p].text), After(scan.resume, p, i)
       PROVE  Has(ToSet(ms), p, i) \/ InOrder(Found, Spot(p, i))
  <2>1. CASE Has(Page, p, i)
    BY <1>4, <2>1 DEF Has
  <2>2. CASE p \in rg.todo
    BY <1>2, <1>10, <2>2 DEF DiskBefore, Spot
  <2>3. CASE [kind |-> "match", path |-> p, line |-> i, seen |-> tree[p].text[i]]
                 \in ToSet(Tail(rg.pipe))
    <3> DEFINE y == [kind |-> "match", path |-> p, line |-> i, seen |-> tree[p].text[i]]
    <3>1. DiskBefore(Found, y) /\ y.path = p /\ y.line = i
      BY <1>2, <2>3
    <3> HIDE DEF y
    <3> QED BY <1>10, <3>1 DEF DiskBefore, Spot
  <2>4. CASE Leaves(p, i)
    <3>1. Found.path = p /\ Found.line = i
      BY <1>2, <2>4 DEF Leaves
    <3> QED BY <1>4, <3>1 DEF Has
  <2>5. ~Excused(p, i)
    BY DEF Excused
  <2> QED BY <1>3, <1>5, <1>12, <2>1, <2>2, <2>3, <2>4, <2>5, Uncovered
<1>13. c \in Cursors /\ Follows(client.items \o ms, c) /\ (~StartedOver => Within(c))
  <2>1. InLogicalOrder(scan.resume) <=> "after_match" = "legacy_after_match"
    OBVIOUS
  <2> QED BY <1>2, <1>4, <1>6, <1>11, <1>12, <2>1, BehindContinues
<1>14. ~FromFileStart(client.start) \/ timeouts' = 0 => Within(c)
  BY <1>1, <1>13 DEF StartedOver
<1> HIDE DEF c
<1> QED BY <1>1, <1>2, <1>4, <1>7, <1>8, <1>13, <1>14, PageAnswerSound

\* A verified match: the page takes it, or the page is full.
LEMMA CollectSound ==
    ASSUME GrepSound, Collect
    PROVE  GrepSound'
<1>1. /\ Ready /\ Verified(Head(rg.pipe)) /\ scan.anchorFound /\ ~InLogicalOrder(scan.resume)
      /\ \/ StopPage("limit", Append(scan.matches, Found),
                     AfterMatch("after_match", Found, scan.mismatch))
         \/ Proceed([scan EXCEPT !.matches = Append(scan.matches, Found), !.last = Found])
  BY DEF Collect
<1> QED BY <1>1, FullPageSound, CollectMoreSound

\* The time is up: where the page had got to is where the next one begins.
LEMMA TimeoutSound ==
    ASSUME GrepSound, Timeout
    PROVE  GrepSound'
<1> DEFINE ms == scan.matches
           c == TimeoutCursor
           resume == scan.resume
<1>1. /\ pc = "scan" /\ Answer("timeout", ms, c) /\ timeouts' = timeouts + 1
      /\ timeouts \in Nat /\ "timeout" # None
  BY RecordAssumption DEF Timeout, TimeUp, GrepSound, GrepTyped, Reasons
<1>2. timeouts' \in Nat /\ timeouts' # 0
  BY <1>1
<1>3. MismatchSound /\ PageSound /\ scan \in Scans /\ pc # "client"
  BY <1>1 DEF GrepSound, GrepTyped, ScanSound
<1>4. ms \in Seq(Matches) /\ ToSet(ms) \subseteq Page /\ InTurn(DiskOrder, ms)
  BY <1>3 DEF Scans, Page, PageSound
<1>5. /\ Follows(client.items, client.cursor) /\ (~StartedOver => Within(client.cursor))
      /\ resume = Resume(client.cursor) /\ client.cursor \in Cursors \cup {None}
      /\ resume # None => /\ resume = client.cursor
                          /\ \/ InLogicalOrder(resume)
                             \/ FromFileStart(resume)
                             \/ resume.mode = "after_match"
  BY <1>3, ResumeFacts DEF Continues
<1>6. client.items \in Seq(Matches)
  BY DEF GrepSound, GrepTyped, Clients
<1>7. IF InLogicalOrder(resume) THEN InTurn(LogicalOrder, ms) ELSE InTurn(DiskOrder, ms)
  <2>1. InLogicalOrder(resume) => ms = <<>>
    BY <1>3 DEF PageSound
  <2>2. InTurn(LogicalOrder, <<>>)
    BY DEF InTurn
  <2> QED BY <1>4, <2>1, <2>2
<1>8. \A n \in ToSet(ms) : Fitting(n)
  BY <1>3, <1>4, PageFitting
<1>9. \A m, n \in Passed : m.path = n.path => m.text = n.text
  BY <1>3 DEF PageSound
<1>10. \A m, n \in ToSet(ms) : m.path = n.path => m.text = n.text
  BY <1>4, <1>9, PassedTyped
<1> SUFFICES /\ c \in Cursors /\ Follows(client.items \o ms, c)
             /\ ~FromFileStart(client.start) => Within(c)
  <2> HIDE DEF ms, c
  <2> QED BY <1>1, <1>2, <1>3, <1>4, <1>7, <1>8, <1>10, PageAnswerSound
<1>11. CASE InLogicalOrder(resume) \/ ~scan.replayed \/ ~scan.anchorFound
  <2>1. resume # None /\ ms = <<>>
    BY <1>3, <1>11 DEF PageSound, InLogicalOrder, FromFileStart, Untried
  <2>2. scan.last = None
    BY <1>3, <1>11 DEF PageSound, Untried
  <2>3. c = resume
    BY <1>11, <2>2 DEF TimeoutCursor
  <2>4. client.items \o ms = client.items
    BY <1>6, <2>1
  <2>5. ~FromFileStart(client.start) => Within(c)
    BY <1>5, <2>1, <2>3 DEF StartedOver
  <2> HIDE DEF c, ms
  <2> QED BY <1>5, <2>1, <2>3, <2>4, <2>5
<1>12. CASE ~InLogicalOrder(resume) /\ scan.replayed /\ scan.anchorFound /\ scan.last # None
  <2> DEFINE n == scan.last
  <2>1. c = AfterMatch("after_match", n, scan.mismatch)
    BY <1>12 DEF TimeoutCursor
  <2>2. n \in Matches /\ n \in Passed
    BY <1>3, <1>12 DEF Scans, Passed
  <2>3. rg # None
    BY <1>1, <1>12 DEF GrepSound, PhaseSound
  <2>4. AheadSound /\ CoverSound
    BY <2>3 DEF GrepSound, ScanSound
  <2>5. ~InLogicalOrder(client.start)
    BY <1>3, <1>12, AfterResume
  <2>6. \A a, b : InOrder(a, b) <=> DiskBefore(a, b)
    BY <2>5 DEF InOrder, DiskBefore
  <2>7. \/ Fitting(n)
        \/ /\ resume # None /\ resume.mode = "after_match"
           /\ n.path = resume.path /\ n.line = resume.line
           /\ n.text = resume.text
    <3>1. CASE n \in ToSet(ms)
      BY <1>8, <3>1
    <3>2. CASE n \notin ToSet(ms)
      <4>1. /\ resume # None /\ resume.mode = "after_match"
            /\ n.path = resume.path /\ n.line = resume.line
        BY <1>3, <1>12, <3>2 DEF PageSound
      <4>2. ~Fresh(resume)
        BY <4>1 DEF Fresh
      <4> QED BY <1>3, <2>2, <4>1, <4>2 DEF PageSound
    <3> QED BY <3>1, <3>2
  <2>8. \A m \in ToSet(ms) : /\ m = n \/ InOrder(m, n)
                             /\ m.path = n.path => m.text = n.text
                             /\ m.text \in committed[m.path] \/ scan.mismatch
    <3>1. \A m \in ToSet(ms) : m = n \/ DiskBefore(m, n)
      BY <1>3, <1>12 DEF PageSound
    <3>2. \A m \in ToSet(ms) : m.text \in committed[m.path] \/ scan.mismatch
      BY <1>3, <1>4 DEF MismatchSound
    <3> QED BY <1>4, <1>9, <2>2, <2>6, <3>1, <3>2, PassedTyped
  <2>9. Page = ToSet(ms)
    <3>1. scan.candidates = <<>> /\ ToSet(<<>>) = {}
      BY <1>3, <1>12 DEF PageSound, ToSet
    <3> QED BY <3>1 DEF Page
  <2>10. ASSUME NEW p \in Settled, NEW i \in Matching(tree[p].text), After(resume, p, i)
         PROVE  Has(ToSet(ms), p, i) \/ InOrder(n, Spot(p, i))
    <3>1. CASE Has(Page, p, i)
      BY <2>9, <3>1
    <3>2. CASE p \in rg.todo
      BY <2>2, <2>4, <2>6, <3>2 DEF AheadSound, DiskBefore, Spot
    <3>3. CASE [kind |-> "match", path |-> p, line |-> i, seen |-> tree[p].text[i]]
                   \in ToSet(rg.pipe)
      <4> DEFINE y == [kind |-> "match", path |-> p, line |-> i, seen |-> tree[p].text[i]]
      <4>1. DiskBefore(n, y) /\ y.path = p /\ y.line = i
        BY <2>2, <2>4, <3>3 DEF AheadSound
      <4> HIDE DEF y
      <4> QED BY <2>6, <4>1 DEF DiskBefore, Spot
    <3>4. ~Excused(p, i)
      BY <1>12 DEF Excused
    <3> QED BY <2>4, <2>10, <3>1, <3>2, <3>3, <3>4 DEF CoverSound
  <2>11. /\ AfterMatch("after_match", n, scan.mismatch) \in Cursors
         /\ Follows(client.items \o ms, AfterMatch("after_match", n, scan.mismatch))
         /\ ~StartedOver => Within(AfterMatch("after_match", n, scan.mismatch))
    <3>1. InLogicalOrder(resume) <=> "after_match" = "legacy_after_match"
      BY <1>12
    <3> HIDE DEF n
    <3> QED BY <1>3, <1>4, <2>2, <2>7, <2>8, <2>10, <3>1, BehindContinues
  <2>12. ~FromFileStart(client.start) => ~StartedOver
    BY DEF StartedOver
  <2> HIDE DEF c, ms
  <2> QED BY <2>1, <2>11, <2>12
<1>13. CASE ~InLogicalOrder(resume) /\ scan.replayed /\ scan.anchorFound /\ scan.last = None
  <2>1. c = SearchStart(scan.mismatch)
    BY <1>13 DEF TimeoutCursor
  <2>2. /\ c \in Cursors /\ c.mode = "search_start"
    BY <1>3, <2>1 DEF SearchStart, Cursor, Cursors, Scans
  <2>3. c # None
    BY <2>2, RecordAssumption
  <2> HIDE DEF c
  <2>4. resume = None \/ FromFileStart(resume)
    BY <1>3, <1>5, <1>13 DEF PageSound
  <2>5. ms = <<>>
    BY <1>3, <1>13 DEF PageSound
  <2>6. Fresh(client.cursor)
    <3>1. Fresh(resume)
      BY <2>4 DEF Fresh, FromFileStart
    <3> QED BY <1>3, <3>1, AfterResume
  <2>7. client.items = <<>>
    BY <1>5, <2>6 DEF Follows
  <2>8. client.items \o ms = <<>> /\ ToSet(<<>>) = {}
    BY <2>5, <2>7 DEF ToSet
  <2>9. ~InLogicalOrder(client.start)
    BY <1>3, <1>13, AfterResume
  <2>10. ~InLogicalOrder(c) /\ ~FromFileStart(c) /\ Fresh(c) /\ \A p, i : After(c, p, i)
    BY <2>2, <2>3 DEF InLogicalOrder, FromFileStart, Fresh, After
  <2>11. Follows(<<>>, c)
    BY <2>2, <2>8, <2>9, <2>10 DEF Follows
  <2>12. ASSUME ~FromFileStart(client.start) PROVE Within(c)
    <3>1. resume = None
      BY <1>5, <2>4, <2>12 DEF Follows, FromFileStart
    <3>2. \A p, i : After(client.cursor, p, i)
      <4>1. \A p, i : After(resume, p, i)
        BY <3>1 DEF After
      <4> QED BY <1>3, <4>1, AfterResume
    <3> QED BY <1>5, <2>12, <3>2 DEF Within, StartedOver
  <2> QED BY <2>2, <2>8, <2>11, <2>12
<1> QED BY <1>11, <1>12, <1>13

\* The compatibility scan is through.
LEMMA LogicalPageSound ==
    ASSUME GrepSound, pc = "scan", rg.todo = {}, rg.pipe = <<>>, scan.anchorFound,
           InLogicalOrder(scan.resume), LogicalPage
    PROVE  GrepSound'
<1> DEFINE s == scan.candidates
           k == Min({client.limit, Len(s)})
           page == SubSeq(s, 1, k)
<1>1. /\ rg # None /\ scan \in Scans /\ client \in Clients /\ timeouts \in Nat
      /\ MismatchSound /\ PageSound /\ CoverSound
  BY DEF GrepSound, GrepTyped, PhaseSound, ScanSound
<1>2. /\ s \in Seq(Matches) /\ client.limit \in Nat /\ client.limit > 0 /\ Len(s) \in Nat
      /\ InTurn(LogicalOrder, s) /\ Len(s) <= client.limit + 1 /\ scan.matches = <<>>
  <2>1. s \in Seq(Matches) /\ Len(s) \in Nat
    BY <1>1 DEF Scans
  <2>2. client.limit \in Nat /\ client.limit > 0
    <3>1. client.limit \in Limits
      BY <1>1 DEF Clients
    <3>2. client.limit \in Nat /\ client.limit # 0
      BY <3>1, GrepAssumption
    <3> QED BY <3>2
  <2>3. InTurn(LogicalOrder, s) /\ Len(s) <= client.limit + 1 /\ scan.matches = <<>>
    BY <1>1 DEF PageSound
  <2> QED BY <2>1, <2>2, <2>3
<1>3. Page = ToSet(s) /\ Page \subseteq Passed
  <2>1. ToSet(<<>>) = {}
    BY DEF ToSet
  <2> QED BY <1>2, <2>1, PassedTyped DEF Page
<1>4. k \in {client.limit, Len(s)} /\ k <= client.limit /\ k <= Len(s)
  <2>1. \E x \in {client.limit, Len(s)} : \A y \in {client.limit, Len(s)} : x <= y
    BY <1>2
  <2> QED BY <2>1 DEF Min
<1>5. k \in 0..Len(s)
  BY <1>2, <1>4
<1> HIDE DEF k
<1>6. /\ page \in Seq(Matches) /\ Len(page) = k /\ InTurn(LogicalOrder, page)
      /\ ToSet(page) \subseteq ToSet(s) /\ \A i \in 1..k : page[i] = s[i]
      /\ \A i \in k + 1..Len(s) : \A y \in ToSet(page) : <<y, s[i]>> \in LogicalOrder
  <2> HIDE DEF s
  <2>1. s \in Seq(Matches) /\ InTurn(LogicalOrder, s)
    BY <1>2
  <2>2. \A R : InTurn(R, s) =>
            /\ page \in Seq(Matches) /\ Len(page) = k /\ InTurn(R, page)
            /\ ToSet(page) \subseteq ToSet(s) /\ \A i \in 1..k : page[i] = s[i]
            /\ \A i \in k + 1..Len(s) : \A y \in ToSet(page) : <<y, s[i]>> \in R
    BY <1>5, <2>1, SubSeqInTurn
  <2> QED BY <2>1, <2>2, Zenon
<1>7. LogicalPage <=>
          IF Len(s) > client.limit
          THEN StopPage("limit", page,
                        AfterMatch("legacy_after_match", Last(page), scan.mismatch))
          ELSE StopPage(IF scan.mismatch THEN "catalog_mismatch" ELSE None, page, None)
  BY DEF LogicalPage, k
<1> HIDE DEF page
<1>8. \A n \in ToSet(page) : Fitting(n)
  BY <1>3, <1>6, PageFitting
<1>9. /\ \A m, n \in ToSet(page) : m.path = n.path => m.text = n.text
      /\ \A m \in ToSet(page) : m.text \in committed[m.path] \/ scan.mismatch
  BY <1>1, <1>3, <1>6 DEF PageSound, MismatchSound
<1>10. ToSet(rg.pipe) = {}
  BY DEF ToSet
<1>11. \A p \in Settled : \A i \in Matching(tree[p].text) :
           After(scan.resume, p, i) => Has(ToSet(s), p, i) \/ Excused(p, i)
  BY <1>1, <1>3, <1>10 DEF CoverSound
<1>12. None \notin Reasons
  BY RecordAssumption
<1>13. CASE Len(s) > client.limit
  <2> DEFINE n == Last(page)
             c == AfterMatch("legacy_after_match", n, scan.mismatch)
  <2>1. /\ Answer("limit", page, c) /\ timeouts' = timeouts /\ "limit" # None
    BY <1>7, <1>12, <1>13 DEF StopPage, Reasons
  <2>2. k = client.limit /\ Len(s) = k + 1 /\ k \in 1..k
    BY <1>2, <1>4, <1>13
  <2>3. n = page[k] /\ n \in ToSet(page)
    BY <1>6, <2>2, Elements DEF Last
  <2>4. n \in Matches /\ Fitting(n)
    BY <1>6, <1>8, <2>3, Elements
  <2> HIDE DEF n
  <2>5. InLogicalOrder(client.start)
    BY AfterResume
  <2>6. \A a, b : InOrder(a, b) <=> Before(a, b)
    BY <2>5 DEF InOrder
  <2>7. ASSUME NEW m \in ToSet(page) PROVE m = n \/ InOrder(m, n)
    <3>1. PICK i \in 1..k : m = page[i]
      BY <1>6, Elements
    <3>2. i = k \/ (i < k /\ i \in 1..k)
      BY <2>2
    <3>3. i < k => <<page[i], page[k]>> \in LogicalOrder
      BY <1>6, <2>2 DEF InTurn
    <3> QED BY <2>3, <2>6, <3>1, <3>2, <3>3 DEF LogicalOrder
  <2>8. ASSUME NEW p \in Settled, NEW i \in Matching(tree[p].text), After(scan.resume, p, i)
        PROVE  Has(ToSet(page), p, i) \/ InOrder(n, Spot(p, i))
    <3>1. CASE Excused(p, i)
      <4>1. \A m \in ToSet(s) : Before(m, Spot(p, i))
        BY <3>1 DEF Excused
      <4> QED BY <1>6, <2>3, <2>6, <4>1
    <3>2. CASE Has(ToSet(s), p, i)
      <4>1. PICK x \in ToSet(s) : x.path = p /\ x.line = i
        BY <3>2 DEF Has
      <4>2. PICK j \in 1..Len(s) : x = s[j]
        BY <1>2, Elements
      <4>3. CASE j \in 1..k
        <5>1. x = page[j] /\ page[j] \in ToSet(page)
          BY <1>6, <4>2, <4>3, Elements
        <5> QED BY <4>1, <5>1 DEF Has
      <4>4. CASE j \notin 1..k
        <5>1. j \in k + 1..Len(s)
          BY <1>2, <1>5, <4>4
        <5>2. Before(n, x)
          BY <1>6, <2>3, <4>2, <5>1 DEF LogicalOrder
        <5> QED BY <2>6, <4>1, <5>2 DEF Before, Spot
      <4> QED BY <4>3, <4>4
    <3> QED BY <1>11, <2>8, <3>1, <3>2
  <2>9. c \in Cursors /\ Follows(client.items \o page, c) /\ (~StartedOver => Within(c))
    <3>1. InLogicalOrder(scan.resume) <=> "legacy_after_match" = "legacy_after_match"
      OBVIOUS
    <3> QED BY <1>6, <1>9, <2>3, <2>4, <2>7, <2>8, <3>1, BehindContinues
  <2>10. ~FromFileStart(client.start) \/ timeouts' = 0 => Within(c)
    BY <2>1, <2>9 DEF StartedOver
  <2> HIDE DEF c
  <2> QED BY <1>1, <1>6, <1>8, <1>9, <2>1, <2>9, <2>10, PageAnswerSound
<1>14. CASE ~(Len(s) > client.limit)
  <2> DEFINE by == IF scan.mismatch THEN "catalog_mismatch" ELSE None
  <2>1. Answer(by, page, None) /\ timeouts' = timeouts
    BY <1>7, <1>14 DEF StopPage
  <2>2. by = None => ~scan.mismatch
    BY <1>12 DEF Reasons
  <2> HIDE DEF by
  <2>3. k = Len(s)
    BY <1>2, <1>4, <1>14
  <2>4. ToSet(s) \subseteq ToSet(page)
    <3> SUFFICES ASSUME NEW x \in ToSet(s) PROVE x \in ToSet(page)
      OBVIOUS
    <3>1. PICK j \in 1..Len(s) : x = s[j]
      BY <1>2, Elements
    <3> QED BY <1>6, <2>3, <3>1, Elements
  <2>5. ASSUME NEW p \in Settled, NEW i \in Matching(tree[p].text), After(scan.resume, p, i)
        PROVE  Has(ToSet(page), p, i)
    <3>1. ~Excused(p, i)
      BY <1>2, <1>14 DEF Excused
    <3> QED BY <1>11, <2>4, <2>5, <3>1 DEF Has
  <2> QED BY <1>1, <1>6, <1>8, <1>9, <2>1, <2>2, <2>5, PageAnswerSound
<1> QED BY <1>13, <1>14

\* Ripgrep has no more: the page is the last one, or the candidates make it.
LEMMA EndOfScanSound ==
    ASSUME GrepSound, EndOfScan
    PROVE  GrepSound'
<1>1. pc = "scan" /\ rg.todo = {} /\ rg.pipe = <<>>
  BY DEF EndOfScan
<1>2. CASE ~scan.anchorFound
  BY <1>2, FailSound DEF EndOfScan
<1>3. CASE scan.anchorFound /\ InLogicalOrder(scan.resume)
  BY <1>1, <1>3, LogicalPageSound DEF EndOfScan
<1>4. CASE scan.anchorFound /\ ~InLogicalOrder(scan.resume)
  <2> DEFINE by == IF scan.mismatch THEN "catalog_mismatch" ELSE None
             ms == scan.matches
  <2>1. Answer(by, ms, None) /\ timeouts' = timeouts
    BY <1>4 DEF EndOfScan, StopPage
  <2>2. by = None => ~scan.mismatch
    BY RecordAssumption DEF Reasons
  <2> HIDE DEF by
  <2>3. /\ rg # None /\ scan \in Scans /\ timeouts \in Nat
        /\ MismatchSound /\ PageSound /\ CoverSound
    BY <1>1 DEF GrepSound, GrepTyped, PhaseSound, ScanSound
  <2>4. /\ ms \in Seq(Matches) /\ InTurn(DiskOrder, ms) /\ scan.candidates = <<>>
    BY <1>4, <2>3 DEF Scans, PageSound
  <2>5. ToSet(<<>>) = {} /\ Page = ToSet(ms)
    BY <2>4 DEF Page, ToSet
  <2>6. \A n \in ToSet(ms) : Fitting(n)
    BY <1>1, <2>5, PageFitting
  <2>7. /\ \A m, n \in ToSet(ms) : m.path = n.path => m.text = n.text
        /\ \A m \in ToSet(ms) : m.text \in committed[m.path] \/ scan.mismatch
    BY <2>3, <2>5, PassedTyped DEF PageSound, MismatchSound
  <2>8. ASSUME NEW p \in Settled, NEW i \in Matching(tree[p].text), After(scan.resume, p, i)
        PROVE  Has(ToSet(ms), p, i)
    <3>1. ~Excused(p, i)
      BY <1>4 DEF Excused
    <3> QED BY <1>1, <2>3, <2>5, <2>8, <3>1 DEF CoverSound
  <2> HIDE DEF ms
  <2> QED BY <1>1, <1>4, <2>1, <2>2, <2>3, <2>4, <2>6, <2>7, <2>8, PageAnswerSound
<1> QED BY <1>2, <1>3, <1>4

-----------------------------------------------------------------------------
(***************************************************************************)
(* The theorems.                                                           *)
(***************************************************************************)

\* A cursor of the previous release.
LEMMA OldCursorFacts ==
    ASSUME NEW texts \in [Paths -> Contents \cup {None}], NEW cursor \in OldCursors(texts)
    PROVE  /\ cursor \in Cursors /\ cursor.mode \in {"v2_after_match", "file_start"}
           /\ cursor.path \in Paths /\ cursor.text \in Contents
<1>1. PICK p \in {q \in Paths : texts[q] # None} :
          \/ \E i \in Matching(texts[p]) : cursor = Cursor("v2_after_match", p, texts[p], i, FALSE)
          \/ cursor = Cursor("file_start", p, texts[p], 0, FALSE)
  BY DEF OldCursors
<1>2. p \in Paths /\ texts[p] \in Contents
  OBVIOUS
<1>3. \A i \in Matching(texts[p]) : i \in Nat
  <2>1. texts[p] \in Seq(STRING)
    BY <1>2, GrepAssumption
  <2> QED BY <2>1 DEF Matching
<1>4. CASE \E i \in Matching(texts[p]) : cursor = Cursor("v2_after_match", p, texts[p], i, FALSE)
  <2>1. PICK i \in Matching(texts[p]) : cursor = Cursor("v2_after_match", p, texts[p], i, FALSE)
    BY <1>4
  <2> QED BY <1>2, <1>3, <2>1 DEF Cursor, Cursors
<1>5. CASE cursor = Cursor("file_start", p, texts[p], 0, FALSE)
  BY <1>2, <1>5 DEF Cursor, Cursors
<1> QED BY <1>1, <1>4, <1>5

\* A search that has not begun.
LEMMA InitSound ==
    ASSUME Init
    PROVE  GrepSound
<1>1. PICK found \in InitStores, limit \in Limits :
          /\ tree = [p \in Paths |-> File(found.texts[p], 0)]
          /\ rows = found.rows
          /\ \E cursor \in OldCursors(found.texts) \cup {None} :
                 client = [limit |-> limit, cursor |-> cursor, start |-> cursor,
                           items |-> <<>>, pages |-> 0, state |-> "asking"]
          /\ committed = [p \in Paths |-> {rows[p]} \ {None}]
          /\ write = None /\ touched = {} /\ writes = 0 /\ timeouts = 0
          /\ pc = "client" /\ scan = IdleScan /\ rg = None /\ snap = None
  BY DEF Init
<1>2. PICK cursor \in OldCursors(found.texts) \cup {None} :
          client = [limit |-> limit, cursor |-> cursor, start |-> cursor,
                    items |-> <<>>, pages |-> 0, state |-> "asking"]
  BY <1>1
<1>3. /\ found.texts \in [Paths -> Contents \cup {None}]
      /\ found.rows \in [Paths -> Contents \cup {None}]
      /\ MaxWrites \in Nat
  BY GrepAssumption
<1>4. cursor # None =>
          /\ cursor \in Cursors /\ cursor.mode \in {"v2_after_match", "file_start"}
          /\ cursor.path \in Paths /\ cursor.text \in Contents
  BY <1>3, OldCursorFacts
<1>5. <<>> \in Seq(Matches) /\ ToSet(<<>>) = {} /\ Range(<<>>) = {} /\ DOMAIN <<>> = {}
  BY DEF ToSet, Range
<1>6. /\ client \in Clients /\ client.cursor = cursor /\ client.start = cursor
      /\ client.items = <<>> /\ client.state = "asking"
  <2>1. cursor \in Cursors \cup {None}
    BY <1>4
  <2> QED BY <1>2, <1>5, <2>1 DEF Clients
<1>7. GrepTyped
  <2>1. IdleScan \in Scans
    BY <1>5 DEF IdleScan, Scans
  <2>2. /\ tree \in [Paths -> Files \cup {None}]
        /\ \A p \in Paths : tree[p] # None => tree[p].id \in 0..2 * MaxWrites
    <3>1. ASSUME NEW p \in Paths
          PROVE  /\ File(found.texts[p], 0) \in Files \cup {None}
                 /\ File(found.texts[p], 0) # None =>
                        File(found.texts[p], 0).id \in 0..2 * MaxWrites
      <4>1. found.texts[p] \in Contents \cup {None} /\ 0 \in 0..2 * MaxWrites
        BY <1>3
      <4> QED BY <4>1 DEF File, Files
    <3> QED BY <1>1, <3>1
  <2>3. committed \in [Paths -> SUBSET Contents]
    BY <1>1, <1>3
  <2>4. writes \in 0..MaxWrites /\ timeouts \in Nat
    BY <1>1, <1>3
  <2> QED BY <1>1, <1>3, <1>6, <2>1, <2>2, <2>3, <2>4 DEF GrepTyped
<1>8. StoreSound
  BY <1>1, <1>3 DEF StoreSound
<1>9. PhaseSound /\ ScanSound
  BY <1>1 DEF PhaseSound, ScanSound
<1>10. ClientSound
  <2>1. StartSound
    BY <1>4, <1>6 DEF StartSound
  <2>2. ItemsSound /\ Exhaustive /\ CompleteIsCommitted
    BY <1>5, <1>6 DEF ItemsSound, PagesFit, Exhaustive, CompleteIsCommitted
  <2>3. ASSUME NEW p, NEW i PROVE Owed(p, i) <=> After(cursor, p, i)
    <3>1. CASE cursor = None
      BY <1>6, <3>1 DEF Owed, After, InLogicalOrder
    <3>2. CASE cursor # None /\ cursor.mode = "v2_after_match"
      BY <1>6, <3>2 DEF Owed, After, InLogicalOrder, FromFileStart, Spot, Before
    <3>3. CASE cursor # None /\ cursor.mode = "file_start"
      BY <1>6, <3>3 DEF Owed, After, InLogicalOrder, FromFileStart
    <3> QED BY <1>4, <3>1, <3>2, <3>3
  <2>4. Fresh(cursor)
    BY <1>4 DEF Fresh
  <2>5. Follows(client.items, client.cursor)
    BY <1>4, <1>5, <1>6, <2>3, <2>4 DEF Follows
  <2>6. Within(client.cursor)
    BY <1>6, <2>3 DEF Within
  <2> QED BY <1>6, <2>1, <2>2, <2>5, <2>6 DEF ClientSound, Continues
<1> QED BY <1>7, <1>8, <1>9, <1>10 DEF GrepSound

\* Nothing happens.
LEMMA StutterSound ==
    ASSUME GrepSound, UNCHANGED vars
    PROVE  GrepSound'
<1>1. UNCHANGED <<store, client, scan, rg, timeouts, pc, snap>>
  BY DEF vars, store
<1>2. GrepTyped'
  BY <1>1 DEF GrepSound, GrepTyped, store
<1>3. PhaseSound'
  BY <1>1 DEF GrepSound, PhaseSound, SnapshotPath, Untried, ActiveFor, SkippedRecord
<1>4. StoreSound' /\ ClientSound'
  BY <1>1, ClientFrame
<1>5. ScanSound'
  <2>1. CASE pc # "client"
    BY <1>1, <2>1, ScanFrame
  <2>2. CASE pc = "client"
    BY <1>1, <2>2 DEF GrepSound, PhaseSound, ScanSound
  <2> QED BY <2>1, <2>2
<1> QED BY <1>2, <1>3, <1>4, <1>5 DEF GrepSound

\* Every step keeps the invariant.
LEMMA NextSound ==
    ASSUME GrepSound, [Next]_vars
    PROVE  GrepSound'
<1>1. CASE Search
  BY <1>1, RequestSound, TimeoutEarlySound, ReadUnreadableSound, ReadLateSound, ReadFileSound,
     StatFileSound, ReadRowSound, SkipSound, BeginFileSound, TooLongSound, NeedSnapshotSound,
     UnverifiedSound, SeekAnchorSound, CollectLogicalSound, CollectSound, TimeoutSound,
     EndOfScanSound, FailSound
     DEF Search, RgError
<1>2. CASE RgRead
  BY <1>2, RgReadSound
<1>3. CASE \E p \in Paths, text \in Contents \cup {None} : SubmitTree(p, text)
  BY <1>3, SubmitTreeSound
<1>4. CASE SubmitCommit
  BY <1>4, SubmitCommitSound
<1>5. CASE SubmitUndo
  BY <1>5, SubmitUndoSound
<1>6. CASE UNCHANGED vars
  BY <1>6, StutterSound
<1> QED BY <1>1, <1>2, <1>3, <1>4, <1>5, <1>6 DEF Next

\* The inductive invariant of a search (_grep_tree_target and the client that follows its
\* cursors): nothing is lost between the files, the pipe, the page and the cursor, whatever
\* other threads submit and whenever the time is up.
THEOREM GrepInvariant == Spec => []GrepSound
<1>1. Init => GrepSound
  BY InitSound
<1>2. GrepSound /\ [Next]_vars => GrepSound'
  BY NextSound
<1> QED BY <1>1, <1>2, PTL DEF Spec

\* The types of Grep, for any files, contents and bounds.
THEOREM GrepTypes == Spec => []TypeOK
<1>1. GrepSound => TypeOK
  <2> SUFFICES ASSUME GrepSound PROVE TypeOK
    OBVIOUS
  <2>1. GrepTyped /\ PhaseSound
    BY DEF GrepSound
  <2>2. ASSUME NEW p \in Paths, tree[p] # None
        PROVE  tree[p] \in [text : Contents, id : 0..2 * MaxWrites]
    <3>1. tree[p] \in Files /\ tree[p].id \in 0..2 * MaxWrites
      BY <2>1, <2>2 DEF GrepTyped
    <3> QED BY <3>1 DEF Files
  <2>3. /\ client.cursor \in Cursors \cup {None}
        /\ client.state \in {"asking", "complete", "limited", "failed"}
        /\ client.items \in Seq(Matches)
    BY <2>1 DEF GrepTyped, Clients
  <2>4. Range(client.items) \subseteq Matches
    <3>1. ToSet(client.items) \subseteq Matches
      BY <2>3, Elements
    <3> QED BY <3>1 DEF Range, ToSet
  <2>5. rows \in [Paths -> Contents \cup {None}] /\ pc \in {"client", "scan", "read", "stat", "row"}
    BY <2>1 DEF GrepTyped
  <2>6. /\ (pc = "client") => rg = None /\ scan = IdleScan
        /\ (pc = "scan") => rg # None
        /\ (pc \in {"stat", "row"}) <=> snap # None
    BY <2>1 DEF PhaseSound
  <2> QED BY <2>2, <2>3, <2>4, <2>5, <2>6 DEF TypeOK
<1> QED BY <1>1, GrepInvariant, PTL

\* A search whose client ended as complete (the last answer had no cursor) has every match
\* of every file that stayed as it was, over any number of pages, resumes and time-outs.
THEOREM ExhaustiveAlways == Spec => []Exhaustive
<1>1. GrepSound => Exhaustive
  BY DEF GrepSound, ClientSound
<1> QED BY <1>1, GrepInvariant, PTL

\* The pages of one search fit together: in order, no match twice, one content per file.
THEOREM PagesFitAlways == Spec => []PagesFit
<1>1. GrepSound => PagesFit
  BY DEF GrepSound, ClientSound, ItemsSound
<1> QED BY <1>1, GrepInvariant, PTL

\* A complete search answers only with contents that the catalog had meanwhile: that is
\* what _snapshot_grep_file compares the file with its row for.
THEOREM CompleteIsCommittedAlways == Spec => []CompleteIsCommitted
<1>1. GrepSound => CompleteIsCommitted
  BY DEF GrepSound, ClientSound
<1> QED BY <1>1, GrepInvariant, PTL
=============================================================================
