-------------------------- MODULE CtxfsOrderProofs --------------------------
(***************************************************************************)
(* What a loop over a list computes (Iteration), and what the order of a   *)
(* submission's operations keeps (CtxfsOrder), for lists of any length.    *)
(***************************************************************************)
EXTENDS CtxfsOrder, WellFoundedInduction, TLAPS

\* Every nonempty set of naturals has a least element.
LEMMA LeastNatural ==
    ASSUME NEW T \in SUBSET Nat, T # {}
    PROVE  \E x \in T : \A y \in T : x <= y
<1> DEFINE R == OpToRel(<, Nat)
<1>1. IsWellFoundedOn(R, Nat)
  BY NatLessThanWellFounded, Zenon
<1>2. \A x, y \in Nat : y < x => <<y, x>> \in R
  BY DEF OpToRel
<1>3. \E x \in T : \A y \in T : ~(<<y, x>> \in R)
  <2> HIDE DEF R
  <2> QED BY <1>1, WFMin, Zenon
<1>4. PICK x \in T : \A y \in T : ~(<<y, x>> \in R)
  BY <1>3, Zenon
<1>5. \A y \in T : ~(y < x)
  <2> HIDE DEF R
  <2> QED BY <1>2, <1>4, Zenon
<1>6. \A y \in T : x <= y
  BY <1>5
<1> QED BY <1>6

\* Induction along 0..N, in terms of the set of the good places.
LEMMA Upward ==
    ASSUME NEW N \in Nat, NEW Good, 0 \in Good,
           \A n \in 1..N : n - 1 \in Good => n \in Good
    PROVE  \A n \in 0..N : n \in Good
<1> DEFINE Bad == {n \in 0..N : n \notin Good}
<1> SUFFICES ASSUME Bad # {} PROVE FALSE
  OBVIOUS
<1>1. PICK m \in Bad : \A n \in Bad : m <= n
  <2>1. Bad \in SUBSET Nat
    OBVIOUS
  <2> HIDE DEF Bad
  <2> QED BY <2>1, LeastNatural
<1>2. m \in 1..N /\ m - 1 \in 0..N /\ ~(m <= m - 1)
  OBVIOUS
<1> QED BY <1>1, <1>2

\* f[n] is the n-th step of a recursion; it stays within A, where A[n] is the set of the
\* values that an invariant allows after n steps.
Closed(N, A, f) == \A n \in 1..N : \A a \in A[n - 1] : f[n][a] \in A[n]

\* The recursion along 1..N has a solution.
Solved(N, V, base, f) ==
    \E g \in [0..N -> V] : g[0] = base /\ \A n \in 1..N : g[n] = f[n][g[n - 1]]

\* A recursion that stays within A has a solution.
LEMMA Accumulates ==
    \A N \in Nat : \A V, A, base, f :
        (A \in [0..N -> SUBSET V] /\ base \in A[0] /\ Closed(N, A, f)) => Solved(N, V, base, f)
<1> SUFFICES ASSUME NEW N \in Nat, NEW V, NEW A, NEW base, NEW f,
                    A \in [0..N -> SUBSET V], base \in A[0], Closed(N, A, f)
             PROVE  Solved(N, V, base, f)
  OBVIOUS
<1>0. \A n \in 1..N : \A a \in A[n - 1] : f[n][a] \in A[n]
  BY DEF Closed
<1> DEFINE Upto(m, g) == /\ g \in [0..m -> V] /\ g[0] = base
                         /\ \A n \in 1..m : g[n] = f[n][g[n - 1]]
                         /\ \A n \in 0..m : g[n] \in A[n]
           Short == {m \in 0..N : \A g \in [0..m -> V] : ~Upto(m, g)}
<1> SUFFICES ASSUME \A g \in [0..N -> V] : ~Upto(N, g) PROVE FALSE
  BY DEF Solved
<1>1. N \in Short
  OBVIOUS
<1>2. PICK m \in Short : \A n \in Short : m <= n
  <2>1. Short \in SUBSET Nat
    OBVIOUS
  <2> HIDE DEF Short
  <2> QED BY <1>1, <2>1, LeastNatural
<1>3. m \in 0..N
  OBVIOUS
<1>4. m # 0
  <2> SUFFICES ASSUME m = 0 PROVE FALSE
    OBVIOUS
  <2> DEFINE g == [n \in 0..0 |-> base]
  <2>1. 0 \in 0..N /\ base \in V
    OBVIOUS
  <2>2. g \in [0..0 -> V]
    BY <2>1
  <2>3. g[0] = base /\ \A n \in 0..0 : g[n] \in A[n]
    OBVIOUS
  <2> HIDE DEF g
  <2>4. Upto(0, g)
    BY <2>2, <2>3
  <2> QED BY <2>2, <2>4
<1>5. m \in Nat \ {0} /\ m - 1 \in 0..N /\ ~(m <= m - 1)
  BY <1>3, <1>4
<1>6. PICK g \in [0..(m - 1) -> V] : Upto(m - 1, g)
  BY <1>2, <1>5
<1> DEFINE h == [n \in 0..m |-> IF n = m THEN f[m][g[m - 1]] ELSE g[n]]
<1>7. f[m][g[m - 1]] \in A[m]
  BY <1>0, <1>3, <1>5, <1>6
<1>8. h \in [0..m -> V]
  <2>1. f[m][g[m - 1]] \in V
    BY <1>3, <1>7
  <2>2. \A n \in 0..m : n # m => n \in 0..(m - 1)
    BY <1>5
  <2> QED BY <1>5, <1>6, <2>1, <2>2
<1>9. h[0] = base
  BY <1>5, <1>6
<1>10. ASSUME NEW n \in 1..m PROVE h[n] = f[n][h[n - 1]]
  <2>1. n - 1 \in 0..m /\ n - 1 # m /\ h[n - 1] = g[n - 1]
    BY <1>5
  <2>2. CASE n = m
    BY <2>1, <2>2, <1>5
  <2>3. CASE n # m
    BY <2>1, <2>3, <1>5, <1>6
  <2> QED BY <2>2, <2>3
<1>11. ASSUME NEW n \in 0..m PROVE h[n] \in A[n]
  <2>1. n # m => n \in 0..(m - 1)
    BY <1>5
  <2> QED BY <2>1, <1>6, <1>7
<1> HIDE DEF h
<1>12. Upto(m, h)
  BY <1>8, <1>9, <1>10, <1>11
<1> QED BY <1>8, <1>12

\* What Append adds to the elements of a sequence.
LEMMA AppendAdds ==
    ASSUME NEW X, NEW s \in Seq(X), NEW x \in X
    PROVE  Append(s, x) \in Seq(X) /\ ToSet(Append(s, x)) = ToSet(s) \cup {x}
<1> DEFINE t == Append(s, x)
<1>1. /\ t \in Seq(X) /\ Len(t) = Len(s) + 1 /\ Len(s) \in Nat
      /\ DOMAIN t = 1..Len(t) /\ DOMAIN s = 1..Len(s)
      /\ \A i \in 1..Len(s) : t[i] = s[i]
      /\ t[Len(s) + 1] = x
  OBVIOUS
<1> HIDE DEF t
<1>2. \A i \in DOMAIN t : t[i] \in ToSet(s) \cup {x}
  BY <1>1 DEF ToSet
<1>3. \A i \in DOMAIN s : i \in DOMAIN t /\ t[i] = s[i]
  BY <1>1
<1>4. Len(s) + 1 \in DOMAIN t
  BY <1>1
<1>5. ToSet(t) = ToSet(s) \cup {x}
  BY <1>1, <1>2, <1>3, <1>4 DEF ToSet
<1> QED BY <1>1, <1>5 DEF t

\* What a list holds beyond its head.
LEMMA TailHolds ==
    ASSUME NEW X, NEW s \in Seq(X), s # <<>>
    PROVE  /\ Head(s) \in X /\ Tail(s) \in Seq(X)
           /\ ToSet(s) = {Head(s)} \cup ToSet(Tail(s))
<1>1. /\ Len(s) \in Nat /\ Len(s) > 0 /\ Head(s) = s[1] /\ Head(s) \in X
      /\ Tail(s) \in Seq(X) /\ Len(Tail(s)) = Len(s) - 1
  OBVIOUS
<1>2. ASSUME NEW i \in 1..Len(s) - 1 PROVE Tail(s)[i] = s[i + 1]
  BY <1>1
<1>3. ToSet(s) = {s[i] : i \in 1..Len(s)} /\ ToSet(Tail(s)) = {Tail(s)[i] : i \in 1..Len(s) - 1}
  <2>1. \A t \in Seq(X) : ToSet(t) = {t[i] : i \in 1..Len(t)}
    BY DEF ToSet
  <2> QED BY <1>1, <2>1
<1>4. ASSUME NEW i \in 1..Len(s), i # 1 PROVE s[i] \in ToSet(Tail(s))
  <2>1. i - 1 \in 1..Len(s) - 1 /\ (i - 1) + 1 = i
    BY <1>1, <1>4
  <2>2. Tail(s)[i - 1] = s[i]
    BY <1>2, <2>1
  <2> QED BY <1>3, <2>1, <2>2
<1>5. ASSUME NEW i \in 1..Len(s) - 1 PROVE Tail(s)[i] \in ToSet(s)
  <2>1. i + 1 \in 1..Len(s)
    BY <1>1
  <2> QED BY <1>2, <1>3, <2>1
<1>6. s[1] \in ToSet(s)
  BY <1>1, <1>3
<1> QED BY <1>1, <1>3, <1>4, <1>5, <1>6

\* A comprehension: what its list is like after n elements were looked at, for each n.
LEMMA KeepingLoop ==
    ASSUME NEW X, NEW seq \in Seq(X), NEW S, NEW A \in [0..Len(seq) -> SUBSET Seq(X)],
           <<>> \in A[0],
           \A n \in 1..Len(seq) : \A k \in A[n - 1] :
               (IF seq[n] \in S THEN Append(k, seq[n]) ELSE k) \in A[n]
    PROVE  Keeping(S, seq) \in A[Len(seq)]
<1> DEFINE N == Len(seq)
           V == Seq(X)
           first == <<>>
           Next(k, n) == IF seq[n] \in S THEN Append(k, seq[n]) ELSE k
           Eqn(a) == a = [n \in 0..N |->
               IF n = 0 THEN first ELSE CHOOSE r \in {Next(k, n) : k \in {a[n - 1]}} : TRUE]
           F == CHOOSE a : Eqn(a)
<1>1. Keeping(S, seq) = F[N]
  BY DEF Keeping, Iterate
<1>2. N \in Nat /\ first \in A[0] /\ A \in [0..N -> SUBSET V]
  OBVIOUS
<1>3. \A n \in 1..N : \A k \in A[n - 1] : Next(k, n) \in A[n]
  OBVIOUS
<1>4. 0 \in 0..N /\ \A n \in 1..N : n \in 0..N /\ n - 1 \in 0..N
  BY <1>2
<1> HIDE DEF N, V, first, Next
<1>5. \E a : Eqn(a)
  <2> DEFINE f == [n \in 1..N |-> [k \in V |-> Next(k, n)]]
  <2>1. \A n \in 1..N : \A k \in V : f[n][k] = Next(k, n)
    OBVIOUS
  <2> HIDE DEF f
  <2>2. PICK g \in [0..N -> V] : g[0] = first /\ \A n \in 1..N : g[n] = f[n][g[n - 1]]
    <3>1. Closed(N, A, f)
      BY <1>2, <1>3, <1>4, <2>1 DEF Closed
    <3>2. Solved(N, V, first, f)
      BY <1>2, <3>1, Accumulates
    <3> QED BY <3>2 DEF Solved
  <2>3. ASSUME NEW n \in 0..N
        PROVE  g[n] = IF n = 0 THEN first
                      ELSE CHOOSE r \in {Next(k, n) : k \in {g[n - 1]}} : TRUE
    <3>1. CASE n = 0
      BY <2>2, <3>1
    <3>2. CASE n \in 1..N
      <4>1. g[n - 1] \in V
        BY <1>4, <3>2
      <4>2. {Next(k, n) : k \in {g[n - 1]}} = {Next(g[n - 1], n)}
        OBVIOUS
      <4>3. (CHOOSE r \in {Next(g[n - 1], n)} : TRUE) = Next(g[n - 1], n)
        OBVIOUS
      <4> QED BY <1>2, <2>1, <2>2, <3>2, <4>1, <4>2, <4>3
    <3> QED BY <1>2, <3>1, <3>2
  <2>4. Eqn(g)
    BY <2>3
  <2> QED BY <2>4
<1>6. Eqn(F)
  BY <1>5
<1>7. F[0] = first /\ \A n \in 1..N : F[n] = Next(F[n - 1], n)
  <2> HIDE DEF F
  <2> QED BY <1>2, <1>6
<1> HIDE DEF F
<1>8. \A n \in 0..N : F[n] \in A[n]
  <2> DEFINE Done == {n \in 0..N : F[n] \in A[n]}
  <2>1. 0 \in Done
    BY <1>2, <1>4, <1>7
  <2>2. \A n \in 1..N : n - 1 \in Done => n \in Done
    BY <1>3, <1>4, <1>7
  <2>3. \A n \in 0..N : n \in Done
    <3> HIDE DEF Done
    <3> QED BY <1>2, <2>1, <2>2, Upward
  <2> QED BY <2>3
<1>9. Keeping(S, seq) \in A[N]
  BY <1>1, <1>2, <1>8
<1> QED BY <1>9 DEF N

\* Keeping is a sequence of the elements of seq that are in S.
LEMMA KeepingKeeps ==
    ASSUME NEW X, NEW seq \in Seq(X), NEW S
    PROVE  Keeping(S, seq) \in Seq(X) /\ ToSet(Keeping(S, seq)) = ToSet(seq) \cap S
<1> DEFINE N == Len(seq)
           Kept(n) == {k \in Seq(X) : ToSet(k) = {seq[i] : i \in 1..n} \cap S}
           A == [n \in 0..N |-> Kept(n)]
<1>1. ASSUME NEW n \in 1..N, NEW k \in Kept(n - 1)
      PROVE  (IF seq[n] \in S THEN Append(k, seq[n]) ELSE k) \in Kept(n)
  <2>1. seq[n] \in X /\ {seq[i] : i \in 1..n} = {seq[i] : i \in 1..(n - 1)} \cup {seq[n]}
    OBVIOUS
  <2>2. /\ ToSet(Append(k, seq[n])) = ToSet(k) \cup {seq[n]}
        /\ Append(k, seq[n]) \in Seq(X)
    BY <2>1, AppendAdds
  <2> QED BY <2>1, <2>2
<1>2. <<>> \in Kept(0)
  BY DEF ToSet
<1>3. N \in Nat /\ {seq[i] : i \in 1..N} = ToSet(seq)
  BY DEF ToSet
<1>4. A \in [0..N -> SUBSET Seq(X)] /\ \A n \in 0..N : A[n] = Kept(n)
  OBVIOUS
<1>5. Keeping(S, seq) \in A[N]
  <2> HIDE DEF Kept, A
  <2>1. \A n \in 1..N : n \in 0..N /\ n - 1 \in 0..N
    BY <1>3
  <2>2. ASSUME NEW n \in 1..N, NEW k \in A[n - 1]
        PROVE  (IF seq[n] \in S THEN Append(k, seq[n]) ELSE k) \in A[n]
    <3>1. A[n] = Kept(n) /\ A[n - 1] = Kept(n - 1)
      BY <1>4, <2>1
    <3>2. k \in Kept(n - 1)
      BY <3>1
    <3>3. (IF seq[n] \in S THEN Append(k, seq[n]) ELSE k) \in Kept(n)
      BY <1>1, <3>2, Zenon
    <3> QED BY <3>1, <3>3, Zenon
  <2>3. <<>> \in A[0]
    BY <1>2, <1>3, <1>4
  <2> QED BY <1>4, <2>2, <2>3, KeepingLoop
<1>6. Keeping(S, seq) \in Kept(N)
  <2> HIDE DEF A, Kept
  <2> QED BY <1>3, <1>4, <1>5
<1> QED BY <1>3, <1>6

\* The elements of a list, each related to all that follow it.
InTurn(R, s) == \A i, j \in 1..Len(s) : i < j => <<s[i], s[j]>> \in R

\* A list grows in order when what is added is related to all that is there.
LEMMA AppendInTurn ==
    ASSUME NEW X, NEW R, NEW s \in Seq(X), NEW x \in X, InTurn(R, s),
           \A y \in ToSet(s) : <<y, x>> \in R
    PROVE  InTurn(R, Append(s, x))
<1>1. /\ Len(Append(s, x)) = Len(s) + 1 /\ Len(s) \in Nat /\ DOMAIN s = 1..Len(s)
      /\ \A i \in 1..Len(s) : Append(s, x)[i] = s[i]
      /\ Append(s, x)[Len(s) + 1] = x
  OBVIOUS
<1>2. \A i \in 1..Len(s) : s[i] \in ToSet(s)
  BY <1>1 DEF ToSet
<1> SUFFICES ASSUME NEW i \in 1..Len(s) + 1, NEW j \in 1..Len(s) + 1, i < j
             PROVE  <<Append(s, x)[i], Append(s, x)[j]>> \in R
  BY <1>1 DEF InTurn
<1>3. i \in 1..Len(s) /\ (j \in 1..Len(s) \/ j = Len(s) + 1)
  BY <1>1
<1> QED BY <1>1, <1>2, <1>3 DEF InTurn

\* Keeping keeps the order.
LEMMA KeepingInTurn ==
    ASSUME NEW X, NEW seq \in Seq(X), NEW S, NEW R, InTurn(R, seq)
    PROVE  InTurn(R, Keeping(S, seq))
<1> DEFINE N == Len(seq)
           Kept(n) == {k \in Seq(X) : ToSet(k) \subseteq {seq[i] : i \in 1..n} /\ InTurn(R, k)}
           A == [n \in 0..N |-> Kept(n)]
<1>1. ASSUME NEW n \in 1..N, NEW k \in Kept(n - 1)
      PROVE  (IF seq[n] \in S THEN Append(k, seq[n]) ELSE k) \in Kept(n)
  <2>1. seq[n] \in X /\ {seq[i] : i \in 1..n} = {seq[i] : i \in 1..(n - 1)} \cup {seq[n]}
    OBVIOUS
  <2>2. /\ ToSet(Append(k, seq[n])) = ToSet(k) \cup {seq[n]}
        /\ Append(k, seq[n]) \in Seq(X)
    BY <2>1, AppendAdds
  <2>3. \A i \in 1..(n - 1) : <<seq[i], seq[n]>> \in R
    BY DEF InTurn
  <2>4. InTurn(R, Append(k, seq[n]))
    BY <2>1, <2>3, AppendInTurn
  <2> QED BY <2>1, <2>2, <2>4
<1>2. <<>> \in Kept(0)
  BY DEF ToSet, InTurn
<1>3. N \in Nat
  OBVIOUS
<1>4. A \in [0..N -> SUBSET Seq(X)] /\ \A n \in 0..N : A[n] = Kept(n)
  OBVIOUS
<1>5. Keeping(S, seq) \in A[N]
  <2> HIDE DEF Kept, A
  <2>1. \A n \in 1..N : n \in 0..N /\ n - 1 \in 0..N
    BY <1>3
  <2>2. ASSUME NEW n \in 1..N, NEW k \in A[n - 1]
        PROVE  (IF seq[n] \in S THEN Append(k, seq[n]) ELSE k) \in A[n]
    <3>1. A[n] = Kept(n) /\ A[n - 1] = Kept(n - 1)
      BY <1>4, <2>1
    <3>2. k \in Kept(n - 1)
      BY <3>1
    <3>3. (IF seq[n] \in S THEN Append(k, seq[n]) ELSE k) \in Kept(n)
      BY <1>1, <3>2, Zenon
    <3> QED BY <3>1, <3>3, Zenon
  <2>3. <<>> \in A[0]
    BY <1>2, <1>3, <1>4
  <2> QED BY <1>4, <2>2, <2>3, KeepingLoop
<1>6. Keeping(S, seq) \in Kept(N)
  <2> HIDE DEF A, Kept
  <2> QED BY <1>3, <1>4, <1>5
<1> QED BY <1>6

-----------------------------------------------------------------------------
(* The order of a batch *)

LEMMA ConcatHolds ==
    ASSUME NEW X, NEW s \in Seq(X), NEW t \in Seq(X)
    PROVE  s \o t \in Seq(X) /\ ToSet(s \o t) = ToSet(s) \cup ToSet(t)
<1> DEFINE u == s \o t
<1>1. /\ u \in Seq(X) /\ Len(u) = Len(s) + Len(t) /\ Len(s) \in Nat /\ Len(t) \in Nat
      /\ DOMAIN u = 1..Len(u) /\ DOMAIN s = 1..Len(s) /\ DOMAIN t = 1..Len(t)
      /\ \A i \in 1..Len(u) : u[i] = IF i <= Len(s) THEN s[i] ELSE t[i - Len(s)]
  OBVIOUS
<1> HIDE DEF u
<1>2. \A i \in DOMAIN u : u[i] \in ToSet(s) \cup ToSet(t)
  <2> SUFFICES ASSUME NEW i \in DOMAIN u PROVE u[i] \in ToSet(s) \cup ToSet(t)
    OBVIOUS
  <2>1. CASE i <= Len(s)
    BY <1>1, <2>1 DEF ToSet
  <2>2. CASE ~(i <= Len(s))
    <3>1. i - Len(s) \in DOMAIN t /\ u[i] = t[i - Len(s)]
      BY <1>1, <2>2
    <3> QED BY <3>1 DEF ToSet
  <2> QED BY <2>1, <2>2
<1>3. \A i \in DOMAIN s : i \in DOMAIN u /\ u[i] = s[i]
  BY <1>1
<1>4. \A i \in DOMAIN t : i + Len(s) \in DOMAIN u /\ u[i + Len(s)] = t[i]
  BY <1>1
<1>5. ToSet(u) = ToSet(s) \cup ToSet(t)
  <2>1. ToSet(u) \subseteq ToSet(s) \cup ToSet(t)
    BY <1>2 DEF ToSet
  <2>2. ToSet(s) \subseteq ToSet(u)
    BY <1>3 DEF ToSet
  <2>3. ToSet(t) \subseteq ToSet(u)
    BY <1>4 DEF ToSet
  <2> QED BY <2>1, <2>2, <2>3
<1> QED BY <1>1, <1>5 DEF u

LEMMA ReverseHolds ==
    ASSUME NEW X, NEW s \in Seq(X)
    PROVE  Reverse(s) \in Seq(X) /\ ToSet(Reverse(s)) = ToSet(s)
<1> DEFINE u == Reverse(s)
<1>1. u = [i \in 1..Len(s) |-> s[(Len(s) - i) + 1]] /\ Len(s) \in Nat /\ DOMAIN s = 1..Len(s)
  BY DEF Reverse
<1> HIDE DEF u
<1>2. \A i \in 1..Len(s) : (Len(s) - i) + 1 \in 1..Len(s)
  BY <1>1
<1>3. u \in Seq(X)
  <2>1. \A i \in 1..Len(s) : s[(Len(s) - i) + 1] \in X
    BY <1>2
  <2> QED BY <1>1, <2>1
<1>4. \A i \in 1..Len(s) : u[i] = s[(Len(s) - i) + 1]
  BY <1>1
<1>5. \A i \in 1..Len(s) : u[(Len(s) - i) + 1] = s[i]
  <2>1. \A i \in 1..Len(s) : (Len(s) - ((Len(s) - i) + 1)) + 1 = i
    BY <1>1
  <2> QED BY <1>2, <1>4, <2>1
<1>6. DOMAIN u = 1..Len(s)
  BY <1>1
<1>7. ToSet(u) = ToSet(s)
  BY <1>1, <1>2, <1>4, <1>5, <1>6 DEF ToSet
<1> QED BY <1>3, <1>7 DEF u

\* Two lists in order, and everything of the first related to everything of the second.
LEMMA ConcatInTurn ==
    ASSUME NEW X, NEW R, NEW s \in Seq(X), NEW t \in Seq(X), InTurn(R, s), InTurn(R, t),
           \A x \in ToSet(s), y \in ToSet(t) : <<x, y>> \in R
    PROVE  InTurn(R, s \o t)
<1> DEFINE u == s \o t
<1>1. /\ Len(u) = Len(s) + Len(t) /\ Len(s) \in Nat /\ Len(t) \in Nat
      /\ DOMAIN s = 1..Len(s) /\ DOMAIN t = 1..Len(t)
      /\ \A i \in 1..Len(u) : u[i] = IF i <= Len(s) THEN s[i] ELSE t[i - Len(s)]
  OBVIOUS
<1> HIDE DEF u
<1>2. /\ \A i \in 1..Len(s) : s[i] \in ToSet(s)
      /\ \A i \in 1..Len(t) : t[i] \in ToSet(t)
  BY <1>1 DEF ToSet
<1>3. ASSUME NEW i \in 1..Len(u), NEW j \in 1..Len(u), i < j PROVE <<u[i], u[j]>> \in R
  <2>1. CASE j <= Len(s)
    <3>1. i \in 1..Len(s) /\ j \in 1..Len(s) /\ u[i] = s[i] /\ u[j] = s[j]
      BY <1>1, <1>3, <2>1
    <3> QED BY <1>3, <3>1 DEF InTurn
  <2>2. CASE i <= Len(s) /\ ~(j <= Len(s))
    <3>1. i \in 1..Len(s) /\ j - Len(s) \in 1..Len(t) /\ u[i] = s[i] /\ u[j] = t[j - Len(s)]
      BY <1>1, <2>2
    <3> QED BY <1>2, <3>1
  <2>3. CASE ~(i <= Len(s))
    <3>1. /\ i - Len(s) \in 1..Len(t) /\ j - Len(s) \in 1..Len(t)
          /\ i - Len(s) < j - Len(s)
          /\ u[i] = t[i - Len(s)] /\ u[j] = t[j - Len(s)]
      BY <1>1, <1>3, <2>3
    <3> QED BY <3>1 DEF InTurn
  <2> QED BY <1>1, <1>3, <2>1, <2>2, <2>3
<1>4. InTurn(R, u)
  BY <1>3 DEF InTurn
<1> QED BY <1>4 DEF u

\* No element twice.
Unlike(X) == {pair \in X \X X : pair[1] # pair[2]}

LEMMA ReverseUnlike ==
    ASSUME NEW X, NEW s \in Seq(X), InTurn(Unlike(X), s)
    PROVE  InTurn(Unlike(X), Reverse(s))
<1> DEFINE u == Reverse(s)
<1>1. /\ u = [i \in 1..Len(s) |-> s[(Len(s) - i) + 1]] /\ Len(s) \in Nat
      /\ u \in Seq(X) /\ Len(u) = Len(s)
  BY ReverseHolds DEF Reverse
<1> HIDE DEF u
<1>2. ASSUME NEW i \in 1..Len(u), NEW j \in 1..Len(u), i < j
      PROVE  <<u[i], u[j]>> \in Unlike(X)
  <2> DEFINE a == (Len(s) - i) + 1
             b == (Len(s) - j) + 1
  <2>1. a \in 1..Len(s) /\ b \in 1..Len(s) /\ b < a /\ u[i] = s[a] /\ u[j] = s[b]
    BY <1>1, <1>2
  <2> HIDE DEF a, b
  <2>2. <<s[b], s[a]>> \in Unlike(X)
    BY <2>1 DEF InTurn
  <2> QED BY <2>1, <2>2 DEF Unlike
<1>3. InTurn(Unlike(X), u)
  BY <1>2 DEF InTurn
<1> QED BY <1>3 DEF u

\* visit(): the chain of a move has the move in it, and otherwise moves of the batch that
\* were not visited before, none of them twice.
LEMMA ChainHolds ==
    ASSUME NEW X, NEW moves \in Seq(X), NEW paths, NEW w, NEW permanent, NEW m \in X
    PROVE  LET chain == VisitChain(moves, paths, w, permanent, m)
           IN  /\ chain \in Seq(X) /\ m \in ToSet(chain)
               /\ ToSet(chain) \subseteq ToSet(moves) \cup {m}
               /\ InTurn(Unlike(X), chain)
               /\ m \notin permanent => ToSet(chain) \cap permanent = {}
<1> DEFINE N == Len(moves)
           V == Seq(X)
           first == <<m>>
           Deps(k) == Dependency(moves, paths, w, Last(k)) \ (permanent \cup ToSet(k))
           Next(k, n) == IF Deps(k) = {} THEN k ELSE Append(k, CHOOSE d \in Deps(k) : TRUE)
           Eqn(a) == a = [n \in 0..N |->
               IF n = 0 THEN first ELSE CHOOSE r \in {Next(k, n) : k \in {a[n - 1]}} : TRUE]
           F == CHOOSE a : Eqn(a)
           After(n) == {k \in V : /\ m \in ToSet(k) /\ ToSet(k) \subseteq ToSet(moves) \cup {m}
                                  /\ InTurn(Unlike(X), k)
                                  /\ m \notin permanent => ToSet(k) \cap permanent = {}}
<1>1. VisitChain(moves, paths, w, permanent, m) = F[N]
  BY DEF VisitChain, Iterate
<1>2. N \in Nat
  OBVIOUS
<1>3. ASSUME NEW n \in 1..N, NEW k \in After(n - 1) PROVE Next(k, n) \in After(n)
  <2>1. /\ k \in Seq(X) /\ m \in ToSet(k) /\ ToSet(k) \subseteq ToSet(moves) \cup {m}
        /\ InTurn(Unlike(X), k) /\ (m \notin permanent => ToSet(k) \cap permanent = {})
    OBVIOUS
  <2>2. /\ Deps(k) \subseteq X /\ Deps(k) \subseteq ToSet(moves)
        /\ Deps(k) \cap (permanent \cup ToSet(k)) = {}
    <3>1. ToSet(moves) \subseteq X
      BY DEF ToSet
    <3>2. Deps(k) \subseteq ToSet(moves)
      BY DEF Dependency
    <3> QED BY <3>1, <3>2
  <2>3. CASE Deps(k) = {}
    BY <2>1, <2>3
  <2>4. CASE Deps(k) # {}
    <3> DEFINE d == CHOOSE d \in Deps(k) : TRUE
    <3> HIDE DEF Deps
    <3>1. d \in X /\ d \in ToSet(moves) /\ d \notin permanent /\ d \notin ToSet(k)
      BY <2>2, <2>4
    <3> HIDE DEF d
    <3>2. Append(k, d) \in Seq(X) /\ ToSet(Append(k, d)) = ToSet(k) \cup {d}
      BY <2>1, <3>1, AppendAdds
    <3>3. InTurn(Unlike(X), Append(k, d))
      <4>1. \A y \in ToSet(k) : <<y, d>> \in Unlike(X)
        BY <2>1, <3>1 DEF ToSet, Unlike
      <4> QED BY <2>1, <3>1, <4>1, AppendInTurn
    <3>4. Append(k, d) \in After(n)
      BY <2>1, <3>1, <3>2, <3>3
    <3> QED BY <2>4, <3>4 DEF d
  <2> QED BY <2>3, <2>4
<1>4. first \in After(0)
  BY DEF ToSet, InTurn
<1>5. \E a : Eqn(a)
  <2> DEFINE A == [n \in 0..N |-> After(n)]
             f == [n \in 1..N |-> [k \in V |-> Next(k, n)]]
  <2>1. \A n \in 0..N : After(n) \subseteq V
    OBVIOUS
  <2> HIDE DEF N, Next, After, V, first
  <2>2. A \in [0..N -> SUBSET V] /\ \A n \in 0..N : A[n] = After(n)
    BY <2>1
  <2>3. \A n \in 1..N : \A k \in V : f[n][k] = Next(k, n)
    OBVIOUS
  <2>4. 0 \in 0..N /\ \A n \in 1..N : n \in 0..N /\ n - 1 \in 0..N
    BY <1>2
  <2> HIDE DEF A, f
  <2>5. \A n \in 1..N : \A k \in A[n - 1] : f[n][k] \in A[n]
    BY <1>3, <2>1, <2>2, <2>3, <2>4
  <2>6. first \in A[0]
    BY <1>4, <2>2, <2>4
  <2>7. PICK g \in [0..N -> V] : g[0] = first /\ \A n \in 1..N : g[n] = f[n][g[n - 1]]
    <3>1. Closed(N, A, f)
      BY <2>5 DEF Closed
    <3>2. Solved(N, V, first, f)
      BY <1>2, <2>2, <2>6, <3>1, Accumulates
    <3> QED BY <3>2 DEF Solved
  <2>8. ASSUME NEW n \in 0..N
        PROVE  g[n] = IF n = 0 THEN first
                      ELSE CHOOSE r \in {Next(k, n) : k \in {g[n - 1]}} : TRUE
    <3>1. CASE n = 0
      BY <2>7, <3>1
    <3>2. CASE n \in 1..N
      <4>1. g[n - 1] \in V
        BY <2>4, <3>2
      <4>2. {Next(k, n) : k \in {g[n - 1]}} = {Next(g[n - 1], n)}
        OBVIOUS
      <4>3. (CHOOSE r \in {Next(g[n - 1], n)} : TRUE) = Next(g[n - 1], n)
        OBVIOUS
      <4> QED BY <1>2, <2>3, <2>7, <3>2, <4>1, <4>2, <4>3
    <3> QED BY <1>2, <3>1, <3>2
  <2>9. Eqn(g)
    BY <2>8
  <2> QED BY <2>9
<1>6. Eqn(F)
  BY <1>5
<1>7. F[0] = first /\ \A n \in 1..N : F[n] = Next(F[n - 1], n)
  <2> HIDE DEF Next, F, N, first
  <2> QED BY <1>2, <1>6
<1>8. \A n \in 0..N : F[n] \in After(n)
  <2> DEFINE Done == {n \in 0..N : F[n] \in After(n)}
  <2> HIDE DEF F, N, After, Next, first
  <2>1. 0 \in 0..N /\ \A n \in 1..N : n \in 0..N /\ n - 1 \in 0..N
    BY <1>2
  <2>2. 0 \in Done
    BY <1>4, <1>7, <2>1
  <2>3. \A n \in 1..N : n - 1 \in Done => n \in Done
    BY <1>3, <1>7, <2>1
  <2>4. \A n \in 0..N : n \in Done
    <3> HIDE DEF Done
    <3> QED BY <1>2, <2>2, <2>3, Upward
  <2> QED BY <2>4
<1>9. F[N] \in After(N)
  <2> HIDE DEF F, N, After
  <2> QED BY <1>2, <1>8
<1> QED
  <2> HIDE DEF F
  <2> QED BY <1>1, <1>9

\* The order in which the moves are made leaves none of them out, adds none
\* and makes none twice.
LEMMA VisitHolds ==
    ASSUME NEW X, NEW moves \in Seq(X), NEW paths, NEW w
    PROVE  LET visited == VisitMoves(moves, paths, w)
           IN  /\ visited \in Seq(X) /\ ToSet(visited) = ToSet(moves)
               /\ InTurn(Unlike(X), visited)
<1> DEFINE N == Len(moves)
           V == Seq(X)
           first == <<>>
           Chain(k, n) == VisitChain(moves, paths, w, ToSet(k), moves[n])
           Next(k, n) == IF moves[n] \in ToSet(k) THEN k ELSE k \o Reverse(Chain(k, n))
           Eqn(a) == a = [n \in 0..N |->
               IF n = 0 THEN first ELSE CHOOSE r \in {Next(k, n) : k \in {a[n - 1]}} : TRUE]
           F == CHOOSE a : Eqn(a)
           After(n) == {k \in V : /\ ToSet(k) \subseteq ToSet(moves) /\ InTurn(Unlike(X), k)
                                  /\ \A i \in 1..n : moves[i] \in ToSet(k)}
<1>1. VisitMoves(moves, paths, w) = F[N]
  BY DEF VisitMoves, Iterate
<1>2. N \in Nat
  OBVIOUS
<1>3. ASSUME NEW n \in 1..N, NEW k \in After(n - 1) PROVE Next(k, n) \in After(n)
  <2>1. /\ k \in Seq(X) /\ ToSet(k) \subseteq ToSet(moves) /\ InTurn(Unlike(X), k)
        /\ moves[n] \in X /\ moves[n] \in ToSet(moves)
        /\ \A i \in 1..(n - 1) : moves[i] \in ToSet(k)
    <3>1. moves[n] \in X /\ moves[n] \in ToSet(moves)
      BY DEF ToSet
    <3> QED BY <3>1
  <2>2. \A i \in 1..n : i \in 1..(n - 1) \/ i = n
    OBVIOUS
  <2>3. CASE moves[n] \in ToSet(k)
    BY <2>1, <2>2, <2>3
  <2>4. CASE moves[n] \notin ToSet(k)
    <3> DEFINE c == Chain(k, n)
               u == k \o Reverse(c)
    <3>1. /\ c \in Seq(X) /\ moves[n] \in ToSet(c) /\ ToSet(c) \subseteq ToSet(moves)
          /\ InTurn(Unlike(X), c) /\ ToSet(c) \cap ToSet(k) = {}
      BY <2>1, <2>4, ChainHolds
    <3> HIDE DEF c
    <3>2. /\ Reverse(c) \in Seq(X) /\ ToSet(Reverse(c)) = ToSet(c)
          /\ InTurn(Unlike(X), Reverse(c))
      BY <3>1, ReverseHolds, ReverseUnlike
    <3>3. u \in Seq(X) /\ ToSet(u) = ToSet(k) \cup ToSet(c)
      BY <2>1, <3>2, ConcatHolds
    <3>4. InTurn(Unlike(X), u)
      <4>1. \A x \in ToSet(k), y \in ToSet(Reverse(c)) : <<x, y>> \in Unlike(X)
        <5>1. \A x \in ToSet(k), y \in ToSet(c) : x \in X /\ y \in X
          BY <2>1, <3>1 DEF ToSet
        <5>2. \A x \in ToSet(k), y \in ToSet(c) : x # y
          BY <3>1
        <5> QED BY <3>2, <5>1, <5>2 DEF Unlike
      <4> QED BY <2>1, <3>2, <4>1, ConcatInTurn
    <3>5. Next(k, n) = u
      BY <2>4 DEF c
    <3> HIDE DEF u, Next
    <3>6. \A i \in 1..n : moves[i] \in ToSet(u)
      BY <2>1, <2>2, <3>1, <3>3
    <3> QED BY <2>1, <3>1, <3>3, <3>4, <3>5, <3>6
  <2> QED BY <2>3, <2>4
<1>4. first \in After(0)
  BY DEF ToSet, InTurn
<1>5. \E a : Eqn(a)
  <2> DEFINE A == [n \in 0..N |-> After(n)]
             f == [n \in 1..N |-> [k \in V |-> Next(k, n)]]
  <2>1. \A n \in 0..N : After(n) \subseteq V
    OBVIOUS
  <2> HIDE DEF N, Next, After, V, first
  <2>2. A \in [0..N -> SUBSET V] /\ \A n \in 0..N : A[n] = After(n)
    BY <2>1
  <2>3. \A n \in 1..N : \A k \in V : f[n][k] = Next(k, n)
    OBVIOUS
  <2>4. 0 \in 0..N /\ \A n \in 1..N : n \in 0..N /\ n - 1 \in 0..N
    BY <1>2
  <2> HIDE DEF A, f
  <2>5. \A n \in 1..N : \A k \in A[n - 1] : f[n][k] \in A[n]
    BY <1>3, <2>1, <2>2, <2>3, <2>4
  <2>6. first \in A[0]
    BY <1>4, <2>2, <2>4
  <2>7. PICK g \in [0..N -> V] : g[0] = first /\ \A n \in 1..N : g[n] = f[n][g[n - 1]]
    <3>1. Closed(N, A, f)
      BY <2>5 DEF Closed
    <3>2. Solved(N, V, first, f)
      BY <1>2, <2>2, <2>6, <3>1, Accumulates
    <3> QED BY <3>2 DEF Solved
  <2>8. ASSUME NEW n \in 0..N
        PROVE  g[n] = IF n = 0 THEN first
                      ELSE CHOOSE r \in {Next(k, n) : k \in {g[n - 1]}} : TRUE
    <3>1. CASE n = 0
      BY <2>7, <3>1
    <3>2. CASE n \in 1..N
      <4>1. g[n - 1] \in V
        BY <2>4, <3>2
      <4>2. {Next(k, n) : k \in {g[n - 1]}} = {Next(g[n - 1], n)}
        OBVIOUS
      <4>3. (CHOOSE r \in {Next(g[n - 1], n)} : TRUE) = Next(g[n - 1], n)
        OBVIOUS
      <4> QED BY <1>2, <2>3, <2>7, <3>2, <4>1, <4>2, <4>3
    <3> QED BY <1>2, <3>1, <3>2
  <2>9. Eqn(g)
    BY <2>8
  <2> QED BY <2>9
<1>6. Eqn(F)
  BY <1>5
<1>7. F[0] = first /\ \A n \in 1..N : F[n] = Next(F[n - 1], n)
  <2> HIDE DEF Next, F, N, first
  <2> QED BY <1>2, <1>6
<1>8. \A n \in 0..N : F[n] \in After(n)
  <2> DEFINE Done == {n \in 0..N : F[n] \in After(n)}
  <2> HIDE DEF F, N, After, Next, first
  <2>1. 0 \in 0..N /\ \A n \in 1..N : n \in 0..N /\ n - 1 \in 0..N
    BY <1>2
  <2>2. 0 \in Done
    BY <1>4, <1>7, <2>1
  <2>3. \A n \in 1..N : n - 1 \in Done => n \in Done
    BY <1>3, <1>7, <2>1
  <2>4. \A n \in 0..N : n \in Done
    <3> HIDE DEF Done
    <3> QED BY <1>2, <2>2, <2>3, Upward
  <2> QED BY <2>4
<1>9. F[N] \in After(N)
  <2> HIDE DEF F, N, After
  <2> QED BY <1>2, <1>8
<1>10. ToSet(moves) = {moves[i] : i \in 1..N}
  BY DEF ToSet
<1> QED
  <2> HIDE DEF F
  <2> QED BY <1>1, <1>9, <1>10

\* The operations of a kind.
LEMMA KindsKept ==
    ASSUME NEW X, NEW ops \in Seq(X), NEW k
    PROVE  /\ OfKind(ops, k) \in Seq(X)
           /\ ToSet(OfKind(ops, k)) = {op \in ToSet(ops) : op.kind = k}
<1> DEFINE S == {op \in ToSet(ops) : op.kind = k}
<1>1. OfKind(ops, k) = Keeping(S, ops)
  BY DEF OfKind
<1>2. Keeping(S, ops) \in Seq(X) /\ ToSet(Keeping(S, ops)) = ToSet(ops) \cap S
  <2> HIDE DEF S
  <2> QED BY KeepingKeeps
<1> QED BY <1>1, <1>2

\* _ordered_operations keeps every operation and adds none.
LEMMA OrderedHolds ==
    ASSUME NEW X, NEW ops \in Seq(X), NEW paths, NEW w,
           \A op \in X : op.kind \in {"put", "move", "delete", "decision"}
    PROVE  LET ordered == OrderedOperations(ops, paths, w)
           IN  ordered \in Seq(X) /\ ToSet(ordered) = ToSet(ops)
<1> DEFINE dels == OfKind(ops, "delete")
           moves == OfKind(ops, "move")
           visited == IF Len(moves) < 2 THEN moves ELSE VisitMoves(moves, paths, w)
           puts == OfKind(ops, "put")
           decs == OfKind(ops, "decision")
<1>1. /\ dels \in Seq(X) /\ ToSet(dels) = {op \in ToSet(ops) : op.kind = "delete"}
      /\ moves \in Seq(X) /\ ToSet(moves) = {op \in ToSet(ops) : op.kind = "move"}
      /\ puts \in Seq(X) /\ ToSet(puts) = {op \in ToSet(ops) : op.kind = "put"}
      /\ decs \in Seq(X) /\ ToSet(decs) = {op \in ToSet(ops) : op.kind = "decision"}
  BY KindsKept
<1> HIDE DEF dels, moves, puts, decs
<1>2. visited \in Seq(X) /\ ToSet(visited) = ToSet(moves)
  BY <1>1, VisitHolds
<1>3. OrderedOperations(ops, paths, w) = ((dels \o visited) \o puts) \o decs
  BY DEF OrderedOperations, dels, moves, puts, decs
<1> HIDE DEF visited
<1> DEFINE dv == dels \o visited
           dvp == dv \o puts
<1>4. dv \in Seq(X) /\ ToSet(dv) = ToSet(dels) \cup ToSet(visited)
  BY <1>1, <1>2, ConcatHolds
<1> HIDE DEF dv
<1>5. dvp \in Seq(X) /\ ToSet(dvp) = ToSet(dv) \cup ToSet(puts)
  BY <1>1, <1>4, ConcatHolds
<1> HIDE DEF dvp
<1>6. dvp \o decs \in Seq(X) /\ ToSet(dvp \o decs) = ToSet(dvp) \cup ToSet(decs)
  BY <1>1, <1>5, ConcatHolds
<1>7. \A op \in ToSet(ops) : op.kind \in {"put", "move", "delete", "decision"}
  BY DEF ToSet
<1>8. ToSet(dvp \o decs) = ToSet(ops)
  BY <1>1, <1>2, <1>4, <1>5, <1>6, <1>7
<1> QED BY <1>3, <1>6, <1>8 DEF dvp, dv

\* When the elements of S come first in seq, Keeping has as many as there are.
LEMMA KeepingFirst ==
    ASSUME NEW X, NEW seq \in Seq(X), NEW S, NEW m \in 0..Len(seq),
           \A i \in 1..Len(seq) : seq[i] \in S <=> i <= m
    PROVE  Len(Keeping(S, seq)) = m
<1> DEFINE N == Len(seq)
           After(n) == {k \in Seq(X) : Len(k) = IF n <= m THEN n ELSE m}
           A == [n \in 0..N |-> After(n)]
<1>1. ASSUME NEW n \in 1..N, NEW k \in After(n - 1)
      PROVE  (IF seq[n] \in S THEN Append(k, seq[n]) ELSE k) \in After(n)
  <2>1. /\ k \in Seq(X) /\ Len(k) = IF n - 1 <= m THEN n - 1 ELSE m
        /\ seq[n] \in X /\ m \in Nat
    OBVIOUS
  <2>2. CASE n <= m
    <3>1. seq[n] \in S
      BY <2>2
    <3>2. Append(k, seq[n]) \in Seq(X) /\ Len(Append(k, seq[n])) = n
      BY <2>1, <2>2
    <3> QED BY <2>2, <3>1, <3>2
  <2>3. CASE ~(n <= m)
    <3>1. seq[n] \notin S
      BY <2>3
    <3>2. Len(k) = m
      BY <2>1, <2>3
    <3> QED BY <2>1, <2>3, <3>1, <3>2
  <2> QED BY <2>2, <2>3
<1>2. <<>> \in After(0)
  OBVIOUS
<1>3. N \in Nat
  OBVIOUS
<1>4. A \in [0..N -> SUBSET Seq(X)] /\ \A n \in 0..N : A[n] = After(n)
  OBVIOUS
<1>5. Keeping(S, seq) \in A[N]
  <2> HIDE DEF After, A
  <2>1. \A n \in 1..N : n \in 0..N /\ n - 1 \in 0..N
    BY <1>3
  <2>2. ASSUME NEW n \in 1..N, NEW k \in A[n - 1]
        PROVE  (IF seq[n] \in S THEN Append(k, seq[n]) ELSE k) \in A[n]
    <3>1. A[n] = After(n) /\ A[n - 1] = After(n - 1)
      BY <1>4, <2>1
    <3>2. k \in After(n - 1)
      BY <3>1
    <3> QED BY <1>1, <3>1, <3>2
  <2>3. <<>> \in A[0]
    BY <1>2, <1>3, <1>4
  <2> QED BY <1>4, <2>2, <2>3, KeepingLoop
<1>6. Keeping(S, seq) \in After(N)
  <2> HIDE DEF A, After
  <2> QED BY <1>3, <1>4, <1>5
<1> QED BY <1>3, <1>6

\* A walk of _move_cycles: each path is the destination of the one before.
LEMMA WalkHolds ==
    ASSUME NEW dest, NEW starts \in Seq(DOMAIN dest), NEW seen, NEW start \in DOMAIN dest
    PROVE  LET stack == CycleWalk(dest, starts, seen, start)
           IN  /\ stack \in Seq(DOMAIN dest) /\ Len(stack) > 0
               /\ \A i \in 1..(Len(stack) - 1) : stack[i + 1] = dest[stack[i]]
<1> DEFINE N == Len(starts)
           V == Seq(DOMAIN dest)
           first == <<start>>
           Next(k, n) == IF dest[Last(k)] \in DOMAIN dest /\ dest[Last(k)] \notin seen \cup ToSet(k)
                         THEN Append(k, dest[Last(k)]) ELSE k
           Eqn(a) == a = [n \in 0..N |->
               IF n = 0 THEN first ELSE CHOOSE r \in {Next(k, n) : k \in {a[n - 1]}} : TRUE]
           F == CHOOSE a : Eqn(a)
           After(n) == {k \in V : /\ Len(k) > 0
                                  /\ \A i \in 1..(Len(k) - 1) : k[i + 1] = dest[k[i]]}
<1>1. CycleWalk(dest, starts, seen, start) = F[N]
  BY DEF CycleWalk, Iterate
<1>2. N \in Nat
  OBVIOUS
<1>3. ASSUME NEW n \in 1..N, NEW k \in After(n - 1) PROVE Next(k, n) \in After(n)
  <2>1. /\ k \in Seq(DOMAIN dest) /\ Len(k) \in Nat /\ Len(k) > 0 /\ Last(k) = k[Len(k)]
        /\ \A i \in 1..(Len(k) - 1) : k[i + 1] = dest[k[i]]
    BY DEF Last
  <2>2. CASE dest[Last(k)] \in DOMAIN dest /\ dest[Last(k)] \notin seen \cup ToSet(k)
    <3> DEFINE x == dest[Last(k)]
               u == Append(k, x)
    <3>1. x \in DOMAIN dest /\ x = dest[k[Len(k)]]
      BY <2>1, <2>2
    <3> HIDE DEF x
    <3>2. /\ u \in Seq(DOMAIN dest) /\ Len(u) = Len(k) + 1 /\ u[Len(k) + 1] = x
          /\ \A i \in 1..Len(k) : u[i] = k[i]
      BY <2>1, <3>1
    <3> HIDE DEF u
    <3>3. ASSUME NEW i \in 1..(Len(u) - 1) PROVE u[i + 1] = dest[u[i]]
      <4>1. CASE i = Len(k)
        BY <2>1, <3>1, <3>2, <4>1
      <4>2. CASE i # Len(k)
        <5>1. i \in 1..(Len(k) - 1) /\ i \in 1..Len(k) /\ i + 1 \in 1..Len(k)
          BY <2>1, <3>2, <4>2
        <5> QED BY <2>1, <3>2, <5>1
      <4> QED BY <4>1, <4>2
    <3>4. Len(u) > 0
      BY <2>1, <3>2
    <3>5. Next(k, n) = u
      BY <2>2 DEF u, x
    <3> QED BY <3>2, <3>3, <3>4, <3>5
  <2>3. CASE ~(dest[Last(k)] \in DOMAIN dest /\ dest[Last(k)] \notin seen \cup ToSet(k))
    BY <2>3
  <2> QED BY <2>2, <2>3
<1>4. first \in After(0)
  OBVIOUS
<1>5. \E a : Eqn(a)
  <2> DEFINE A == [n \in 0..N |-> After(n)]
             f == [n \in 1..N |-> [k \in V |-> Next(k, n)]]
  <2>1. \A n \in 0..N : After(n) \subseteq V
    OBVIOUS
  <2> HIDE DEF N, Next, After, V, first
  <2>2. A \in [0..N -> SUBSET V] /\ \A n \in 0..N : A[n] = After(n)
    BY <2>1
  <2>3. \A n \in 1..N : \A k \in V : f[n][k] = Next(k, n)
    OBVIOUS
  <2>4. 0 \in 0..N /\ \A n \in 1..N : n \in 0..N /\ n - 1 \in 0..N
    BY <1>2
  <2> HIDE DEF A, f
  <2>5. \A n \in 1..N : \A k \in A[n - 1] : f[n][k] \in A[n]
    BY <1>3, <2>1, <2>2, <2>3, <2>4
  <2>6. first \in A[0]
    BY <1>4, <2>2, <2>4
  <2>7. PICK g \in [0..N -> V] : g[0] = first /\ \A n \in 1..N : g[n] = f[n][g[n - 1]]
    <3>1. Closed(N, A, f)
      BY <2>5 DEF Closed
    <3>2. Solved(N, V, first, f)
      BY <1>2, <2>2, <2>6, <3>1, Accumulates
    <3> QED BY <3>2 DEF Solved
  <2>8. ASSUME NEW n \in 0..N
        PROVE  g[n] = IF n = 0 THEN first
                      ELSE CHOOSE r \in {Next(k, n) : k \in {g[n - 1]}} : TRUE
    <3>1. CASE n = 0
      BY <2>7, <3>1
    <3>2. CASE n \in 1..N
      <4>1. g[n - 1] \in V
        BY <2>4, <3>2
      <4>2. {Next(k, n) : k \in {g[n - 1]}} = {Next(g[n - 1], n)}
        OBVIOUS
      <4>3. (CHOOSE r \in {Next(g[n - 1], n)} : TRUE) = Next(g[n - 1], n)
        OBVIOUS
      <4> QED BY <1>2, <2>3, <2>7, <3>2, <4>1, <4>2, <4>3
    <3> QED BY <1>2, <3>1, <3>2
  <2>9. Eqn(g)
    BY <2>8
  <2> QED BY <2>9
<1>6. Eqn(F)
  BY <1>5
<1>7. F[0] = first /\ \A n \in 1..N : F[n] = Next(F[n - 1], n)
  <2> HIDE DEF Next, F, N, first
  <2> QED BY <1>2, <1>6
<1>8. \A n \in 0..N : F[n] \in After(n)
  <2> DEFINE Done == {n \in 0..N : F[n] \in After(n)}
  <2> HIDE DEF F, N, After, Next, first
  <2>1. 0 \in 0..N /\ \A n \in 1..N : n \in 0..N /\ n - 1 \in 0..N
    BY <1>2
  <2>2. 0 \in Done
    BY <1>4, <1>7, <2>1
  <2>3. \A n \in 1..N : n - 1 \in Done => n \in Done
    BY <1>3, <1>7, <2>1
  <2>4. \A n \in 0..N : n \in Done
    <3> HIDE DEF Done
    <3> QED BY <1>2, <2>2, <2>3, Upward
  <2> QED BY <2>4
<1>9. F[N] \in After(N)
  <2> HIDE DEF F, N, After
  <2> QED BY <1>2, <1>8
<1> QED
  <2> HIDE DEF F
  <2> QED BY <1>1, <1>9

\* The paths at which cycles are broken are sources of moves, and destinations.
LEMMA BreaksHold ==
    ASSUME NEW D, NEW R, NEW dest \in [D -> R], NEW starts \in Seq(D)
    PROVE  MoveCycleBreaks(dest, starts) \in Seq(D \cap R)
<1> DEFINE N == Len(starts)
           V == [seen : SUBSET D, breaks : Seq(D \cap R)]
           first == [seen |-> {}, breaks |-> <<>>]
           Walk(k, n) == CycleWalk(dest, starts, k.seen, starts[n])
           Next(k, n) == IF starts[n] \in k.seen THEN k
                         ELSE [seen   |-> k.seen \cup ToSet(Walk(k, n)),
                               breaks |-> IF dest[Last(Walk(k, n))] \in ToSet(Walk(k, n))
                                          THEN Append(k.breaks, dest[dest[Last(Walk(k, n))]])
                                          ELSE k.breaks]
           Eqn(a) == a = [n \in 0..N |->
               IF n = 0 THEN first ELSE CHOOSE r \in {Next(k, n) : k \in {a[n - 1]}} : TRUE]
           F == CHOOSE a : Eqn(a)
           After(n) == V
<1>1. MoveCycleBreaks(dest, starts) = F[N].breaks
  BY DEF MoveCycleBreaks, Iterate
<1>2. N \in Nat
  OBVIOUS
<1>3. ASSUME NEW n \in 1..N, NEW k \in After(n - 1) PROVE Next(k, n) \in After(n)
  <2> DEFINE s == Walk(k, n)
             back == dest[Last(s)]
  <2>1. k.seen \subseteq D /\ k.breaks \in Seq(D \cap R) /\ starts[n] \in D /\ DOMAIN dest = D
    OBVIOUS
  <2>2. /\ s \in Seq(D) /\ Len(s) > 0
        /\ \A i \in 1..(Len(s) - 1) : s[i + 1] = dest[s[i]]
    BY <2>1, WalkHolds
  <2> HIDE DEF s
  <2>3. ToSet(s) \subseteq D /\ Last(s) = s[Len(s)] /\ Last(s) \in D
    BY <2>2 DEF ToSet, Last
  <2>4. back \in ToSet(s) => dest[back] \in D \cap R
    <3> SUFFICES ASSUME back \in ToSet(s) PROVE dest[back] \in D \cap R
      OBVIOUS
    <3>1. PICK i \in 1..Len(s) : back = s[i]
      BY <2>2 DEF ToSet
    <3>2. dest[back] \in R
      BY <2>3
    <3>3. CASE i = Len(s)
      BY <2>3, <3>1, <3>2, <3>3
    <3>4. CASE i # Len(s)
      <4>1. i \in 1..(Len(s) - 1) /\ i + 1 \in 1..Len(s)
        BY <2>2, <3>4
      <4>2. s[i + 1] \in D /\ s[i + 1] = dest[s[i]]
        BY <2>2, <4>1
      <4> QED BY <3>1, <3>2, <4>2
    <3> QED BY <3>3, <3>4
  <2> HIDE DEF back
  <2>5. back \in ToSet(s) => Append(k.breaks, dest[back]) \in Seq(D \cap R)
    BY <2>1, <2>4
  <2>6. Next(k, n) = IF starts[n] \in k.seen THEN k
                     ELSE [seen   |-> k.seen \cup ToSet(s),
                           breaks |-> IF back \in ToSet(s) THEN Append(k.breaks, dest[back])
                                      ELSE k.breaks]
    BY DEF s, back
  <2> HIDE DEF Next
  <2> QED BY <2>1, <2>3, <2>5, <2>6
<1>4. first \in After(0)
  OBVIOUS
<1>5. \E a : Eqn(a)
  <2> DEFINE A == [n \in 0..N |-> After(n)]
             f == [n \in 1..N |-> [k \in V |-> Next(k, n)]]
  <2>1. \A n \in 0..N : After(n) \subseteq V
    OBVIOUS
  <2> HIDE DEF N, Next, After, V, first
  <2>2. A \in [0..N -> SUBSET V] /\ \A n \in 0..N : A[n] = After(n)
    BY <2>1
  <2>3. \A n \in 1..N : \A k \in V : f[n][k] = Next(k, n)
    OBVIOUS
  <2>4. 0 \in 0..N /\ \A n \in 1..N : n \in 0..N /\ n - 1 \in 0..N
    BY <1>2
  <2> HIDE DEF A, f
  <2>5. \A n \in 1..N : \A k \in A[n - 1] : f[n][k] \in A[n]
    BY <1>3, <2>1, <2>2, <2>3, <2>4
  <2>6. first \in A[0]
    BY <1>4, <2>2, <2>4
  <2>7. PICK g \in [0..N -> V] : g[0] = first /\ \A n \in 1..N : g[n] = f[n][g[n - 1]]
    <3>1. Closed(N, A, f)
      BY <2>5 DEF Closed
    <3>2. Solved(N, V, first, f)
      BY <1>2, <2>2, <2>6, <3>1, Accumulates
    <3> QED BY <3>2 DEF Solved
  <2>8. ASSUME NEW n \in 0..N
        PROVE  g[n] = IF n = 0 THEN first
                      ELSE CHOOSE r \in {Next(k, n) : k \in {g[n - 1]}} : TRUE
    <3>1. CASE n = 0
      BY <2>7, <3>1
    <3>2. CASE n \in 1..N
      <4>1. g[n - 1] \in V
        BY <2>4, <3>2
      <4>2. {Next(k, n) : k \in {g[n - 1]}} = {Next(g[n - 1], n)}
        OBVIOUS
      <4>3. (CHOOSE r \in {Next(g[n - 1], n)} : TRUE) = Next(g[n - 1], n)
        OBVIOUS
      <4> QED BY <1>2, <2>3, <2>7, <3>2, <4>1, <4>2, <4>3
    <3> QED BY <1>2, <3>1, <3>2
  <2>9. Eqn(g)
    BY <2>8
  <2> QED BY <2>9
<1>6. Eqn(F)
  BY <1>5
<1>7. F[0] = first /\ \A n \in 1..N : F[n] = Next(F[n - 1], n)
  <2> HIDE DEF Next, F, N, first
  <2> QED BY <1>2, <1>6
<1>8. \A n \in 0..N : F[n] \in After(n)
  <2> DEFINE Done == {n \in 0..N : F[n] \in After(n)}
  <2> HIDE DEF F, N, After, Next, first
  <2>1. 0 \in 0..N /\ \A n \in 1..N : n \in 0..N /\ n - 1 \in 0..N
    BY <1>2
  <2>2. 0 \in Done
    BY <1>4, <1>7, <2>1
  <2>3. \A n \in 1..N : n - 1 \in Done => n \in Done
    BY <1>3, <1>7, <2>1
  <2>4. \A n \in 0..N : n \in Done
    <3> HIDE DEF Done
    <3> QED BY <1>2, <2>2, <2>3, Upward
  <2> QED BY <2>4
<1>9. F[N] \in After(N)
  <2> HIDE DEF F, N, After
  <2> QED BY <1>2, <1>8
<1> QED
  <2> HIDE DEF F
  <2> QED BY <1>1, <1>9

\* In the order of a batch, deletes come first, then moves.
DeletesAndMovesFirst(seq) ==
    \A i, j \in 1..Len(seq) : i < j =>
        /\ seq[j].kind = "move" => seq[i].kind \in {"delete", "move"}
        /\ seq[j].kind = "delete" => seq[i].kind = "delete"

LEMMA OrderedFirst ==
    ASSUME NEW X, NEW ops \in Seq(X), NEW paths, NEW w
    PROVE  DeletesAndMovesFirst(OrderedOperations(ops, paths, w))
<1> DEFINE dels == OfKind(ops, "delete")
           moves == OfKind(ops, "move")
           visited == IF Len(moves) < 2 THEN moves ELSE VisitMoves(moves, paths, w)
           puts == OfKind(ops, "put")
           decs == OfKind(ops, "decision")
<1>1. /\ dels \in Seq(X) /\ ToSet(dels) = {op \in ToSet(ops) : op.kind = "delete"}
      /\ moves \in Seq(X) /\ ToSet(moves) = {op \in ToSet(ops) : op.kind = "move"}
      /\ puts \in Seq(X) /\ ToSet(puts) = {op \in ToSet(ops) : op.kind = "put"}
      /\ decs \in Seq(X) /\ ToSet(decs) = {op \in ToSet(ops) : op.kind = "decision"}
  BY KindsKept
<1> HIDE DEF dels, moves, puts, decs
<1>2. visited \in Seq(X) /\ ToSet(visited) = ToSet(moves)
  BY <1>1, VisitHolds
<1>3. OrderedOperations(ops, paths, w) = ((dels \o visited) \o puts) \o decs
  BY DEF OrderedOperations, dels, moves, puts, decs
<1> HIDE DEF visited
<1>4. /\ \A i \in 1..Len(dels) : dels[i].kind = "delete"
      /\ \A i \in 1..Len(visited) : visited[i].kind = "move"
      /\ \A i \in 1..Len(puts) : puts[i].kind = "put"
      /\ \A i \in 1..Len(decs) : decs[i].kind = "decision"
  <2>1. \A s \in {dels, visited, puts, decs} : \A i \in 1..Len(s) : s[i] \in ToSet(s)
    BY <1>1, <1>2 DEF ToSet
  <2> QED BY <1>1, <1>2, <2>1
<1> DEFINE all == ((dels \o visited) \o puts) \o decs
           a == Len(dels)
           b == Len(visited)
           c == Len(puts)
           d == Len(decs)
<1>5. /\ a \in Nat /\ b \in Nat /\ c \in Nat /\ d \in Nat
      /\ Len(all) = ((a + b) + c) + d
      /\ \A i \in 1..a : all[i] = dels[i]
      /\ \A i \in 1..b : all[a + i] = visited[i]
      /\ \A i \in 1..c : all[(a + b) + i] = puts[i]
      /\ \A i \in 1..d : all[((a + b) + c) + i] = decs[i]
  BY <1>1, <1>2
<1> HIDE DEF all, a, b, c, d
<1>6. /\ \A i \in 1..a : all[i].kind = "delete"
      /\ \A i \in 1..Len(all) : (a < i /\ i <= a + b) => all[i].kind = "move"
      /\ \A i \in 1..Len(all) : a + b < i => all[i].kind \in {"put", "decision"}
  <2>1. \A i \in 1..Len(all) : (a < i /\ i <= a + b) => i - a \in 1..b /\ a + (i - a) = i
    BY <1>5
  <2>2. \A i \in 1..Len(all) : (a + b < i /\ i <= (a + b) + c) =>
            i - (a + b) \in 1..c /\ (a + b) + (i - (a + b)) = i
    BY <1>5
  <2>3. \A i \in 1..Len(all) : ((a + b) + c < i) =>
            i - ((a + b) + c) \in 1..d /\ ((a + b) + c) + (i - ((a + b) + c)) = i
    BY <1>5
  <2>4. \A i \in 1..a : all[i].kind = "delete"
    BY <1>4, <1>5 DEF a
  <2>5. ASSUME NEW i \in 1..Len(all), a < i, i <= a + b PROVE all[i].kind = "move"
    <3>1. i - a \in 1..b /\ a + (i - a) = i
      BY <2>5, <2>1
    <3>2. all[a + (i - a)] = visited[i - a]
      BY <1>5, <3>1
    <3>3. visited[i - a].kind = "move"
      BY <1>4, <3>1 DEF b
    <3> QED BY <3>1, <3>2, <3>3
  <2>6. ASSUME NEW i \in 1..Len(all), a + b < i, i <= (a + b) + c PROVE all[i].kind = "put"
    <3>1. i - (a + b) \in 1..c /\ (a + b) + (i - (a + b)) = i
      BY <2>6, <2>2
    <3>2. all[(a + b) + (i - (a + b))] = puts[i - (a + b)]
      BY <1>5, <3>1
    <3>3. puts[i - (a + b)].kind = "put"
      BY <1>4, <3>1 DEF c
    <3> QED BY <3>1, <3>2, <3>3
  <2>7. ASSUME NEW i \in 1..Len(all), (a + b) + c < i PROVE all[i].kind = "decision"
    <3>1. i - ((a + b) + c) \in 1..d /\ ((a + b) + c) + (i - ((a + b) + c)) = i
      BY <2>7, <2>3
    <3>2. all[((a + b) + c) + (i - ((a + b) + c))] = decs[i - ((a + b) + c)]
      BY <1>5, <3>1
    <3>3. decs[i - ((a + b) + c)].kind = "decision"
      BY <1>4, <3>1 DEF d
    <3> QED BY <3>1, <3>2, <3>3
  <2>8. \A i \in 1..Len(all) : i <= (a + b) + c \/ (a + b) + c < i
    BY <1>5
  <2> QED BY <2>4, <2>5, <2>6, <2>7, <2>8
<1>7. \A i \in 1..Len(all) : \/ i \in 1..a /\ all[i].kind = "delete"
                             \/ a < i /\ i <= a + b /\ all[i].kind = "move"
                             \/ a + b < i /\ all[i].kind \in {"put", "decision"}
  BY <1>5, <1>6
<1>8. DeletesAndMovesFirst(all)
  BY <1>5, <1>7 DEF DeletesAndMovesFirst
<1> QED BY <1>3, <1>8 DEF all

\* In the order of a batch, no two moves are of one source when none are in the batch.
LEMMA OrderedOnce ==
    ASSUME NEW X, NEW ops \in Seq(X), NEW paths, NEW w, NEW R, ~DuplicateMoveSources(ops),
           \A x, y \in X : (x.kind = "move" /\ y.kind = "move" => x.key # y.key)
                               => <<x, y>> \in R
    PROVE  InTurn(R, OrderedOperations(ops, paths, w))
<1> DEFINE dels == OfKind(ops, "delete")
           moves == OfKind(ops, "move")
           visited == IF Len(moves) < 2 THEN moves ELSE VisitMoves(moves, paths, w)
           puts == OfKind(ops, "put")
           decs == OfKind(ops, "decision")
<1>1. /\ dels \in Seq(X) /\ ToSet(dels) = {op \in ToSet(ops) : op.kind = "delete"}
      /\ moves \in Seq(X) /\ ToSet(moves) = {op \in ToSet(ops) : op.kind = "move"}
      /\ puts \in Seq(X) /\ ToSet(puts) = {op \in ToSet(ops) : op.kind = "put"}
      /\ decs \in Seq(X) /\ ToSet(decs) = {op \in ToSet(ops) : op.kind = "decision"}
  BY KindsKept
<1> HIDE DEF dels, moves, puts, decs
<1>2. visited \in Seq(X) /\ ToSet(visited) = ToSet(moves) /\ InTurn(Unlike(X), visited)
  <2>1. CASE Len(moves) < 2
    BY <1>1, <2>1 DEF InTurn
  <2>2. CASE ~(Len(moves) < 2)
    BY <1>1, <2>2, VisitHolds
  <2> QED BY <2>1, <2>2
<1>3. OrderedOperations(ops, paths, w) = ((dels \o visited) \o puts) \o decs
  BY DEF OrderedOperations, dels, moves, puts, decs
<1> HIDE DEF visited
<1>4. \A s \in Seq(X) : \A i \in 1..Len(s) : s[i] \in ToSet(s) /\ s[i] \in X
  BY DEF ToSet
<1>5. ToSet(ops) \subseteq X
  BY DEF ToSet
<1>6. \A x, y \in X : x.kind # "move" \/ y.kind # "move" => <<x, y>> \in R
  OBVIOUS
<1>7. InTurn(R, dels) /\ InTurn(R, puts) /\ InTurn(R, decs)
  BY <1>1, <1>4, <1>6 DEF InTurn
<1>8. InTurn(R, visited)
  <2> SUFFICES ASSUME NEW i \in 1..Len(visited), NEW j \in 1..Len(visited), i < j
               PROVE  <<visited[i], visited[j]>> \in R
    BY DEF InTurn
  <2>1. /\ visited[i] \in ToSet(ops) /\ visited[i].kind = "move" /\ visited[i] \in X
        /\ visited[j] \in ToSet(ops) /\ visited[j].kind = "move" /\ visited[j] \in X
    BY <1>1, <1>2, <1>4
  <2>2. visited[i] # visited[j]
    BY <1>2 DEF InTurn, Unlike
  <2>3. PICK a \in DOMAIN ops : visited[i] = ops[a]
    BY <2>1 DEF ToSet
  <2>4. PICK b \in DOMAIN ops : visited[j] = ops[b]
    BY <2>1 DEF ToSet
  <2>5. visited[i].key # visited[j].key
    BY <2>1, <2>2, <2>3, <2>4 DEF DuplicateMoveSources
  <2> QED BY <2>1, <2>5
<1> DEFINE dv == dels \o visited
           dvp == dv \o puts
<1>9. dv \in Seq(X) /\ ToSet(dv) = ToSet(dels) \cup ToSet(visited)
  BY <1>1, <1>2, ConcatHolds
<1>10. InTurn(R, dv)
  <2>1. \A x \in ToSet(dels), y \in ToSet(visited) : <<x, y>> \in R
    BY <1>1, <1>2, <1>5, <1>6
  <2> QED BY <1>1, <1>2, <1>7, <1>8, <2>1, ConcatInTurn
<1>11. ToSet(dv) \subseteq X
  BY <1>1, <1>2, <1>5, <1>9
<1> HIDE DEF dv
<1>12. dvp \in Seq(X) /\ ToSet(dvp) = ToSet(dv) \cup ToSet(puts)
  BY <1>1, <1>9, ConcatHolds
<1>13. InTurn(R, dvp)
  <2>1. \A x \in ToSet(dv), y \in ToSet(puts) : <<x, y>> \in R
    BY <1>1, <1>5, <1>6, <1>11
  <2> QED BY <1>1, <1>7, <1>9, <1>10, <2>1, ConcatInTurn
<1>14. ToSet(dvp) \subseteq X
  BY <1>1, <1>5, <1>11, <1>12
<1> HIDE DEF dvp
<1>15. InTurn(R, dvp \o decs)
  <2>1. \A x \in ToSet(dvp), y \in ToSet(decs) : <<x, y>> \in R
    BY <1>1, <1>5, <1>6, <1>14
  <2> QED BY <1>1, <1>7, <1>12, <1>13, <2>1, ConcatInTurn
<1> QED BY <1>3, <1>15 DEF dvp, dv

-----------------------------------------------------------------------------
(***************************************************************************)
(* The last element of a list that is in a set.                            *)
(***************************************************************************)

EndsWith(P, s, x) ==
    \E i \in 1..Len(s) : s[i] = x /\ x \in P /\ \A j \in 1..Len(s) : s[j] \in P => j <= i

\* A list that has an element of the set has a last one.
LEMMA EndsExist ==
    ASSUME NEW X, NEW s \in Seq(X), NEW P, NEW x \in ToSet(s), x \in P
    PROVE  \E y \in X : EndsWith(P, s, y)
<1> DEFINE N == Len(s)
           Q == {n \in 0..N : \A i \in 1..N : s[i] \in P => i <= n}
<1>1. N \in Nat /\ N \in Q
  OBVIOUS
<1>2. PICK n \in Q : \A m \in Q : n <= m
  <2>1. Q \in SUBSET Nat
    OBVIOUS
  <2> HIDE DEF Q
  <2> QED BY <1>1, <2>1, LeastNatural
<1>3. n \in 0..N /\ \A i \in 1..N : s[i] \in P => i <= n
  OBVIOUS
<1>4. PICK k \in 1..N : s[k] = x
  BY DEF ToSet
<1>5. n \in 1..N /\ n - 1 \in 0..N /\ ~(n <= n - 1)
  BY <1>1, <1>3, <1>4
<1>6. s[n] \in P
  <2>1. PICK i \in 1..N : s[i] \in P /\ ~(i <= n - 1)
    BY <1>2, <1>5
  <2>2. i = n
    BY <1>1, <1>3, <1>5, <2>1
  <2> QED BY <2>1, <2>2
<1> QED BY <1>3, <1>5, <1>6 DEF EndsWith

\* There is one such element at most.
LEMMA EndsOnce ==
    ASSUME NEW X, NEW s \in Seq(X), NEW P, NEW x, NEW y, EndsWith(P, s, x), EndsWith(P, s, y)
    PROVE  x = y
<1>1. PICK i \in 1..Len(s) : s[i] = x /\ x \in P /\ \A j \in 1..Len(s) : s[j] \in P => j <= i
  BY DEF EndsWith
<1>2. PICK k \in 1..Len(s) : s[k] = y /\ y \in P /\ \A j \in 1..Len(s) : s[j] \in P => j <= k
  BY DEF EndsWith
<1>3. i <= k /\ k <= i
  BY <1>1, <1>2
<1>4. i = k
  BY <1>3
<1> QED BY <1>1, <1>2, <1>4

\* The list grows by one.
LEMMA EndsAppend ==
    ASSUME NEW X, NEW s \in Seq(X), NEW y \in X, NEW P
    PROVE  /\ y \in P => EndsWith(P, Append(s, y), y)
           /\ y \notin P => \A x : EndsWith(P, s, x) => EndsWith(P, Append(s, y), x)
<1> DEFINE t == Append(s, y)
<1>1. /\ Len(t) = Len(s) + 1 /\ Len(s) \in Nat /\ \A i \in 1..Len(s) : t[i] = s[i]
      /\ t[Len(s) + 1] = y
  OBVIOUS
<1> HIDE DEF t
<1>2. Len(s) + 1 \in 1..Len(t) /\ \A j \in 1..Len(t) : j <= Len(s) + 1
  BY <1>1
<1>3. y \in P => EndsWith(P, t, y)
  BY <1>1, <1>2 DEF EndsWith
<1>4. ASSUME y \notin P, NEW x, EndsWith(P, s, x) PROVE EndsWith(P, t, x)
  <2>1. PICK i \in 1..Len(s) : s[i] = x /\ x \in P /\ \A j \in 1..Len(s) : s[j] \in P => j <= i
    BY <1>4 DEF EndsWith
  <2>2. i \in 1..Len(t) /\ t[i] = x
    BY <1>1, <2>1
  <2>3. \A j \in 1..Len(t) : j \in 1..Len(s) \/ j = Len(s) + 1
    BY <1>1
  <2>4. \A j \in 1..Len(t) : t[j] \in P => j <= i
    BY <1>1, <1>4, <2>1, <2>3
  <2> QED BY <2>1, <2>2, <2>4 DEF EndsWith
<1> QED BY <1>3, <1>4 DEF t

\* Two lists, one after the other.
LEMMA EndsConcat ==
    ASSUME NEW X, NEW s \in Seq(X), NEW t \in Seq(X), NEW P, NEW x,
           EndsWith(P, t, x) \/ (EndsWith(P, s, x) /\ ToSet(t) \cap P = {})
    PROVE  EndsWith(P, s \o t, x)
<1> DEFINE u == s \o t
<1>1. /\ Len(u) = Len(s) + Len(t) /\ Len(s) \in Nat /\ Len(t) \in Nat
      /\ DOMAIN t = 1..Len(t)
      /\ \A i \in 1..Len(u) : u[i] = IF i <= Len(s) THEN s[i] ELSE t[i - Len(s)]
  OBVIOUS
<1> HIDE DEF u
<1>2. CASE EndsWith(P, t, x)
  <2>1. PICK i \in 1..Len(t) : t[i] = x /\ x \in P /\ \A j \in 1..Len(t) : t[j] \in P => j <= i
    BY <1>2 DEF EndsWith
  <2>2. Len(s) + i \in 1..Len(u) /\ ~(Len(s) + i <= Len(s)) /\ (Len(s) + i) - Len(s) = i
    BY <1>1, <2>1
  <2>3. u[Len(s) + i] = x
    BY <1>1, <2>1, <2>2
  <2>4. ASSUME NEW j \in 1..Len(u), u[j] \in P PROVE j <= Len(s) + i
    <3>1. CASE j <= Len(s)
      BY <1>1, <2>1, <3>1
    <3>2. CASE ~(j <= Len(s))
      <4>1. j - Len(s) \in 1..Len(t) /\ u[j] = t[j - Len(s)]
        BY <1>1, <3>2
      <4>2. j - Len(s) <= i
        BY <2>1, <2>4, <4>1
      <4> QED BY <1>1, <2>1, <4>2
    <3> QED BY <3>1, <3>2
  <2> QED BY <2>1, <2>2, <2>3, <2>4 DEF EndsWith, u
<1>3. CASE EndsWith(P, s, x) /\ ToSet(t) \cap P = {}
  <2>1. PICK i \in 1..Len(s) : s[i] = x /\ x \in P /\ \A j \in 1..Len(s) : s[j] \in P => j <= i
    BY <1>3 DEF EndsWith
  <2>2. i \in 1..Len(u) /\ u[i] = x
    BY <1>1, <2>1
  <2>3. \A j \in 1..Len(t) : t[j] \notin P
    BY <1>1, <1>3 DEF ToSet
  <2>4. ASSUME NEW j \in 1..Len(u), u[j] \in P PROVE j <= i
    <3>1. CASE j <= Len(s)
      BY <1>1, <2>1, <2>4, <3>1
    <3>2. CASE ~(j <= Len(s))
      <4>1. j - Len(s) \in 1..Len(t) /\ u[j] = t[j - Len(s)]
        BY <1>1, <3>2
      <4> QED BY <2>3, <2>4, <4>1
    <3> QED BY <3>1, <3>2
  <2> QED BY <2>1, <2>2, <2>4 DEF EndsWith, u
<1> QED BY <1>2, <1>3

\* The end of a list.
LEMMA EndsSuffix ==
    ASSUME NEW X, NEW s \in Seq(X), NEW t \in Seq(X), NEW m \in 0..Len(s), Len(t) = Len(s) - m,
           \A i \in 1..Len(t) : t[i] = s[m + i], NEW P, NEW x, EndsWith(P, t, x)
    PROVE  EndsWith(P, s, x)
<1>1. Len(s) \in Nat /\ Len(t) \in Nat
  OBVIOUS
<1>2. PICK i \in 1..Len(t) : t[i] = x /\ x \in P /\ \A j \in 1..Len(t) : t[j] \in P => j <= i
  BY DEF EndsWith
<1>3. m + i \in 1..Len(s) /\ s[m + i] = x
  BY <1>1, <1>2
<1>4. ASSUME NEW j \in 1..Len(s), s[j] \in P PROVE j <= m + i
  <2>1. CASE j <= m
    BY <1>1, <1>2, <2>1
  <2>2. CASE ~(j <= m)
    <3>1. j - m \in 1..Len(t) /\ m + (j - m) = j
      BY <1>1, <2>2
    <3>2. t[j - m] = s[j]
      BY <3>1
    <3>3. j - m <= i
      BY <1>2, <1>4, <3>1, <3>2
    <3> QED BY <1>1, <1>2, <3>3
  <2> QED BY <2>1, <2>2
<1> QED BY <1>2, <1>3, <1>4 DEF EndsWith

\* A comprehension that keeps the elements of the set.
LEMMA EndsKept ==
    ASSUME NEW X, NEW seq \in Seq(X), NEW S, NEW P, ToSet(seq) \cap P \subseteq S,
           NEW z \in X, EndsWith(P, seq, z)
    PROVE  EndsWith(P, Keeping(S, seq), z)
<1> DEFINE N == Len(seq)
           Upto(n, x) == \E i \in 1..n : /\ seq[i] = x /\ x \in P
                                         /\ \A j \in 1..n : seq[j] \in P => j <= i
           Kept(n) == {k \in Seq(X) : \A x \in X : Upto(n, x) => EndsWith(P, k, x)}
           A == [n \in 0..N |-> Kept(n)]
<1>1. ASSUME NEW n \in 1..N, NEW k \in Kept(n - 1)
      PROVE  (IF seq[n] \in S THEN Append(k, seq[n]) ELSE k) \in Kept(n)
  <2> DEFINE l == IF seq[n] \in S THEN Append(k, seq[n]) ELSE k
  <2>1. seq[n] \in X /\ k \in Seq(X) /\ n \in 1..n /\ n \in Nat /\ seq[n] \in ToSet(seq)
    BY DEF ToSet
  <2>2. l \in Seq(X)
    BY <2>1, AppendAdds
  <2>3. ASSUME NEW x \in X, Upto(n, x) PROVE EndsWith(P, l, x)
    <3>1. PICK i \in 1..n : seq[i] = x /\ x \in P /\ \A j \in 1..n : seq[j] \in P => j <= i
      BY <2>3
    <3>2. CASE seq[n] \in P
      <4>1. n <= i
        BY <2>1, <3>1, <3>2
      <4>2. i = n /\ seq[n] \in S
        BY <2>1, <3>1, <3>2, <4>1
      <4> QED BY <2>1, <3>1, <3>2, <4>2, EndsAppend
    <3>3. CASE seq[n] \notin P
      <4>1. i \in 1..(n - 1) /\ \A j \in 1..(n - 1) : j \in 1..n
        BY <2>1, <3>1, <3>3
      <4>2. Upto(n - 1, x)
        BY <3>1, <4>1
      <4>3. EndsWith(P, k, x)
        BY <4>2
      <4> QED BY <2>1, <3>3, <4>3, EndsAppend
    <3> QED BY <3>2, <3>3
  <2> HIDE DEF l, Upto
  <2>4. l \in Kept(n)
    BY <2>2, <2>3
  <2> QED BY <2>4 DEF l
<1>2. <<>> \in Kept(0)
  OBVIOUS
<1>3. N \in Nat /\ Upto(N, z)
  BY DEF EndsWith
<1>4. A \in [0..N -> SUBSET Seq(X)] /\ \A n \in 0..N : A[n] = Kept(n)
  OBVIOUS
<1>5. Keeping(S, seq) \in A[N]
  <2> HIDE DEF Kept, A
  <2>1. \A n \in 1..N : n \in 0..N /\ n - 1 \in 0..N
    BY <1>3
  <2>2. ASSUME NEW n \in 1..N, NEW k \in A[n - 1]
        PROVE  (IF seq[n] \in S THEN Append(k, seq[n]) ELSE k) \in A[n]
    <3>1. A[n] = Kept(n) /\ A[n - 1] = Kept(n - 1)
      BY <1>4, <2>1
    <3>2. k \in Kept(n - 1)
      BY <3>1
    <3>3. (IF seq[n] \in S THEN Append(k, seq[n]) ELSE k) \in Kept(n)
      BY <1>1, <3>2, Zenon
    <3> QED BY <3>1, <3>3, Zenon
  <2>3. <<>> \in A[0]
    BY <1>2, <1>3, <1>4
  <2> QED BY <1>4, <2>2, <2>3, KeepingLoop
<1>6. Keeping(S, seq) \in Kept(N)
  <2> HIDE DEF A, Kept
  <2> QED BY <1>3, <1>4, <1>5
<1> HIDE DEF Upto
<1> QED BY <1>3, <1>6

\* _ordered_operations leaves the puts in the order submitted.
LEMMA EndsOrdered ==
    ASSUME NEW X, NEW ops \in Seq(X), NEW paths, NEW w, NEW P, NEW x \in X,
           \A op \in P : op.kind = "put", EndsWith(P, ops, x)
    PROVE  EndsWith(P, OrderedOperations(ops, paths, w), x)
<1> DEFINE dels == OfKind(ops, "delete")
           moves == OfKind(ops, "move")
           visited == IF Len(moves) < 2 THEN moves ELSE VisitMoves(moves, paths, w)
           puts == OfKind(ops, "put")
           decs == OfKind(ops, "decision")
           S == {op \in ToSet(ops) : op.kind = "put"}
<1>1. dels \in Seq(X) /\ moves \in Seq(X) /\ puts \in Seq(X) /\ decs \in Seq(X)
  BY KindsKept
<1>2. visited \in Seq(X)
  <2> HIDE DEF moves
  <2> QED BY <1>1, VisitHolds
<1>3. ToSet(decs) \cap P = {}
  <2>1. ToSet(decs) = {op \in ToSet(ops) : op.kind = "decision"}
    BY KindsKept
  <2> HIDE DEF decs
  <2> QED BY <2>1
<1>4. EndsWith(P, puts, x)
  <2>1. ToSet(ops) \cap P \subseteq S
    OBVIOUS
  <2>2. puts = Keeping(S, ops)
    BY DEF OfKind
  <2> HIDE DEF S, puts
  <2> QED BY <2>1, <2>2, EndsKept
<1>5. OrderedOperations(ops, paths, w) = dels \o visited \o puts \o decs
  BY DEF OrderedOperations
<1> HIDE DEF dels, visited, puts, decs
<1>6. dels \o visited \in Seq(X) /\ dels \o visited \o puts \in Seq(X)
  BY <1>1, <1>2
<1>7. EndsWith(P, dels \o visited \o puts, x)
  BY <1>1, <1>4, <1>6, EndsConcat
<1>8. EndsWith(P, dels \o visited \o puts \o decs, x)
  BY <1>1, <1>3, <1>6, <1>7, EndsConcat
<1> QED BY <1>5, <1>8

=============================================================================
