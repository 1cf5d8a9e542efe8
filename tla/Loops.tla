------------------------------- MODULE Loops -------------------------------
(***************************************************************************)
(* Induction over the natural numbers, and what it says about recursive    *)
(* functions, folds and flattened sequences.                               *)
(*                                                                         *)
(* Every module that proves something about a calculation uses it.  An     *)
(* induction is made with a set: one that has zero and the successor of    *)
(* each of its elements is Nat, because what is missing would have a least *)
(* element (WFMin, for the order that NatLessThanWellFounded is about).  A *)
(* recursive function is first shown to exist, because TLA+ chooses one    *)
(* that satisfies its equation if there is one.                            *)
(***************************************************************************)
EXTENDS SequencesExt, SequenceTheorems, TLAPS, WellFoundedInduction

(* The order of the natural numbers, and the least element of a set.       *)
LEMMA LessThan == OpToRel(<, Nat) = {p \in Nat \X Nat : p[1] < p[2]}
BY DEF OpToRel

LEMMA Minimal ==
  ASSUME NEW T, T \subseteq Nat, T # {}
  PROVE  \E x \in T : \A y \in T : ~ (y < x)
<1>1. PICK x \in T : \A y \in T : ~ (<<y, x>> \in OpToRel(<, Nat))
  BY NatLessThanWellFounded, WFMin
<1>2. ASSUME NEW y \in T PROVE ~ (y < x)
  <2>1. y \in Nat /\ x \in Nat
    OBVIOUS
  <2>2. <<y, x>> \notin {p \in Nat \X Nat : p[1] < p[2]}
    BY <1>1, LessThan
  <2>. QED BY <2>1, <2>2
<1>. QED BY <1>2

(* A set with zero and the successor of each element has every number.     *)
LEMMA SetInduction ==
  ASSUME NEW S \in SUBSET Nat, 0 \in S, \A n \in S : n + 1 \in S
  PROVE  \A n \in Nat : n \in S
<1>1. SUFFICES ASSUME Nat \ S # {} PROVE FALSE
  OBVIOUS
<1>2. PICK x \in Nat \ S : \A y \in Nat \ S : ~ (y < x)
  BY <1>1, Minimal
<1>3. x - 1 \in Nat /\ x - 1 < x
  BY <1>2
<1>4. x - 1 \in S
  BY <1>2, <1>3
<1>. QED BY <1>2, <1>3, <1>4

-----------------------------------------------------------------------------
(* f[i] is the value after i rounds of a loop that starts with a; round i  *)
(* applies g[i].                                                           *)
IsLoop(f, S, a, n, g) ==
  /\ f \in [0 .. n -> S] /\ f[0] = a
  /\ \A i \in 1 .. n : f[i] = g[i][f[i - 1]]

LEMMA LoopExists ==
  ASSUME NEW S, NEW a \in S, NEW n \in Nat, NEW g \in [1 .. n -> [S -> S]]
  PROVE  \E f : IsLoop(f, S, a, n, g)
<1> DEFINE Loop(f, k) == IsLoop(f, S, a, k, g)
           K == {k \in Nat : k <= n => \E f : Loop(f, k)}
<1>1. 0 \in K
  <2>1. Loop([i \in 0 .. 0 |-> a], 0)
    BY DEF IsLoop
  <2>. QED BY <2>1
<1>2. ASSUME NEW k \in K PROVE k + 1 \in K
  <2>1. SUFFICES ASSUME k + 1 <= n PROVE \E f : Loop(f, k + 1)
    OBVIOUS
  <2>2. k \in Nat /\ k <= n
    BY <2>1
  <2>3. PICK f : Loop(f, k)
    BY <2>2
  <2>. USE DEF IsLoop
  <2> DEFINE h == [i \in 0 .. k + 1 |-> IF i = k + 1 THEN g[k + 1][f[k]] ELSE f[i]]
  <2>4. k + 1 \in 1 .. n /\ k \in 0 .. k
    BY <2>1, <2>2
  <2>5. g[k + 1] \in [S -> S] /\ f[k] \in S
    BY <2>3, <2>4
  <2>6. h \in [0 .. k + 1 -> S]
    <3>1. g[k + 1][f[k]] \in S
      BY <2>5
    <3>2. ASSUME NEW i \in 0 .. k + 1, i # k + 1 PROVE f[i] \in S
      <4>1. i \in 0 .. k
        BY <2>2, <3>2
      <4>. QED BY <4>1, <2>3
    <3>. QED BY <3>1, <3>2
  <2>7. h[0] = a
    BY <2>2, <2>3
  <2>8. ASSUME NEW i \in 1 .. k + 1 PROVE h[i] = g[i][h[i - 1]]
    <3>1. i - 1 \in 0 .. k /\ i - 1 # k + 1 /\ i \in 0 .. k + 1 /\ i - 1 \in 0 .. k + 1
      BY <2>2
    <3>2. h[i - 1] = f[i - 1]
      BY <3>1
    <3>3. CASE i = k + 1
      <4>1. h[i] = g[k + 1][f[k]] /\ i - 1 = k
        BY <3>3, <2>2
      <4>. QED BY <4>1, <3>2, <3>3
    <3>4. CASE i # k + 1
      <4>1. i \in 1 .. k
        BY <3>4, <2>2
      <4>2. h[i] = f[i]
        BY <3>1, <3>4
      <4>. QED BY <4>1, <4>2, <3>2, <2>3
    <3>. QED BY <3>3, <3>4
  <2>9. Loop(h, k + 1)
    BY <2>6, <2>7, <2>8
  <2>. QED BY <2>9
<1>3. K \in SUBSET Nat
  OBVIOUS
<1>4. \A k \in Nat : k \in K
  <2>. HIDE DEF K
  <2>. QED BY <1>1, <1>2, <1>3, SetInduction
<1>5. PICK f : Loop(f, n)
  BY <1>4
<1>. QED BY <1>5

(* What each round keeps true is true after every round.                   *)
LEMMA LoopStaysIn ==
  ASSUME NEW S, NEW n \in Nat, NEW h, h[0] \in S,
         \A i \in 1 .. n : h[i - 1] \in S => h[i] \in S
  PROVE  \A i \in 0 .. n : h[i] \in S
<1> DEFINE K == {k \in Nat : k <= n => h[k] \in S}
<1>1. 0 \in K
  OBVIOUS
<1>2. ASSUME NEW k \in K PROVE k + 1 \in K
  <2>1. SUFFICES ASSUME k + 1 <= n PROVE h[k + 1] \in S
    OBVIOUS
  <2>2. k + 1 \in 1 .. n /\ (k + 1) - 1 = k /\ k <= n
    BY <2>1
  <2>3. h[k] \in S
    BY <2>2
  <2>. QED BY <2>2, <2>3
<1>3. K \in SUBSET Nat
  OBVIOUS
<1>4. \A k \in Nat : k \in K
  <2>. HIDE DEF K
  <2>. QED BY <1>1, <1>2, <1>3, SetInduction
<1>. QED BY <1>4
-----------------------------------------------------------------------------
(* A fold of SequencesExt is a loop: it takes the last element away, the   *)
(* greatest index, from every set of indices.                              *)
LEMMA MaxIn ==
  ASSUME NEW n \in Nat, NEW s \in SUBSET (1 .. n), s # {}
  PROVE  Max(s) \in s /\ \A y \in s : y <= Max(s)
<1> DEFINE T == {n - y : y \in s}
<1>1. T \subseteq Nat /\ T # {}
  <2>1. \A y \in s : y \in 1 .. n /\ n - y \in Nat
    OBVIOUS
  <2>2. PICK y \in s : TRUE
    OBVIOUS
  <2>. QED BY <2>1, <2>2
<1>2. PICK x \in T : \A y \in T : ~ (y < x)
  <2>. HIDE DEF T
  <2>. QED BY <1>1, Minimal
<1>3. PICK m \in s : x = n - m
  BY <1>2
<1>4. ASSUME NEW y \in s PROVE m >= y
  <2>1. n - y \in T /\ y \in Nat /\ m \in Nat
    BY <1>3
  <2>2. ~ (n - y < n - m)
    BY <2>1, <1>2, <1>3
  <2>. QED BY <2>1, <2>2
<1>5. Max(s) \in s /\ \A y \in s : Max(s) >= y
  BY <1>3, <1>4, Zenon DEF Max
<1>6. \A y \in s : y \in Nat
  OBVIOUS
<1>. QED BY <1>5, <1>6

(* The greatest of the first indices is the last, and leaves the others.   *)
LEMMA LastIndex ==
  ASSUME NEW n \in Nat, NEW k \in 1 .. n, NEW s \in SUBSET (1 .. k), k \in s
  PROVE  Max(s) = k /\ s \ {k} \in SUBSET (1 .. k - 1)
<1>1. k \in Nat
  OBVIOUS
<1>2. Max(s) \in s /\ k <= Max(s)
  BY <1>1, MaxIn
<1>3. \A y \in s : y \in 1 .. k
  OBVIOUS
<1>4. Max(s) = k
  <2> DEFINE m == Max(s)
  <2>1. m \in 1 .. k /\ k <= m
    BY <1>2, <1>3
  <2>. HIDE DEF m
  <2>2. m = k
    BY <1>1, <2>1
  <2>. QED BY <2>2 DEF m
<1>5. \A y \in s \ {k} : y \in 1 .. k - 1
  BY <1>1, <1>3
<1>. QED BY <1>4, <1>5

(* h[s] is the value of a fold over the indices in s.                      *)
IsFold(h, S, a, n, g) ==
  /\ h \in [SUBSET (1 .. n) -> S] /\ h[{}] = a
  /\ \A s \in SUBSET (1 .. n) : s # {} => h[s] = g[Max(s)][h[s \ {Max(s)}]]

LEMMA FoldExists ==
  ASSUME NEW S, NEW a \in S, NEW n \in Nat, NEW g \in [1 .. n -> [S -> S]]
  PROVE  \E h : IsFold(h, S, a, n, g)
<1> DEFINE Fold(h, k) == IsFold(h, S, a, k, g)
           K == {k \in Nat : k <= n => \E h : Fold(h, k)}
<1>1. 0 \in K
  <2>1. SUBSET (1 .. 0) = {{}}
    OBVIOUS
  <2>2. Fold([s \in SUBSET (1 .. 0) |-> a], 0)
    BY <2>1 DEF IsFold
  <2>. QED BY <2>2
<1>2. ASSUME NEW k \in K PROVE k + 1 \in K
  <2>1. SUFFICES ASSUME k + 1 <= n PROVE \E h : Fold(h, k + 1)
    OBVIOUS
  <2>2. k \in Nat /\ k <= n /\ k + 1 \in Nat /\ k + 1 \in 1 .. n /\ (k + 1) - 1 = k
        /\ 1 .. k \subseteq 1 .. k + 1 /\ k + 1 \notin 1 .. k
        /\ (1 .. k + 1) \ {k + 1} = 1 .. k
    BY <2>1
  <2>3. PICK h : Fold(h, k)
    BY <2>2
  <2> DEFINE next == [s \in SUBSET (1 .. k + 1) |->
                        IF k + 1 \in s THEN g[k + 1][h[s \ {k + 1}]] ELSE h[s]]
  <2>4. ASSUME NEW s \in SUBSET (1 .. k + 1), k + 1 \in s
        PROVE  Max(s) = k + 1 /\ s \ {k + 1} \in SUBSET (1 .. k)
    BY <2>2, <2>4, LastIndex
  <2>5. ASSUME NEW s \in SUBSET (1 .. k + 1), k + 1 \notin s
        PROVE  s \in SUBSET (1 .. k)
    BY <2>2, <2>5
  <2>6. h \in [SUBSET (1 .. k) -> S] /\ h[{}] = a
        /\ \A s \in SUBSET (1 .. k) : s # {} => h[s] = g[Max(s)][h[s \ {Max(s)}]]
    BY <2>3 DEF IsFold
  <2>7. next \in [SUBSET (1 .. k + 1) -> S]
    <3>1. g[k + 1] \in [S -> S]
      BY <2>2
    <3>2. ASSUME NEW s \in SUBSET (1 .. k + 1) PROVE next[s] \in S
      BY <2>4, <2>5, <2>6, <3>1
    <3>. QED BY <3>2
  <2>8. next[{}] = a
    BY <2>6
  <2>9. ASSUME NEW s \in SUBSET (1 .. k + 1), s # {}
        PROVE  next[s] = g[Max(s)][next[s \ {Max(s)}]]
    <3>1. CASE k + 1 \in s
      <4>1. Max(s) = k + 1 /\ s \ {k + 1} \in SUBSET (1 .. k)
        BY <2>4, <3>1
      <4>2. next[s] = g[k + 1][h[s \ {k + 1}]] /\ next[s \ {k + 1}] = h[s \ {k + 1}]
        BY <4>1, <3>1, <2>2
      <4>. QED BY <4>1, <4>2
    <3>2. CASE k + 1 \notin s
      <4>1. s \in SUBSET (1 .. k) /\ s \ {Max(s)} \in SUBSET (1 .. k)
            /\ s \ {Max(s)} \in SUBSET (1 .. k + 1) /\ k + 1 \notin s \ {Max(s)}
        BY <2>5, <3>2
      <4>2. next[s] = h[s] /\ next[s \ {Max(s)}] = h[s \ {Max(s)}]
        BY <4>1, <3>2
      <4>. QED BY <4>1, <4>2, <2>6, <2>9
    <3>. QED BY <3>1, <3>2
  <2>10. Fold(next, k + 1)
    <3>. HIDE DEF next
    <3>. QED BY <2>7, <2>8, <2>9 DEF IsFold
  <2>. QED BY <2>10
<1>3. K \in SUBSET Nat
  OBVIOUS
<1>4. \A k \in Nat : k \in K
  <2>. HIDE DEF K
  <2>. QED BY <1>1, <1>2, <1>3, SetInduction
<1>. QED BY <1>4

(* The values on the first indices are the loop's.                         *)
IsFolding(r, S, a, n, g) ==
  /\ r[{}] = a
  /\ \A s \in SUBSET (1 .. n) :
       s # {} /\ r[s \ {Max(s)}] \in S => r[s] = g[Max(s)][r[s \ {Max(s)}]]

LEMMA FoldIsLoop ==
  ASSUME NEW S, NEW a \in S, NEW n \in Nat, NEW g \in [1 .. n -> [S -> S]],
         NEW r, IsFolding(r, S, a, n, g)
  PROVE  \E f : IsLoop(f, S, a, n, g) /\ f[n] = r[1 .. n]
<1> DEFINE f == [i \in 0 .. n |-> r[1 .. i]]
<1>1. f[0] = a
  <2>1. 1 .. 0 = {}
    OBVIOUS
  <2>. QED BY <2>1 DEF IsFolding
<1>2. ASSUME NEW i \in 1 .. n, f[i - 1] \in S PROVE f[i] = g[i][f[i - 1]] /\ f[i] \in S
  <2> DEFINE s == 1 .. i
  <2>1. /\ i - 1 \in 0 .. n /\ i \in 0 .. n /\ i \in s /\ s \in SUBSET (1 .. n)
        /\ s \ {i} = 1 .. i - 1 /\ s \in SUBSET (1 .. i)
    OBVIOUS
  <2>2. f[i] = r[s] /\ f[i - 1] = r[s \ {i}]
    BY <2>1
  <2>. HIDE DEF s, f
  <2>3. Max(s) = i
    BY <2>1, LastIndex
  <2>4. r[s] = g[i][r[s \ {i}]]
    BY <1>2, <2>1, <2>2, <2>3 DEF IsFolding
  <2>5. g[i] \in [S -> S]
    OBVIOUS
  <2>. QED BY <1>2, <2>2, <2>4, <2>5
<1>3. \A i \in 0 .. n : f[i] \in S
  <2>. HIDE DEF f
  <2>1. f[0] \in S
    BY <1>1
  <2>. QED BY <2>1, <1>2, LoopStaysIn
<1>4. f \in [0 .. n -> S]
  BY <1>3
<1>5. \A i \in 1 .. n : f[i] = g[i][f[i - 1]]
  <2>1. \A i \in 1 .. n : i - 1 \in 0 .. n
    OBVIOUS
  <2>. HIDE DEF f
  <2>. QED BY <2>1, <1>2, <1>3
<1>. HIDE DEF f
<1>6. IsLoop(f, S, a, n, g)
  BY <1>1, <1>4, <1>5 DEF IsLoop
<1>7. f[n] = r[1 .. n]
  BY DEF f
<1>. QED BY <1>6, <1>7
-----------------------------------------------------------------------------
(* Sequences put one after the other: flat begins with each part's         *)
(* predecessors, and at[i] is the end of part i.                           *)
Flattening(f, S, seqs) ==
  /\ f[0] = << >>
  /\ \A i \in 0 .. Len(seqs) : f[i] \in Seq(S)
  /\ \A i \in 1 .. Len(seqs) : f[i] = f[i - 1] \o seqs[i]
  /\ FlattenSeq(seqs) = f[Len(seqs)]

LEMMA FlattenIs ==
  ASSUME NEW S, NEW seqs \in Seq(Seq(S))
  PROVE  \E f : Flattening(f, S, seqs)
<1> DEFINE n == Len(seqs)
           g == [i \in 1 .. n |-> [s \in Seq(S) |-> s \o seqs[i]]]
<1>1. n \in Nat /\ \A i \in 1 .. n : seqs[i] \in Seq(S)
  OBVIOUS
<1>2. << >> \in Seq(S)
  OBVIOUS
<1>3. CASE n = 0
  <2>1. seqs = << >> /\ FlattenSeq(seqs) = seqs
    BY <1>3 DEF FlattenSeq
  <2>2. Flattening([i \in 0 .. 0 |-> << >>], S, seqs)
    BY <1>2, <1>3, <2>1 DEF Flattening
  <2>. QED BY <2>2
<1>4. CASE n # 0
  <2>1. g \in [1 .. n -> [Seq(S) -> Seq(S)]]
    BY <1>1
  <2>2. PICK f : IsLoop(f, Seq(S), << >>, n, g)
    <3>. HIDE DEF n, g
    <3>. QED BY <1>1, <1>2, <2>1, LoopExists
  <2>3. /\ f[0] = << >> /\ \A i \in 0 .. n : f[i] \in Seq(S)
        /\ \A i \in 1 .. n : f[i] = g[i][f[i - 1]]
    BY <2>2 DEF IsLoop
  <2>4. \A i \in 1 .. n : f[i] = f[i - 1] \o seqs[i]
    <3>1. \A i \in 1 .. n : i - 1 \in 0 .. n
      BY <1>1
    <3>. QED BY <2>3, <3>1
  <2> DEFINE h == [i \in 1 .. n |-> f[i]]
             e(i) == IF i = 1 THEN seqs[i] ELSE h[i - 1] \o seqs[i]
  <2>5. ASSUME NEW i \in 1 .. n PROVE h[i] = e(i)
    <3>1. CASE i = 1
      <4>1. f[1] = << >> \o seqs[1]
        <5>1. 1 \in 1 .. n /\ 1 - 1 = 0
          BY <3>1
        <5>2. f[1] = f[1 - 1] \o seqs[1]
          BY <2>4, <5>1
        <5>. QED BY <2>3, <5>1, <5>2
      <4>2. seqs[1] \in Seq(S)
        BY <1>1, <3>1
      <4>3. f[1] = seqs[1]
        BY <4>1, <4>2, ConcatEmptySeq
      <4>. QED BY <3>1, <4>3
    <3>2. CASE i # 1
      <4>1. i - 1 \in 1 .. n
        BY <1>1, <3>2
      <4>. QED BY <2>4, <3>2, <4>1
    <3>. QED BY <3>1, <3>2
  <2>6. h = [i \in 1 .. Len(seqs) |-> IF i = 1 THEN seqs[i] ELSE h[i - 1] \o seqs[i]]
    <3>1. h = [i \in 1 .. n |-> e(i)]
      <4>1. h = [i \in 1 .. n |-> h[i]]
        OBVIOUS
      <4>. HIDE DEF e, n, h
      <4>. QED BY <2>5, <4>1
    <3>. QED BY <3>1
  <2>7. \E r : /\ r = [i \in 1 .. Len(seqs) |->
                         IF i = 1 THEN seqs[i] ELSE r[i - 1] \o seqs[i]]
               /\ FlattenSeq(seqs) = r[Len(seqs)]
    <3>. HIDE DEF h
    <3>. QED BY <2>6, <1>4, Zenon DEF FlattenSeq
  <2>8. PICK r : /\ r = [i \in 1 .. n |-> IF i = 1 THEN seqs[i] ELSE r[i - 1] \o seqs[i]]
                 /\ FlattenSeq(seqs) = r[n]
    BY <2>7
  <2> DEFINE t == [i \in 0 .. n |-> IF i = 0 THEN << >> ELSE r[i]]
  <2>9. ASSUME NEW i \in 1 .. n PROVE t[i] = t[i - 1] \o seqs[i]
    <3>0. i \in 0 .. n /\ i - 1 \in 0 .. n /\ i # 0
      OBVIOUS
    <3>1. CASE i = 1
      <4>1. t[i] = seqs[i] /\ t[0] = << >> /\ seqs[i] \in Seq(S)
        BY <1>1, <2>8, <3>0, <3>1
      <4>. HIDE DEF t
      <4>2. << >> \o seqs[i] = seqs[i] /\ i - 1 = 0
        BY <3>1, <4>1, ConcatEmptySeq
      <4>. QED BY <4>1, <4>2
    <3>2. CASE i # 1
      <4>1. i - 1 \in 1 .. n /\ i - 1 # 0
        BY <1>1, <3>2
      <4>2. r[i] = r[i - 1] \o seqs[i]
        BY <2>8, <3>2
      <4>. QED BY <3>0, <3>2, <4>1, <4>2
    <3>. QED BY <3>1, <3>2
  <2>10. t[0] = << >> /\ FlattenSeq(seqs) = t[n]
    <3>1. 0 \in 0 .. n /\ n \in 0 .. n
      BY <1>1
    <3>. QED BY <3>1, <1>4, <2>8
  <2>. HIDE DEF t
  <2>11. \A i \in 0 .. n : t[i] \in Seq(S)
    <3>1. \A i \in 1 .. n : t[i - 1] \in Seq(S) => t[i] \in Seq(S)
      <4>1. \A a, b \in Seq(S) : a \o b \in Seq(S)
        OBVIOUS
      <4>. QED BY <1>1, <2>9, <4>1
    <3>2. t[0] \in Seq(S)
      BY <2>10, <1>2
    <3>. HIDE DEF n
    <3>. QED BY <1>1, <3>1, <3>2, LoopStaysIn
  <2>12. Flattening(t, S, seqs)
    BY <2>9, <2>10, <2>11 DEF Flattening
  <2>. QED BY <2>12
<1>. QED BY <1>3, <1>4

(* Where each part ends in the whole.                                      *)
IsLayout(at, seqs, flat) ==
  /\ at[0] = 0 /\ at[Len(seqs)] = Len(flat)
  /\ \A i \in 0 .. Len(seqs) : at[i] \in Nat /\ at[i] <= Len(flat)
  /\ \A i \in 1 .. Len(seqs) :
       /\ at[i] = at[i - 1] + Len(seqs[i])
       /\ \A k \in 1 .. Len(seqs[i]) : flat[at[i - 1] + k] = seqs[i][k]

(* The flattened sequence has each part where the layout says.             *)
LEMMA LayoutExists ==
  ASSUME NEW S, NEW seqs \in Seq(Seq(S))
  PROVE  /\ FlattenSeq(seqs) \in Seq(S)
         /\ \E at : IsLayout(at, seqs, FlattenSeq(seqs))
<1> DEFINE n == Len(seqs)
<1>1. n \in Nat /\ \A i \in 1 .. n : seqs[i] \in Seq(S)
  OBVIOUS
<1>2. PICK f : Flattening(f, S, seqs)
  BY FlattenIs
<1>3. /\ f[0] = << >> /\ FlattenSeq(seqs) = f[n]
      /\ \A i \in 0 .. n : f[i] \in Seq(S)
      /\ \A i \in 1 .. n : f[i] = f[i - 1] \o seqs[i]
  BY <1>2 DEF Flattening
<1> DEFINE at == [i \in 0 .. n |-> Len(f[i])]
<1>. HIDE DEF n
<1>4. ASSUME NEW i \in 1 .. n
      PROVE  /\ i - 1 \in 0 .. n /\ i \in 0 .. n /\ i - 1 \in Nat
             /\ at[i] = at[i - 1] + Len(seqs[i])
             /\ \A k \in 1 .. Len(seqs[i]) : f[i][at[i - 1] + k] = seqs[i][k]
             /\ \A k \in 1 .. at[i - 1] : f[i][k] = f[i - 1][k]
  <2> DEFINE a == f[i - 1]
             b == seqs[i]
  <2>1. i - 1 \in 0 .. n /\ i \in 0 .. n /\ i - 1 \in Nat
    BY <1>1
  <2>2. a \in Seq(S) /\ b \in Seq(S) /\ f[i] = a \o b
    BY <1>1, <1>3, <2>1
  <2>3. at[i] = Len(f[i]) /\ at[i - 1] = Len(a)
    BY <2>1
  <2>. HIDE DEF a, b, at
  <2>4. /\ Len(a \o b) = Len(a) + Len(b) /\ Len(a) \in Nat /\ Len(b) \in Nat
        /\ \A k \in 1 .. Len(a) + Len(b) :
             (a \o b)[k] = IF k <= Len(a) THEN a[k] ELSE b[k - Len(a)]
    BY <2>2, ConcatProperties, LenProperties
  <2>5. ASSUME NEW k \in 1 .. Len(b) PROVE (a \o b)[Len(a) + k] = b[k]
    <3>1. Len(a) + k \in 1 .. Len(a) + Len(b) /\ ~ (Len(a) + k <= Len(a))
          /\ (Len(a) + k) - Len(a) = k
      BY <2>4
    <3>. QED BY <2>4, <3>1
  <2>6. ASSUME NEW k \in 1 .. Len(a) PROVE (a \o b)[k] = a[k]
    <3>1. k \in 1 .. Len(a) + Len(b) /\ k <= Len(a)
      BY <2>4
    <3>. QED BY <2>4, <3>1
  <2>. QED BY <2>1, <2>2, <2>3, <2>4, <2>5, <2>6 DEF a, b
<1>5. \A i \in 0 .. n : at[i] = Len(f[i]) /\ at[i] \in Nat
  BY <1>3
<1>. HIDE DEF at
(* What has been put stays where it is.                                    *)
<1> DEFINE K == {m \in Nat : m <= n => \A i \in 0 .. m :
                    at[i] <= at[m] /\ \A k \in 1 .. at[i] : f[m][k] = f[i][k]}
<1>6. 0 \in K
  <2>1. \A i \in 0 .. 0 : i = 0
    OBVIOUS
  <2>2. at[0] <= at[0]
    BY <1>1, <1>5
  <2>. QED BY <2>1, <2>2
<1>7. ASSUME NEW m \in K PROVE m + 1 \in K
  <2>1. SUFFICES ASSUME m + 1 <= n, NEW i \in 0 .. m + 1
                 PROVE  at[i] <= at[m + 1] /\ \A k \in 1 .. at[i] : f[m + 1][k] = f[i][k]
    OBVIOUS
  <2>2. m \in Nat
    OBVIOUS
  <2>3. m <= n /\ m + 1 \in 1 .. n /\ (m + 1) - 1 = m /\ m \in 0 .. n
    BY <1>1, <2>1, <2>2
  <2>4. /\ at[m + 1] = at[m] + Len(seqs[m + 1])
        /\ \A k \in 1 .. at[m] : f[m + 1][k] = f[m][k]
        /\ at[m] \in Nat /\ Len(seqs[m + 1]) \in Nat
    BY <2>3, <1>1, <1>4, <1>5
  <2>5. CASE i = m + 1
    BY <2>3, <2>5, <1>5
  <2>6. CASE i # m + 1
    <3>1. i \in 0 .. m /\ i \in 0 .. n
      <4>. HIDE DEF K
      <4>1. i \in Nat /\ i <= m + 1
        BY <2>2
      <4>. QED BY <1>1, <2>2, <2>3, <2>6, <4>1
    <3>2. at[i] <= at[m] /\ \A k \in 1 .. at[i] : f[m][k] = f[i][k]
      BY <2>3, <3>1
    <3>3. at[i] \in Nat
      BY <1>5, <3>1
    <3>. HIDE DEF K
    <3>4. at[i] <= at[m + 1] /\ \A k \in 1 .. at[i] : k \in 1 .. at[m]
      BY <2>4, <3>2, <3>3
    <3>. QED BY <2>4, <3>2, <3>4
  <2>. QED BY <2>5, <2>6
<1>8. K \in SUBSET Nat
  OBVIOUS
<1>9. \A m \in Nat : m \in K
  <2>. HIDE DEF K
  <2>. QED BY <1>6, <1>7, <1>8, SetInduction
<1>10. \A i \in 0 .. n : at[i] <= at[n] /\ \A k \in 1 .. at[i] : f[n][k] = f[i][k]
  BY <1>1, <1>9
<1>11. at[0] = 0 /\ at[n] = Len(f[n])
  BY <1>1, <1>3, <1>5
<1>12. ASSUME NEW i \in 1 .. n, NEW k \in 1 .. Len(seqs[i])
       PROVE  f[n][at[i - 1] + k] = seqs[i][k]
  <2>1. /\ at[i] = at[i - 1] + Len(seqs[i]) /\ f[i][at[i - 1] + k] = seqs[i][k]
        /\ i - 1 \in 0 .. n /\ i \in 0 .. n
    BY <1>4
  <2>2. at[i - 1] \in Nat /\ Len(seqs[i]) \in Nat
    BY <1>1, <1>5, <2>1
  <2>3. at[i - 1] + k \in 1 .. at[i]
    BY <2>1, <2>2
  <2>. QED BY <1>10, <2>1, <2>3
<1>13. f[n] \in Seq(S)
  BY <1>1, <1>3
<1>14. IsLayout(at, seqs, f[n])
  BY <1>4, <1>5, <1>10, <1>11, <1>12 DEF IsLayout, n
<1>. QED BY <1>3, <1>13, <1>14
=============================================================================
