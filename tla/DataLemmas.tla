---------------------------- MODULE DataLemmas ----------------------------
(***************************************************************************)
(* Facts about numbers, sequences, loops and append_bounded that the       *)
(* proofs about the tools share. Induction is over sets of numbers: the set of those that   *)
(* have a property stands for the property.                                *)
(***************************************************************************)
EXTENDS EvidenceBody, FiniteSets, SequencesExt, WellFoundedInduction, TLAPS

(* The order of the numbers, as a relation. *)
Less == OpToRel(<, Nat)

(* A set of numbers has a least one. *)
LEMMA LeastNumber ==
    ASSUME NEW T \in SUBSET Nat, T # {}
    PROVE  \E m \in T : \A k \in T : m <= k
  <1>1. \A i, j \in Nat : <<i, j>> \in Less <=> i < j
    BY DEF Less, OpToRel
  <1>2. IsWellFoundedOn(Less, Nat)
    BY NatLessThanWellFounded, Zenon DEF Less
  <1>3. PICK m \in T : \A k \in T : ~(<<k, m>> \in Less)
    BY <1>2, WFMin
  <1>4. \A k \in T : k \in Nat /\ m \in Nat /\ ~(k < m)
    BY <1>1, <1>3
  <1> QED BY <1>4

(* What 0 has and n + 1 has whenever n has it, every number has. *)
LEMMA SetInduction ==
    ASSUME NEW S, 0 \in S, \A n \in Nat : n \in S => n + 1 \in S
    PROVE  Nat \subseteq S
  <1> SUFFICES ASSUME Nat \ S # {} PROVE FALSE
    OBVIOUS
  <1> DEFINE T == Nat \ S
  <1>1. T \in SUBSET Nat /\ T # {}
    OBVIOUS
  <1> HIDE DEF T
  <1>2. PICK m \in T : \A k \in T : m <= k
    BY <1>1, LeastNumber
  <1> USE DEF T
  <1>3. m \in Nat /\ m # 0
    BY <1>2
  <1>4. m - 1 \in Nat /\ m - 1 \notin T
    BY <1>2, <1>3
  <1> QED BY <1>2, <1>3, <1>4

(* A set of places in a sequence has a last one. *)
LEMMA LastPlace ==
    ASSUME NEW n \in Nat, NEW T \in SUBSET (1 .. n), T # {}
    PROVE  Max(T) \in T /\ \A k \in T : Max(T) >= k
  <1> DEFINE U == {n - k : k \in T}
  <1>0. \A k \in T : k \in Int /\ n - k \in Nat
    OBVIOUS
  <1>1. U \in SUBSET Nat /\ U # {}
    BY <1>0
  <1>2. PICK u \in U : \A v \in U : u <= v
    <2> HIDE DEF U
    <2> QED BY <1>1, LeastNumber
  <1>3. PICK m \in T : u = n - m
    BY <1>2
  <1>4. \A k \in T : m >= k
    <2> SUFFICES ASSUME NEW k \in T PROVE m >= k
      OBVIOUS
    <2>1. n - m <= n - k
      BY <1>2, <1>3
    <2> QED BY <1>0, <2>1
  <1> QED BY <1>4 DEF Max

(* What is in order from each place to the next is in order throughout. *)
LEMMA SortedThroughout ==
    ASSUME NEW n \in Nat, NEW f \in [1 .. n -> Nat],
           \A i \in 1 .. n : i > 1 => f[i - 1] <= f[i]
    PROVE  \A i, j \in 1 .. n : j < i => f[j] <= f[i]
  <1> DEFINE S == {d \in Nat : \A j \in 1 .. n : j + d \in 1 .. n => f[j] <= f[j + d]}
  <1>1. 0 \in S
    OBVIOUS
  <1>2. ASSUME NEW d \in Nat, d \in S PROVE d + 1 \in S
    <2> SUFFICES ASSUME NEW j \in 1 .. n, j + (d + 1) \in 1 .. n PROVE f[j] <= f[j + (d + 1)]
      OBVIOUS
    <2>1. j + d \in 1 .. n /\ (j + (d + 1)) - 1 = j + d /\ j + (d + 1) > 1
      OBVIOUS
    <2>2. f[j] <= f[j + d] /\ f[j + d] <= f[j + (d + 1)]
      BY <1>2, <2>1
    <2>3. f[j] \in Nat /\ f[j + d] \in Nat /\ f[j + (d + 1)] \in Nat
      BY <2>1
    <2> QED BY <2>2, <2>3
  <1>3. Nat \subseteq S
    <2> HIDE DEF S
    <2> QED BY <1>1, <1>2, SetInduction
  <1> SUFFICES ASSUME NEW i \in 1 .. n, NEW j \in 1 .. n, j < i PROVE f[j] <= f[i]
    OBVIOUS
  <1>4. i - j \in Nat /\ j + (i - j) = i
    OBVIOUS
  <1>5. i - j \in S
    BY <1>3, <1>4
  <1> QED BY <1>4, <1>5

(* The greatest of a set of places, and the set without it. *)
LEMMA GreatestPlace ==
    ASSUME NEW n \in Nat, NEW s \in SUBSET (1 .. n + 1)
    PROVE  /\ n + 1 \in s => Max(s) = n + 1 /\ s \ {Max(s)} \in SUBSET (1 .. n)
           /\ n + 1 \notin s => s \in SUBSET (1 .. n) /\ s \ {Max(s)} \in SUBSET (1 .. n)
           /\ n + 1 \notin s \ {Max(s)}
  <1>0. n + 1 \in Nat
    OBVIOUS
  <1>1. ASSUME n + 1 \in s PROVE Max(s) = n + 1
    <2>1. Max(s) \in s /\ \A k \in s : Max(s) >= k
      BY <1>0, <1>1, LastPlace
    <2>2. Max(s) >= n + 1 /\ Max(s) \in 1 .. n + 1
      BY <1>1, <2>1
    <2> HIDE DEF Max
    <2> QED BY <2>2
  <1> HIDE DEF Max
  <1>2. ASSUME n + 1 \in s PROVE s \ {Max(s)} \in SUBSET (1 .. n)
    <2>1. \A k \in s \ {n + 1} : k \in 1 .. n
      OBVIOUS
    <2> QED BY <1>1, <1>2, <2>1
  <1>3. ASSUME n + 1 \notin s PROVE s \in SUBSET (1 .. n)
    <2>1. \A k \in s : k \in 1 .. n
      BY <1>3
    <2> QED BY <2>1
  <1>4. n + 1 \notin s \ {Max(s)}
    BY <1>1
  <1> QED BY <1>1, <1>2, <1>3, <1>4

(* What is appended to a sequence is one of its members. *)
LEMMA AppendTyped ==
    ASSUME NEW S, NEW s \in Seq(S), NEW x \in S
    PROVE  Append(s, x) \in Seq(S)
  OBVIOUS

(* The least of two numbers. *)
LEMMA LeastOfTwo ==
    ASSUME NEW a \in Nat, NEW b \in Nat, a <= b
    PROVE  Min({a, b}) = a
  <1>1. \E x \in {a, b} : \A y \in {a, b} : x <= y
    OBVIOUS
  <1>2. Min({a, b}) \in {a, b} /\ \A y \in {a, b} : Min({a, b}) <= y
    BY <1>1 DEF Min
  <1> QED BY <1>2

(* The members of a sequence. *)
LEMMA RangeTyped ==
    ASSUME NEW S, NEW s \in Seq(S)
    PROVE  Range(s) \subseteq S
  BY DEF Range

(* A sequence without members is empty. *)
LEMMA NothingIsEmpty ==
    ASSUME NEW S, NEW s \in Seq(S), Len(s) = 0
    PROVE  s = <<>>
  OBVIOUS

(* A sequence is all of itself. *)
LEMMA WholeSubSeq ==
    ASSUME NEW S, NEW s \in Seq(S)
    PROVE  SubSeq(s, 1, Len(s)) = s
  OBVIOUS

-----------------------------------------------------------------------------
(* The function behind FlattenSeq: the first n sequences, joined. *)
Joined(seqs) ==
    LET flatten[i \in 1 .. Len(seqs)] ==
          IF i = 1 THEN seqs[i] ELSE flatten[i - 1] \o seqs[i]
    IN  flatten

(* The recursion has a solution, and so joins one sequence after the other. *)
LEMMA JoinedDef ==
    ASSUME NEW B, NEW s \in Seq(Seq(B))
    PROVE  Joined(s) = [i \in 1 .. Len(s) |-> IF i = 1 THEN s[i] ELSE Joined(s)[i - 1] \o s[i]]
  <1> DEFINE Sol(f, n) == f = [i \in 1 .. n |-> IF i = 1 THEN s[i] ELSE f[i - 1] \o s[i]]
             S == {n \in Nat : \E f : Sol(f, n)}
  <1>1. 0 \in S
    <2> DEFINE f == [i \in 1 .. 0 |-> IF i = 1 THEN s[i] ELSE s[i]]
    <2>1. f = [i \in 1 .. 0 |-> IF i = 1 THEN s[i] ELSE f[i - 1] \o s[i]]
      OBVIOUS
    <2> HIDE DEF f
    <2> QED BY <2>1
  <1>2. ASSUME NEW n \in Nat, n \in S PROVE n + 1 \in S
    <2>1. PICK f : Sol(f, n)
      BY <1>2
    <2> DEFINE last == IF n = 0 THEN s[1] ELSE f[n] \o s[n + 1]
               g == [i \in 1 .. n + 1 |-> IF i = n + 1 THEN last ELSE f[i]]
    <2>2. ASSUME NEW i \in 1 .. n + 1
          PROVE  g[i] = IF i = 1 THEN s[i] ELSE g[i - 1] \o s[i]
      <3>1. CASE i = n + 1
        <4>1. CASE n = 0
          BY <3>1, <4>1
        <4>2. CASE n # 0
          <5>1. i # 1 /\ i - 1 = n /\ n \in 1 .. n + 1 /\ n # n + 1
            BY <3>1, <4>2
          <5>2. g[i] = f[n] \o s[n + 1]
            BY <3>1, <4>2
          <5>3. g[i - 1] = f[n]
            BY <5>1
          <5> QED BY <3>1, <5>1, <5>2, <5>3
        <4> QED BY <4>1, <4>2
      <3>2. CASE i # n + 1
        <4>1. i \in 1 .. n /\ g[i] = f[i]
          BY <3>2
        <4>2. f[i] = IF i = 1 THEN s[i] ELSE f[i - 1] \o s[i]
          BY <2>1, <4>1
        <4>3. i # 1 => g[i - 1] = f[i - 1]
          BY <4>1
        <4> QED BY <4>1, <4>2, <4>3
      <3> QED BY <3>1, <3>2
    <2>3. Sol(g, n + 1)
      <3>1. g = [i \in 1 .. n + 1 |-> g[i]]
        OBVIOUS
      <3> DEFINE h == [i \in 1 .. n + 1 |-> IF i = 1 THEN s[i] ELSE g[i - 1] \o s[i]]
      <3>3. g = h
        <4>1. \A i \in 1 .. n + 1 : g[i] = h[i]
          BY <2>2
        <4>2. DOMAIN g = 1 .. n + 1 /\ DOMAIN h = 1 .. n + 1
          OBVIOUS
        <4>3. h = [i \in 1 .. n + 1 |-> h[i]]
          OBVIOUS
        <4> HIDE DEF g, h
        <4> QED BY <3>1, <4>1, <4>3
      <3> HIDE DEF g
      <3> QED BY <3>3, Zenon
    <2>4. n + 1 \in Nat
      OBVIOUS
    <2>5. \E x : Sol(x, n + 1)
      <3> HIDE DEF Sol, g
      <3> QED BY <2>3
    <2> QED BY <2>4, <2>5
  <1>3. Len(s) \in S
    <2>1. Len(s) \in Nat
      OBVIOUS
    <2> HIDE DEF S
    <2> QED BY <1>1, <1>2, <2>1, SetInduction
  <1>4. Joined(s) = CHOOSE f : Sol(f, Len(s))
    BY DEF Joined
  <1>5. Sol(Joined(s), Len(s))
    <2> HIDE DEF Sol
    <2> QED BY <1>3, <1>4
  <1> QED BY <1>5

(* The same, for one of the beginnings. *)
LEMMA JoinedAt ==
    ASSUME NEW B, NEW s \in Seq(Seq(B)), NEW i \in 1 .. Len(s)
    PROVE  Joined(s)[i] = IF i = 1 THEN s[i] ELSE Joined(s)[i - 1] \o s[i]
  <1> DEFINE F == Joined(s)
             G == [j \in 1 .. Len(s) |-> IF j = 1 THEN s[j] ELSE F[j - 1] \o s[j]]
  <1>1. F = G
    BY JoinedDef
  <1> HIDE DEF F
  <1>2. G[i] = IF i = 1 THEN s[i] ELSE F[i - 1] \o s[i]
    OBVIOUS
  <1> HIDE DEF G
  <1>3. F[i] = IF i = 1 THEN s[i] ELSE F[i - 1] \o s[i]
    BY <1>1, <1>2
  <1> QED BY <1>3 DEF F

(* FlattenSeq joins all of them. *)
LEMMA FlattenIsJoined ==
    ASSUME NEW s, Len(s) # 0
    PROVE  FlattenSeq(s) = Joined(s)[Len(s)]
  BY DEF FlattenSeq, Joined

(* The first k sequences, joined. *)
JoinOf(s, k) == IF k = 0 THEN <<>> ELSE Joined(s)[k]

(* It grows by one sequence at a time, and ends with all of them. *)
LEMMA JoinGrows ==
    ASSUME NEW B, NEW s \in Seq(Seq(B)), NEW k \in 0 .. Len(s)
    PROVE  /\ k < Len(s) => JoinOf(s, k + 1) = JoinOf(s, k) \o s[k + 1]
           /\ JoinOf(s, k) \in Seq(B)
           /\ k = Len(s) => JoinOf(s, k) = FlattenSeq(s)
  <1> DEFINE Good == {n \in Nat : n <= Len(s) => JoinOf(s, n) \in Seq(B)}
  <1>1. \A i \in 1 .. Len(s) : Joined(s)[i] = IF i = 1 THEN s[i] ELSE Joined(s)[i - 1] \o s[i]
    BY JoinedAt
  <1>2. Len(s) \in Nat /\ \A i \in 1 .. Len(s) : s[i] \in Seq(B)
    OBVIOUS
  <1>3. ASSUME NEW n \in Nat, n < Len(s), JoinOf(s, n) \in Seq(B)
        PROVE  JoinOf(s, n + 1) = JoinOf(s, n) \o s[n + 1] /\ JoinOf(s, n + 1) \in Seq(B)
    <2>1. n + 1 \in 1 .. Len(s) /\ n + 1 # 0
      BY <1>2, <1>3
    <2>2. JoinOf(s, n + 1) = IF n + 1 = 1 THEN s[n + 1] ELSE Joined(s)[n + 1 - 1] \o s[n + 1]
      BY <1>1, <2>1 DEF JoinOf
    <2> DEFINE a == JoinOf(s, n)
               b == s[n + 1]
    <2>3. a \in Seq(B) /\ b \in Seq(B)
      BY <1>2, <1>3, <2>1
    <2>4. CASE n = 0
      <3>1. a = <<>> /\ JoinOf(s, n + 1) = b
        BY <2>2, <2>4 DEF JoinOf
      <3> HIDE DEF a, b
      <3>2. b = a \o b
        BY <2>3, <3>1
      <3>3. JoinOf(s, n + 1) = a \o b /\ JoinOf(s, n + 1) \in Seq(B)
        BY <2>3, <3>1, <3>2
      <3> QED BY <3>3 DEF a, b
    <2>5. CASE n # 0
      <3>1. n + 1 # 1 /\ n + 1 - 1 = n
        BY <2>5
      <3>2. JoinOf(s, n + 1) = a \o b
        BY <2>2, <2>5, <3>1 DEF JoinOf
      <3> HIDE DEF a, b
      <3>3. a \o b \in Seq(B)
        BY <2>3
      <3> QED BY <3>2, <3>3 DEF a, b
    <2> QED BY <2>4, <2>5
  <1>4. 0 \in Good
    <2>1. JoinOf(s, 0) = <<>> /\ <<>> \in Seq(B)
      BY DEF JoinOf
    <2> QED BY <2>1
  <1>5. ASSUME NEW n \in Nat, n \in Good PROVE n + 1 \in Good
    <2>1. n + 1 <= Len(s) => n < Len(s) /\ n <= Len(s)
      BY <1>2
    <2>2. n + 1 <= Len(s) => JoinOf(s, n + 1) \in Seq(B)
      BY <1>3, <1>5, <2>1
    <2> QED BY <2>2
  <1>6. k \in Nat /\ k <= Len(s)
    BY <1>2
  <1>7. JoinOf(s, k) \in Seq(B)
    <2>1. Nat \subseteq Good
      <3> HIDE DEF Good
      <3> QED BY <1>4, <1>5, SetInduction
    <2> QED BY <1>6, <2>1
  <1>8. ASSUME k = Len(s) PROVE JoinOf(s, k) = FlattenSeq(s)
    <2>1. CASE k = 0
      <3>1. s = <<>>
        BY <1>8, <2>1, NothingIsEmpty
      <3>2. FlattenSeq(s) = s
        BY <1>8, <2>1 DEF FlattenSeq
      <3> QED BY <2>1, <3>1, <3>2 DEF JoinOf
    <2>2. CASE k # 0
      BY <1>8, <2>2, FlattenIsJoined DEF JoinOf
    <2> QED BY <2>1, <2>2
  <1> QED BY <1>3, <1>6, <1>7, <1>8

(* Sequences that all end alike are joined to one that ends as they do. *)
LEMMA JoinEnds ==
    ASSUME NEW B, NEW s \in Seq(Seq(B)), NEW e, NEW k \in 1 .. Len(s),
           Len(s[k]) > 0, s[k][Len(s[k])] = e
    PROVE  Len(JoinOf(s, k)) > 0 /\ JoinOf(s, k)[Len(JoinOf(s, k))] = e
  <1> DEFINE j == k - 1
             a == JoinOf(s, j)
             b == s[k]
  <1>1. j \in 0 .. Len(s) /\ j < Len(s) /\ j + 1 = k /\ b \in Seq(B)
    OBVIOUS
  <1> HIDE DEF j
  <1>2. JoinOf(s, k) = a \o b /\ a \in Seq(B) /\ b \in Seq(B)
    <2>1. JoinOf(s, j + 1) = a \o s[j + 1] /\ a \in Seq(B)
      BY <1>1, JoinGrows
    <2> QED BY <1>1, <2>1
  <1> HIDE DEF a
  <1>3. Len(a \o b) = Len(a) + Len(b) /\ Len(a) \in Nat /\ Len(b) \in Nat
    BY <1>2
  <1>4. (a \o b)[Len(a) + Len(b)] = b[Len(b)]
    <2> HIDE DEF b
    <2>1. Len(b) > 0
      BY DEF b
    <2> QED BY <1>2, <1>3, <2>1
  <1> QED BY <1>2, <1>3, <1>4

(* What the first sequences are joined to has the members of these only. *)
LEMMA JoinOfFirst ==
    ASSUME NEW B, NEW C, NEW s \in Seq(Seq(B)), NEW m \in 0 .. Len(s),
           \A i \in 1 .. m : s[i] \in Seq(C)
    PROVE  JoinOf(s, m) \in Seq(C)
  <1> DEFINE Good == {n \in Nat : n <= m => JoinOf(s, n) \in Seq(C)}
  <1>1. 0 \in Good
    BY DEF JoinOf
  <1>2. ASSUME NEW n \in Nat, n \in Good PROVE n + 1 \in Good
    <2> SUFFICES ASSUME n + 1 <= m PROVE JoinOf(s, n + 1) \in Seq(C)
      OBVIOUS
    <2>1. n \in 0 .. Len(s) /\ n < Len(s) /\ n + 1 \in 1 .. m /\ n <= m
      OBVIOUS
    <2>2. JoinOf(s, n + 1) = JoinOf(s, n) \o s[n + 1]
      BY <2>1, JoinGrows
    <2> DEFINE a == JoinOf(s, n)
               b == s[n + 1]
    <2>3. a \in Seq(C) /\ b \in Seq(C)
      BY <1>2, <2>1
    <2> HIDE DEF a, b
    <2>4. a \o b \in Seq(C)
      BY <2>3
    <2> QED BY <2>2, <2>4 DEF a, b
  <1>3. m \in Good
    <2>1. m \in Nat
      OBVIOUS
    <2> HIDE DEF Good
    <2> QED BY <1>1, <1>2, <2>1, SetInduction
  <1> QED BY <1>3

-----------------------------------------------------------------------------
(* A loop of n rounds that keeps its state within A, and the states it goes through. *)
IsRound(round, n, A) == \A i \in 1 .. n, a \in A : round[<<i, a>>] \in A

IsRun(f, n, A, base, round) ==
    /\ f \in [0 .. n -> A]
    /\ f[0] = base /\ \A i \in 1 .. n : f[i] = round[<<i, f[i - 1]>>]

(* A loop has a run. *)
LEMMA Rounds ==
    ASSUME NEW n \in Nat, NEW A, NEW base \in A, NEW round, IsRound(round, n, A)
    PROVE  \E f : IsRun(f, n, A, base, round)
  <1> DEFINE Run(f, m) == f[0] = base /\ \A i \in 1 .. m : f[i] = round[<<i, f[i - 1]>>]
             S == {m \in Nat : m <= n => \E f \in [0 .. m -> A] : Run(f, m)}
  <1>1. 0 \in S
    <2> DEFINE f == [i \in 0 .. 0 |-> base]
    <2>1. f \in [0 .. 0 -> A] /\ Run(f, 0)
      OBVIOUS
    <2> HIDE DEF f, Run
    <2> QED BY <2>1
  <1>2. ASSUME NEW m \in Nat, m \in S PROVE m + 1 \in S
    <2> SUFFICES ASSUME m + 1 <= n PROVE \E f \in [0 .. m + 1 -> A] : Run(f, m + 1)
      OBVIOUS
    <2>1. PICK f \in [0 .. m -> A] : Run(f, m)
      BY <1>2
    <2> DEFINE g == [i \in 0 .. m + 1 |-> IF i = m + 1 THEN round[<<m + 1, f[m]>>] ELSE f[i]]
    <2>2. g \in [0 .. m + 1 -> A]
      <3>1. f[m] \in A /\ m + 1 \in 1 .. n
        BY <2>1
      <3>2. round[<<m + 1, f[m]>>] \in A
        BY <3>1 DEF IsRound
      <3> QED BY <2>1, <3>2
    <2>3. g[0] = base
      BY <2>1
    <2>4. ASSUME NEW i \in 1 .. m + 1 PROVE g[i] = round[<<i, g[i - 1]>>]
      <3>1. g[i - 1] = f[i - 1]
        OBVIOUS
      <3>2. CASE i = m + 1
        <4>1. g[i] = round[<<i, f[m]>>] /\ i - 1 = m
          BY <3>2
        <4> QED BY <3>1, <4>1
      <3>3. CASE i # m + 1
        <4>1. g[i] = f[i] /\ i \in 1 .. m
          BY <3>3
        <4>2. f[i] = round[<<i, f[i - 1]>>]
          BY <2>1, <4>1
        <4> QED BY <3>1, <4>1, <4>2
      <3> QED BY <3>2, <3>3
    <2> HIDE DEF g
    <2> QED BY <2>2, <2>3, <2>4
  <1>3. n \in S
    <2> HIDE DEF S
    <2> QED BY <1>1, <1>2, SetInduction
  <1> QED BY <1>3 DEF IsRun

-----------------------------------------------------------------------------
(* The beginning of a concatenation, when it ends in the first part. *)
LEMMA PrefixOfFirst ==
    ASSUME NEW s \in Seq(Byte), NEW t \in Seq(Byte), NEW n \in Nat, n <= Len(s)
    PROVE  /\ SubSeq(s \o t, 1, n) = SubSeq(s, 1, n)
           /\ SubSeq(s, 1, n) \in Seq(Byte)
           /\ Len(SubSeq(s, 1, n)) = n
  <1> DEFINE a == SubSeq(s \o t, 1, n)
             b == SubSeq(s, 1, n)
  <1>1. /\ s \o t \in Seq(Byte) /\ Len(s \o t) = Len(s) + Len(t)
        /\ Len(s) \in Nat /\ Len(t) \in Nat
    OBVIOUS
  <1>2. a \in Seq(Byte) /\ Len(a) = n /\ \A i \in 1 .. n : a[i] = (s \o t)[i]
    BY <1>1
  <1>3. b \in Seq(Byte) /\ Len(b) = n /\ \A i \in 1 .. n : b[i] = s[i]
    BY <1>1
  <1>4. \A i \in 1 .. n : (s \o t)[i] = s[i]
    BY <1>1
  <1>5. a = b
    BY <1>2, <1>3, <1>4
  <1> QED BY <1>3, <1>5

(* The beginning of a concatenation, when it ends in the second part. *)
LEMMA PrefixIntoSecond ==
    ASSUME NEW s \in Seq(Byte), NEW t \in Seq(Byte), NEW k \in Nat, k <= Len(t)
    PROVE  /\ SubSeq(s \o t, 1, Len(s) + k) = s \o SubSeq(t, 1, k)
           /\ SubSeq(t, 1, k) \in Seq(Byte)
           /\ Len(SubSeq(t, 1, k)) = k
  <1> DEFINE a == SubSeq(s \o t, 1, Len(s) + k)
             c == SubSeq(t, 1, k)
             b == s \o c
  <1>1. /\ s \o t \in Seq(Byte) /\ Len(s \o t) = Len(s) + Len(t)
        /\ Len(s) \in Nat /\ Len(t) \in Nat
    OBVIOUS
  <1>2. /\ a \in Seq(Byte) /\ Len(a) = Len(s) + k
        /\ \A i \in 1 .. Len(s) + k : a[i] = (s \o t)[i]
    BY <1>1
  <1>3. c \in Seq(Byte) /\ Len(c) = k /\ \A i \in 1 .. k : c[i] = t[i]
    BY <1>1
  <1>4. b \in Seq(Byte) /\ Len(b) = Len(s) + k
    BY <1>1, <1>3
  <1>5. ASSUME NEW i \in 1 .. Len(s) + k
        PROVE  (s \o t)[i] = b[i]
    <2>1. CASE i <= Len(s)
      BY <2>1, <1>1, <1>3
    <2>2. CASE i > Len(s)
      <3>1. (s \o t)[i] = t[i - Len(s)]
        BY <2>2, <1>1
      <3>2. b[i] = c[i - Len(s)]
        BY <2>2, <1>1, <1>3
      <3>3. i - Len(s) \in 1 .. k
        BY <2>2, <1>1
      <3> QED BY <3>1, <3>2, <3>3, <1>3
    <2> QED BY <2>1, <2>2, <1>1
  <1>6. a = b
    BY <1>2, <1>4, <1>5
  <1> QED BY <1>3, <1>6
-----------------------------------------------------------------------------
(* What append_bounded leaves is never longer than MaxBody, whatever the body
   held before, provided it was within the bound. *)
LEMMA AppendIsBounded ==
    ASSUME NEW b \in Seq(Byte), NEW text \in Seq(Byte), Len(b) <= MaxBody
    PROVE  /\ append_bounded(b, text) \in Seq(Byte)
           /\ Len(append_bounded(b, text)) <= MaxBody
  <1> USE BodyAssumption
  <1> DEFINE keep == MaxBody - Len(Marker)
  <1>0. Len(b) \in Nat /\ Len(text) \in Nat /\ Len(Marker) \in Nat /\ keep \in Nat
    OBVIOUS
  <1>1. CASE Fits(b, text)
    <2>1. append_bounded(b, text) = b \o text
      BY <1>1 DEF append_bounded
    <2> QED BY <1>0, <1>1, <2>1 DEF Fits
  <1>2. CASE ~Fits(b, text) /\ Remaining(b) > Len(Marker)
    <2> DEFINE k == Remaining(b) - Len(Marker)
    <2>1. append_bounded(b, text) = b \o SubSeq(text, 1, k) \o Marker
      BY <1>2 DEF append_bounded
    <2>2. k \in Nat /\ k <= Len(text)
      BY <1>0, <1>2 DEF Fits, Remaining
    <2>3. SubSeq(text, 1, k) \in Seq(Byte) /\ Len(SubSeq(text, 1, k)) = k
      <3> HIDE DEF k
      <3> QED BY <2>2, PrefixIntoSecond, <1>0
    <2>4. Len(b) + k + Len(Marker) = MaxBody
      BY <1>0 DEF Remaining
    <2> HIDE DEF k
    <2>5. b \o SubSeq(text, 1, k) \in Seq(Byte)
          /\ Len(b \o SubSeq(text, 1, k)) = Len(b) + k
      BY <2>3
    <2> QED BY <1>0, <2>1, <2>2, <2>4, <2>5
  <1>3. CASE ~Fits(b, text) /\ ~(Remaining(b) > Len(Marker))
    <2>1. append_bounded(b, text) = SubSeq(b, 1, keep) \o Marker
      BY <1>3 DEF append_bounded
    <2>2. keep <= Len(b)
      BY <1>0, <1>3 DEF Remaining
    <2>3. keep + Len(Marker) = MaxBody
      BY <1>0
    <2> HIDE DEF keep
    <2>4. SubSeq(b, 1, keep) \in Seq(Byte) /\ Len(SubSeq(b, 1, keep)) = keep
      BY <1>0, <2>2, PrefixOfFirst
    <2> QED BY <1>0, <2>1, <2>3, <2>4
  <1> QED BY <1>1, <1>2, <1>3

(* The first call that does not fit cuts what was wanted so far. *)
LEMMA FirstCut ==
    ASSUME NEW b \in Seq(Byte), NEW text \in Seq(Byte), Len(b) <= MaxBody,
           ~Fits(b, text)
    PROVE  append_bounded(b, text) =
             SubSeq(b \o text, 1, MaxBody - Len(Marker)) \o Marker
  <1> USE BodyAssumption
  <1>0. Len(b) \in Nat /\ Len(text) \in Nat /\ Len(Marker) \in Nat
    OBVIOUS
  <1>1. CASE Remaining(b) > Len(Marker)
    <2> DEFINE k == Remaining(b) - Len(Marker)
    <2>1. append_bounded(b, text) = (b \o SubSeq(text, 1, k)) \o Marker
      BY <1>1 DEF append_bounded
    <2>2. k \in Nat /\ k <= Len(text) /\ Len(b) + k = MaxBody - Len(Marker)
      BY <1>0, <1>1 DEF Fits, Remaining
    <2> HIDE DEF k
    <2>3. SubSeq(b \o text, 1, Len(b) + k) = b \o SubSeq(text, 1, k)
      BY <2>2, PrefixIntoSecond
    <2> QED BY <2>1, <2>2, <2>3
  <1>2. CASE ~(Remaining(b) > Len(Marker))
    <2>1. append_bounded(b, text) = SubSeq(b, 1, MaxBody - Len(Marker)) \o Marker
      BY <1>2 DEF append_bounded
    <2>2. MaxBody - Len(Marker) \in Nat /\ MaxBody - Len(Marker) <= Len(b)
      BY <1>0, <1>2 DEF Remaining
    <2>3. SubSeq(b \o text, 1, MaxBody - Len(Marker)) = SubSeq(b, 1, MaxBody - Len(Marker))
      BY <2>2, PrefixOfFirst
    <2> QED BY <2>1, <2>3
  <1> QED BY <1>1, <1>2

(* A body that was cut is left as it is by every later call. *)
LEMMA CutIsStable ==
    ASSUME NEW s \in Seq(Byte), NEW text \in Seq(Byte),
           Len(s) = MaxBody - Len(Marker)
    PROVE  append_bounded(s \o Marker, text) = s \o Marker
  <1> USE BodyAssumption
  <1> DEFINE b == s \o Marker
  <1>0. /\ b \in Seq(Byte) /\ Len(b) = MaxBody
        /\ Len(s) \in Nat /\ Len(text) \in Nat /\ Len(Marker) \in Nat
    OBVIOUS
  <1>1. CASE Fits(b, text)
    <2>1. Len(text) = 0
      BY <1>0, <1>1 DEF Fits
    <2>2. text = <<>>
      BY <2>1
    <2>3. append_bounded(b, text) = b \o text
      BY <1>1 DEF append_bounded
    <2> HIDE DEF b
    <2>4. b \o text = b
      BY <1>0, <2>2
    <2> QED BY <2>3, <2>4 DEF b
  <1>2. CASE ~Fits(b, text)
    <2>1. append_bounded(b, text) = SubSeq(b \o text, 1, MaxBody - Len(Marker)) \o Marker
      <3>1. Len(b) <= MaxBody
        BY <1>0
      <3> HIDE DEF b
      <3> QED BY <1>0, <1>2, <3>1, FirstCut
    <2>2. SubSeq(b \o text, 1, Len(s)) = SubSeq(b, 1, Len(s))
      <3> HIDE DEF b
      <3>1. Len(s) <= Len(b)
        BY <1>0
      <3> QED BY <1>0, <3>1, PrefixOfFirst
    <2>3. SubSeq(b, 1, Len(s)) = SubSeq(s, 1, Len(s))
      BY <1>0, PrefixOfFirst
    <2>4. SubSeq(s, 1, Len(s)) = s
      BY <1>0
    <2> QED BY <2>1, <2>2, <2>3, <2>4
  <1> QED BY <1>1, <1>2

-----------------------------------------------------------------------------
(* A body within its bound that is all of a text, or the longest beginning of it
   that leaves room for the marker, and the marker. *)
IsFaithful(b, cut, all) ==
    /\ b \in Seq(Byte) /\ all \in Seq(Byte) /\ cut \in BOOLEAN
    /\ Len(b) <= MaxBody
    /\ IF cut
       THEN /\ Len(all) > MaxBody
            /\ b = SubSeq(all, 1, MaxBody - Len(Marker)) \o Marker
       ELSE b = all

(* append_bounded keeps it so, whether or not an earlier call has cut the body. *)
LEMMA AppendIsFaithful ==
    ASSUME NEW b, NEW cut, NEW all, NEW text \in Seq(Byte), IsFaithful(b, cut, all)
    PROVE  IsFaithful(append_bounded(b, text), cut \/ ~Fits(b, text), all \o text)
  <1> DEFINE b2 == append_bounded(b, text)
             cut2 == cut \/ ~Fits(b, text)
             all2 == all \o text
  <1> USE BodyAssumption
  <1>0. /\ b \in Seq(Byte) /\ all \in Seq(Byte) /\ cut \in BOOLEAN /\ Len(b) <= MaxBody
        /\ Len(b) \in Nat /\ Len(all) \in Nat /\ Len(text) \in Nat /\ Len(Marker) \in Nat
    BY DEF IsFaithful
  <1>1. b2 \in Seq(Byte) /\ Len(b2) <= MaxBody
    BY <1>0, AppendIsBounded
  <1>2. all2 \in Seq(Byte) /\ Len(all2) = Len(all) + Len(text)
    BY <1>0
  <1>3. CASE ~cut /\ Fits(b, text)
    <2>1. b = all /\ ~cut2
      BY <1>3 DEF IsFaithful
    <2>2. b2 = b \o text
      BY <1>3 DEF append_bounded
    <2> HIDE DEF b2, cut2, all2
    <2>3. b2 = all2
      BY <2>1, <2>2 DEF all2
    <2>4. IsFaithful(b2, cut2, all2)
      BY <1>1, <1>2, <2>1, <2>3, Zenon DEF IsFaithful, cut2
    <2> QED BY <2>4 DEF b2, cut2, all2
  <1>4. CASE ~cut /\ ~Fits(b, text)
    <2>1. b = all /\ cut2
      BY <1>4 DEF IsFaithful
    <2>2. b2 = SubSeq(all2, 1, MaxBody - Len(Marker)) \o Marker
      BY <1>0, <1>4, <2>1, FirstCut
    <2>3. Len(all2) > MaxBody
      BY <1>0, <1>2, <1>4, <2>1 DEF Fits
    <2> HIDE DEF b2, all2
    <2>4. cut2 = TRUE
      BY <1>4
    <2> HIDE DEF cut2
    <2>5. IsFaithful(b2, cut2, all2)
      BY <1>1, <1>2, <2>2, <2>3, <2>4 DEF IsFaithful
    <2> QED BY <2>5 DEF b2, cut2, all2
  <1>5. CASE cut
    <2> DEFINE keep == MaxBody - Len(Marker)
               s == SubSeq(all, 1, keep)
    <2>1. b = s \o Marker /\ Len(all) > MaxBody
      BY <1>5 DEF IsFaithful
    <2>2. keep \in Nat /\ keep <= Len(all)
      BY <1>0, <2>1
    <2>3. s \in Seq(Byte) /\ Len(s) = keep /\ SubSeq(all2, 1, keep) = s
      <3> HIDE DEF keep
      <3> QED BY <1>0, <2>2, PrefixOfFirst
    <2>4. append_bounded(s \o Marker, text) = s \o Marker
      <3> HIDE DEF s
      <3> QED BY <2>3, CutIsStable
    <2>5. Len(all2) > MaxBody
      BY <1>0, <1>2, <2>1
    <2>6. b2 = SubSeq(all2, 1, MaxBody - Len(Marker)) \o Marker
      BY <2>1, <2>3, <2>4
    <2>7. cut2 = TRUE
      BY <1>5
    <2> HIDE DEF b2, all2, cut2
    <2>8. IsFaithful(b2, cut2, all2)
      BY <1>1, <1>2, <2>5, <2>6, <2>7 DEF IsFaithful
    <2> QED BY <2>8 DEF b2, cut2, all2
  <1>6. cut \/ ~cut
    OBVIOUS
  <1> QED BY <1>3, <1>4, <1>5, <1>6

-----------------------------------------------------------------------------
(* Texts appended one after the other leave all of them, or the longest beginning
   that leaves room for the marker, and the marker. *)
LEMMA AllIsFaithful ==
    ASSUME NEW lines \in Seq(Seq(Byte))
    PROVE  \E cut \in BOOLEAN : IsFaithful(append_all(lines), cut, FlattenSeq(lines))
  <1> DEFINE n == Len(lines)
             A == {b \in Seq(Byte) : Len(b) <= MaxBody}
             Body(f) == [i \in 0 .. n |->
                           IF i = 0 THEN <<>> ELSE append_bounded(f[i - 1], lines[i])]
             Sol(f) == f = Body(f)
             round == [x \in (1 .. n) \X A |-> append_bounded(x[2], lines[x[1]])]
             body == CHOOSE f : Sol(f)
             Good == {k \in Nat : k <= n =>
                        \E cut \in BOOLEAN : IsFaithful(body[k], cut, JoinOf(lines, k))}
  <1>1. n \in Nat /\ \A i \in 1 .. n : lines[i] \in Seq(Byte)
    OBVIOUS
  <1>2. ASSUME NEW i \in 1 .. n, NEW a \in A
        PROVE  /\ round[<<i, a>>] = append_bounded(a, lines[i])
               /\ round[<<i, a>>] \in A
    <2>1. <<i, a>> \in (1 .. n) \X A
      OBVIOUS
    <2>2. round[<<i, a>>] = append_bounded(a, lines[i])
      BY <2>1
    <2>3. append_bounded(a, lines[i]) \in A
      BY <1>1, AppendIsBounded
    <2> QED BY <2>2, <2>3
  <1>3. <<>> \in A
    BY BodyAssumption
  <1>4. PICK f \in [0 .. n -> A] : f[0] = <<>> /\ \A i \in 1 .. n : f[i] = round[<<i, f[i - 1]>>]
    <2>1. IsRound(round, n, A)
      <3> HIDE DEF round, A
      <3> QED BY <1>2 DEF IsRound
    <2> HIDE DEF round, A
    <2> DEFINE base == <<>>
    <2> HIDE DEF n, base
    <2>2. base \in A
      BY <1>3 DEF base
    <2>3. \E f : IsRun(f, n, A, base, round)
      BY <1>1, <2>1, <2>2, Rounds
    <2> QED BY <2>3 DEF base, IsRun
  <1>5. \A i \in 0 .. n : f[i] = Body(f)[i]
    <2> SUFFICES ASSUME NEW i \in 0 .. n PROVE f[i] = Body(f)[i]
      OBVIOUS
    <2>1. CASE i = 0
      BY <1>4, <2>1
    <2>2. CASE i # 0
      <3>1. i \in 1 .. n /\ i - 1 \in 0 .. n
        BY <1>1, <2>2
      <3>2. f[i - 1] \in A
        BY <1>4, <3>1
      <3>3. f[i] = append_bounded(f[i - 1], lines[i])
        <4> HIDE DEF round, A
        <4> QED BY <1>2, <1>4, <3>1, <3>2
      <3> QED BY <2>2, <3>3
    <2> QED BY <2>1, <2>2
  <1>6. Sol(f)
    <2>1. f = [i \in 0 .. n |-> f[i]]
      BY <1>4
    <2>2. Body(f) = [i \in 0 .. n |-> Body(f)[i]]
      OBVIOUS
    <2> HIDE DEF Body
    <2> QED BY <1>5, <2>1, <2>2
  <1>7. Sol(body)
    <2> HIDE DEF Sol
    <2> QED BY <1>6
  <1>8. append_all(lines) = body[n]
    BY DEF append_all
  <1> HIDE DEF body
  <1>9. body[0] = <<>> /\ \A i \in 1 .. n : body[i] = append_bounded(body[i - 1], lines[i])
    <2>1. \A i \in 0 .. n : body[i] = IF i = 0 THEN <<>> ELSE append_bounded(body[i - 1], lines[i])
      BY <1>7
    <2> QED BY <1>1, <2>1
  <1>10. 0 \in Good
    <2>1. JoinOf(lines, 0) = <<>> /\ <<>> \in Seq(Byte) /\ Len(<<>>) = 0
      BY DEF JoinOf
    <2>2. Len(body[0]) <= MaxBody /\ body[0] \in Seq(Byte) /\ body[0] = JoinOf(lines, 0)
      BY <1>9, <2>1, BodyAssumption
    <2>3. FALSE \in BOOLEAN
      OBVIOUS
    <2>4. IsFaithful(body[0], FALSE, JoinOf(lines, 0))
      BY <2>2, <2>3, Zenon DEF IsFaithful
    <2> QED BY <2>3, <2>4
  <1>11. ASSUME NEW k \in Nat, k \in Good PROVE k + 1 \in Good
    <2> SUFFICES ASSUME k + 1 <= n
                 PROVE  \E cut \in BOOLEAN : IsFaithful(body[k + 1], cut, JoinOf(lines, k + 1))
      OBVIOUS
    <2>1. PICK cut \in BOOLEAN : IsFaithful(body[k], cut, JoinOf(lines, k))
      BY <1>1, <1>11
    <2>2. k + 1 \in 1 .. n /\ k + 1 - 1 = k /\ k \in 0 .. Len(lines) /\ k < Len(lines)
      BY <1>1
    <2>3. body[k + 1] = append_bounded(body[k], lines[k + 1]) /\ lines[k + 1] \in Seq(Byte)
      BY <1>1, <1>9, <2>2
    <2>4. JoinOf(lines, k + 1) = JoinOf(lines, k) \o lines[k + 1]
      BY <2>2, JoinGrows
    <2>5. IsFaithful(body[k + 1], cut \/ ~Fits(body[k], lines[k + 1]), JoinOf(lines, k + 1))
      BY <2>1, <2>3, <2>4, AppendIsFaithful
    <2>6. (cut \/ ~Fits(body[k], lines[k + 1])) \in BOOLEAN
      OBVIOUS
    <2> QED BY <2>5, <2>6
  <1>12. n \in Good
    <2> HIDE DEF Good
    <2> QED BY <1>1, <1>10, <1>11, SetInduction
  <1>13. JoinOf(lines, n) = FlattenSeq(lines)
    BY <1>1, JoinGrows
  <1> QED BY <1>1, <1>8, <1>12, <1>13
=============================================================================
