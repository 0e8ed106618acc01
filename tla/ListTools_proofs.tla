------------------------- MODULE ListTools_proofs -------------------------
(* That the list tools tell what they leave out, for every reply, cap, body and
   marker, and that the newest changes are shown. *)
EXTENDS ListTools, DataLemmas, FiniteSetTheorems

(* What the tools make rows of. *)
Rows == Units \cup Packages \cup Changes \cup Entries

(* The wording of counts and captions: any text will do. *)
Wording ==
    /\ NoneText \in Seq(Byte)
    /\ \A n \in Nat : CountText(n) \in Seq(Byte) /\ SkippedText(n) \in Seq(Byte)

(* A text at the end of a report that may look like the marker. *)
Mistakable(text) == IsSuffix(Marker, text) \/ IsSuffix(text, Marker)

(* No line a report may end with does: a reader can tell the marker. *)
MarkerIsKnown ==
    /\ Marker # <<>>
    /\ \A r \in Rows : ~Mistakable(r.text)
    /\ ~Mistakable(NoneText)
    /\ \A n \in Nat : n # 0 => ~Mistakable(SkippedText(n))

(* A formatter's body and flag. *)
Form == [body : Seq(Byte), truncated : BOOLEAN]

IsFormOf(f, all) == f \in Form /\ IsFaithful(f.body, f.truncated, all)

-----------------------------------------------------------------------------
(* A row has a text. *)
LEMMA RowHasText == \A r \in Rows : r.text \in Seq(Byte)
  BY RowsAssumption DEF Rows

(* A sequence over a set is one over each larger set. *)
LEMMA SeqOfMore ==
    ASSUME NEW A, NEW B, A \subseteq B, NEW s \in Seq(A)
    PROVE  s \in Seq(B)
  OBVIOUS

(* Concatenation is associative. *)
LEMMA Associative ==
    ASSUME NEW a \in Seq(Byte), NEW b \in Seq(Byte), NEW c \in Seq(Byte)
    PROVE  (a \o b) \o c = a \o (b \o c)
  <1> DEFINE x == (a \o b) \o c
             y == a \o (b \o c)
  <1>1. /\ a \o b \in Seq(Byte) /\ b \o c \in Seq(Byte)
        /\ Len(a \o b) = Len(a) + Len(b) /\ Len(b \o c) = Len(b) + Len(c)
        /\ Len(a) \in Nat /\ Len(b) \in Nat /\ Len(c) \in Nat
    OBVIOUS
  <1>2. x \in Seq(Byte) /\ y \in Seq(Byte) /\ Len(x) = Len(y) /\ Len(x) = Len(a) + Len(b) + Len(c)
    BY <1>1
  <1>3. ASSUME NEW i \in 1 .. Len(x) PROVE x[i] = y[i]
    <2>1. CASE i <= Len(a)
      BY <1>1, <1>2, <2>1
    <2>2. CASE i > Len(a) /\ i <= Len(a) + Len(b)
      <3>1. i - Len(a) \in 1 .. Len(b)
        BY <1>1, <1>2, <2>2
      <3>2. x[i] = (a \o b)[i] /\ (a \o b)[i] = b[i - Len(a)]
        BY <1>1, <1>2, <2>2
      <3>3. y[i] = (b \o c)[i - Len(a)] /\ (b \o c)[i - Len(a)] = b[i - Len(a)]
        BY <1>1, <1>2, <2>2, <3>1
      <3> QED BY <3>2, <3>3
    <2>3. CASE i > Len(a) + Len(b)
      <3>1. x[i] = c[i - (Len(a) + Len(b))]
        BY <1>1, <1>2, <2>3
      <3>2. y[i] = (b \o c)[i - Len(a)]
        BY <1>1, <1>2, <2>3
      <3>3. (b \o c)[i - Len(a)] = c[i - Len(a) - Len(b)]
        BY <1>1, <1>2, <2>3
      <3>4. i - Len(a) - Len(b) = i - (Len(a) + Len(b))
        BY <1>1, <1>2
      <3> QED BY <3>1, <3>2, <3>3, <3>4
    <2> QED BY <1>1, <1>2, <2>1, <2>2, <2>3
  <1> QED BY <1>2, <1>3

(* What it is to end with a sequence, place by place. *)
LEMMA SuffixAt ==
    ASSUME NEW s \in Seq(Byte), NEW t \in Seq(Byte)
    PROVE  IsSuffix(s, t) <=>
             Len(s) <= Len(t) /\ \A i \in 1 .. Len(s) : t[Len(t) - Len(s) + i] = s[i]
  <1> DEFINE m == Len(s)
             n == Len(t)
             a == Reverse(s)
             b == Reverse(t)
  <1>1. m \in Nat /\ n \in Nat
    OBVIOUS
  <1>2. a \in Seq(Byte) /\ Len(a) = m /\ \A i \in 1 .. m : a[i] = s[(m - i) + 1]
    BY DEF Reverse
  <1>3. b \in Seq(Byte) /\ Len(b) = n /\ \A i \in 1 .. n : b[i] = t[(n - i) + 1]
    BY DEF Reverse
  <1>4. IsSuffix(s, t) <=> Len(a) <= Len(b) /\ SubSeq(a, 1, Len(a)) = SubSeq(b, 1, Len(a))
    BY DEF IsSuffix, IsPrefix
  <1> HIDE DEF a, b
  <1>5. ASSUME m <= n
        PROVE  SubSeq(a, 1, m) = SubSeq(b, 1, m) <=> \A i \in 1 .. m : a[i] = b[i]
    <2>1. /\ SubSeq(a, 1, m) \in Seq(Byte) /\ Len(SubSeq(a, 1, m)) = m
          /\ \A i \in 1 .. m : SubSeq(a, 1, m)[i] = a[i]
      BY <1>1, <1>2
    <2>2. /\ SubSeq(b, 1, m) \in Seq(Byte) /\ Len(SubSeq(b, 1, m)) = m
          /\ \A i \in 1 .. m : SubSeq(b, 1, m)[i] = b[i]
      BY <1>1, <1>3, <1>5
    <2> QED BY <2>1, <2>2
  <1>6. ASSUME m <= n
        PROVE  (\A i \in 1 .. m : a[i] = b[i]) <=> \A i \in 1 .. m : t[n - m + i] = s[i]
    <2>1. \A i \in 1 .. m : a[i] = s[(m - i) + 1] /\ b[i] = t[(n - i) + 1]
      BY <1>1, <1>2, <1>3, <1>6
    <2>2. \A i \in 1 .. m : /\ (m - i) + 1 \in 1 .. m /\ (m - ((m - i) + 1)) + 1 = i
                            /\ (n - ((m - i) + 1)) + 1 = n - m + i
                            /\ n - m + ((m - i) + 1) = (n - i) + 1
      BY <1>1
    <2>3. ASSUME \A i \in 1 .. m : a[i] = b[i], NEW i \in 1 .. m PROVE t[n - m + i] = s[i]
      <3>1. a[(m - i) + 1] = b[(m - i) + 1]
        BY <2>2, <2>3
      <3>2. a[(m - i) + 1] = s[(m - ((m - i) + 1)) + 1] /\ b[(m - i) + 1] = t[(n - ((m - i) + 1)) + 1]
        BY <2>1, <2>2
      <3>3. (m - ((m - i) + 1)) + 1 = i /\ (n - ((m - i) + 1)) + 1 = n - m + i
        BY <2>2
      <3> QED BY <3>1, <3>2, <3>3
    <2>4. ASSUME \A i \in 1 .. m : t[n - m + i] = s[i], NEW i \in 1 .. m PROVE a[i] = b[i]
      <3>1. t[n - m + ((m - i) + 1)] = s[(m - i) + 1]
        BY <2>2, <2>4
      <3> QED BY <2>1, <2>2, <3>1
    <2> QED BY <2>3, <2>4
  <1> QED BY <1>2, <1>3, <1>4, <1>5, <1>6

(* What a sequence is put behind, it ends with. *)
LEMMA EndsWith ==
    ASSUME NEW s \in Seq(Byte), NEW t \in Seq(Byte)
    PROVE  IsSuffix(t, s \o t)
  <1> DEFINE w == s \o t
  <1>1. /\ w \in Seq(Byte) /\ Len(w) = Len(s) + Len(t)
        /\ Len(s) \in Nat /\ Len(t) \in Nat
        /\ \A i \in 1 .. Len(t) : w[Len(s) + i] = t[i]
    OBVIOUS
  <1> HIDE DEF w
  <1>2. Len(t) <= Len(w) /\ \A i \in 1 .. Len(t) : Len(w) - Len(t) + i = Len(s) + i
    BY <1>1
  <1>3. IsSuffix(t, w)
    BY <1>1, <1>2, SuffixAt
  <1> QED BY <1>3 DEF w

(* A text that cannot be taken for the marker does not turn into it by what stands
   before. *)
LEMMA NotTaken ==
    ASSUME NEW s \in Seq(Byte), NEW t \in Seq(Byte), ~Mistakable(t)
    PROVE  ~IsSuffix(Marker, s \o t)
  <1> USE BodyAssumption
  <1> DEFINE m == Len(Marker)
             n == Len(t)
             w == s \o t
  <1>1. /\ w \in Seq(Byte) /\ Len(w) = Len(s) + n /\ Len(s) \in Nat /\ n \in Nat /\ m \in Nat
        /\ \A i \in 1 .. n : w[Len(s) + i] = t[i]
    OBVIOUS
  <1> HIDE DEF w
  <1> SUFFICES ASSUME IsSuffix(Marker, w) PROVE FALSE
    BY DEF w
  <1>2. \A i \in 1 .. m : w[Len(s) + n - m + i] = Marker[i]
    BY <1>1, SuffixAt
  <1>3. CASE m <= n
    <2>1. ASSUME NEW i \in 1 .. m PROVE t[n - m + i] = Marker[i]
      <3>1. n - m + i \in 1 .. n /\ Len(s) + (n - m + i) = Len(s) + n - m + i
        BY <1>1, <1>3
      <3>2. w[Len(s) + (n - m + i)] = t[n - m + i]
        BY <1>1, <3>1
      <3> QED BY <1>2, <3>1, <3>2
    <2>2. IsSuffix(Marker, t)
      BY <1>1, <1>3, <2>1, SuffixAt
    <2> QED BY <2>2 DEF Mistakable
  <1>4. CASE n < m
    <2>1. ASSUME NEW i \in 1 .. n PROVE Marker[m - n + i] = t[i]
      <3>1. m - n + i \in 1 .. m /\ Len(s) + n - m + (m - n + i) = Len(s) + i
        BY <1>1, <1>4
      <3>2. w[Len(s) + n - m + (m - n + i)] = Marker[m - n + i]
        BY <1>2, <3>1
      <3> QED BY <1>1, <3>1, <3>2
    <2>2. IsSuffix(t, Marker)
      BY <1>1, <1>4, <2>1, SuffixAt
    <2> QED BY <2>2 DEF Mistakable
  <1> QED BY <1>1, <1>3, <1>4

-----------------------------------------------------------------------------
(* A report with the marker is honest when what stands before the marker is a
   beginning of it and something was left out. *)
LEMMA MarkedIsHonest ==
    ASSUME NEW W \in Seq(Byte), NEW T \in Seq(Byte), NEW k \in 0 .. Len(W),
           NEW rows, NEW all, NEW cap, Len(all) > cap \/ Len(W) > MaxBody
    PROVE  IsHonest(SubSeq(W, 1, k) \o Marker, W \o T, rows, all, cap)
  <1> USE BodyAssumption
  <1> DEFINE p == SubSeq(W, 1, k)
             b == p \o Marker
             V == W \o T
  <1>1. k \in Nat /\ k <= Len(W) /\ Len(W) \in Nat /\ Len(T) \in Nat /\ Len(Marker) \in Nat
    OBVIOUS
  <1>2. p \in Seq(Byte) /\ Len(p) = k /\ SubSeq(V, 1, k) = p
    BY <1>1, PrefixOfFirst
  <1>3. V \in Seq(Byte) /\ Len(V) = Len(W) + Len(T)
    BY <1>1
  <1> HIDE DEF p, V
  <1>4. b \in Seq(Byte) /\ Len(b) = k + Len(Marker) /\ IsSuffix(Marker, b)
    BY <1>1, <1>2, EndsWith
  <1>5. SubSeq(b, 1, k) = SubSeq(p, 1, k)
    BY <1>1, <1>2, PrefixOfFirst
  <1>6. SubSeq(p, 1, k) = p
    BY <1>2, WholeSubSeq
  <1> HIDE DEF b
  <1>7. Len(b) - Len(Marker) = k
    BY <1>1, <1>4
  <1>8. IsPrefix(p, V)
    BY <1>1, <1>2, <1>3, <1>6 DEF IsPrefix
  <1>9. IsPrefix(SubSeq(b, 1, Len(b) - Len(Marker)), V)
    BY <1>5, <1>6, <1>7, <1>8
  <1>10. Len(all) > cap \/ Len(V) > MaxBody
    BY <1>1, <1>3
  <1>11. IsHonest(b, V, rows, all, cap)
    BY <1>4, <1>9, <1>10 DEF IsHonest
  <1> QED BY <1>11 DEF b, p, V

(* A formatter that was cut, or told of more, is honest about a report of which
   it was given a beginning. *)
LEMMA CutIsHonest ==
    ASSUME NEW W, NEW f, IsFormOf(f, W), NEW T \in Seq(Byte),
           NEW more \in BOOLEAN, more \/ f.truncated,
           NEW rows, NEW all, NEW cap, more => Len(all) > cap
    PROVE  IsHonest(AddMore(f, more), W \o T, rows, all, cap)
  <1> USE BodyAssumption
  <1> DEFINE keep == MaxBody - Len(Marker)
  <1>1. W \in Seq(Byte) /\ Len(W) \in Nat /\ Len(Marker) \in Nat /\ keep \in Nat
    BY DEF IsFormOf, IsFaithful
  <1>2. CASE f.truncated
    <2>1. Len(W) > MaxBody /\ f.body = SubSeq(W, 1, keep) \o Marker
      BY <1>2 DEF IsFormOf, IsFaithful
    <2>2. AddMore(f, more) = f.body
      BY <1>2 DEF AddMore
    <2>3. keep \in 0 .. Len(W)
      BY <1>1, <2>1
    <2> HIDE DEF keep
    <2> QED BY <1>1, <2>1, <2>2, <2>3, MarkedIsHonest
  <1>3. CASE ~f.truncated
    <2>1. more /\ Len(all) > cap /\ f.body = W /\ Len(W) <= MaxBody
      BY <1>3 DEF IsFormOf, IsFaithful
    <2>2. AddMore(f, more) = append_bounded(W, Marker)
      BY <1>3, <2>1 DEF AddMore, Add
    <2>3. CASE Fits(W, Marker)
      <3>1. append_bounded(W, Marker) = SubSeq(W, 1, Len(W)) \o Marker
        BY <1>1, <2>3, WholeSubSeq DEF append_bounded
      <3>2. Len(W) \in 0 .. Len(W)
        BY <1>1
      <3> QED BY <1>1, <2>1, <2>2, <3>1, <3>2, MarkedIsHonest
    <2>4. CASE ~Fits(W, Marker)
      <3>1. append_bounded(W, Marker) = SubSeq(W \o Marker, 1, keep) \o Marker
        BY <1>1, <2>1, <2>4, FirstCut
      <3>2. keep <= Len(W)
        BY <1>1, <2>4 DEF Fits
      <3> HIDE DEF keep
      <3>3. SubSeq(W \o Marker, 1, keep) = SubSeq(W, 1, keep)
        BY <1>1, <3>2, PrefixOfFirst
      <3>4. keep \in 0 .. Len(W)
        BY <1>1, <3>2
      <3> QED BY <1>1, <2>1, <2>2, <3>1, <3>3, <3>4, MarkedIsHonest
    <2> QED BY <2>3, <2>4
  <1>4. f.truncated \in BOOLEAN
    BY DEF IsFormOf, Form
  <1> QED BY <1>2, <1>3, <1>4

(* The end of each formatter: what it was given is all of the report. *)
LEMMA EndIsHonest ==
    ASSUME NEW W, NEW f, IsFormOf(f, W), ~IsSuffix(Marker, W),
           NEW more \in BOOLEAN, NEW rows, NEW all, NEW cap,
           more => Len(all) > cap, ~more => SameRows(rows, all)
    PROVE  IsHonest(AddMore(f, more), W, rows, all, cap)
  <1>1. CASE more \/ f.truncated
    <2>1. W \in Seq(Byte) /\ <<>> \in Seq(Byte)
      BY DEF IsFormOf, IsFaithful
    <2>2. IsHonest(AddMore(f, more), W \o <<>>, rows, all, cap)
      BY <1>1, <2>1, CutIsHonest
    <2>3. W \o <<>> = W
      BY <2>1
    <2> QED BY <2>2, <2>3
  <1>2. CASE ~more /\ ~f.truncated
    <2>1. AddMore(f, more) = W
      BY <1>2 DEF AddMore, IsFormOf, IsFaithful
    <2> QED BY <1>2, <2>1 DEF IsHonest
  <1> QED BY <1>1, <1>2

-----------------------------------------------------------------------------
(* The rows that match are rows. *)
LEMMA MatchingTyped ==
    ASSUME NEW S, NEW rows \in Seq(S), NEW wanted
    PROVE  Matching(rows, wanted) \in Seq(S)
  <1> DEFINE n == Len(rows)
             A == Seq(S)
             Body(f) == [i \in 0 .. n |->
                           IF i = 0 THEN <<>>
                           ELSE IF rows[i] \in wanted THEN Append(f[i - 1], rows[i]) ELSE f[i - 1]]
             Sol(f) == f = Body(f)
             round == [x \in (1 .. n) \X A |->
                         IF rows[x[1]] \in wanted THEN Append(x[2], rows[x[1]]) ELSE x[2]]
             kept == CHOOSE f : Sol(f)
             Good == {m \in Nat : m <= n => kept[m] \in A}
  <1>1. n \in Nat /\ \A i \in 1 .. n : rows[i] \in S
    OBVIOUS
  <1>2. ASSUME NEW i \in 1 .. n, NEW a \in A
        PROVE  /\ round[<<i, a>>] = IF rows[i] \in wanted THEN Append(a, rows[i]) ELSE a
               /\ round[<<i, a>>] \in A
    <2>1. <<i, a>> \in (1 .. n) \X A
      OBVIOUS
    <2>2. round[<<i, a>>] = IF rows[i] \in wanted THEN Append(a, rows[i]) ELSE a
      BY <2>1
    <2>3. Append(a, rows[i]) \in A
      BY <1>1, AppendTyped
    <2> QED BY <2>2, <2>3
  <1>3. <<>> \in A
    OBVIOUS
  <1>4. PICK f \in [0 .. n -> A] : f[0] = <<>> /\ \A i \in 1 .. n : f[i] = round[<<i, f[i - 1]>>]
    <2>1. IsRound(round, n, A)
      <3> HIDE DEF round, A
      <3> QED BY <1>2 DEF IsRound
    <2> HIDE DEF round, A
    <2> DEFINE base == <<>>
    <2> HIDE DEF n, base
    <2>2. base \in A
      BY <1>3 DEF base
    <2>3. \E f : IsRun(f, n, A, base, round)
      BY <1>1, <2>1, <2>2, Rounds
    <2> QED BY <2>3 DEF base, IsRun
  <1>5. \A i \in 0 .. n : f[i] = Body(f)[i]
    <2> SUFFICES ASSUME NEW i \in 0 .. n PROVE f[i] = Body(f)[i]
      OBVIOUS
    <2>1. CASE i = 0
      BY <1>4, <2>1
    <2>2. CASE i # 0
      <3>1. i \in 1 .. n /\ i - 1 \in 0 .. n
        BY <1>1, <2>2
      <3>2. f[i - 1] \in A
        BY <1>4, <3>1
      <3>3. f[i] = IF rows[i] \in wanted THEN Append(f[i - 1], rows[i]) ELSE f[i - 1]
        <4> HIDE DEF round, A
        <4> QED BY <1>2, <1>4, <3>1, <3>2
      <3> QED BY <2>2, <3>3
    <2> QED BY <2>1, <2>2
  <1>6. Sol(f)
    <2>1. f = [i \in 0 .. n |-> f[i]]
      BY <1>4
    <2>2. Body(f) = [i \in 0 .. n |-> Body(f)[i]]
      OBVIOUS
    <2> HIDE DEF Body
    <2> QED BY <1>5, <2>1, <2>2
  <1>7. Sol(kept)
    <2> HIDE DEF Sol
    <2> QED BY <1>6
  <1> HIDE DEF kept
  <1>8. /\ kept[0] = <<>>
        /\ \A i \in 1 .. n :
             kept[i] = IF rows[i] \in wanted THEN Append(kept[i - 1], rows[i]) ELSE kept[i - 1]
    <2>1. \A i \in 0 .. n : kept[i] = IF i = 0 THEN <<>>
             ELSE IF rows[i] \in wanted THEN Append(kept[i - 1], rows[i]) ELSE kept[i - 1]
      BY <1>7
    <2> QED BY <1>1, <2>1
  <1>9. 0 \in Good
    BY <1>3, <1>8
  <1>10. ASSUME NEW m \in Nat, m \in Good PROVE m + 1 \in Good
    <2> SUFFICES ASSUME m + 1 <= n PROVE kept[m + 1] \in A
      OBVIOUS
    <2>1. m + 1 \in 1 .. n /\ m + 1 - 1 = m /\ kept[m] \in A
      BY <1>1, <1>10
    <2>2. kept[m + 1] = IF rows[m + 1] \in wanted THEN Append(kept[m], rows[m + 1]) ELSE kept[m]
      BY <1>8, <2>1
    <2>3. Append(kept[m], rows[m + 1]) \in A
      BY <1>1, <2>1, AppendTyped
    <2> QED BY <2>1, <2>2, <2>3
  <1>11. kept[n] \in A
    <2> HIDE DEF Good
    <2>1. n \in Good
      BY <1>1, <1>9, <1>10, SetInduction
    <2> QED BY <1>1, <2>1 DEF Good
  <1>12. Matching(rows, wanted) = kept[n]
    BY DEF Matching, kept
  <1> QED BY <1>11, <1>12

(* The texts of rows, as a sequence. *)
TextsOf(rows) == [i \in 1 .. Len(rows) |-> rows[i].text]

(* They are texts, and joined they are the text of all rows. *)
LEMMA TextsTyped ==
    ASSUME NEW rows \in Seq(Rows)
    PROVE  /\ TextsOf(rows) \in Seq(Seq(Byte)) /\ Len(TextsOf(rows)) = Len(rows)
           /\ \A i \in 1 .. Len(rows) : TextsOf(rows)[i] = rows[i].text
           /\ Texts(rows) = JoinOf(TextsOf(rows), Len(rows))
           /\ Texts(rows) \in Seq(Byte)
  <1> DEFINE T == TextsOf(rows)
  <1>1. Len(rows) \in Nat /\ \A i \in 1 .. Len(rows) : rows[i] \in Rows
    OBVIOUS
  <1>2. \A i \in 1 .. Len(rows) : rows[i].text \in Seq(Byte)
    BY <1>1, RowHasText
  <1>3. T \in [1 .. Len(rows) -> Seq(Byte)] /\ \A i \in 1 .. Len(rows) : T[i] = rows[i].text
    BY <1>2 DEF TextsOf
  <1>4. T \in Seq(Seq(Byte)) /\ Len(T) = Len(rows)
    BY <1>1, <1>3
  <1>5. Texts(rows) = FlattenSeq(T)
    BY DEF Texts, TextsOf
  <1>6. Len(T) \in 0 .. Len(T)
    BY <1>1, <1>4
  <1> HIDE DEF T
  <1>7. JoinOf(T, Len(T)) = FlattenSeq(T) /\ JoinOf(T, Len(T)) \in Seq(Byte)
    BY <1>4, <1>6, JoinGrows
  <1> QED BY <1>3, <1>4, <1>5, <1>7 DEF T

(* What append_bounded leaves is text, whatever the size. *)
LEMMA AppendTypedText ==
    ASSUME NEW b \in Seq(Byte), NEW text \in Seq(Byte)
    PROVE  append_bounded(b, text) \in Seq(Byte)
  <1> USE BodyAssumption
  <1> DEFINE k == Remaining(b) - Len(Marker)
             keep == MaxBody - Len(Marker)
  <1>1. Len(b) \in Nat /\ Len(text) \in Nat /\ Len(Marker) \in Nat /\ keep \in Nat
    OBVIOUS
  <1>2. CASE Fits(b, text)
    BY <1>2 DEF append_bounded
  <1>3. CASE ~Fits(b, text) /\ Remaining(b) > Len(Marker)
    <2>1. k \in Nat /\ k <= Len(text)
      BY <1>1, <1>3 DEF Fits, Remaining
    <2>2. append_bounded(b, text) = (b \o SubSeq(text, 1, k)) \o Marker
      BY <1>3 DEF append_bounded
    <2> HIDE DEF k
    <2>3. SubSeq(text, 1, k) \in Seq(Byte)
      BY <2>1, PrefixOfFirst
    <2> QED BY <2>2, <2>3
  <1>4. CASE ~Fits(b, text) /\ ~(Remaining(b) > Len(Marker))
    <2>1. keep <= Len(b)
      BY <1>1, <1>4 DEF Remaining
    <2>2. append_bounded(b, text) = SubSeq(b, 1, keep) \o Marker
      BY <1>4 DEF append_bounded
    <2> HIDE DEF keep
    <2>3. SubSeq(b, 1, keep) \in Seq(Byte)
      BY <1>1, <2>1, PrefixOfFirst
    <2> QED BY <2>2, <2>3
  <1> QED BY <1>2, <1>3, <1>4

(* Adding a text to a body keeps it faithful. *)
LEMMA AddKeeps ==
    ASSUME NEW f, NEW all, IsFormOf(f, all), NEW text \in Seq(Byte)
    PROVE  IsFormOf(Add(f, text), all \o text)
  <1> DEFINE b == append_bounded(f.body, text)
             cut == f.truncated \/ ~Fits(f.body, text)
  <1>1. IsFaithful(b, cut, all \o text)
    BY AppendIsFaithful DEF IsFormOf
  <1>2. Add(f, text) = [body |-> b, truncated |-> cut]
    BY DEF Add
  <1> HIDE DEF b, cut
  <1>3. b \in Seq(Byte) /\ cut \in BOOLEAN
    BY <1>1 DEF IsFaithful
  <1>4. Add(f, text) \in Form /\ Add(f, text).body = b /\ Add(f, text).truncated = cut
    BY <1>2, <1>3 DEF Form
  <1> QED BY <1>1, <1>4 DEF IsFormOf

(* So does leaving a text out after a cut. *)
LEMMA SkipKeeps ==
    ASSUME NEW f, NEW all, IsFormOf(f, all), NEW text \in Seq(Byte), f.truncated
    PROVE  IsFormOf(f, all \o text)
  <1> USE BodyAssumption
  <1> DEFINE keep == MaxBody - Len(Marker)
  <1>1. /\ f \in Form /\ f.body \in Seq(Byte) /\ all \in Seq(Byte) /\ f.truncated \in BOOLEAN
        /\ Len(f.body) <= MaxBody /\ Len(all) > MaxBody
        /\ f.body = SubSeq(all, 1, keep) \o Marker
    BY DEF IsFormOf, IsFaithful
  <1>2. all \o text \in Seq(Byte) /\ Len(all \o text) > MaxBody
    BY <1>1
  <1>3. SubSeq(all \o text, 1, keep) = SubSeq(all, 1, keep)
    <2>1. keep \in Nat /\ keep <= Len(all)
      BY <1>1
    <2> HIDE DEF keep
    <2> QED BY <1>1, <2>1, PrefixOfFirst
  <1> QED BY <1>1, <1>2, <1>3 DEF IsFormOf, IsFaithful

(* The rows a formatter adds: the body stays faithful to what came before and
   their texts. *)
LEMMA AddRowsKeeps ==
    ASSUME NEW f, NEW all, IsFormOf(f, all), NEW rows \in Seq(Rows)
    PROVE  IsFormOf(AddRows(f, rows), all \o Texts(rows))
  <1> DEFINE n == Len(rows)
             T == TextsOf(rows)
             Body(h) == [i \in 0 .. n |->
                           IF i = 0 THEN f
                           ELSE IF h[i - 1].truncated THEN h[i - 1] ELSE Add(h[i - 1], rows[i].text)]
             Sol(h) == h = Body(h)
             round == [x \in (1 .. n) \X Form |->
                         IF x[2].truncated THEN x[2] ELSE Add(x[2], rows[x[1]].text)]
             after == CHOOSE h : Sol(h)
             Good == {m \in Nat : m <= n => IsFormOf(after[m], all \o JoinOf(T, m))}
  <1>1. n \in Nat /\ \A i \in 1 .. n : rows[i] \in Rows /\ rows[i].text \in Seq(Byte)
    BY RowHasText
  <1>2. ASSUME NEW i \in 1 .. n, NEW a \in Form
        PROVE  /\ round[<<i, a>>] = IF a.truncated THEN a ELSE Add(a, rows[i].text)
               /\ round[<<i, a>>] \in Form
    <2>1. <<i, a>> \in (1 .. n) \X Form
      OBVIOUS
    <2>2. round[<<i, a>>] = IF a.truncated THEN a ELSE Add(a, rows[i].text)
      BY <2>1
    <2>3. ~a.truncated => Add(a, rows[i].text) \in Form
      <3> DEFINE c == append_bounded(a.body, rows[i].text)
                 cut == a.truncated \/ ~Fits(a.body, rows[i].text)
      <3>1. a.body \in Seq(Byte) /\ rows[i].text \in Seq(Byte)
        BY <1>1 DEF Form
      <3>2. c \in Seq(Byte)
        BY <3>1, AppendTypedText
      <3>3. Add(a, rows[i].text) = [body |-> c, truncated |-> cut] /\ cut \in BOOLEAN
        BY DEF Add
      <3> HIDE DEF c, cut
      <3> QED BY <3>2, <3>3 DEF Form
    <2> QED BY <2>2, <2>3
  <1>3. f \in Form
    BY DEF IsFormOf
  <1>4. PICK h \in [0 .. n -> Form] : h[0] = f /\ \A i \in 1 .. n : h[i] = round[<<i, h[i - 1]>>]
    <2>1. IsRound(round, n, Form)
      <3> HIDE DEF round
      <3> QED BY <1>2 DEF IsRound
    <2> HIDE DEF round, n
    <2>2. \E h : IsRun(h, n, Form, f, round)
      BY <1>1, <1>3, <2>1, Rounds
    <2> QED BY <2>2 DEF IsRun
  <1>5. \A i \in 0 .. n : h[i] = Body(h)[i]
    <2> SUFFICES ASSUME NEW i \in 0 .. n PROVE h[i] = Body(h)[i]
      OBVIOUS
    <2>1. CASE i = 0
      BY <1>4, <2>1
    <2>2. CASE i # 0
      <3>1. i \in 1 .. n /\ i - 1 \in 0 .. n
        BY <1>1, <2>2
      <3>2. h[i - 1] \in Form
        BY <1>4, <3>1
      <3>3. h[i] = IF h[i - 1].truncated THEN h[i - 1] ELSE Add(h[i - 1], rows[i].text)
        <4> HIDE DEF round
        <4> QED BY <1>2, <1>4, <3>1, <3>2
      <3> QED BY <2>2, <3>3
    <2> QED BY <2>1, <2>2
  <1>6. Sol(h)
    <2>1. h = [i \in 0 .. n |-> h[i]]
      BY <1>4
    <2>2. Body(h) = [i \in 0 .. n |-> Body(h)[i]]
      OBVIOUS
    <2> HIDE DEF Body
    <2> QED BY <1>5, <2>1, <2>2
  <1>7. Sol(after)
    <2> HIDE DEF Sol
    <2> QED BY <1>6
  <1> HIDE DEF after
  <1>8. /\ after[0] = f
        /\ \A i \in 1 .. n :
             after[i] = IF after[i - 1].truncated THEN after[i - 1] ELSE Add(after[i - 1], rows[i].text)
    <2>1. \A i \in 0 .. n : after[i] = IF i = 0 THEN f
             ELSE IF after[i - 1].truncated THEN after[i - 1] ELSE Add(after[i - 1], rows[i].text)
      BY <1>7
    <2> QED BY <1>1, <2>1
  <1>9. all \in Seq(Byte)
    BY DEF IsFormOf, IsFaithful
  <1>10. 0 \in Good
    <2>1. JoinOf(T, 0) = <<>> /\ all \o <<>> = all
      BY <1>9 DEF JoinOf
    <2>2. IsFormOf(after[0], all \o JoinOf(T, 0))
      BY <1>8, <2>1
    <2> QED BY <2>2
  <1>11. ASSUME NEW m \in Nat, m \in Good PROVE m + 1 \in Good
    <2> SUFFICES ASSUME m + 1 <= n PROVE IsFormOf(after[m + 1], all \o JoinOf(T, m + 1))
      OBVIOUS
    <2> DEFINE g == after[m]
               sofar == JoinOf(T, m)
               text == rows[m + 1].text
    <2>1. m + 1 \in 1 .. n /\ m + 1 - 1 = m /\ m <= n /\ m < n
      BY <1>1
    <2>2. IsFormOf(g, all \o sofar)
      BY <1>11, <2>1
    <2>3. after[m + 1] = IF g.truncated THEN g ELSE Add(g, text)
      BY <1>8, <2>1
    <2>4. text \in Seq(Byte)
      BY <1>1, <2>1
    <2>5. sofar \in Seq(Byte) /\ JoinOf(T, m + 1) = sofar \o text
      <3>1. /\ T \in Seq(Seq(Byte)) /\ Len(T) = n /\ T[m + 1] = text
        BY <2>1, TextsTyped
      <3>2. m \in 0 .. Len(T) /\ m < Len(T)
        BY <1>1, <2>1, <3>1
      <3> HIDE DEF T
      <3>3. JoinOf(T, m) \in Seq(Byte) /\ JoinOf(T, m + 1) = JoinOf(T, m) \o T[m + 1]
        BY <3>1, <3>2, JoinGrows
      <3> QED BY <3>1, <3>3
    <2> HIDE DEF g, sofar, text
    <2>6. (all \o sofar) \o text = all \o JoinOf(T, m + 1)
      <3>1. (all \o sofar) \o text = all \o (sofar \o text)
        BY <1>9, <2>4, <2>5, Associative, Zenon
      <3> QED BY <2>5, <3>1, Zenon
    <2>7. IsFormOf(after[m + 1], (all \o sofar) \o text)
      <3>1. CASE g.truncated
        BY <2>2, <2>3, <2>4, <3>1, SkipKeeps
      <3>2. CASE ~g.truncated
        BY <2>2, <2>3, <2>4, <3>2, AddKeeps
      <3> QED BY <3>1, <3>2
    <2> QED BY <2>6, <2>7
  <1>12. IsFormOf(after[n], all \o JoinOf(T, n))
    <2> HIDE DEF Good
    <2>1. n \in Good
      BY <1>1, <1>10, <1>11, SetInduction
    <2> QED BY <1>1, <2>1 DEF Good
  <1>13. AddRows(f, rows) = after[n]
    BY DEF AddRows, after
  <1>14. Texts(rows) = JoinOf(T, n)
    BY TextsTyped
  <1> QED BY <1>12, <1>13, <1>14

-----------------------------------------------------------------------------
(* An empty body is faithful. *)
LEMMA EmptyForm == IsFormOf(Empty, <<>>)
  <1>1. <<>> \in Seq(Byte) /\ Len(<<>>) = 0
    OBVIOUS
  <1>2. Empty.body = <<>> /\ Empty.truncated = FALSE
    BY DEF Empty
  <1>3. Empty \in Form
    BY <1>1 DEF Empty, Form
  <1>4. Len(<<>>) <= MaxBody
    BY <1>1, BodyAssumption
  <1> QED BY <1>1, <1>2, <1>3, <1>4 DEF IsFormOf, IsFaithful

(* Rows behind nothing. *)
LEMMA BareForm ==
    ASSUME NEW rows \in Seq(Rows)
    PROVE  IsFormOf(AddRows(Empty, rows), Texts(rows))
  <1>1. IsFormOf(AddRows(Empty, rows), <<>> \o Texts(rows))
    BY EmptyForm, AddRowsKeeps
  <1>2. Texts(rows) \in Seq(Byte)
    BY TextsTyped
  <1>3. <<>> \o Texts(rows) = Texts(rows)
    BY <1>2
  <1> QED BY <1>1, <1>3

(* Rows behind their count. *)
Counted(rows) == CountText(Len(rows)) \o (IF rows = <<>> THEN NoneText ELSE Texts(rows))

(* The formatters that count put exactly this into their body, as far as it fits. *)
LEMMA CountedForm ==
    ASSUME Wording, NEW rows \in Seq(Rows)
    PROVE  IsFormOf(AddRows(Caption(rows), rows), Counted(rows))
  <1> DEFINE count == CountText(Len(rows))
             counted == Add(Empty, count)
  <1>1. count \in Seq(Byte) /\ NoneText \in Seq(Byte)
    BY DEF Wording
  <1>2. IsFormOf(counted, count)
    <2>1. IsFormOf(counted, <<>> \o count)
      BY <1>1, EmptyForm, AddKeeps
    <2>2. <<>> \o count = count
      BY <1>1
    <2> QED BY <2>1, <2>2
  <1>3. Texts(rows) \in Seq(Byte)
    BY TextsTyped
  <1>4. CASE rows = <<>>
    <2>1. Caption(rows) = Add(counted, NoneText)
      BY <1>4 DEF Caption
    <2> HIDE DEF count, counted
    <2>2. IsFormOf(Caption(rows), count \o NoneText)
      BY <1>1, <1>2, <2>1, AddKeeps
    <2>3. IsFormOf(AddRows(Caption(rows), rows), (count \o NoneText) \o Texts(rows))
      BY <2>2, AddRowsKeeps
    <2>4. Texts(rows) = <<>>
      BY <1>4, TextsTyped DEF JoinOf
    <2>5. (count \o NoneText) \o <<>> = count \o NoneText
      BY <1>1
    <2>6. Counted(rows) = count \o NoneText
      BY <1>4 DEF Counted, count
    <2> QED BY <2>3, <2>4, <2>5, <2>6
  <1>5. CASE rows # <<>>
    <2>1. Caption(rows) = counted
      BY <1>5 DEF Caption
    <2>2. Counted(rows) = count \o Texts(rows)
      BY <1>5 DEF Counted
    <2> HIDE DEF count, counted
    <2> QED BY <1>2, <2>1, <2>2, AddRowsKeeps
  <1> QED BY <1>4, <1>5

(* A text that ends with a row does not end as if it had the marker. *)
LEMMA TextsNotTaken ==
    ASSUME MarkerIsKnown, NEW s \in Seq(Byte), NEW rows \in Seq(Rows), rows # <<>>
    PROVE  ~IsSuffix(Marker, s \o Texts(rows))
  <1> DEFINE T == TextsOf(rows)
             n == Len(rows)
  <1>1. /\ T \in Seq(Seq(Byte)) /\ Len(T) = n /\ Texts(rows) = JoinOf(T, n)
        /\ \A i \in 1 .. n : T[i] = rows[i].text
    BY TextsTyped
  <1>2. n \in Nat /\ n # 0 /\ n \in 1 .. n
    BY NothingIsEmpty
  <1>3. rows[n] \in Rows
    BY <1>2
  <1> HIDE DEF T, n
  <1> DEFINE last == T[n]
             before == JoinOf(T, n - 1)
  <1>4. last \in Seq(Byte) /\ ~Mistakable(last)
    BY <1>1, <1>2, <1>3, RowHasText DEF MarkerIsKnown
  <1>5. before \in Seq(Byte) /\ Texts(rows) = before \o last
    <2> DEFINE k == n - 1
    <2>1. k \in 0 .. Len(T) /\ k < Len(T) /\ k + 1 = n
      BY <1>1, <1>2
    <2> HIDE DEF k
    <2>2. JoinOf(T, k) \in Seq(Byte) /\ JoinOf(T, k + 1) = JoinOf(T, k) \o T[k + 1]
      BY <1>1, <2>1, JoinGrows
    <2> QED BY <1>1, <2>1, <2>2 DEF k
  <1> HIDE DEF last, before
  <1>6. s \o (before \o last) = (s \o before) \o last
    BY <1>4, <1>5, Associative
  <1>7. s \o before \in Seq(Byte)
    BY <1>5
  <1>8. ~IsSuffix(Marker, (s \o before) \o last)
    BY <1>4, <1>7, NotTaken
  <1> QED BY <1>5, <1>6, <1>8

(* Nor does one without a caption, which may be empty. *)
LEMMA BareNotTaken ==
    ASSUME MarkerIsKnown, NEW rows \in Seq(Rows)
    PROVE  ~IsSuffix(Marker, Texts(rows))
  <1>1. Texts(rows) \in Seq(Byte) /\ <<>> \in Seq(Byte) /\ <<>> \o Texts(rows) = Texts(rows)
    BY TextsTyped
  <1>2. CASE rows # <<>>
    BY <1>1, <1>2, TextsNotTaken
  <1>3. CASE rows = <<>>
    <2>1. Texts(rows) = <<>>
      BY <1>3, TextsTyped DEF JoinOf
    <2>2. Marker \in Seq(Byte) /\ Len(Marker) \in Nat /\ Len(Marker) # 0
      BY BodyAssumption, NothingIsEmpty DEF MarkerIsKnown
    <2>3. ~(Len(Marker) <= Len(<<>>))
      BY <2>2
    <2> QED BY <1>1, <2>1, <2>2, <2>3, SuffixAt
  <1> QED BY <1>2, <1>3

(* Nor one with a caption, which ends with a row or says that there is none. *)
LEMMA CountedNotTaken ==
    ASSUME MarkerIsKnown, Wording, NEW rows \in Seq(Rows)
    PROVE  ~IsSuffix(Marker, Counted(rows))
  <1>1. CountText(Len(rows)) \in Seq(Byte) /\ NoneText \in Seq(Byte)
    BY DEF Wording
  <1>2. CASE rows # <<>>
    BY <1>1, <1>2, TextsNotTaken DEF Counted
  <1>3. CASE rows = <<>>
    BY <1>1, <1>3, NotTaken DEF Counted, MarkerIsKnown
  <1> QED BY <1>2, <1>3

(* The formatters that count are honest. *)
LEMMA CountedIsHonest ==
    ASSUME MarkerIsKnown, Wording, NEW rows \in Seq(Rows), NEW more \in BOOLEAN,
           NEW all, NEW cap, more => Len(all) > cap, ~more => SameRows(rows, all)
    PROVE  IsHonest(AddMore(AddRows(Caption(rows), rows), more), Counted(rows), rows, all, cap)
  BY CountedForm, CountedNotTaken, EndIsHonest

(* So are those that do not. *)
LEMMA BareIsHonest ==
    ASSUME MarkerIsKnown, NEW rows \in Seq(Rows), NEW more \in BOOLEAN,
           NEW all, NEW cap, more => Len(all) > cap, ~more => SameRows(rows, all)
    PROVE  IsHonest(AddMore(AddRows(Empty, rows), more), Texts(rows), rows, all, cap)
  BY BareForm, BareNotTaken, EndIsHonest

-----------------------------------------------------------------------------
(* The first rows of a sequence. *)
LEMMA FirstOf ==
    ASSUME NEW S, NEW s \in Seq(S), NEW n \in Nat
    PROVE  /\ First(s, n) \in Seq(S)
           /\ Len(First(s, n)) = IF Len(s) < n THEN Len(s) ELSE n
           /\ \A i \in 1 .. Len(First(s, n)) : First(s, n)[i] = s[i]
           /\ Len(s) <= n => First(s, n) = s
  <1> DEFINE k == IF Len(s) < n THEN Len(s) ELSE n
  <1>1. k \in Nat /\ k <= Len(s) /\ Len(s) \in Nat /\ (Len(s) <= n => k = Len(s))
    OBVIOUS
  <1>2. First(s, n) = SubSeq(s, 1, k)
    BY DEF First
  <1>3. k = IF Len(s) < n THEN Len(s) ELSE n
    OBVIOUS
  <1> HIDE DEF k
  <1>4. /\ SubSeq(s, 1, k) \in Seq(S) /\ Len(SubSeq(s, 1, k)) = k
        /\ \A i \in 1 .. k : SubSeq(s, 1, k)[i] = s[i]
    BY <1>1
  <1>5. Len(s) <= n => SubSeq(s, 1, k) = s
    BY <1>1, WholeSubSeq
  <1> QED BY <1>2, <1>3, <1>4, <1>5

(* What a loop with a cap keeps, and what it notes. *)
LEMMA CollectedRows ==
    ASSUME NEW S, NEW all \in Seq(S), NEW cap \in Nat
    PROVE  /\ Collect(all, cap).rows = First(all, cap) /\ First(all, cap) \in Seq(S)
           /\ Collect(all, cap).more \in BOOLEAN
           /\ Collect(all, cap).more <=> Len(all) > cap
           /\ ~Collect(all, cap).more => First(all, cap) = all
  <1> DEFINE more == Len(all) > cap
             rows == First(all, cap)
  <1>1. Len(all) \in Nat /\ more \in BOOLEAN /\ (~more => Len(all) <= cap)
    OBVIOUS
  <1>2. rows \in Seq(S) /\ (Len(all) <= cap => rows = all)
    BY FirstOf
  <1>3. more <=> Len(all) > cap
    OBVIOUS
  <1>4. Collect(all, cap) = [rows |-> rows, more |-> more]
    BY DEF Collect
  <1> HIDE DEF more, rows
  <1>5. Collect(all, cap).rows = rows /\ Collect(all, cap).more = more
    BY <1>4
  <1>6. /\ Collect(all, cap).rows = rows /\ rows \in Seq(S)
        /\ Collect(all, cap).more \in BOOLEAN
        /\ Collect(all, cap).more <=> Len(all) > cap
        /\ ~Collect(all, cap).more => rows = all
    BY <1>1, <1>2, <1>3, <1>5, Zenon
  <1> QED BY <1>6 DEF rows

(* A sequence has the rows it has. *)
LEMMA SameAsItself == \A a : SameRows(a, a)
  BY DEF SameRows

(* Whatever order a sort leaves equals in, it neither loses nor doubles a row. *)
LEMMA Reordered ==
    ASSUME NEW S, NEW rows \in Seq(S), NEW q \in Reorderings(rows)
    PROVE  /\ q \in Seq(S) /\ Len(q) = Len(rows)
           /\ Range(q) = Range(rows)
           /\ SameRows(q, rows)
  <1> DEFINE n == Len(rows)
             D == 1 .. n
  <1>1. n \in Nat /\ DOMAIN rows = D /\ \A i \in D : rows[i] \in S
    OBVIOUS
  <1>2. IsFiniteSet(D) /\ Cardinality(D) = n
    <2>1. 1 \in Int /\ n \in Int
      BY <1>1
    <2>2. IsFiniteSet(1 .. n) /\ Cardinality(1 .. n) = IF 1 > n THEN 0 ELSE n - 1 + 1
      BY <2>1, FS_Interval
    <2> QED BY <1>1, <2>2
  <1>3. PICK p \in SetToSeqs(D) : q = [i \in D |-> rows[p[i]]]
    BY DEF Reorderings
  <1>4. p \in [D -> D] /\ \A i, j \in D : i # j => p[i] # p[j]
    BY <1>2, <1>3 DEF SetToSeqs
  <1>5. \A j \in D : \E i \in D : p[i] = j
    <2>1. p \in Injection(D, D)
      BY <1>4 DEF Injection, IsInjective
    <2>2. p \in Surjection(D, D)
      BY <1>2, <2>1, FS_Injection
    <2> QED BY <2>2 DEF Surjection
  <1>6. q \in Seq(S) /\ Len(q) = n /\ DOMAIN q = D /\ \A i \in D : q[i] = rows[p[i]]
    <2>1. \A i \in D : rows[p[i]] \in S
      BY <1>1, <1>4
    <2>2. q \in [1 .. n -> S]
      BY <1>3, <2>1
    <2> HIDE DEF n
    <2>3. q \in Seq(S) /\ Len(q) = n
      BY <1>1, <2>2
    <2> QED BY <1>3, <2>2, <2>3
  <1>7. Range(q) = Range(rows)
    <2>1. \A i \in D : p[i] \in D
      BY <1>4
    <2>2. Range(q) = {q[i] : i \in D} /\ Range(rows) = {rows[i] : i \in D}
      BY <1>1, <1>6 DEF Range
    <2> HIDE DEF D
    <2>3. \A i \in D : q[i] \in {rows[j] : j \in D}
      BY <1>6, <2>1
    <2>4. \A j \in D : rows[j] \in {q[i] : i \in D}
      BY <1>5, <1>6
    <2> QED BY <2>2, <2>3, <2>4
  <1>8. ASSUME NEW r
        PROVE  Cardinality({i \in 1 .. Len(q) : q[i] = r}) = Cardinality({i \in 1 .. n : rows[i] = r})
    <2> DEFINE A == {i \in D : q[i] = r}
               B == {i \in D : rows[i] = r}
               f == [i \in A |-> p[i]]
    <2>1. IsFiniteSet(A)
      BY <1>2, FS_Subset
    <2>2. f \in [A -> B] /\ \A i \in A : f[i] = p[i] /\ i \in D
      <3>1. \A i \in A : p[i] \in B
        BY <1>4, <1>6
      <3> QED BY <3>1
    <2>3. \A i, j \in A : f[i] = f[j] => i = j
      BY <1>4, <2>2
    <2>4. \A j \in B : \E i \in A : f[i] = j
      <3>1. ASSUME NEW j \in B PROVE \E i \in A : f[i] = j
        <4>1. PICK i \in D : p[i] = j
          BY <1>5
        <4>2. i \in A
          BY <1>6, <4>1
        <4> QED BY <2>2, <4>1, <4>2
      <3> QED BY <3>1
    <2> HIDE DEF A, B, f
    <2>5. f \in Bijection(A, B)
      BY <2>2, <2>3, <2>4 DEF Bijection, Injection, Surjection, IsInjective
    <2>6. ExistsBijection(A, B)
      BY <2>5 DEF ExistsBijection
    <2>7. Cardinality(B) = Cardinality(A)
      BY <2>1, <2>6, FS_Bijection
    <2> QED BY <1>6, <2>7 DEF A, B
  <1>9. SameRows(q, rows)
    <2> HIDE DEF n, D
    <2>1. Len(q) = Len(rows)
      BY <1>6 DEF n
    <2>2. \A r : Cardinality({i \in 1 .. Len(q) : q[i] = r}) = Cardinality({i \in 1 .. Len(rows) : rows[i] = r})
      BY <1>8 DEF n
    <2> QED BY <2>1, <2>2 DEF SameRows
  <1> QED BY <1>6, <1>7, <1>9

-----------------------------------------------------------------------------
(* A bounded sequence is a sequence. *)
LEMMA BoundedIsSeq ==
    ASSUME NEW S, NEW n \in Nat, NEW s \in BoundedSeq(S, n)
    PROVE  s \in Seq(S)
  <1>1. PICK m \in 0 .. n : s \in [1 .. m -> S]
    BY DEF BoundedSeq, SeqOf
  <1> QED BY <1>1

(* What a tool may be given. *)
LEMMA InputTyped ==
    /\ \A t \in {"services.failed", "services.enabled", "systemd.units.list"} :
         \A in \in Inputs(t) : in \in Seq(Units)
    /\ \A in \in Inputs("packages.list") : in \in Seq(Packages)
    /\ \A t \in {"journal", "fixture"} : \A in \in Inputs(t) : in \in Seq(Entries)
    /\ \A in \in Inputs("packages.recent_changes") : ReadableLines(in) \in Seq(Changes)
  <1>0. MaxReply \in Nat /\ MaxLogs \in Nat
    BY RowsAssumption
  <1>1. ASSUME NEW t \in {"services.failed", "services.enabled", "systemd.units.list"},
               NEW in \in Inputs(t)
        PROVE  in \in Seq(Units)
    <2>1. in \in BoundedSeq(Units, MaxReply)
      BY <1>1 DEF Inputs
    <2> QED BY <1>0, <2>1, BoundedIsSeq
  <1>2. ASSUME NEW in \in Inputs("packages.list") PROVE in \in Seq(Packages)
    <2>1. in \in BoundedSeq(Packages, MaxReply)
      BY <1>2 DEF Inputs
    <2> QED BY <1>0, <2>1, BoundedIsSeq
  <1>3. ASSUME NEW t \in {"journal", "fixture"}, NEW in \in Inputs(t) PROVE in \in Seq(Entries)
    <2>1. in \in BoundedSeq(Entries, MaxReply)
      BY <1>3 DEF Inputs
    <2> QED BY <1>0, <2>1, BoundedIsSeq
  <1>4. ASSUME NEW in \in Inputs("packages.recent_changes")
        PROVE  ReadableLines(in) \in Seq(Changes)
    <2>1. in \in [1 .. MaxLogs -> Logs]
      BY <1>4 DEF Inputs, TupleOf
    <2>2. Len(in) = MaxLogs
      <3> HIDE DEF Logs
      <3> QED BY <1>0, <2>1
    <2> DEFINE L == [i \in 1 .. Len(in) |-> IF in[i].access = "readable" THEN in[i].lines ELSE <<>>]
    <2>3. ASSUME NEW i \in 1 .. MaxLogs PROVE L[i] \in Seq(Changes)
      <3>1. L[i] = IF in[i].access = "readable" THEN in[i].lines ELSE <<>>
        BY <2>2
      <3>2. in[i] \in Logs
        BY <2>1
      <3>3. in[i].access = "readable" => in[i].lines \in BoundedSeq(Changes, MaxReply)
        BY <3>2 DEF Logs
      <3>4. in[i].access = "readable" => in[i].lines \in Seq(Changes)
        BY <1>0, <3>3, BoundedIsSeq
      <3>5. <<>> \in Seq(Changes)
        OBVIOUS
      <3> HIDE DEF L
      <3>6. CASE in[i].access = "readable"
        BY <3>1, <3>4, <3>6
      <3>7. CASE in[i].access # "readable"
        BY <3>1, <3>5, <3>7
      <3> QED BY <3>6, <3>7
    <2>4. L \in [1 .. MaxLogs -> Seq(Changes)]
      <3>1. L = [i \in 1 .. MaxLogs |-> L[i]]
        BY <2>2
      <3> HIDE DEF L
      <3> QED BY <2>3, <3>1
    <2>5. ReadableLines(in) = FlattenSeq(L)
      BY DEF ReadableLines
    <2> HIDE DEF L
    <2>6. L \in Seq(Seq(Changes)) /\ Len(L) = MaxLogs
      BY <1>0, <2>4
    <2>7. Len(L) \in 0 .. Len(L)
      BY <1>0, <2>6
    <2>8. JoinOf(L, Len(L)) = FlattenSeq(L) /\ JoinOf(L, Len(L)) \in Seq(Changes)
      BY <2>6, <2>7, JoinGrows
    <2> QED BY <2>5, <2>8
  <1> QED BY <1>1, <1>2, <1>3, <1>4

(* What a response says of what its tool was given. *)
Honest(t, in, r) ==
    IsHonest(r.body, WholeText(t, in, r.rows), r.rows, AllRows(t, in), RowCap(t))

(* A response with rows is a success, a failure is none. *)
LEMMA ResponseParts ==
    /\ \A rows, b : /\ Success(rows, b).rows = rows /\ Success(rows, b).body = b
                    /\ Success(rows, b).status = "ok"
    /\ Failure.status # "ok"
  BY DEF Success, Failure

(* The rows a tool keeps are rows, and it counts the rest exactly when the cap left
   some out. *)
LEMMA CappedRows ==
    ASSUME NEW all \in Seq(Rows), NEW cap \in Nat, NEW c, c = Collect(all, cap)
    PROVE  /\ c.rows \in Seq(Rows) /\ c.more \in BOOLEAN
           /\ c.more => Len(all) > cap
           /\ ~c.more => c.rows = all /\ SameRows(c.rows, all)
  <1>1. /\ c.rows = First(all, cap) /\ First(all, cap) \in Seq(Rows)
        /\ c.more \in BOOLEAN /\ (c.more => Len(all) > cap)
        /\ (~c.more => First(all, cap) = all)
    BY CollectedRows
  <1> QED BY <1>1, SameAsItself

(* services.failed. *)
LEMMA FailedServicesHonest ==
    ASSUME MarkerIsKnown, Wording, NEW in \in Inputs("services.failed"), NEW fails,
           NEW r \in FailedServicesTool_call(in, fails), r.status = "ok"
    PROVE  Honest("services.failed", in, r)
  <1> DEFINE all == Matching(in, FailedServices)
             c == Collect(all, kMaxFailedServices)
  <1>1. all \in Seq(Rows)
    <2>1. all \in Seq(Units)
      BY InputTyped, MatchingTyped
    <2> HIDE DEF all
    <2> QED BY <2>1, SeqOfMore DEF Rows
  <1>2. r = Success(c.rows, format_failed_services_body(c.rows, c.more))
    BY ResponseParts DEF FailedServicesTool_call
  <1>3. /\ AllRows("services.failed", in) = all /\ RowCap("services.failed") = kMaxFailedServices
        /\ \A rows : WholeText("services.failed", in, rows) = Counted(rows)
    BY DEF AllRows, RowCap, WholeText, Counted
  <1>4. kMaxFailedServices \in Nat
    BY RowsAssumption
  <1> HIDE DEF all
  <1>5. /\ c.rows \in Seq(Rows) /\ c.more \in BOOLEAN
        /\ c.more => Len(all) > kMaxFailedServices
        /\ ~c.more => SameRows(c.rows, all)
    BY <1>1, <1>4, CappedRows
  <1> HIDE DEF c
  <1>6. IsHonest(format_failed_services_body(c.rows, c.more), Counted(c.rows), c.rows, all, kMaxFailedServices)
    BY <1>5, CountedIsHonest DEF format_failed_services_body
  <1>7. r.rows = c.rows /\ r.body = format_failed_services_body(c.rows, c.more)
    BY <1>2, ResponseParts
  <1> QED BY <1>3, <1>6, <1>7 DEF Honest

(* services.enabled. *)
LEMMA EnabledServicesHonest ==
    ASSUME MarkerIsKnown, Wording, NEW in \in Inputs("services.enabled"), NEW fails,
           NEW r \in EnabledServicesTool_call(in, fails), r.status = "ok"
    PROVE  Honest("services.enabled", in, r)
  <1> DEFINE all == Matching(in, EnabledServices)
             c == Collect(all, kMaxEnabledServices)
  <1>1. all \in Seq(Rows)
    <2>1. all \in Seq(Units)
      BY InputTyped, MatchingTyped
    <2> HIDE DEF all
    <2> QED BY <2>1, SeqOfMore DEF Rows
  <1>2. r = Success(c.rows, format_enabled_services_body(c.rows, c.more))
    BY ResponseParts DEF EnabledServicesTool_call
  <1>3. /\ AllRows("services.enabled", in) = all /\ RowCap("services.enabled") = kMaxEnabledServices
        /\ \A rows : WholeText("services.enabled", in, rows) = Counted(rows)
    BY DEF AllRows, RowCap, WholeText, Counted
  <1>4. kMaxEnabledServices \in Nat
    BY RowsAssumption
  <1> HIDE DEF all
  <1>5. /\ c.rows \in Seq(Rows) /\ c.more \in BOOLEAN
        /\ c.more => Len(all) > kMaxEnabledServices
        /\ ~c.more => SameRows(c.rows, all)
    BY <1>1, <1>4, CappedRows
  <1> HIDE DEF c
  <1>6. IsHonest(format_enabled_services_body(c.rows, c.more), Counted(c.rows), c.rows, all, kMaxEnabledServices)
    BY <1>5, CountedIsHonest DEF format_enabled_services_body
  <1>7. r.rows = c.rows /\ r.body = format_enabled_services_body(c.rows, c.more)
    BY <1>2, ResponseParts
  <1> QED BY <1>3, <1>6, <1>7 DEF Honest

(* systemd.units.list. *)
LEMMA UnitsHonest ==
    ASSUME MarkerIsKnown, Wording, NEW in \in Inputs("systemd.units.list"), NEW fails,
           NEW r \in SystemdUnitsTool_call(in, fails), r.status = "ok"
    PROVE  Honest("systemd.units.list", in, r)
  <1> DEFINE c == Collect(in, kMaxUnits)
  <1>1. in \in Seq(Rows)
    <2>1. in \in Seq(Units)
      BY InputTyped
    <2> QED BY <2>1, SeqOfMore DEF Rows
  <1>2. r = Success(c.rows, format_systemd_units_list_body(c.rows, c.more))
    BY ResponseParts DEF SystemdUnitsTool_call
  <1>3. /\ AllRows("systemd.units.list", in) = in /\ RowCap("systemd.units.list") = kMaxUnits
        /\ \A rows : WholeText("systemd.units.list", in, rows) = Texts(rows)
    BY DEF AllRows, RowCap, WholeText
  <1>4. kMaxUnits \in Nat
    BY RowsAssumption
  <1>5. /\ c.rows \in Seq(Rows) /\ c.more \in BOOLEAN
        /\ c.more => Len(in) > kMaxUnits
        /\ ~c.more => SameRows(c.rows, in)
    BY <1>1, <1>4, CappedRows
  <1> HIDE DEF c
  <1>6. IsHonest(format_systemd_units_list_body(c.rows, c.more), Texts(c.rows), c.rows, in, kMaxUnits)
    BY <1>5, BareIsHonest DEF format_systemd_units_list_body
  <1>7. r.rows = c.rows /\ r.body = format_systemd_units_list_body(c.rows, c.more)
    BY <1>2, ResponseParts
  <1> QED BY <1>3, <1>6, <1>7 DEF Honest

(* packages.list: the sort comes after the cap, so that the rows are those of the
   first lines of rpm in another order. *)
LEMMA PackagesHonest ==
    ASSUME MarkerIsKnown, Wording, NEW in \in Inputs("packages.list"), NEW fails,
           NEW r \in PackageListTool_call(in, fails), r.status = "ok"
    PROVE  Honest("packages.list", in, r)
  <1> DEFINE all == Matching(in, Parsed)
             c == Collect(all, kMaxPackageListRows)
  <1>1. all \in Seq(Rows)
    <2>1. all \in Seq(Packages)
      BY InputTyped, MatchingTyped
    <2> HIDE DEF all
    <2> QED BY <2>1, SeqOfMore DEF Rows
  <1>2. PICK q \in SortedByKey(c.rows) : r = Success(q, format_package_list_body(q, c.more))
    BY ResponseParts DEF PackageListTool_call
  <1>3. /\ AllRows("packages.list", in) = all /\ RowCap("packages.list") = kMaxPackageListRows
        /\ \A rows : WholeText("packages.list", in, rows) = Counted(rows)
    BY DEF AllRows, RowCap, WholeText, Counted
  <1>4. kMaxPackageListRows \in Nat
    BY RowsAssumption
  <1> HIDE DEF all
  <1>5. /\ c.rows \in Seq(Rows) /\ c.more \in BOOLEAN
        /\ c.more => Len(all) > kMaxPackageListRows
        /\ ~c.more => c.rows = all
    BY <1>1, <1>4, CappedRows
  <1> HIDE DEF c
  <1>6. q \in Seq(Rows) /\ SameRows(q, c.rows)
    <2>1. q \in Reorderings(c.rows)
      BY <1>2 DEF SortedByKey
    <2> QED BY <1>5, <2>1, Reordered
  <1>7. IsHonest(format_package_list_body(q, c.more), Counted(q), q, all, kMaxPackageListRows)
    BY <1>5, <1>6, CountedIsHonest DEF format_package_list_body
  <1>8. r.rows = q /\ r.body = format_package_list_body(q, c.more)
    BY <1>2, ResponseParts
  <1> QED BY <1>3, <1>7, <1>8 DEF Honest

(* packages.recent_changes: there are two caps, and the sort is between them. *)
LEMMA ChangesHonest ==
    ASSUME MarkerIsKnown, Wording, NEW in \in Inputs("packages.recent_changes"),
           NEW r \in PackageRecentChangesTool_call(in), r.status = "ok"
    PROVE  Honest("packages.recent_changes", in, r)
  <1> DEFINE all == Matching(ReadableLines(in), Parsed)
             c == Collect(all, kMaxCollectedChanges)
             more == c.more \/ Len(c.rows) > kMaxPackageChanges
             cap == kMaxPackageChanges
  <1>1. all \in Seq(Rows)
    <2>1. all \in Seq(Changes)
      BY InputTyped, MatchingTyped
    <2> HIDE DEF all
    <2> QED BY <2>1, SeqOfMore DEF Rows
  <1>2. PICK q \in NewestFirst(c.rows) :
          r = Success(First(q, cap), format_package_recent_changes_body(First(q, cap), more))
    BY ResponseParts DEF PackageRecentChangesTool_call
  <1>3. /\ AllRows("packages.recent_changes", in) = all
        /\ RowCap("packages.recent_changes") = cap
        /\ \A rows : WholeText("packages.recent_changes", in, rows) = Counted(rows)
    BY DEF AllRows, RowCap, WholeText, Counted
  <1>4. kMaxCollectedChanges \in Nat /\ cap \in Nat /\ cap <= kMaxCollectedChanges
    BY RowsAssumption
  <1> HIDE DEF all
  <1>5. /\ c.rows \in Seq(Rows) /\ c.more \in BOOLEAN
        /\ c.more => Len(all) > kMaxCollectedChanges
        /\ ~c.more => c.rows = all
    BY <1>1, <1>4, CappedRows
  <1> HIDE DEF c
  <1>6. q \in Seq(Rows) /\ SameRows(q, c.rows) /\ Len(q) = Len(c.rows)
    <2>1. q \in Reorderings(c.rows)
      BY <1>2 DEF NewestFirst
    <2> QED BY <1>5, <2>1, Reordered
  <1>7. more \in BOOLEAN /\ (more => Len(all) > cap)
    <2>1. Len(all) \in Nat /\ Len(c.rows) \in Nat
      BY <1>1, <1>5
    <2>2. c.more => Len(all) > cap
      BY <1>4, <1>5, <2>1
    <2>3. ~c.more /\ Len(c.rows) > cap => Len(all) > cap
      BY <1>5
    <2> QED BY <1>5, <2>2, <2>3
  <1>8. First(q, cap) \in Seq(Rows) /\ (~more => SameRows(First(q, cap), all))
    <2>1. First(q, cap) \in Seq(Rows) /\ (Len(q) <= cap => First(q, cap) = q)
      BY <1>4, <1>6, FirstOf
    <2>2. ~more => ~c.more /\ Len(q) <= cap
      BY <1>4, <1>5, <1>6
    <2>3. ~more => SameRows(q, all)
      BY <1>5, <1>6, <2>2
    <2> QED BY <2>1, <2>2, <2>3
  <1> HIDE DEF more, cap
  <1>9. IsHonest(format_package_recent_changes_body(First(q, cap), more), Counted(First(q, cap)),
                 First(q, cap), all, cap)
    BY <1>7, <1>8, CountedIsHonest DEF format_package_recent_changes_body
  <1>10. r.rows = First(q, cap) /\ r.body = format_package_recent_changes_body(First(q, cap), more)
    BY <1>2, ResponseParts
  <1> QED BY <1>3, <1>9, <1>10 DEF Honest

(* journal.query on the journal: a read that fails is only noticed at the end of
   what was read, where the response is an error. *)
LEMMA JournalHonest ==
    ASSUME MarkerIsKnown, Wording, NEW in \in Inputs("journal"), NEW fails,
           NEW r \in LiveJournalTool_call(in, fails), r.status = "ok"
    PROVE  Honest("journal", in, r)
  <1> DEFINE all == Matching(in, OfUnit)
             c == Collect(all, kMaxEntries)
             b == AddMore(AddRows(Empty, c.rows), c.more)
  <1>1. all \in Seq(Rows)
    <2>1. all \in Seq(Entries)
      BY InputTyped, MatchingTyped
    <2> HIDE DEF all
    <2> QED BY <2>1, SeqOfMore DEF Rows
  <1>2. r = Success(c.rows, b)
    BY ResponseParts DEF LiveJournalTool_call
  <1>3. /\ AllRows("journal", in) = all /\ RowCap("journal") = kMaxEntries
        /\ \A rows : WholeText("journal", in, rows) = Texts(rows)
    BY DEF AllRows, RowCap, WholeText
  <1>4. kMaxEntries \in Nat
    BY RowsAssumption
  <1> HIDE DEF all
  <1>5. /\ c.rows \in Seq(Rows) /\ c.more \in BOOLEAN
        /\ c.more => Len(all) > kMaxEntries
        /\ ~c.more => SameRows(c.rows, all)
    BY <1>1, <1>4, CappedRows
  <1> HIDE DEF c
  <1>6. IsHonest(b, Texts(c.rows), c.rows, all, kMaxEntries)
    BY <1>5, BareIsHonest
  <1>7. r.rows = c.rows /\ r.body = b
    BY <1>2, ResponseParts
  <1> QED BY <1>3, <1>6, <1>7 DEF Honest

(* journal.query on a fixture: the count of invalid lines is part of the report, and
   told unless something before it is left out. *)
LEMMA FixtureHonest ==
    ASSUME MarkerIsKnown, Wording, NEW in \in Inputs("fixture"), NEW fails,
           NEW r \in JournalFixtureTool_call(in, fails), r.status = "ok"
    PROVE  Honest("fixture", in, r)
  <1> DEFINE all == Matching(in, ValidOfUnit)
             skipped == Len(Matching(in, Invalid))
             c == Collect(all, kMaxEntries)
             f == AddRows(Empty, c.rows)
             b == IF skipped > 0 /\ ~c.more /\ ~f.truncated THEN Add(f, SkippedText(skipped)).body
                  ELSE AddMore(f, c.more)
             tail == IF skipped = 0 THEN <<>> ELSE SkippedText(skipped)
             whole == Texts(c.rows) \o tail
  <1>1. all \in Seq(Rows) /\ skipped \in Nat
    <2>1. all \in Seq(Entries) /\ Matching(in, Invalid) \in Seq(Entries)
      BY InputTyped, MatchingTyped
    <2> HIDE DEF all
    <2> QED BY <2>1, SeqOfMore DEF Rows
  <1>2. r = Success(c.rows, b)
    BY ResponseParts DEF JournalFixtureTool_call
  <1>3. /\ AllRows("fixture", in) = all /\ RowCap("fixture") = kMaxEntries
        /\ WholeText("fixture", in, c.rows) = whole
    BY DEF AllRows, RowCap, WholeText
  <1>4. kMaxEntries \in Nat
    BY RowsAssumption
  <1> HIDE DEF all, skipped
  <1>5. /\ c.rows \in Seq(Rows) /\ c.more \in BOOLEAN
        /\ c.more => Len(all) > kMaxEntries
        /\ ~c.more => SameRows(c.rows, all)
    BY <1>1, <1>4, CappedRows
  <1> HIDE DEF c
  <1>6. IsFormOf(f, Texts(c.rows)) /\ Texts(c.rows) \in Seq(Byte)
    BY <1>5, BareForm, TextsTyped
  <1> HIDE DEF f
  <1>7. tail \in Seq(Byte)
    BY <1>1 DEF Wording
  <1>8. IsHonest(b, whole, c.rows, all, kMaxEntries)
    <2>1. CASE c.more \/ f.truncated
      <3>1. b = AddMore(f, c.more)
        BY <2>1
      <3> HIDE DEF b, tail
      <3> QED BY <1>5, <1>6, <1>7, <2>1, <3>1, CutIsHonest
    <2>2. CASE ~c.more /\ ~f.truncated /\ skipped > 0
      <3> DEFINE g == Add(f, SkippedText(skipped))
      <3>1. b = g.body /\ tail = SkippedText(skipped) /\ skipped # 0
        BY <1>1, <2>2
      <3> HIDE DEF b, tail
      <3>2. IsFormOf(g, whole)
        BY <1>6, <1>7, <3>1, AddKeeps
      <3>3. ~IsSuffix(Marker, whole)
        <4>1. ~Mistakable(tail)
          BY <1>1, <3>1 DEF MarkerIsKnown
        <4> QED BY <1>6, <1>7, <4>1, NotTaken
      <3> HIDE DEF g, whole
      <3>4. IsHonest(AddMore(g, FALSE), whole, c.rows, all, kMaxEntries)
        <4>1. FALSE \in BOOLEAN
          OBVIOUS
        <4> QED BY <1>5, <2>2, <3>2, <3>3, <4>1, EndIsHonest
      <3>5. AddMore(g, FALSE) = g.body
        BY DEF AddMore
      <3> QED BY <3>1, <3>4, <3>5
    <2>3. CASE ~c.more /\ ~f.truncated /\ ~(skipped > 0)
      <3>1. b = AddMore(f, c.more) /\ tail = <<>>
        BY <1>1, <2>3
      <3> HIDE DEF b, tail
      <3>2. whole = Texts(c.rows)
        BY <1>6, <3>1
      <3> HIDE DEF whole
      <3>3. ~IsSuffix(Marker, whole)
        BY <1>5, <3>2, BareNotTaken
      <3> QED BY <1>5, <1>6, <3>1, <3>2, <3>3, EndIsHonest
    <2> QED BY <1>1, <2>1, <2>2, <2>3
  <1> HIDE DEF b, whole
  <1>9. r.rows = c.rows /\ r.body = b
    BY <1>2, ResponseParts
  <1> QED BY <1>3, <1>8, <1>9 DEF Honest

-----------------------------------------------------------------------------
(* A call is of one of the tools, and on one of its inputs. *)
Called ==
    /\ tool \in {"services.failed", "services.enabled", "systemd.units.list",
                 "packages.list", "packages.recent_changes", "journal", "fixture"}
    /\ input \in Inputs(tool)

(* Each call leaves an honest response. *)
LEMMA CallIsHonest ==
    ASSUME MarkerIsKnown, Wording, Called, Next
    PROVE  /\ tool' = tool /\ input' = input
           /\ response'.status = "ok" => Honest(tool, input, response')
  <1>1. CASE CallSystemd("services.failed", FailedServicesTool_call)
    BY <1>1, FailedServicesHonest DEF CallSystemd, Called
  <1>2. CASE CallSystemd("services.enabled", EnabledServicesTool_call)
    BY <1>2, EnabledServicesHonest DEF CallSystemd, Called
  <1>3. CASE CallSystemd("systemd.units.list", SystemdUnitsTool_call)
    BY <1>3, UnitsHonest DEF CallSystemd, Called
  <1>4. CASE CallPackageList
    BY <1>4, PackagesHonest DEF CallPackageList, Called
  <1>5. CASE CallRecentChanges
    BY <1>5, ChangesHonest DEF CallRecentChanges, Called
  <1>6. CASE CallJournal
    BY <1>6, JournalHonest DEF CallJournal, Called
  <1>7. CASE CallFixture
    BY <1>7, FixtureHonest DEF CallFixture, Called
  <1> QED BY <1>1, <1>2, <1>3, <1>4, <1>5, <1>6, <1>7 DEF Next

(* Every report of the list tools tells what it is worth, for replies of any size
   and any caps, when no line a report may end with looks like the marker. *)
THEOREM ReportsTellTheTruth ==
    ASSUME MarkerIsKnown, Wording
    PROVE  Spec => []ReportTellsTheTruth
  <1>1. Init => Called /\ ReportTellsTheTruth
    <2> SUFFICES ASSUME Init PROVE Called /\ ReportTellsTheTruth
      OBVIOUS
    <2>1. response.status # "ok"
      BY DEF Init, Pending
    <2> QED BY <2>1 DEF Init, Called, ReportTellsTheTruth
  <1>2. (Called /\ ReportTellsTheTruth) /\ [Next]_vars => (Called /\ ReportTellsTheTruth)'
    <2> SUFFICES ASSUME Called, ReportTellsTheTruth, [Next]_vars
                 PROVE  (Called /\ ReportTellsTheTruth)'
      OBVIOUS
    <2>1. CASE Next
      <3>1. /\ tool' = tool /\ input' = input
            /\ response'.status = "ok" => Honest(tool, input, response')
        BY <2>1, CallIsHonest
      <3>2. Called'
        BY <3>1 DEF Called
      <3>3. ReportTellsTheTruth'
        BY <3>1 DEF ReportTellsTheTruth, Honest
      <3> QED BY <3>2, <3>3
    <2>2. CASE UNCHANGED vars
      BY <2>2 DEF vars, Called, ReportTellsTheTruth
    <2> QED BY <2>1, <2>2
  <1> QED BY <1>1, <1>2, PTL DEF Spec

-----------------------------------------------------------------------------
(* What is in order newest first from each row to the next is so throughout. *)
LEMMA NewestThroughout ==
    ASSUME NEW q \in Seq(Changes),
           \A i \in 1 .. Len(q) - 1 : q[i].timestamp >= q[i + 1].timestamp
    PROVE  \A i, j \in 1 .. Len(q) : i < j => q[i].timestamp >= q[j].timestamp
  <1> DEFINE n == Len(q)
             g == [i \in 1 .. n |-> q[(n + 1) - i].timestamp]
  <1>1. n \in Nat /\ \A i \in 1 .. n : q[i] \in Changes
    OBVIOUS
  <1>2. \A i \in 1 .. n : q[i].timestamp \in Nat
    BY <1>1, RowsAssumption
  <1>3. \A i \in 1 .. n : (n + 1) - i \in 1 .. n
    BY <1>1
  <1>4. g \in [1 .. n -> Nat] /\ \A i \in 1 .. n : g[i] = q[(n + 1) - i].timestamp
    BY <1>2, <1>3
  <1> HIDE DEF g
  <1>5. ASSUME NEW i \in 1 .. n, i > 1 PROVE g[i - 1] <= g[i]
    <2> DEFINE k == (n + 1) - i
    <2>1. k \in 1 .. n - 1 /\ k + 1 = (n + 1) - (i - 1) /\ i - 1 \in 1 .. n
          /\ k \in 1 .. n /\ k + 1 \in 1 .. n
      BY <1>1, <1>5
    <2>2. q[k].timestamp >= q[k + 1].timestamp
      BY <2>1
    <2>3. g[i] = q[k].timestamp /\ g[i - 1] = q[k + 1].timestamp
      BY <1>4, <2>1
    <2> QED BY <1>2, <2>1, <2>2, <2>3
  <1>6. \A i, j \in 1 .. n : j < i => g[j] <= g[i]
    <2> HIDE DEF n
    <2> QED BY <1>1, <1>4, <1>5, SortedThroughout
  <1>7. ASSUME NEW i \in 1 .. n, NEW j \in 1 .. n, i < j PROVE q[i].timestamp >= q[j].timestamp
    <2> DEFINE a == (n + 1) - i
               b == (n + 1) - j
    <2>1. a \in 1 .. n /\ b \in 1 .. n /\ b < a /\ (n + 1) - a = i /\ (n + 1) - b = j
      BY <1>1, <1>7
    <2>2. g[b] <= g[a]
      BY <1>6, <2>1
    <2>3. g[a] = q[i].timestamp /\ g[b] = q[j].timestamp
      BY <1>4, <2>1
    <2> QED BY <1>2, <2>2, <2>3
  <1> QED BY <1>7

(* The first of rows that are sorted newest first are none older than the others. *)
LEMMA CallShowsNewest ==
    ASSUME NEW in \in Inputs("packages.recent_changes"),
           NEW r \in PackageRecentChangesTool_call(in), r.status = "ok",
           NEW all, all = AllRows("packages.recent_changes", in), Len(all) <= kMaxCollectedChanges,
           NEW e \in Range(all) \ Range(r.rows), NEW x \in Range(r.rows)
    PROVE  x.timestamp >= e.timestamp
  <1> DEFINE c == Collect(all, kMaxCollectedChanges)
             cap == kMaxPackageChanges
  <1>1. all = Matching(ReadableLines(in), Parsed) /\ all \in Seq(Changes)
    <2>1. all = Matching(ReadableLines(in), Parsed)
      BY DEF AllRows
    <2> QED BY <2>1, InputTyped, MatchingTyped
  <1>2. PICK q \in NewestFirst(c.rows) : \E b : r = Success(First(q, cap), b)
    BY <1>1, ResponseParts DEF PackageRecentChangesTool_call
  <1>3. kMaxCollectedChanges \in Nat /\ cap \in Nat
    BY RowsAssumption
  <1>4. c.rows = all
    <2>1. Len(all) \in Nat
      BY <1>1
    <2>2. c.more <=> Len(all) > kMaxCollectedChanges
      BY <1>1, <1>3, CollectedRows
    <2>3. c.rows = First(all, kMaxCollectedChanges) /\ (~c.more => First(all, kMaxCollectedChanges) = all)
      BY <1>1, <1>3, CollectedRows
    <2> QED BY <1>3, <2>1, <2>2, <2>3
  <1> HIDE DEF c
  <1>5. q \in Seq(Changes) /\ Range(q) = Range(all)
    <2>1. q \in Reorderings(all)
      BY <1>2, <1>4 DEF NewestFirst
    <2> QED BY <1>1, <2>1, Reordered
  <1>6. \A i, j \in 1 .. Len(q) : i < j => q[i].timestamp >= q[j].timestamp
    <2>1. \A i \in 1 .. Len(q) - 1 : q[i].timestamp >= q[i + 1].timestamp
      BY <1>2 DEF NewestFirst
    <2> QED BY <1>5, <2>1, NewestThroughout
  <1> DEFINE s == First(q, cap)
  <1>7. r.rows = s
    BY <1>2, ResponseParts
  <1>8. /\ s \in Seq(Changes) /\ Len(s) = (IF Len(q) < cap THEN Len(q) ELSE cap)
        /\ \A i \in 1 .. Len(s) : s[i] = q[i]
    BY <1>3, <1>5, FirstOf
  <1> HIDE DEF s, cap
  <1>9. Len(s) \in Nat /\ Len(q) \in Nat /\ Len(s) <= Len(q)
    BY <1>3, <1>5, <1>8
  <1>10. PICK i \in 1 .. Len(s) : x = s[i]
    BY <1>7, <1>8 DEF Range
  <1>11. PICK j \in 1 .. Len(q) : e = q[j]
    BY <1>5 DEF Range
  <1>12. j > Len(s)
    <2> SUFFICES ASSUME ~(j > Len(s)) PROVE FALSE
      OBVIOUS
    <2>1. j \in 1 .. Len(s)
      BY <1>9
    <2>2. e = s[j] /\ j \in DOMAIN s
      BY <1>8, <1>11, <2>1
    <2> QED BY <1>7, <2>2 DEF Range
  <1>13. i \in 1 .. Len(q) /\ i < j /\ x = q[i]
    BY <1>8, <1>9, <1>10, <1>12
  <1> QED BY <1>6, <1>11, <1>13

(* packages.recent_changes shows the newest changes of any logs that hold no more
   than it collects, in whatever order its sort leaves equals. *)
THEOREM NewestChangesAreShown == Spec => []NewestAreShownOfFew
  <1>1. Init => Called /\ NewestAreShownOfFew
    <2> SUFFICES ASSUME Init PROVE Called /\ NewestAreShownOfFew
      OBVIOUS
    <2>1. response.status # "ok"
      BY DEF Init, Pending
    <2> QED BY <2>1 DEF Init, Called, NewestAreShownOfFew, NewestAreShown
  <1>2. (Called /\ NewestAreShownOfFew) /\ [Next]_vars => (Called /\ NewestAreShownOfFew)'
    <2> SUFFICES ASSUME Called, NewestAreShownOfFew, [Next]_vars
                 PROVE  (Called /\ NewestAreShownOfFew)'
      OBVIOUS
    <2>1. CASE UNCHANGED vars
      BY <2>1 DEF vars, Called, NewestAreShownOfFew, NewestAreShown
    <2>2. CASE Next
      <3>1. tool' = tool /\ input' = input
        BY <2>2 DEF Next, CallSystemd, CallPackageList, CallRecentChanges, CallJournal, CallFixture
      <3>2. Called'
        BY <3>1 DEF Called
      <3>3. CASE tool # "packages.recent_changes"
        BY <3>1, <3>2, <3>3 DEF NewestAreShownOfFew, NewestAreShown
      <3>4. CASE tool = "packages.recent_changes"
        <4>1. response' \in PackageRecentChangesTool_call(input)
          BY <2>2, <3>4 DEF Next, CallSystemd, CallPackageList, CallRecentChanges, CallJournal, CallFixture
        <4>2. input \in Inputs("packages.recent_changes")
          BY <3>4 DEF Called
        <4> DEFINE all == AllRows("packages.recent_changes", input)
        <4>3. ASSUME response'.status = "ok", Len(all) <= kMaxCollectedChanges,
                     NEW e \in Range(all) \ Range(response'.rows), NEW x \in Range(response'.rows)
              PROVE  x.timestamp >= e.timestamp
          BY <4>1, <4>2, <4>3, CallShowsNewest
        <4>4. NewestAreShownOfFew'
          BY <3>1, <3>4, <4>3 DEF NewestAreShownOfFew, NewestAreShown
        <4> QED BY <3>2, <4>4
      <3> QED BY <3>3, <3>4
    <2> QED BY <2>1, <2>2
  <1> QED BY <1>1, <1>2, PTL DEF Spec
=============================================================================
