----------------------- MODULE ServiceDiagnose_proofs -----------------------
(* Theorems of ServiceDiagnose, for any name, description and bounds that hold
   the marker. *)
EXTENDS ServiceDiagnose, TLAPS

S == INSTANCE DataLemmas WITH Byte <- Tokens, MaxBody <- kMaxBodyBytes
D == INSTANCE DataLemmas WITH Byte <- Tokens, MaxBody <- kMaxDiagnosisBodyBytes

(* Short texts. *)
LEMMA ShortTexts ==
    ASSUME NEW X, NEW a \in X, NEW b \in X, NEW c \in X
    PROVE  /\ <<>> \in Seq(X) /\ <<a>> \in Seq(X) /\ <<a, b>> \in Seq(X) /\ <<a, b, c>> \in Seq(X)
           /\ Len(<<a, b, c>>) = 3
  OBVIOUS

(* The marker is a text, and leaves room in both bodies. *)
LEMMA MarkerIsText ==
    ASSUME NEW X, {"truncated=", "true", "nl"} \subseteq X
    PROVE  /\ Marker \in Seq(X) /\ Len(Marker) = 3
           /\ kMaxBodyBytes \in Nat /\ Len(Marker) <= kMaxBodyBytes
           /\ kMaxDiagnosisBodyBytes \in Nat /\ Len(Marker) <= kMaxDiagnosisBodyBytes
  <1> DEFINE a == "truncated="
             b == "true"
             c == "nl"
  <1>1. a \in X /\ b \in X /\ c \in X
    OBVIOUS
  <1>2. Marker = <<a, b, c>>
    BY DEF Marker
  <1> HIDE DEF a, b, c
  <1>3. Marker \in Seq(X) /\ Len(Marker) = 3
    BY <1>1, <1>2, ShortTexts
  <1> QED BY <1>3, DiagnoseAssumption

(* A text of some tokens is one of more. *)
LEMMA MoreTokens ==
    ASSUME NEW X, NEW Y, X \subseteq Y, NEW s \in Seq(X)
    PROVE  s \in Seq(Y)
  OBVIOUS

LEMMA MarkerTokens == {"truncated=", "true", "nl"} \subseteq Tokens
  BY DEF Tokens

(* Two texts, one after the other. *)
Follows(a, b, c, X) ==
    /\ c \in Seq(X)
    /\ Len(c) = Len(a) + Len(b) /\ Len(a) \in Nat /\ Len(b) \in Nat
    /\ \A i \in 1 .. Len(a) : c[i] = a[i]
    /\ \A i \in 1 .. Len(b) : c[Len(a) + i] = b[i]

LEMMA TwoTexts ==
    ASSUME NEW X, NEW a \in Seq(X), NEW b \in Seq(X)
    PROVE  Follows(a, b, a \o b, X)
  BY DEF Follows

(* A line is its key, its value and its end. *)
IsLine(l, key, value, X) ==
    /\ l \in Seq(X) /\ Len(l) = Len(value) + 2
    /\ l[1] = key
    /\ \A i \in 1 .. Len(value) : l[i + 1] = value[i]
    /\ l[Len(value) + 2] = "nl"

LEMMA LineIsText ==
    ASSUME NEW X, NEW key \in X, "nl" \in X, NEW value \in Seq(X)
    PROVE  IsLine(Line(key, value), key, value, X)
  <1> DEFINE e == "nl"
             h == <<key>>
             f == <<e>>
             g == h \o value
             l == g \o f
             n == Len(value)
  <1>1. h \in Seq(X) /\ Len(h) = 1 /\ h[1] = key /\ f \in Seq(X) /\ Len(f) = 1 /\ f[1] = e
    OBVIOUS
  <1>2. Line(key, value) = l
    BY DEF Line
  <1> HIDE DEF h, f, e
  <1>3. /\ n \in Nat /\ g \in Seq(X) /\ Len(g) = 1 + n
        /\ \A i \in 1 .. 1 : g[i] = h[i]
        /\ \A i \in 1 .. n : g[1 + i] = value[i]
    <2>1. Follows(h, value, g, X)
      BY <1>1, TwoTexts
    <2> HIDE DEF g
    <2> QED BY <1>1, <2>1 DEF Follows
  <1> HIDE DEF g
  <1>4. /\ l \in Seq(X) /\ Len(l) = n + 2
        /\ \A i \in 1 .. 1 + n : l[i] = g[i]
        /\ \A i \in 1 .. 1 : l[1 + n + i] = f[i]
    <2>1. Follows(g, f, l, X)
      BY <1>1, <1>3, TwoTexts
    <2> HIDE DEF l, n
    <2> QED BY <1>1, <1>3, <2>1 DEF Follows
  <1> HIDE DEF l, n
  <1>5. l[1] = key
    BY <1>1, <1>3, <1>4
  <1>6. l[n + 2] = e
    <2>1. l[1 + n + 1] = f[1] /\ 1 + n + 1 = n + 2
      BY <1>3, <1>4
    <2> QED BY <1>1, <2>1
  <1>7. ASSUME NEW i \in 1 .. n PROVE l[i + 1] = value[i]
    <2>1. 1 + i \in 1 .. 1 + n /\ 1 + i = i + 1
      BY <1>3
    <2> QED BY <1>3, <1>4, <2>1
  <1> QED BY <1>2, <1>4, <1>5, <1>6, <1>7 DEF IsLine, n, e

-----------------------------------------------------------------------------
(* What stands in a body once all lines were appended, told of some of the
   tokens: all of the lines, or a beginning of them and the marker. *)
IsBodyOf(body, all, max, X) ==
    /\ body \in Seq(X) /\ all \in Seq(X)
    /\ \/ Len(all) <= max /\ body = all
       \/ Len(all) > max /\ body = SubSeq(all, 1, max - 3) \o Marker

(* A beginning of a text. *)
LEMMA Beginning ==
    ASSUME NEW X, NEW s \in Seq(X), NEW n \in Nat, n <= Len(s)
    PROVE  SubSeq(s, 1, n) \in Seq(X) /\ Len(SubSeq(s, 1, n)) = n
           /\ \A i \in 1 .. n : SubSeq(s, 1, n)[i] = s[i]
  OBVIOUS

LEMMA StatusBodyIs ==
    ASSUME NEW X \in SUBSET Tokens, {"truncated=", "true", "nl"} \subseteq X,
           NEW lines \in Seq(Seq(X))
    PROVE  IsBodyOf(StatusBody!append_all(lines), S!FlattenSeq(lines), kMaxBodyBytes, X)
  <1> DEFINE all == S!FlattenSeq(lines)
             body == S!append_all(lines)
  <1>1. /\ Marker \in Seq(X) /\ Marker \in Seq(Tokens) /\ Len(Marker) = 3
        /\ kMaxBodyBytes \in Nat /\ Len(Marker) <= kMaxBodyBytes
    BY MarkerIsText, MarkerTokens
  <1>2. lines \in Seq(Seq(Tokens))
    <2>1. \A t \in Seq(X) : t \in Seq(Tokens)
      BY MoreTokens
    <2> QED BY <2>1, MoreTokens
  <1>3. Len(lines) \in 0 .. Len(lines)
    OBVIOUS
  <1>4. all \in Seq(X)
    BY <1>1, <1>3, S!JoinGrows
  <1>5. PICK cut \in BOOLEAN : S!IsFaithful(body, cut, all)
    BY <1>1, <1>2, S!AllIsFaithful
  <1>6. StatusBody!append_all(lines) = body
    BY DEF StatusBody!append_all, S!append_all, StatusBody!append_bounded,
           S!append_bounded, StatusBody!Fits, S!Fits, StatusBody!Remaining, S!Remaining
  <1> SUFFICES IsBodyOf(body, all, kMaxBodyBytes, X)
    BY <1>6
  <1> HIDE DEF all, body
  <1>7. CASE cut
    <2>1. Len(all) > kMaxBodyBytes /\ body = SubSeq(all, 1, kMaxBodyBytes - 3) \o Marker
      BY <1>1, <1>5, <1>7 DEF S!IsFaithful
    <2> DEFINE n == kMaxBodyBytes - 3
    <2>2. n \in Nat /\ n <= Len(all)
      BY <1>1, <1>4, <2>1
    <2>3. SubSeq(all, 1, n) \in Seq(X)
      <3> HIDE DEF n
      <3> QED BY <1>4, <2>2, Beginning
    <2>4. body \in Seq(X)
      BY <1>1, <2>1, <2>3
    <2> QED BY <1>4, <2>1, <2>4 DEF IsBodyOf
  <1>8. CASE ~cut
    <2>1. body = all /\ Len(all) <= kMaxBodyBytes
      BY <1>5, <1>8 DEF S!IsFaithful
    <2> QED BY <1>4, <2>1 DEF IsBodyOf
  <1> QED BY <1>7, <1>8

LEMMA DiagnosisBodyIs ==
    ASSUME NEW X \in SUBSET Tokens, {"truncated=", "true", "nl"} \subseteq X,
           NEW lines \in Seq(Seq(X))
    PROVE  IsBodyOf(DiagnosisBody!append_all(lines), D!FlattenSeq(lines),
                    kMaxDiagnosisBodyBytes, X)
  <1> DEFINE all == D!FlattenSeq(lines)
             body == D!append_all(lines)
  <1>1. /\ Marker \in Seq(X) /\ Marker \in Seq(Tokens) /\ Len(Marker) = 3
        /\ kMaxDiagnosisBodyBytes \in Nat /\ Len(Marker) <= kMaxDiagnosisBodyBytes
    BY MarkerIsText, MarkerTokens
  <1>2. lines \in Seq(Seq(Tokens))
    <2>1. \A t \in Seq(X) : t \in Seq(Tokens)
      BY MoreTokens
    <2> QED BY <2>1, MoreTokens
  <1>3. Len(lines) \in 0 .. Len(lines)
    OBVIOUS
  <1>4. all \in Seq(X)
    BY <1>1, <1>3, D!JoinGrows
  <1>5. PICK cut \in BOOLEAN : D!IsFaithful(body, cut, all)
    BY <1>1, <1>2, D!AllIsFaithful
  <1>6. DiagnosisBody!append_all(lines) = body
    BY DEF DiagnosisBody!append_all, D!append_all, DiagnosisBody!append_bounded,
           D!append_bounded, DiagnosisBody!Fits, D!Fits, DiagnosisBody!Remaining, D!Remaining
  <1> SUFFICES IsBodyOf(body, all, kMaxDiagnosisBodyBytes, X)
    BY <1>6
  <1> HIDE DEF all, body
  <1>7. CASE cut
    <2>1. /\ Len(all) > kMaxDiagnosisBodyBytes
          /\ body = SubSeq(all, 1, kMaxDiagnosisBodyBytes - 3) \o Marker
      BY <1>1, <1>5, <1>7 DEF D!IsFaithful
    <2> DEFINE n == kMaxDiagnosisBodyBytes - 3
    <2>2. n \in Nat /\ n <= Len(all)
      BY <1>1, <1>4, <2>1
    <2>3. SubSeq(all, 1, n) \in Seq(X)
      <3> HIDE DEF n
      <3> QED BY <1>4, <2>2, Beginning
    <2>4. body \in Seq(X)
      BY <1>1, <2>1, <2>3
    <2> QED BY <1>4, <2>1, <2>4 DEF IsBodyOf
  <1>8. CASE ~cut
    <2>1. body = all /\ Len(all) <= kMaxDiagnosisBodyBytes
      BY <1>5, <1>8 DEF D!IsFaithful
    <2> QED BY <1>4, <2>1 DEF IsBodyOf
  <1> QED BY <1>7, <1>8

-----------------------------------------------------------------------------
(* The least of some places. *)
LEMMA FirstOf ==
    ASSUME NEW T \in SUBSET Nat, T # {}
    PROVE  Min(T) \in T /\ \A k \in T : Min(T) <= k
  <1>1. /\ Marker \in Seq(Tokens)
        /\ kMaxBodyBytes \in Nat /\ Len(Marker) <= kMaxBodyBytes
    BY MarkerIsText, MarkerTokens
  <1>2. \E m \in T : \A k \in T : m <= k
    BY <1>1, S!LeastNumber
  <1> QED BY <1>2 DEF Min

(* A line ends behind its beginning, and within the text or right behind it. *)
LEMMA LineEnds ==
    ASSUME NEW X, NEW body \in Seq(X), NEW i \in 1 .. Len(body)
    PROVE  /\ LineEnd(body, i) \in Nat /\ i <= LineEnd(body, i)
           /\ LineEnd(body, i) <= Len(body) + 1
           /\ \A j \in i .. Len(body) : body[j] = "nl" => LineEnd(body, i) <= j
           /\ LineEnd(body, i) <= Len(body) => body[LineEnd(body, i)] = "nl"
  <1> DEFINE T == {j \in i .. Len(body) : body[j] = "nl"} \cup {Len(body) + 1}
  <1>1. Len(body) \in Nat /\ T \in SUBSET Nat /\ T # {} /\ Len(body) + 1 \in T
    OBVIOUS
  <1>2. LineEnd(body, i) = Min(T)
    BY DEF LineEnd
  <1>3. \A k \in T : i <= k /\ k <= Len(body) + 1 /\ (k <= Len(body) => body[k] = "nl")
    BY <1>1
  <1>4. \A j \in i .. Len(body) : body[j] = "nl" => j \in T
    OBVIOUS
  <1> HIDE DEF T
  <1>5. Min(T) \in T /\ \A k \in T : Min(T) <= k
    BY <1>1, FirstOf
  <1> QED BY <1>1, <1>2, <1>3, <1>4, <1>5

(* Part of a text. *)
LEMMA PartOf ==
    ASSUME NEW X, NEW s \in Seq(X), NEW m \in Nat \ {0}, NEW n \in Nat, n <= Len(s)
    PROVE  SubSeq(s, m, n) \in Seq(X)
  OBVIOUS

(* A value is part of the text. *)
LEMMA ValueIsPart ==
    ASSUME NEW X, NEW body \in Seq(X), NEW key
    PROVE  ValueOf(body, key) \in Seq(X)
  <1> DEFINE at == {i \in LineStarts(body) : body[i] = key}
             m == Min(at)
             e == LineEnd(body, m)
  <1>1. CASE at = {}
    BY <1>1 DEF ValueOf
  <1>2. CASE at # {}
    <2>1. at \in SUBSET Nat /\ \A i \in at : i \in 1 .. Len(body)
      BY DEF LineStarts
    <2>2. m \in at
      <3> HIDE DEF at
      <3> QED BY <1>2, <2>1, FirstOf
    <2>3. m \in 1 .. Len(body)
      BY <2>1, <2>2
    <2>4. ValueOf(body, key) = SubSeq(body, m + 1, e - 1)
      BY <1>2 DEF ValueOf
    <2> HIDE DEF m
    <2>5. e \in Nat /\ m <= e /\ e <= Len(body) + 1
      BY <2>3, LineEnds
    <2> HIDE DEF e
    <2>6. m + 1 \in Nat \ {0} /\ e - 1 \in Nat /\ e - 1 <= Len(body)
      BY <2>3, <2>5
    <2> DEFINE a == m + 1
               b == e - 1
    <2> HIDE DEF a, b
    <2>7. SubSeq(body, a, b) \in Seq(X)
      BY <2>6, PartOf DEF a, b
    <2> QED BY <2>4, <2>7 DEF a, b
  <1> QED BY <1>1, <1>2

(* A text without a key has no value for it. *)
LEMMA NoKeyNoValue ==
    ASSUME NEW X, NEW body \in Seq(X), NEW key, key \notin X
    PROVE  ValueOf(body, key) = <<>>
  <1>1. \A i \in 1 .. Len(body) : body[i] # key
    OBVIOUS
  <1> QED BY <1>1 DEF ValueOf, LineStarts

(* A line behind the first p tokens of a text gives a key a value of one token,
   and no line before it has that key. *)
Says(body, p, key, v) ==
    /\ p \in Nat /\ p + 3 <= Len(body)
    /\ p = 0 \/ body[p] = "nl"
    /\ \A i \in 1 .. p : body[i] # key
    /\ body[p + 1] = key /\ body[p + 2] = v /\ body[p + 3] = "nl"

LEMMA SaidIsRead ==
    ASSUME NEW X, NEW body \in Seq(X), NEW p, NEW key, NEW v,
           Says(body, p, key, v), key # "nl", v # "nl"
    PROVE  ValueOf(body, key) = <<v>>
  <1> DEFINE at == {i \in LineStarts(body) : body[i] = key}
             m == Min(at)
             e == LineEnd(body, m)
  <1>0. Len(body) \in Nat /\ p \in Nat /\ p + 3 <= Len(body)
    BY DEF Says
  <1>1. at \in SUBSET Nat /\ p + 1 \in at /\ \A i \in at : p + 1 <= i
    <2>1. \A i \in at : i \in 1 .. Len(body) /\ body[i] = key
      BY DEF LineStarts
    <2>2. \A i \in at : ~(i \in 1 .. p)
      BY <2>1 DEF Says
    <2>3. p + 1 \in 1 .. Len(body) /\ (p + 1 = 1 \/ body[p + 1 - 1] = "nl")
      BY <1>0 DEF Says
    <2>4. p + 1 \in at
      BY <2>3 DEF LineStarts, Says
    <2> HIDE DEF at
    <2> QED BY <1>0, <2>1, <2>2, <2>4
  <1>2. ValueOf(body, key) = SubSeq(body, m + 1, e - 1)
    BY <1>1 DEF ValueOf
  <1> HIDE DEF at
  <1>3. m = p + 1
    <2>1. m \in at /\ \A k \in at : m <= k
      BY <1>1, FirstOf
    <2> HIDE DEF m
    <2> QED BY <1>0, <1>1, <2>1
  <1> HIDE DEF m
  <1>4. e = p + 3
    <2>1. m \in 1 .. Len(body) /\ p + 3 \in m .. Len(body) /\ body[p + 3] = "nl"
      BY <1>0, <1>3 DEF Says
    <2>2. /\ e \in Nat /\ m <= e /\ e <= p + 3
          /\ e <= Len(body) => body[e] = "nl"
      BY <2>1, LineEnds
    <2> HIDE DEF e
    <2>3. e <= Len(body) /\ body[e] = "nl" /\ body[p + 1] # "nl" /\ body[p + 2] # "nl"
      BY <1>0, <2>2 DEF Says
    <2>4. e # p + 1 /\ e # p + 2
      BY <2>3
    <2> QED BY <1>0, <1>3, <2>2, <2>4
  <1> HIDE DEF e
  <1> DEFINE q == p + 2
  <1>5. m + 1 = q /\ e - 1 = q /\ q \in 1 .. Len(body) /\ body[q] = v
    BY <1>0, <1>3, <1>4 DEF Says
  <1> HIDE DEF q
  <1>6. SubSeq(body, q, q) = <<body[q]>>
    <2> DEFINE t == SubSeq(body, q, q)
               u == <<body[q]>>
    <2>1. q \in Nat /\ t \in Seq(X) /\ Len(t) = 1 /\ t[1] = body[q]
      BY <1>5
    <2>2. body[q] \in X
      BY <1>5
    <2>3. u \in Seq(X) /\ Len(u) = 1 /\ u[1] = body[q]
      BY <2>2
    <2> HIDE DEF t, u
    <2>4. t = u
      BY <2>1, <2>3
    <2> QED BY <2>4 DEF t, u
  <1> QED BY <1>2, <1>5, <1>6

(* A line behind a text that ends a line says what it says, and goes on saying
   so whatever follows. *)
LEMMA LineSays ==
    ASSUME NEW X, NEW a \in Seq(X), NEW key, NEW v \in X, "nl" \in X, key \in X,
           a = <<>> \/ a[Len(a)] = "nl", \A i \in 1 .. Len(a) : a[i] # key
    PROVE  Says(a \o Line(key, <<v>>), Len(a), key, v)
  <1> DEFINE value == <<v>>
             l == Line(key, value)
             c == a \o l
             n == Len(a)
  <1>1. value \in Seq(X) /\ Len(value) = 1 /\ value[1] = v
    OBVIOUS
  <1> HIDE DEF value
  <1>2. /\ l \in Seq(X) /\ Len(l) = 3 /\ l[1] = key /\ l[2] = v /\ l[3] = "nl"
    <2>1. IsLine(l, key, value, X)
      BY <1>1, LineIsText
    <2> HIDE DEF l
    <2>2. l[1 + 1] = value[1]
      BY <1>1, <2>1 DEF IsLine
    <2> QED BY <1>1, <2>1, <2>2 DEF IsLine
  <1> HIDE DEF l
  <1>3. Follows(a, l, c, X)
    BY <1>2, TwoTexts
  <1> HIDE DEF c
  <1>4. /\ n \in Nat /\ Len(c) = n + 3 /\ \A i \in 1 .. n : c[i] = a[i]
        /\ c[n + 1] = key /\ c[n + 2] = v /\ c[n + 3] = "nl"
    BY <1>2, <1>3 DEF Follows
  <1>5. n = 0 \/ c[n] = "nl"
    BY <1>4
  <1>6. \A i \in 1 .. n : c[i] # key
    BY <1>4
  <1>7. Says(c, n, key, v)
    BY <1>4, <1>5, <1>6 DEF Says
  <1> QED BY <1>7 DEF c, l, value

LEMMA SaysStill ==
    ASSUME NEW X, NEW a \in Seq(X), NEW b \in Seq(X), NEW p, NEW key, NEW v,
           Says(a, p, key, v)
    PROVE  Says(a \o b, p, key, v)
  <1> DEFINE c == a \o b
  <1>1. Follows(a, b, c, X)
    BY TwoTexts
  <1> HIDE DEF c
  <1>2. /\ p \in Nat /\ p + 3 <= Len(a) /\ Len(a) <= Len(c) /\ Len(a) \in Nat /\ Len(c) \in Nat
        /\ \A i \in 1 .. Len(a) : c[i] = a[i]
    BY <1>1 DEF Follows, Says
  <1>3. c[p + 1] = a[p + 1] /\ c[p + 2] = a[p + 2] /\ c[p + 3] = a[p + 3]
    BY <1>2
  <1>4. \A i \in 1 .. p : c[i] = a[i] /\ a[i] # key
    BY <1>2 DEF Says
  <1>5. p = 0 \/ c[p] = "nl"
    <2>1. p # 0 => p \in 1 .. p
      BY <1>2
    <2> QED BY <1>4, <2>1 DEF Says
  <1>6. c[p + 1] = key /\ c[p + 2] = v /\ c[p + 3] = "nl"
    BY <1>3 DEF Says
  <1>7. Says(c, p, key, v)
    BY <1>2, <1>4, <1>5, <1>6 DEF Says
  <1> QED BY <1>7 DEF c

(* The first n tokens of a text and the marker. *)
IsCut(body, all, n, X) ==
    /\ body \in Seq(X) /\ Len(body) = n + 3 /\ \A i \in 1 .. n : body[i] = all[i]
    /\ body[n + 1] = "truncated=" /\ body[n + 2] = "true" /\ body[n + 3] = "nl"

LEMMA CutText ==
    ASSUME NEW X, NEW all \in Seq(X), NEW n \in Nat, n <= Len(all),
           {"truncated=", "true", "nl"} \subseteq X
    PROVE  IsCut(SubSeq(all, 1, n) \o Marker, all, n, X)
  <1> DEFINE s == SubSeq(all, 1, n)
             body == s \o Marker
  <1>1. /\ Marker \in Seq(X) /\ Len(Marker) = 3
        /\ Marker[1] = "truncated=" /\ Marker[2] = "true" /\ Marker[3] = "nl"
    BY MarkerIsText DEF Marker
  <1>2. s \in Seq(X) /\ Len(s) = n /\ \A i \in 1 .. n : s[i] = all[i]
    BY Beginning
  <1> HIDE DEF s
  <1>3. Follows(s, Marker, body, X)
    BY <1>1, <1>2, TwoTexts
  <1> HIDE DEF body
  <1>4. IsCut(body, all, n, X)
    BY <1>1, <1>2, <1>3 DEF Follows, IsCut
  <1> QED BY <1>4 DEF body, s

(* What a cut leaves of a line: nothing, a value that runs into the marker, or
   all of it. *)
LEMMA CutValue ==
    ASSUME NEW X, NEW all \in Seq(X), NEW n \in Nat, n <= Len(all), NEW p, NEW key, NEW v,
           Says(all, p, key, v), key # "truncated=", key # "true", key # "nl", v # "nl",
           NEW body, IsCut(body, all, n, X)
    PROVE  /\ n <= p => ValueOf(body, key) = <<>>
           /\ p < n /\ n < p + 3 => Len(ValueOf(body, key)) >= 2
           /\ p + 3 <= n => ValueOf(body, key) = <<v>>
  <1> DEFINE at == {i \in LineStarts(body) : body[i] = key}
             m == Min(at)
             e == LineEnd(body, m)
  <1>1. /\ body \in Seq(X) /\ Len(body) = n + 3 /\ \A i \in 1 .. n : body[i] = all[i]
        /\ body[n + 1] = "truncated=" /\ body[n + 2] = "true" /\ body[n + 3] = "nl"
    BY DEF IsCut
  <1>2. p \in Nat /\ p + 3 <= Len(all) /\ Len(all) \in Nat
    BY DEF Says
  <1>3. \A i \in 1 .. n + 3 : i \in 1 .. n \/ i = n + 1 \/ i = n + 2 \/ i = n + 3
    OBVIOUS
  <1>4. ASSUME n <= p PROVE ValueOf(body, key) = <<>>
    <2>1. \A i \in 1 .. n : all[i] # key
      BY <1>2, <1>4 DEF Says
    <2>2. \A i \in 1 .. n + 3 : body[i] # key
      BY <1>1, <1>3, <2>1
    <2> QED BY <1>1, <2>2 DEF ValueOf, LineStarts
  <1>5. ASSUME p < n, n < p + 3 PROVE Len(ValueOf(body, key)) >= 2
    <2>1. at \in SUBSET Nat /\ p + 1 \in at /\ \A i \in at : p + 1 <= i
      <3>1. \A i \in at : i \in 1 .. n + 3 /\ body[i] = key
        BY <1>1 DEF LineStarts
      <3>2. \A i \in 1 .. p : body[i] # key
        BY <1>1, <1>2, <1>5 DEF Says
      <3>3. p + 1 \in 1 .. n /\ body[p + 1] = all[p + 1] /\ all[p + 1] = key
        BY <1>1, <1>2, <1>5 DEF Says
      <3>4. p + 1 = 1 \/ body[(p + 1) - 1] = "nl"
        <4>1. CASE p = 0
          BY <4>1
        <4>2. CASE p # 0
          <5>1. p \in 1 .. n /\ (p + 1) - 1 = p
            BY <1>2, <1>5, <4>2
          <5> QED BY <1>1, <4>2, <5>1 DEF Says
        <4> QED BY <4>1, <4>2
      <3>5. p + 1 \in 1 .. Len(body) /\ body[p + 1] = key
        BY <1>1, <1>2, <1>5, <3>3
      <3>6. p + 1 \in at
        BY <3>4, <3>5 DEF LineStarts
      <3>7. \A i \in at : i \in 1 .. n + 3 /\ ~(i \in 1 .. p)
        BY <3>1, <3>2
      <3> HIDE DEF at
      <3>8. \A i \in at : i \in Nat /\ p + 1 <= i
        BY <1>2, <3>7
      <3> QED BY <3>6, <3>8
    <2>2. ValueOf(body, key) = SubSeq(body, m + 1, e - 1)
      BY <2>1 DEF ValueOf
    <2> HIDE DEF at
    <2>3. m = p + 1
      <3>1. m \in at /\ \A k \in at : m <= k
        BY <2>1, FirstOf
      <3> HIDE DEF m
      <3> QED BY <1>2, <2>1, <3>1
    <2> HIDE DEF m
    <2>4. e = n + 3
      <3>1. m \in 1 .. Len(body) /\ n + 3 \in m .. Len(body)
        BY <1>1, <1>2, <1>5, <2>3
      <3>2. /\ e \in Nat /\ m <= e /\ e <= n + 3
            /\ e <= Len(body) => body[e] = "nl"
        BY <1>1, <3>1, LineEnds
      <3> HIDE DEF e
      <3>3. body[p + 1] # "nl" /\ (p + 2 <= n => body[p + 2] # "nl")
        BY <1>1, <1>2, <1>5 DEF Says
      <3>4. e \in {p + 1, p + 2, n + 1, n + 2, n + 3}
        BY <1>2, <1>5, <2>3, <3>2
      <3>5. body[e] = "nl"
        BY <1>1, <3>2
      <3>6. e # n + 1 /\ e # n + 2 /\ e # p + 1
        BY <1>1, <3>3, <3>5
      <3>7. p + 2 <= n \/ p + 2 = n + 1
        BY <1>2, <1>5
      <3>8. e # p + 2
        BY <3>3, <3>5, <3>6, <3>7
      <3> QED BY <3>4, <3>6, <3>8
    <2> HIDE DEF e
    <2> DEFINE a == p + 2
               b == n + 2
    <2>5. /\ a \in Nat \ {0} /\ b \in Nat /\ a <= b /\ b <= Len(body) /\ b - a + 1 >= 2
          /\ m + 1 = a /\ e - 1 = b
      BY <1>1, <1>2, <1>5, <2>3, <2>4
    <2> HIDE DEF a, b
    <2>6. Len(SubSeq(body, a, b)) = b - a + 1
      BY <1>1, <2>5
    <2> QED BY <2>2, <2>5, <2>6
  <1>6. ASSUME p + 3 <= n PROVE ValueOf(body, key) = <<v>>
    <2>1. p + 1 \in 1 .. n /\ p + 2 \in 1 .. n /\ p + 3 \in 1 .. n /\ \A i \in 1 .. p : i \in 1 .. n
      BY <1>2, <1>6
    <2>2. body[p + 1] = key /\ body[p + 2] = v /\ body[p + 3] = "nl"
      BY <1>1, <2>1 DEF Says
    <2>3. \A i \in 1 .. p : body[i] # key
      BY <1>1, <2>1 DEF Says
    <2>4. p = 0 \/ body[p] = "nl"
      <3>1. p # 0 => p \in 1 .. n
        BY <1>2, <1>6
      <3> QED BY <1>1, <3>1 DEF Says
    <2>5. p + 3 <= Len(body)
      BY <1>1, <1>2, <1>6
    <2>6. Says(body, p, key, v)
      BY <1>2, <2>2, <2>3, <2>4, <2>5 DEF Says
    <2>7. key # "nl" /\ body \in Seq(X)
      BY <1>1
    <2> QED BY <2>6, <2>7, SaidIsRead
  <1> QED BY <1>4, <1>5, <1>6

-----------------------------------------------------------------------------
(* What ends with the marker is told to. *)
LEMMA CutIsSeen ==
    ASSUME NEW X, NEW s \in Seq(X), Marker \in Seq(X)
    PROVE  IsSuffix(Marker, s \o Marker)
  <1> DEFINE c == s \o Marker
             a == Reverse(Marker)
             b == Reverse(c)
             n == Len(Marker)
  <1>1. Follows(s, Marker, c, X)
    BY TwoTexts
  <1> HIDE DEF c
  <1>2. n \in Nat /\ Len(c) \in Nat /\ n <= Len(c) /\ Len(c) = Len(s) + n /\ Len(s) \in Nat
        /\ \A i \in 1 .. n : c[Len(s) + i] = Marker[i]
    BY <1>1 DEF Follows
  <1>3. /\ a \in Seq(X) /\ Len(a) = n /\ \A i \in 1 .. n : a[i] = Marker[n - i + 1]
    BY <1>2 DEF Reverse
  <1>4. /\ b \in Seq(X) /\ Len(b) = Len(c) /\ \A i \in 1 .. Len(c) : b[i] = c[Len(c) - i + 1]
    BY <1>1, <1>2 DEF Reverse, Follows
  <1> HIDE DEF a, b
  <1>5. ASSUME NEW i \in 1 .. n PROVE a[i] = b[i]
    <2>1. i \in 1 .. Len(c) /\ n - i + 1 \in 1 .. n /\ Len(s) + (n - i + 1) = Len(c) - i + 1
      BY <1>2
    <2>2. c[Len(s) + (n - i + 1)] = Marker[n - i + 1]
      BY <1>2, <2>1
    <2> QED BY <1>3, <1>4, <2>1, <2>2
  <1> DEFINE x == SubSeq(a, 1, n)
             y == SubSeq(b, 1, n)
  <1> HIDE DEF n
  <1>6. x \in Seq(X) /\ Len(x) = n /\ \A i \in 1 .. n : x[i] = a[i]
    BY <1>2, <1>3, Beginning
  <1>7. y \in Seq(X) /\ Len(y) = n /\ \A i \in 1 .. n : y[i] = b[i]
    BY <1>2, <1>4, Beginning
  <1> HIDE DEF x, y
  <1>8. x = y
    BY <1>5, <1>6, <1>7
  <1> QED BY <1>2, <1>3, <1>4, <1>8 DEF IsSuffix, IsPrefix, a, b, c, x, y

(* What a read of the unit can give. *)
ActiveStates == {"active", "failed", "inactive", "activating", "unavailable", "absent"}
Results == {"success", "exit-code", "unavailable", "absent"}
Reads == [active_state : ActiveStates, service_result : Results]

Ahead == {"unit=", "description=", "word", "nl"}
Plain(r) == Ahead \cup {"active_state=", r.active_state}
StatusTokens(r) ==
    Plain(r) \cup {"service_result=", "exec_main=", "truncated=", "true", r.service_result}

(* What a reader of the text finds when so much is left of a value. *)
IsLeft(value, left) ==
    /\ left = "none" => value = <<>>
    /\ left = "cut" => Len(value) >= 2
    /\ left \notin {"none", "cut"} => value = <<left>>

(* The text of the status tells of what was read; the state and the result can
   be taken from it again as far as the cut has left them. *)
LEMMA StatusTextIs ==
    ASSUME NEW r \in Reads, is_service \in BOOLEAN, name \in Seq({"word"}),
           description \in Seq({"word"}), NEW body, body = format_systemd_unit_status_body(r)
    PROVE  /\ body \in Seq(StatusTokens(r))
           /\ Kept # AllOfIt => IsSuffix(Marker, body)
           /\ IsLeft(ValueOf(body, "active_state="), Left(StateAt, r.active_state))
           /\ is_service =>
                IsLeft(ValueOf(body, "service_result="), Left(StateAt + 3, r.service_result))
           /\ ~is_service => ValueOf(body, "service_result=") = <<>>
  <1> DEFINE X == StatusTokens(r)
             st == <<r.active_state>>
             re == <<r.service_result>>
             wo == <<"word">>
             la == Line("unit=", name)
             lb == Line("description=", description)
             lc == Line("active_state=", st)
             ld == Line("service_result=", re)
             le == Line("exec_main=", wo)
             front == <<la, lb, lc>>
             more == IF is_service THEN <<ld, le>> ELSE <<>>
             lines == front \o more
             all == S!FlattenSeq(lines)
             J(k) == S!JoinOf(lines, k)
  <1>1. /\ X \in SUBSET Tokens /\ {"truncated=", "true", "nl"} \subseteq X
        /\ Ahead \subseteq Plain(r) /\ Plain(r) \subseteq X /\ "nl" \in Ahead /\ "word" \in X
        /\ {"unit=", "description="} \subseteq Ahead
        /\ "active_state=" \in Plain(r) /\ r.active_state \in Plain(r)
        /\ {"service_result=", "exec_main=", r.service_result} \subseteq X
    BY DEF StatusTokens, Plain, Ahead, Tokens, Reads, ActiveStates, Results
  <1>2. /\ "active_state=" \notin Ahead /\ "service_result=" \notin Plain(r)
        /\ r.active_state # "nl" /\ r.service_result # "nl"
    BY DEF Plain, Ahead, Reads, ActiveStates, Results
  <1>3. /\ Marker \in Seq(X) /\ Marker \in Seq(Tokens) /\ Len(Marker) = 3
        /\ kMaxBodyBytes \in Nat /\ Len(Marker) <= kMaxBodyBytes
    BY <1>1, MarkerIsText, MarkerTokens
  <1>4. /\ name \in Seq(Ahead) /\ description \in Seq(Ahead)
        /\ st \in Seq(Plain(r)) /\ re \in Seq(X) /\ wo \in Seq(X)
    <2>1. {"word"} \subseteq Ahead
      BY DEF Ahead
    <2>2. name \in Seq(Ahead) /\ description \in Seq(Ahead)
      BY <2>1, MoreTokens
    <2> QED BY <1>1, <2>2, ShortTexts
  <1> HIDE DEF st, re, wo
  <1>5. /\ IsLine(la, "unit=", name, Ahead) /\ IsLine(lb, "description=", description, Ahead)
        /\ IsLine(lc, "active_state=", st, Plain(r))
        /\ IsLine(ld, "service_result=", re, X) /\ IsLine(le, "exec_main=", wo, X)
    BY <1>1, <1>4, LineIsText
  <1>6. /\ la \in Seq(Ahead) /\ lb \in Seq(Ahead) /\ lc \in Seq(Plain(r))
        /\ ld \in Seq(X) /\ le \in Seq(X)
        /\ Len(lb) > 0 /\ lb[Len(lb)] = "nl" /\ Len(lc) > 0 /\ lc[Len(lc)] = "nl"
    <2> HIDE DEF la, lb, lc, ld, le
    <2>1. Len(description) \in Nat /\ Len(st) \in Nat
      BY <1>4
    <2> QED BY <1>5, <2>1 DEF IsLine
  <1>7. /\ body = StatusBody!append_all(lines)
    BY DEF format_systemd_unit_status_body, st, re, wo
  <1> HIDE DEF la, lb, lc, ld, le
  <1>8. /\ la \in Seq(Plain(r)) /\ lb \in Seq(Plain(r))
        /\ la \in Seq(X) /\ lb \in Seq(X) /\ lc \in Seq(X)
    BY <1>1, <1>6, MoreTokens
  <1>9. /\ lines \in Seq(Seq(X)) /\ Len(lines) = IF is_service THEN 5 ELSE 3
        /\ lines[1] = la /\ lines[2] = lb /\ lines[3] = lc
        /\ is_service => lines[4] = ld /\ lines[5] = le
    <2> DEFINE Y == Seq(X)
    <2> HIDE DEF Y, X
    <2>1. la \in Y /\ lb \in Y /\ lc \in Y /\ ld \in Y /\ le \in Y
      BY <1>6, <1>8 DEF Y
    <2>2. CASE is_service
      <3>1. more = <<ld, le>>
        BY <2>2
      <3>2. more \in Seq(Y) /\ Len(more) = 2 /\ more[1] = ld /\ more[2] = le
        BY <2>1, <3>1
      <3>3. front \in Seq(Y) /\ Len(front) = 3 /\ front[1] = la /\ front[2] = lb /\ front[3] = lc
        BY <2>1
      <3>4. Follows(front, more, lines, Y)
        BY <3>2, <3>3, TwoTexts
      <3> HIDE DEF front, more, lines
      <3>5. /\ lines \in Seq(Y) /\ Len(lines) = 5
            /\ \A i \in 1 .. 3 : lines[i] = front[i]
            /\ \A i \in 1 .. 2 : lines[3 + i] = more[i]
        BY <3>2, <3>3, <3>4 DEF Follows
      <3>6. lines[1] = la /\ lines[2] = lb /\ lines[3] = lc
        BY <3>3, <3>5
      <3>7. lines[3 + 1] = ld /\ lines[3 + 2] = le
        BY <3>2, <3>5
      <3> QED BY <2>2, <3>5, <3>6, <3>7 DEF Y
    <2>3. CASE ~is_service
      <3>1. lines = <<la, lb, lc>>
        BY <2>3
      <3> HIDE DEF lines
      <3> QED BY <2>1, <2>3, <3>1 DEF Y
    <2> QED BY <2>2, <2>3
  <1> HIDE DEF lines
  <1>10. IsBodyOf(body, all, kMaxBodyBytes, X)
    <2> HIDE DEF X
    <2> QED BY <1>1, <1>7, <1>9, StatusBodyIs
  <1>11. /\ StateAt \in Nat /\ Len(la) = Len(name) + 2 /\ Len(lb) = Len(description) + 2
         /\ Len(lc) = 3 /\ Len(ld) = 3 /\ Len(le) = 3
         /\ Len(name) \in Nat /\ Len(description) \in Nat
    <2>1. Len(st) = 1 /\ Len(re) = 1 /\ Len(wo) = 1
      BY DEF st, re, wo
    <2>2. Len(name) \in Nat /\ Len(description) \in Nat
      BY <1>4
    <2> HIDE DEF X
    <2>3. Len(lc) = 3 /\ Len(ld) = 3 /\ Len(le) = 3
      BY <1>5, <2>1 DEF IsLine
    <2>4. Len(la) = Len(name) + 2 /\ Len(lb) = Len(description) + 2
      BY <1>5 DEF IsLine
    <2>5. StateAt \in Nat
      BY <2>2 DEF StateAt
    <2> QED BY <2>2, <2>3, <2>4, <2>5
  <1> HIDE DEF X
  <1>12. Len(lines) \in Nat /\ Len(lines) >= 3
    BY <1>9
  <1>13. J(2) \in Seq(Ahead) /\ J(3) \in Seq(Plain(r))
    <2>1. \A i \in 1 .. 2 : lines[i] \in Seq(Ahead)
      BY <1>6, <1>9
    <2>2. \A i \in 1 .. 3 : lines[i] \in Seq(Plain(r))
      <3>1. \A i \in 1 .. 3 : i = 1 \/ i = 2 \/ i = 3
        OBVIOUS
      <3> QED BY <1>6, <1>8, <1>9, <3>1
    <2>3. 2 \in 0 .. Len(lines) /\ 3 \in 0 .. Len(lines)
      BY <1>12
    <2> QED BY <1>3, <1>9, <2>1, <2>2, <2>3, S!JoinOfFirst
  <1>14. J(2)[Len(J(2))] = "nl" /\ J(3)[Len(J(3))] = "nl"
    <2>1. 2 \in 1 .. Len(lines) /\ 3 \in 1 .. Len(lines)
      BY <1>12
    <2>2. Len(lines[2]) > 0 /\ lines[2][Len(lines[2])] = "nl"
      BY <1>6, <1>9
    <2>3. Len(lines[3]) > 0 /\ lines[3][Len(lines[3])] = "nl"
      BY <1>6, <1>9
    <2>4. J(2)[Len(J(2))] = "nl"
      BY <1>3, <1>9, <2>1, <2>2, S!JoinEnds
    <2>5. J(3)[Len(J(3))] = "nl"
      BY <1>3, <1>9, <2>1, <2>3, S!JoinEnds
    <2> QED BY <2>4, <2>5
  <1>15. J(3) = J(2) \o lc
    <2>1. 2 \in 0 .. Len(lines) /\ 2 < Len(lines) /\ 2 + 1 = 3
      BY <1>12
    <2>2. J(2 + 1) = J(2) \o lines[2 + 1]
      BY <1>3, <1>9, <2>1, S!JoinGrows
    <2> QED BY <1>9, <2>1, <2>2
  <1>16. Says(J(3), Len(J(2)), "active_state=", r.active_state)
    <2>1. J(2) \in Seq(Plain(r))
      BY <1>1, <1>13, MoreTokens
    <2>2. \A i \in 1 .. Len(J(2)) : J(2)[i] # "active_state="
      BY <1>2, <1>13
    <2> DEFINE a == J(2)
               key == "active_state="
               v == r.active_state
    <2>3. /\ a \in Seq(Plain(r)) /\ v \in Plain(r) /\ "nl" \in Plain(r) /\ key \in Plain(r)
          /\ a[Len(a)] = "nl" /\ \A i \in 1 .. Len(a) : a[i] # key
      BY <1>1, <1>14, <2>1, <2>2
    <2>4. J(3) = a \o Line(key, <<v>>)
      BY <1>15 DEF lc, st
    <2> HIDE DEF a, key, v
    <2>5. Says(a \o Line(key, <<v>>), Len(a), key, v)
      BY <2>3, LineSays
    <2>6. Says(J(3), Len(a), key, v)
      BY <2>4, <2>5
    <2> QED BY <2>6 DEF a, key, v
  <1>17. J(3) \in Seq(X) /\ all = J(Len(lines)) /\ all \in Seq(X)
    <2>1. Len(lines) \in 0 .. Len(lines)
      BY <1>12
    <2>2. J(3) \in Seq(X)
      BY <1>1, <1>13, MoreTokens
    <2>3. all = J(Len(lines)) /\ J(Len(lines)) \in Seq(X)
      BY <1>3, <1>9, <2>1, S!JoinGrows
    <2> QED BY <2>2, <2>3
  <1>18. Len(J(2)) = StateAt /\ Len(J(3)) = StateAt + 3
    <2>1. 0 \in 0 .. Len(lines) /\ 1 \in 0 .. Len(lines) /\ 0 < Len(lines) /\ 1 < Len(lines)
      BY <1>12
    <2>2. J(0 + 1) = J(0) \o lines[0 + 1] /\ J(1 + 1) = J(1) \o lines[1 + 1]
      BY <1>3, <1>9, <2>1, S!JoinGrows
    <2>3. J(1) = J(0) \o la /\ J(2) = J(1) \o lb
      <3>1. 0 + 1 = 1 /\ 1 + 1 = 2
        OBVIOUS
      <3> QED BY <1>9, <2>2, <3>1
    <2>4. J(0) = <<>>
      BY DEF S!JoinOf
    <2>5. J(0) \in Seq(X) /\ J(1) \in Seq(X) /\ J(2) \in Seq(X)
      <3>1. 2 \in 0 .. Len(lines)
        BY <1>12
      <3> QED BY <1>3, <1>9, <2>1, <3>1, S!JoinGrows
    <2>6. Follows(J(0), la, J(1), X) /\ Follows(J(1), lb, J(2), X) /\ Follows(J(2), lc, J(3), X)
      BY <1>6, <1>8, <1>15, <2>3, <2>5, TwoTexts
    <2>7. Len(J(0)) = 0
      BY <2>4
    <2> HIDE DEF J
    <2> QED BY <1>11, <2>6, <2>7 DEF Follows, StateAt
  <1>19. ASSUME ~is_service
         PROVE  /\ Len(all) = AllOfIt /\ all \in Seq(Plain(r))
                /\ Says(all, StateAt, "active_state=", r.active_state)
    <2>1. all = J(3)
      BY <1>9, <1>17, <1>19
    <2>2. Len(all) = StateAt + 3
      BY <1>18, <2>1
    <2> HIDE DEF all
    <2>3. AllOfIt = StateAt + 3
      BY <1>11, <1>19 DEF AllOfIt
    <2> QED BY <1>13, <1>16, <1>18, <2>1, <2>2, <2>3
  <1>20. ASSUME is_service
         PROVE  /\ Len(all) = AllOfIt
                /\ Says(all, StateAt, "active_state=", r.active_state)
                /\ Says(all, StateAt + 3, "service_result=", r.service_result)
    <2>1. /\ 3 \in 0 .. Len(lines) /\ 4 \in 0 .. Len(lines)
          /\ 3 < Len(lines) /\ 4 < Len(lines) /\ Len(lines) = 5
      BY <1>9, <1>20
    <2>2. J(3 + 1) = J(3) \o lines[3 + 1] /\ J(4 + 1) = J(4) \o lines[4 + 1]
      <3>1. J(3 + 1) = J(3) \o lines[3 + 1]
        BY <1>3, <1>9, <2>1, S!JoinGrows
      <3>2. J(4 + 1) = J(4) \o lines[4 + 1]
        BY <1>3, <1>9, <2>1, S!JoinGrows
      <3> QED BY <3>1, <3>2
    <2>3. J(4) = J(3) \o ld /\ all = J(4) \o le
      <3>1. 3 + 1 = 4 /\ 4 + 1 = 5 /\ all = J(5)
        BY <1>17, <2>1
      <3>2. J(4) = J(3) \o lines[4] /\ J(5) = J(4) \o lines[5]
        BY <2>2, <3>1
      <3> QED BY <1>9, <1>20, <3>1, <3>2
    <2> DEFINE a == J(3)
               b == J(4)
    <2>4. a \in Seq(X) /\ b \in Seq(X)
      BY <1>3, <1>9, <2>1, S!JoinGrows
    <2>5. /\ a \in Seq(X) /\ r.service_result \in X /\ "nl" \in X /\ "service_result=" \in X
          /\ a[Len(a)] = "nl" /\ \A i \in 1 .. Len(a) : a[i] # "service_result="
      BY <1>1, <1>2, <1>13, <1>14, <1>17
    <2> HIDE DEF a, b, all
    <2>6. Says(b, Len(a), "service_result=", r.service_result)
      <3>1. Says(a \o Line("service_result=", <<r.service_result>>), Len(a),
                 "service_result=", r.service_result)
        BY <2>5, LineSays
      <3> QED BY <2>3, <3>1 DEF a, b, ld, re
    <2>7. Says(all, Len(a), "service_result=", r.service_result)
      <3>1. Says(b \o le, Len(a), "service_result=", r.service_result)
        BY <1>6, <2>4, <2>6, SaysStill
      <3> QED BY <2>3, <3>1 DEF b
    <2>8. Says(all, Len(J(2)), "active_state=", r.active_state)
      <3>1. Says(a \o ld, Len(J(2)), "active_state=", r.active_state)
        BY <1>6, <1>16, <2>4, SaysStill DEF a
      <3>2. Says(b \o le, Len(J(2)), "active_state=", r.active_state)
        BY <1>6, <2>3, <2>4, <3>1, SaysStill DEF a, b
      <3> QED BY <2>3, <3>2 DEF b
    <2>9. Len(a) = StateAt + 3
      BY <1>18 DEF a
    <2>10. Len(all) = AllOfIt
      <3>1. Follows(a, ld, b, X) /\ Follows(b, le, all, X)
        BY <1>6, <2>3, <2>4, TwoTexts DEF a, b
      <3>2. Len(b) = Len(a) + 3 /\ Len(all) = Len(b) + 3
        BY <1>11, <3>1 DEF Follows
      <3>3. AllOfIt = StateAt + 3 + 6
        BY <1>20 DEF AllOfIt
      <3> QED BY <1>11, <2>9, <3>2, <3>3
    <2> QED BY <1>18, <2>7, <2>8, <2>9, <2>10
  <1>21. /\ Len(all) = AllOfIt /\ AllOfIt \in Nat
         /\ Says(all, StateAt, "active_state=", r.active_state)
         /\ is_service => Says(all, StateAt + 3, "service_result=", r.service_result)
         /\ ~is_service => all \in Seq(Plain(r))
    <2> HIDE DEF all
    <2>1. Len(all) = AllOfIt
      BY <1>19, <1>20
    <2>2. Len(all) \in Nat
      BY <1>17
    <2> QED BY <1>19, <1>20, <2>1, <2>2
  <1> HIDE DEF all, J
  <1>22. /\ r.active_state \notin {"none", "cut"} /\ r.service_result \notin {"none", "cut"}
    BY DEF Reads, ActiveStates, Results
  <1>23. CASE Len(all) <= kMaxBodyBytes /\ body = all
    <2>1. Kept = AllOfIt
      BY <1>21, <1>23 DEF Kept
    <2>2. StateAt + 3 <= AllOfIt /\ (is_service => (StateAt + 3) + 3 <= AllOfIt)
      BY <1>21 DEF Says
    <2>3. /\ Left(StateAt, r.active_state) = r.active_state
          /\ is_service => Left(StateAt + 3, r.service_result) = r.service_result
      BY <2>1, <2>2 DEF Left
    <2>4. ValueOf(body, "active_state=") = <<r.active_state>>
      BY <1>2, <1>17, <1>21, <1>23, SaidIsRead
    <2>5. is_service => ValueOf(body, "service_result=") = <<r.service_result>>
      BY <1>2, <1>17, <1>21, <1>23, SaidIsRead
    <2>6. ~is_service => ValueOf(body, "service_result=") = <<>>
      BY <1>2, <1>21, <1>23, NoKeyNoValue
    <2>7. body \in Seq(StatusTokens(r))
      BY <1>17, <1>23 DEF X
    <2> QED BY <1>22, <2>1, <2>3, <2>4, <2>5, <2>6, <2>7 DEF IsLeft
  <1>24. CASE Len(all) > kMaxBodyBytes /\ body = SubSeq(all, 1, kMaxBodyBytes - 3) \o Marker
    <2> DEFINE n == kMaxBodyBytes - 3
    <2>1. n \in Nat /\ n <= Len(all) /\ all \in Seq(X)
      BY <1>3, <1>17, <1>24
    <2>2. Kept = n
      BY <1>3, <1>21, <1>24 DEF Kept
    <2>3. body = SubSeq(all, 1, n) \o Marker
      BY <1>24
    <2> HIDE DEF n
    <2>4. SubSeq(all, 1, n) \in Seq(X)
      BY <2>1, Beginning
    <2>5. IsSuffix(Marker, body)
      BY <1>3, <2>3, <2>4, CutIsSeen
    <2>6. IsCut(body, all, n, X)
      BY <1>1, <2>1, <2>3, CutText
    <2>7. /\ n <= StateAt => ValueOf(body, "active_state=") = <<>>
          /\ StateAt < n /\ n < StateAt + 3 => Len(ValueOf(body, "active_state=")) >= 2
          /\ StateAt + 3 <= n => ValueOf(body, "active_state=") = <<r.active_state>>
      BY <1>2, <1>21, <2>1, <2>6, CutValue
    <2>8. IsLeft(ValueOf(body, "active_state="), Left(StateAt, r.active_state))
      BY <1>11, <1>22, <2>1, <2>2, <2>7 DEF IsLeft, Left
    <2>9. ASSUME is_service
          PROVE  IsLeft(ValueOf(body, "service_result="), Left(StateAt + 3, r.service_result))
      <3> DEFINE p == StateAt + 3
                 value == ValueOf(body, "service_result=")
      <3>1. p \in Nat /\ Says(all, p, "service_result=", r.service_result)
        BY <1>11, <1>21, <2>9
      <3> HIDE DEF p
      <3>2. /\ n <= p => value = <<>>
            /\ p < n /\ n < p + 3 => Len(value) >= 2
            /\ p + 3 <= n => value = <<r.service_result>>
        BY <1>2, <2>1, <2>6, <3>1, CutValue
      <3> HIDE DEF value
      <3>3. IsLeft(value, Left(p, r.service_result))
        BY <1>22, <2>1, <2>2, <3>1, <3>2 DEF IsLeft, Left
      <3> QED BY <3>3 DEF p, value
    <2>10. ASSUME ~is_service PROVE ValueOf(body, "service_result=") = <<>>
      <3> DEFINE Y == Plain(r) \cup {"truncated=", "true", "nl"}
      <3>1. "service_result=" \notin Y
        BY <1>2
      <3>2. all \in Seq(Y)
        <4>1. Plain(r) \subseteq Y
          OBVIOUS
        <4> HIDE DEF Y
        <4> QED BY <1>21, <2>10, <4>1, MoreTokens
      <3>3. {"truncated=", "true", "nl"} \subseteq Y
        OBVIOUS
      <3> HIDE DEF Y
      <3>4. IsCut(body, all, n, Y)
        BY <2>1, <2>3, <3>2, <3>3, CutText
      <3>5. body \in Seq(Y)
        BY <3>4 DEF IsCut
      <3> QED BY <3>1, <3>5, NoKeyNoValue
    <2>11. body \in Seq(StatusTokens(r))
      BY <2>6 DEF IsCut, X
    <2> QED BY <2>5, <2>8, <2>9, <2>10, <2>11
  <1> QED BY <1>10, <1>23, <1>24 DEF IsBodyOf

(* The diagnosis is one of the tokens. *)
LEMMA DiagnosisIsToken ==
    ASSUME NEW body, NEW status_ok, NEW journal_ok
    PROVE  /\ Diagnosis(body, status_ok, journal_ok) \in Tokens
           /\ Diagnosis(body, status_ok, journal_ok) # "nl"
  BY DEF Diagnosis, Tokens

Undiagnosed == Tokens \ {"diagnosis="}

(* The line of the diagnosis is the last of its text and no longer than the
   marker: it is told as it is, or not at all. *)
LEMMA DiagnosisTextIs ==
    ASSUME NEW status_ok, NEW journal_ok, name \in Seq({"word"}),
           status.status \in {"ok", "error"}, journal.status \in {"ok", "error"},
           status.body \in Seq(Undiagnosed)
    PROVE  ValueOf(DiagnosisText(status_ok, journal_ok), "diagnosis=") \in
             {<<>>, <<Diagnosis(status.body, status_ok, journal_ok)>>}
  <1> DEFINE X == Undiagnosed
             dg == Diagnosis(status.body, status_ok, journal_ok)
             jf == JournalFlag(journal.body)
             Reported(key) == IF ValueOf(status.body, key) = <<>> THEN <<>>
                              ELSE <<Line(key, ValueOf(status.body, key))>>
             both == <<status.status, journal.status>>
             la == Line("unit=", name)
             lb == Line("tools=", both)
             lj == Line("journal=", <<jf>>)
             ld == Line("diagnosis=", <<dg>>)
             front == <<la, lb>> \o Reported("active_state=") \o Reported("service_result=")
                        \o Reported("exec_main=")
             back == <<lj, ld>>
             lines == front \o back
             all == D!FlattenSeq(lines)
             body == DiagnosisText(status_ok, journal_ok)
             n == Len(front) + 1
             head == D!JoinOf(lines, n)
  <1>1. /\ X \subseteq Tokens /\ {"truncated=", "true", "nl"} \subseteq X /\ "word" \in X
        /\ {"unit=", "tools=", "active_state=", "service_result=", "exec_main=", "journal="} \subseteq X
        /\ {"ok", "error", "absent", "alarming", "present"} \subseteq X
        /\ "diagnosis=" \in Tokens /\ "diagnosis=" \notin X /\ "nl" \in Tokens
        /\ "truncated=" \in Tokens /\ "true" \in Tokens
    BY DEF Undiagnosed, Tokens
  <1>2. /\ Marker \in Seq(X) /\ Marker \in Seq(Tokens) /\ Len(Marker) = 3
        /\ kMaxDiagnosisBodyBytes \in Nat /\ Len(Marker) <= kMaxDiagnosisBodyBytes
    BY <1>1, MarkerIsText, MarkerTokens
  <1>3. dg \in Tokens /\ dg # "nl" /\ jf \in X
    BY <1>1, DiagnosisIsToken DEF JournalFlag
  <1>4. body = DiagnosisBody!append_all(lines)
    BY DEF DiagnosisText
  <1> HIDE DEF X, dg, jf, body
  <1>5. la \in Seq(X) /\ lb \in Seq(X)
    <2>1. {"word"} \subseteq X
      BY <1>1
    <2>2. name \in Seq(X)
      BY <2>1, MoreTokens
    <2>3. both \in Seq(X)
      BY <1>1
    <2> HIDE DEF both
    <2>4. IsLine(la, "unit=", name, X) /\ IsLine(lb, "tools=", both, X)
      BY <1>1, <2>2, <2>3, LineIsText
    <2> QED BY <2>4 DEF IsLine
  <1>6. lj \in Seq(X) /\ Len(lj) > 0 /\ lj[Len(lj)] = "nl"
    <2> DEFINE v == <<jf>>
    <2>1. v \in Seq(X) /\ Len(v) = 1
      BY <1>3
    <2> HIDE DEF v
    <2>2. IsLine(Line("journal=", v), "journal=", v, X)
      BY <1>1, <2>1, LineIsText
    <2>3. IsLine(lj, "journal=", v, X)
      BY <2>2 DEF v
    <2> HIDE DEF lj
    <2> QED BY <2>1, <2>3 DEF IsLine
  <1>7. ld \in Seq(Tokens) /\ Len(ld) = 3
    <2> DEFINE v == <<dg>>
    <2>1. v \in Seq(Tokens) /\ Len(v) = 1
      BY <1>3
    <2> HIDE DEF v
    <2>2. IsLine(Line("diagnosis=", v), "diagnosis=", v, Tokens)
      BY <1>1, <2>1, LineIsText
    <2>3. IsLine(ld, "diagnosis=", v, Tokens)
      BY <2>2 DEF v
    <2> HIDE DEF ld
    <2> QED BY <2>1, <2>3 DEF IsLine
  <1>8. ASSUME NEW key \in X PROVE Reported(key) \in Seq(Seq(X))
    <2> DEFINE value == ValueOf(status.body, key)
               l == Line(key, value)
    <2>1. value \in Seq(X)
      BY ValueIsPart DEF X
    <2> HIDE DEF value
    <2>2. l \in Seq(X)
      <3>1. IsLine(l, key, value, X)
        BY <1>1, <2>1, LineIsText
      <3> QED BY <3>1 DEF IsLine
    <2>3. Reported(key) = IF value = <<>> THEN <<>> ELSE <<l>>
      BY DEF value
    <2> HIDE DEF l, Reported
    <2> DEFINE Y == Seq(X)
    <2> HIDE DEF Y
    <2>4. Reported(key) \in Seq(Y)
      BY <2>2, <2>3 DEF Y
    <2> QED BY <2>4 DEF Y
  <1> HIDE DEF la, lb, lj, ld, Reported
  <1>9. front \in Seq(Seq(X))
    <2> DEFINE Y == Seq(X)
               a == <<la, lb>>
               b == Reported("active_state=")
               c == Reported("service_result=")
               d == Reported("exec_main=")
    <2>1. b \in Seq(Y) /\ c \in Seq(Y) /\ d \in Seq(Y)
      BY <1>1, <1>8
    <2>2. a \in Seq(Y)
      <3> HIDE DEF Y
      <3>1. la \in Y /\ lb \in Y
        BY <1>5 DEF Y
      <3> QED BY <3>1
    <2> HIDE DEF a, b, c, d, Y
    <2>3. ((a \o b) \o c) \o d \in Seq(Y)
      BY <2>1, <2>2
    <2> QED BY <2>3 DEF a, b, c, d, Y
  <1>10. back \in Seq(Seq(Tokens)) /\ Len(back) = 2 /\ back[1] = lj /\ back[2] = ld
    <2> DEFINE Y == Seq(Tokens)
    <2>1. lj \in Y /\ ld \in Y
      BY <1>1, <1>6, <1>7, MoreTokens
    <2> HIDE DEF Y
    <2>2. back \in Seq(Y) /\ Len(back) = 2 /\ back[1] = lj /\ back[2] = ld
      BY <2>1
    <2> QED BY <2>2 DEF Y
  <1> HIDE DEF front, back
  <1>11. front \in Seq(Seq(Tokens))
    <2>1. \A t \in Seq(X) : t \in Seq(Tokens)
      BY <1>1, MoreTokens
    <2>2. Seq(X) \subseteq Seq(Tokens)
      BY <2>1
    <2> QED BY <1>9, <2>2, MoreTokens
  <1>12. Follows(front, back, lines, Seq(Tokens))
    BY <1>10, <1>11, TwoTexts
  <1> HIDE DEF lines
  <1>13. /\ lines \in Seq(Seq(Tokens)) /\ Len(front) \in Nat /\ n \in Nat /\ Len(lines) = n + 1
         /\ \A i \in 1 .. Len(front) : lines[i] = front[i]
         /\ lines[n] = lj /\ lines[n + 1] = ld
    <2>1. /\ lines \in Seq(Seq(Tokens)) /\ Len(front) \in Nat
          /\ Len(lines) = Len(front) + 2
          /\ \A i \in 1 .. Len(front) : lines[i] = front[i]
          /\ \A i \in 1 .. 2 : lines[Len(front) + i] = back[i]
      BY <1>10, <1>12 DEF Follows
    <2>2. lines[Len(front) + 1] = lj /\ lines[Len(front) + 2] = ld
      BY <1>10, <2>1
    <2>3. Len(front) + 1 + 1 = Len(front) + 2
      BY <2>1
    <2> QED BY <2>1, <2>2, <2>3
  <1>14. \A i \in 1 .. n : lines[i] \in Seq(X)
    <2>1. \A i \in 1 .. n : i \in 1 .. Len(front) \/ i = n
      BY <1>13
    <2>2. \A i \in 1 .. Len(front) : front[i] \in Seq(X)
      BY <1>9
    <2> HIDE DEF n
    <2> QED BY <1>6, <1>13, <2>1, <2>2
  <1>15. n \in 0 .. Len(lines) /\ n \in 1 .. Len(lines) /\ n < Len(lines)
    BY <1>13
  <1>16. Len(lines) \in 0 .. Len(lines)
    BY <1>13
  <1> HIDE DEF n
  <1>17. head \in Seq(X)
    BY <1>2, <1>13, <1>14, <1>15, D!JoinOfFirst
  <1>18. head[Len(head)] = "nl"
    BY <1>2, <1>6, <1>13, <1>15, D!JoinEnds
  <1>19. all = head \o ld
    <2>1. D!JoinOf(lines, n + 1) = head \o lines[n + 1]
      BY <1>2, <1>13, <1>15, D!JoinGrows
    <2>2. D!JoinOf(lines, Len(lines)) = all
      BY <1>2, <1>13, <1>16, D!JoinGrows
    <2> QED BY <1>13, <2>1, <2>2
  <1>20. IsBodyOf(body, all, kMaxDiagnosisBodyBytes, Tokens)
    BY <1>1, <1>4, <1>13, DiagnosisBodyIs
  <1> HIDE DEF head, all
  <1>21. CASE body = all
    <2>1. head \in Seq(Tokens) /\ \A i \in 1 .. Len(head) : head[i] # "diagnosis="
      BY <1>1, <1>17, MoreTokens
    <2>2. Says(head \o Line("diagnosis=", <<dg>>), Len(head), "diagnosis=", dg)
      BY <1>1, <1>3, <1>18, <2>1, LineSays
    <2>3. Says(body, Len(head), "diagnosis=", dg)
      BY <1>19, <1>21, <2>2 DEF ld
    <2>4. body \in Seq(Tokens)
      BY <1>20 DEF IsBodyOf
    <2>5. ValueOf(body, "diagnosis=") = <<dg>>
      BY <1>3, <2>3, <2>4, SaidIsRead
    <2> QED BY <2>5 DEF body, dg
  <1>22. CASE /\ Len(all) > kMaxDiagnosisBodyBytes
              /\ body = SubSeq(all, 1, kMaxDiagnosisBodyBytes - 3) \o Marker
    <2> DEFINE m == kMaxDiagnosisBodyBytes - 3
               s == SubSeq(all, 1, m)
    <2>1. head \in Seq(Tokens)
      BY <1>1, <1>17, MoreTokens
    <2>2. Follows(head, ld, all, Tokens)
      BY <1>7, <1>19, <2>1, TwoTexts
    <2>3. m \in Nat /\ m <= Len(head) /\ m <= Len(all) /\ all \in Seq(Tokens)
      BY <1>2, <1>7, <1>22, <2>2 DEF Follows
    <2> HIDE DEF m
    <2>4. Len(s) = m /\ s \in Seq(Tokens) /\ \A i \in 1 .. m : s[i] = all[i]
      BY <2>3, Beginning
    <2> HIDE DEF s
    <2>5. \A i \in 1 .. m : s[i] \in X
      <3>1. \A i \in 1 .. m : i \in 1 .. Len(head) /\ s[i] = head[i]
        <4>1. \A i \in 1 .. m : i \in 1 .. Len(head)
          BY <2>2, <2>3 DEF Follows
        <4> QED BY <2>2, <2>4, <4>1 DEF Follows
      <3>2. \A i \in 1 .. m : head[i] \in X
        BY <1>17, <2>3
      <3> QED BY <3>1, <3>2
    <2>6. s \in Seq(X)
      BY <2>3, <2>4, <2>5
    <2>7. body \in Seq(X)
      BY <1>2, <1>22, <2>6 DEF s, m
    <2>8. ValueOf(body, "diagnosis=") = <<>>
      BY <1>1, <2>7, NoKeyNoValue
    <2> QED BY <2>8 DEF body
  <1> QED BY <1>20, <1>21, <1>22 DEF IsBodyOf

-----------------------------------------------------------------------------
(* The inductive invariant. The call works on a unit whose states it has all
   seen; *)
CallIsTyped ==
    /\ is_service \in BOOLEAN /\ name \in Seq({"word"}) /\ description \in Seq({"word"})
    /\ seen \subseteq UnitStates /\ unit \in seen

(* what was read is something the unit was, or "unavailable"; *)
ReadsAreSeen ==
    /\ read \in Reads
    /\ read.active_state \in {"absent", "unavailable"} \cup {u.active_state : u \in seen}
    /\ read.service_result \in {"absent", "unavailable"} \cup {u.service_result : u \in seen}
    /\ pc = "call" => read = NotRead
    /\ pc \in {"service_result", "format"} => read.active_state # "absent"
    /\ pc = "format" /\ is_service => read.service_result # "absent"

(* the status is the text of what was read; *)
StatusIsOfReads ==
    /\ status.status \in {"none", "error", "ok"}
    /\ pc \in {"call", "active_state", "service_result", "format"} => status = NoAnswer
    /\ pc \in {"journal", "diagnose"} => status.status \in {"ok", "error"}
    /\ status.status \in {"none", "error"} => status.body = <<>>
    /\ status.status = "ok" =>
         /\ status.body = format_systemd_unit_status_body(read)
         /\ read.active_state # "absent"
         /\ is_service => read.service_result # "absent"

(* and the answer is the text of the status and the journal. *)
AnswerIsOfStatus ==
    /\ pc = "diagnose" => journal.status \in {"ok", "error"}
    /\ \/ response.body = <<>>
       \/ /\ pc = "done"
          /\ status.status \in {"ok", "error"} /\ journal.status \in {"ok", "error"}
          /\ response.body = DiagnosisText(status.status = "ok", journal.status = "ok")

IInv == CallIsTyped /\ ReadsAreSeen /\ StatusIsOfReads /\ AnswerIsOfStatus

LEMMA InitIsSound == Init => IInv
  <1> SUFFICES ASSUME Init PROVE IInv
    OBVIOUS
  <1>1. CallIsTyped
    <2>1. \A k \in Nat : Words(k) \in Seq({"word"})
      BY DEF Words
    <2>2. MaxName \in Nat /\ MaxDescription \in Nat
      BY DiagnoseAssumption
    <2>3. name \in Seq({"word"}) /\ description \in Seq({"word"})
      BY <2>1, <2>2 DEF Init
    <2> QED BY <2>3 DEF Init, CallIsTyped
  <1>2. ReadsAreSeen
    BY DEF Init, ReadsAreSeen, NotRead, Reads, ActiveStates, Results
  <1>3. StatusIsOfReads
    BY DEF Init, StatusIsOfReads, NoAnswer
  <1>4. AnswerIsOfStatus
    BY DEF Init, AnswerIsOfStatus, NoAnswer
  <1> QED BY <1>1, <1>2, <1>3, <1>4 DEF IInv

(* What the unit is, a read may give. *)
LEMMA UnitIsReadable ==
    ASSUME NEW u \in UnitStates
    PROVE  u.active_state \in ActiveStates \ {"absent"} /\ u.service_result \in Results \ {"absent"}
  BY DEF UnitStates, Running, Stopped, Crashed, Restarting, ActiveStates, Results

LEMMA StepIsSound == IInv /\ [Next]_vars => IInv'
  <1> SUFFICES ASSUME IInv, [Next]_vars PROVE IInv'
    OBVIOUS
  <1>0. CallIsTyped /\ ReadsAreSeen /\ StatusIsOfReads /\ AnswerIsOfStatus
    BY DEF IInv
  <1>text. ASSUME UNCHANGED <<name, is_service, description, read>>
           PROVE  format_systemd_unit_status_body(read)' = format_systemd_unit_status_body(read)
    BY <1>text DEF format_systemd_unit_status_body
  <1>1. CASE Refuse
    <2>1. CallIsTyped'
      BY <1>0, <1>1 DEF CallIsTyped, Refuse
    <2>2. ReadsAreSeen'
      BY <1>0, <1>1 DEF ReadsAreSeen, Refuse
    <2>3. StatusIsOfReads'
      BY <1>0, <1>1 DEF StatusIsOfReads, Refuse, NoAnswer
    <2>4. AnswerIsOfStatus'
      BY <1>0, <1>1 DEF AnswerIsOfStatus, Refuse
    <2> QED BY <2>1, <2>2, <2>3, <2>4 DEF IInv
  <1>2. CASE GetUnit
    <2>1. CallIsTyped'
      BY <1>0, <1>2 DEF CallIsTyped, GetUnit
    <2>2. ReadsAreSeen'
      BY <1>0, <1>2 DEF ReadsAreSeen, GetUnit, NotRead
    <2>3. StatusIsOfReads'
      BY <1>0, <1>2 DEF StatusIsOfReads, GetUnit, NoAnswer
    <2>4. AnswerIsOfStatus'
      BY <1>0, <1>2 DEF AnswerIsOfStatus, GetUnit
    <2> QED BY <2>1, <2>2, <2>3, <2>4 DEF IInv
  <1>3. CASE ReadActiveState
    <2>0. /\ pc = "active_state" /\ pc' \in {"service_result", "format"}
          /\ pc' = "format" => ~is_service
          /\ UNCHANGED <<unit, name, is_service, description, status, journal, response, seen>>
          /\ \E v \in {unit.active_state, "unavailable"} : read' = [read EXCEPT !.active_state = v]
      BY <1>3 DEF ReadActiveState, ReadProperty
    <2>1. CallIsTyped'
      BY <1>0, <2>0 DEF CallIsTyped
    <2>2. ReadsAreSeen'
      <3>1. unit \in seen /\ unit.active_state \in ActiveStates \ {"absent"}
        BY <1>0, UnitIsReadable DEF CallIsTyped
      <3>2. PICK v \in {unit.active_state, "unavailable"} : read' = [read EXCEPT !.active_state = v]
        BY <2>0
      <3>3. v \in ActiveStates \ {"absent"}
        BY <3>1 DEF ActiveStates
      <3>4. read' \in Reads /\ read'.active_state = v /\ read'.service_result = read.service_result
        BY <1>0, <3>2, <3>3 DEF ReadsAreSeen, Reads
      <3> QED BY <1>0, <2>0, <3>1, <3>3, <3>4 DEF ReadsAreSeen
    <2>3. StatusIsOfReads'
      BY <1>0, <2>0 DEF StatusIsOfReads, NoAnswer
    <2>4. AnswerIsOfStatus'
      BY <1>0, <2>0 DEF AnswerIsOfStatus
    <2> QED BY <2>1, <2>2, <2>3, <2>4 DEF IInv
  <1>4. CASE ReadServiceResult
    <2>0. /\ pc = "service_result" /\ pc' = "format"
          /\ UNCHANGED <<unit, name, is_service, description, status, journal, response, seen>>
          /\ \E v \in {unit.service_result, "unavailable"} :
               read' = [read EXCEPT !.service_result = v]
      BY <1>4 DEF ReadServiceResult, ReadProperty
    <2>1. CallIsTyped'
      BY <1>0, <2>0 DEF CallIsTyped
    <2>2. ReadsAreSeen'
      <3>1. unit \in seen /\ unit.service_result \in Results \ {"absent"}
        BY <1>0, UnitIsReadable DEF CallIsTyped
      <3>2. PICK v \in {unit.service_result, "unavailable"} :
              read' = [read EXCEPT !.service_result = v]
        BY <2>0
      <3>3. v \in Results \ {"absent"}
        BY <3>1 DEF Results
      <3>4. read' \in Reads /\ read'.service_result = v /\ read'.active_state = read.active_state
        BY <1>0, <3>2, <3>3 DEF ReadsAreSeen, Reads
      <3> QED BY <1>0, <2>0, <3>1, <3>3, <3>4 DEF ReadsAreSeen
    <2>3. StatusIsOfReads'
      BY <1>0, <2>0 DEF StatusIsOfReads, NoAnswer
    <2>4. AnswerIsOfStatus'
      BY <1>0, <2>0 DEF AnswerIsOfStatus
    <2> QED BY <2>1, <2>2, <2>3, <2>4 DEF IInv
  <1>5. CASE ReturnStatus
    <2>1. CallIsTyped'
      BY <1>0, <1>5 DEF CallIsTyped, ReturnStatus
    <2>2. ReadsAreSeen'
      BY <1>0, <1>5 DEF ReadsAreSeen, ReturnStatus
    <2>3. StatusIsOfReads'
      <3>1. /\ pc = "format" /\ pc' = "journal" /\ status'.status = "ok"
            /\ status'.body = format_systemd_unit_status_body(read)
            /\ UNCHANGED <<name, is_service, description, read>>
        BY <1>5 DEF ReturnStatus
      <3>2. format_systemd_unit_status_body(read)' = format_systemd_unit_status_body(read)
        BY <3>1 DEF format_systemd_unit_status_body
      <3> QED BY <1>0, <3>1, <3>2 DEF StatusIsOfReads, ReadsAreSeen
    <2>4. AnswerIsOfStatus'
      BY <1>0, <1>5 DEF AnswerIsOfStatus, ReturnStatus
    <2> QED BY <2>1, <2>2, <2>3, <2>4 DEF IInv
  <1>6. CASE QueryJournal
    <2>1. CallIsTyped'
      BY <1>0, <1>6 DEF CallIsTyped, QueryJournal
    <2>2. ReadsAreSeen'
      BY <1>0, <1>6 DEF ReadsAreSeen, QueryJournal
    <2>3. StatusIsOfReads'
      BY <1>0, <1>6, <1>text DEF StatusIsOfReads, QueryJournal
    <2>4. AnswerIsOfStatus'
      <3>1. \A j \in JournalAnswers : j.status \in {"ok", "error"}
        BY DEF JournalAnswers
      <3> QED BY <1>0, <1>6, <3>1 DEF AnswerIsOfStatus, QueryJournal
    <2> QED BY <2>1, <2>2, <2>3, <2>4 DEF IInv
  <1>7. CASE Diagnose
    <2>1. CallIsTyped'
      BY <1>0, <1>7 DEF CallIsTyped, Diagnose
    <2>2. ReadsAreSeen'
      BY <1>0, <1>7 DEF ReadsAreSeen, Diagnose
    <2>3. StatusIsOfReads'
      BY <1>0, <1>7, <1>text DEF StatusIsOfReads, Diagnose
    <2>4. AnswerIsOfStatus'
      <3>1. /\ pc = "diagnose" /\ pc' = "done" /\ UNCHANGED <<name, status, journal>>
            /\ response'.body = DiagnosisText(status.status = "ok", journal.status = "ok")
        BY <1>7 DEF Diagnose
      <3>2. DiagnosisText(status.status = "ok", journal.status = "ok")' =
              DiagnosisText(status.status = "ok", journal.status = "ok")
        BY <3>1 DEF DiagnosisText
      <3> QED BY <1>0, <3>1, <3>2 DEF AnswerIsOfStatus, StatusIsOfReads
    <2> QED BY <2>1, <2>2, <2>3, <2>4 DEF IInv
  <1>8. CASE UnitChanges
    <2>0. /\ pc # "done" /\ unit' \in UnitStates /\ seen' = seen \cup {unit'}
          /\ UNCHANGED <<pc, name, is_service, description, read, status, journal, response>>
      BY <1>8 DEF UnitChanges
    <2>1. CallIsTyped'
      BY <1>0, <2>0 DEF CallIsTyped
    <2>2. ReadsAreSeen'
      BY <1>0, <2>0 DEF ReadsAreSeen
    <2>3. StatusIsOfReads'
      BY <1>0, <2>0, <1>text DEF StatusIsOfReads
    <2>4. AnswerIsOfStatus'
      BY <1>0, <2>0 DEF AnswerIsOfStatus
    <2> QED BY <2>1, <2>2, <2>3, <2>4 DEF IInv
  <1>9. CASE UNCHANGED vars
    <2>1. UNCHANGED <<unit, pc, name, is_service, description, read, status, journal, response, seen>>
      BY <1>9 DEF vars
    <2>2. CallIsTyped'
      BY <1>0, <2>1 DEF CallIsTyped
    <2>3. ReadsAreSeen'
      BY <1>0, <2>1 DEF ReadsAreSeen
    <2>4. StatusIsOfReads'
      BY <1>0, <2>1, <1>text DEF StatusIsOfReads
    <2>5. AnswerIsOfStatus'
      <3>1. DiagnosisText(status.status = "ok", journal.status = "ok")' =
              DiagnosisText(status.status = "ok", journal.status = "ok")
        BY <2>1 DEF DiagnosisText
      <3> QED BY <1>0, <2>1, <3>1 DEF AnswerIsOfStatus
    <2> QED BY <2>2, <2>3, <2>4, <2>5 DEF IInv
  <1> QED BY <1>1, <1>2, <1>3, <1>4, <1>5, <1>6, <1>7, <1>8, <1>9 DEF Next

(* A value says what is left of it. *)
LEMMA LeftIsRead ==
    ASSUME NEW value, NEW left, IsLeft(value, left)
    PROVE  /\ value = <<>> <=> left = "none"
           /\ \A v : v \notin {"none", "cut"} => (value = <<v>> <=> left = v)
  <1>1. Len(<<>>) = 0 /\ \A v : Len(<<v>>) = 1 /\ <<v>> # <<>>
    OBVIOUS
  <1>2. \A v, w : <<v>> = <<w>> => v = w
    OBVIOUS
  <1>3. CASE left = "none"
    <2>1. value = <<>>
      BY <1>3 DEF IsLeft
    <2> QED BY <1>1, <1>3, <2>1
  <1>4. CASE left = "cut"
    <2>1. Len(value) >= 2
      BY <1>4 DEF IsLeft
    <2>2. ~(0 >= 2) /\ ~(1 >= 2)
      OBVIOUS
    <2>3. value # <<>> /\ \A v : value # <<v>>
      BY <1>1, <2>1, <2>2
    <2> QED BY <1>4, <2>3
  <1>5. CASE left \notin {"none", "cut"}
    <2>1. value = <<left>>
      BY <1>5 DEF IsLeft
    <2> QED BY <1>1, <1>2, <1>5, <2>1
  <1> QED BY <1>3, <1>4, <1>5

(* What the status says of the unit: what the cut has left of the reads. *)
LEMMA StatusSays ==
    ASSUME IInv
    PROVE  /\ status.body \in Seq(Undiagnosed)
           /\ IsLeft(ValueOf(status.body, "active_state="), LeftState)
           /\ IsLeft(ValueOf(status.body, "service_result="), LeftResult)
           /\ status.status = "ok" /\ ~StatusIsCut =>
                /\ LeftState = read.active_state
                /\ LeftResult = IF is_service THEN read.service_result ELSE "none"
  <1> DEFINE value == ValueOf(status.body, "active_state=")
             result == ValueOf(status.body, "service_result=")
  <1>0. CallIsTyped /\ ReadsAreSeen /\ StatusIsOfReads
    BY DEF IInv
  <1>1. CASE status.status # "ok"
    <2>1. status.body = <<>>
      BY <1>0, <1>1 DEF StatusIsOfReads
    <2>2. status.body \in Seq({}) /\ "service_result=" \notin {} /\ "active_state=" \notin {}
      BY <2>1
    <2>3. value = <<>> /\ result = <<>>
      BY <2>2, NoKeyNoValue
    <2>4. status.body \in Seq(Undiagnosed)
      BY <2>1
    <2>5. LeftState = "none" /\ LeftResult = "none"
      BY <1>1 DEF LeftState, LeftResult
    <2> QED BY <1>1, <2>3, <2>4, <2>5 DEF IsLeft
  <1>2. CASE status.status = "ok"
    <2>1. /\ read \in Reads /\ is_service \in BOOLEAN /\ name \in Seq({"word"})
          /\ description \in Seq({"word"})
          /\ status.body = format_systemd_unit_status_body(read)
      BY <1>0, <1>2 DEF CallIsTyped, ReadsAreSeen, StatusIsOfReads
    <2>2. /\ status.body \in Seq(StatusTokens(read))
          /\ Kept # AllOfIt => IsSuffix(Marker, status.body)
          /\ IsLeft(value, Left(StateAt, read.active_state))
          /\ is_service => IsLeft(result, Left(StateAt + 3, read.service_result))
          /\ ~is_service => result = <<>>
      BY <2>1, StatusTextIs
    <2>3. StatusTokens(read) \subseteq Undiagnosed
      BY <2>1 DEF StatusTokens, Plain, Ahead, Reads, ActiveStates, Results, Undiagnosed, Tokens
    <2>4. status.body \in Seq(Undiagnosed)
      BY <2>2, <2>3, MoreTokens
    <2>5. /\ LeftState = Left(StateAt, read.active_state)
          /\ LeftResult = IF is_service THEN Left(StateAt + 3, read.service_result) ELSE "none"
      BY <1>2 DEF LeftState, LeftResult
    <2> HIDE DEF value, result
    <2>6. IsLeft(value, LeftState) /\ IsLeft(result, LeftResult)
      <3>1. ~is_service => IsLeft(result, "none")
        BY <2>2 DEF IsLeft
      <3> QED BY <2>1, <2>2, <2>5, <3>1
    <2>7. ASSUME ~StatusIsCut
          PROVE  /\ Left(StateAt, read.active_state) = read.active_state
                 /\ is_service => Left(StateAt + 3, read.service_result) = read.service_result
      <3>1. Kept = AllOfIt
        BY <2>2, <2>7 DEF StatusIsCut
      <3>2. StateAt \in Nat
        BY <2>1 DEF StateAt
      <3>3. StateAt + 3 <= AllOfIt /\ (is_service => (StateAt + 3) + 3 <= AllOfIt)
        <4> HIDE DEF StateAt
        <4> QED BY <2>1, <3>2 DEF AllOfIt
      <3> QED BY <3>1, <3>3 DEF Left
    <2> QED BY <2>1, <2>4, <2>5, <2>6, <2>7 DEF value, result
  <1> QED BY <1>1, <1>2

(* A diagnosis is told as it was made, or not at all. *)
LEMMA ToldIsMade ==
    ASSUME IInv, Told # <<>>
    PROVE  /\ Told = <<Diagnosis(status.body, status.status = "ok", journal.status = "ok")>>
           /\ status.status \in {"ok", "error"} /\ journal.status \in {"ok", "error"}
  <1>1. response.body # <<>>
    <2>1. CASE response.body = <<>>
      <3>1. response.body \in Seq({}) /\ "diagnosis=" \notin {}
        BY <2>1
      <3>2. Told = <<>>
        BY <3>1, NoKeyNoValue DEF Told
      <3> QED BY <3>2
    <2> QED BY <2>1
  <1>2. /\ status.status \in {"ok", "error"} /\ journal.status \in {"ok", "error"}
        /\ response.body = DiagnosisText(status.status = "ok", journal.status = "ok")
        /\ name \in Seq({"word"})
    BY <1>1 DEF IInv, AnswerIsOfStatus, CallIsTyped
  <1>3. status.body \in Seq(Undiagnosed)
    BY StatusSays
  <1>4. Told \in {<<>>, <<Diagnosis(status.body, status.status = "ok", journal.status = "ok")>>}
    BY <1>2, <1>3, DiagnosisTextIs DEF Told
  <1> QED BY <1>2, <1>4

(* The diagnosis that is made is the verdict on what is left of the reads. *)
LEMMA DiagnosisIsVerdict ==
    ASSUME IInv, status.status \in {"ok", "error"}, journal.status \in {"ok", "error"}
    PROVE  Diagnosis(status.body, status.status = "ok", journal.status = "ok")
             = Verdict(LeftState, LeftResult)
  <1> DEFINE value == ValueOf(status.body, "active_state=")
             result == ValueOf(status.body, "service_result=")
             sok == status.status = "ok"
             jok == journal.status = "ok"
             dg == Diagnosis(status.body, sok, jok)
  <1>1. IsLeft(value, LeftState) /\ IsLeft(result, LeftResult)
    BY StatusSays
  <1>2. dg = IF value = <<"failed">> THEN "service is failed"
             ELSE IF result \notin {<<>>, <<"success">>}
             THEN "service reports a non-success result"
             ELSE IF value = <<"active">> THEN "service is active"
             ELSE IF ~sok /\ jok THEN "status unavailable; journal evidence collected"
             ELSE IF sok /\ ~jok THEN "status collected; journal unavailable"
             ELSE "partial evidence collected"
    BY DEF Diagnosis
  <1> HIDE DEF value, result, dg
  <1>3. value = <<"failed">> <=> LeftState = "failed"
    BY <1>1, LeftIsRead
  <1>4. value = <<"active">> <=> LeftState = "active"
    BY <1>1, LeftIsRead
  <1>5. result \in {<<>>, <<"success">>} <=> LeftResult \in {"none", "success"}
    <2>1. result = <<>> <=> LeftResult = "none"
      BY <1>1, LeftIsRead
    <2>2. result = <<"success">> <=> LeftResult = "success"
      BY <1>1, LeftIsRead
    <2> QED BY <2>1, <2>2
  <1>6. dg = Verdict(LeftState, LeftResult)
    <2> DEFINE failed == LeftState = "failed"
               active == LeftState = "active"
               good == LeftResult \in {"none", "success"}
    <2>1. CASE failed
      BY <1>2, <1>3, <2>1 DEF Verdict
    <2>2. CASE ~failed /\ ~good
      BY <1>2, <1>3, <1>5, <2>2 DEF Verdict
    <2>3. CASE ~failed /\ good /\ active
      BY <1>2, <1>3, <1>4, <1>5, <2>3 DEF Verdict
    <2>4. CASE ~failed /\ good /\ ~active
      <3>1. dg = IF ~sok /\ jok THEN "status unavailable; journal evidence collected"
                 ELSE IF sok /\ ~jok THEN "status collected; journal unavailable"
                 ELSE "partial evidence collected"
        BY <1>2, <1>3, <1>4, <1>5, <2>4
      <3>2. Verdict(LeftState, LeftResult) =
              IF status.status = journal.status THEN "partial evidence collected"
              ELSE IF journal.status = "ok" THEN "status unavailable; journal evidence collected"
              ELSE "status collected; journal unavailable"
        BY <2>4 DEF Verdict
      <3> QED BY <3>1, <3>2
    <2> QED BY <2>1, <2>2, <2>3, <2>4
  <1> QED BY <1>6 DEF dg

(* However the unit changes while its properties are read one by one, and
   wherever the two texts are cut, a diagnosis that is told is the verdict on
   the state and the result that were read, each as far as the cut has left it,
   and each one the unit had during the call, or "unavailable". *)
THEOREM DiagnosisIsTrue == Spec => []DiagnosisWasTrue
<1>1. IInv => DiagnosisWasTrue
  <2> SUFFICES ASSUME IInv, Told # <<>>
               PROVE  /\ status.status = "ok" =>
                           /\ read.active_state \in
                                {u.active_state : u \in seen} \cup {"unavailable"}
                           /\ is_service => read.service_result \in
                                {u.service_result : u \in seen} \cup {"unavailable"}
                      /\ Told = <<Verdict(LeftState, LeftResult)>>
    BY DEF DiagnosisWasTrue
  <2>1. ASSUME status.status = "ok"
        PROVE  /\ read.active_state \in {u.active_state : u \in seen} \cup {"unavailable"}
               /\ is_service =>
                    read.service_result \in {u.service_result : u \in seen} \cup {"unavailable"}
    BY <2>1 DEF IInv, ReadsAreSeen, StatusIsOfReads
  <2>2. Told = <<Verdict(LeftState, LeftResult)>>
    BY ToldIsMade, DiagnosisIsVerdict
  <2> QED BY <2>1, <2>2
<1> QED BY <1>1, InitIsSound, StepIsSound, PTL DEF Spec

(* A unit that stays failed, or running, through the call and can be read is
   diagnosed as just that, unless the status or the diagnosis was cut. *)
THEOREM SteadyIsDiagnosed == Spec => []SteadyUnitIsDiagnosed
<1>1. IInv => SteadyUnitIsDiagnosed
  <2> SUFFICES ASSUME IInv, status.status = "ok", ~StatusIsCut, Told # <<>>,
                      "unavailable" \notin {read.active_state, read.service_result}
               PROVE  /\ seen = {Crashed} => Told = <<"service is failed">>
                      /\ seen = {Running} => Told = <<"service is active">>
    BY DEF SteadyUnitIsDiagnosed
  <2>1. Told = <<Verdict(LeftState, LeftResult)>>
    BY ToldIsMade, DiagnosisIsVerdict
  <2>2. /\ LeftState = read.active_state
        /\ LeftResult = IF is_service THEN read.service_result ELSE "none"
    BY StatusSays
  <2>3. /\ read.active_state \in {u.active_state : u \in seen}
        /\ is_service => read.service_result \in {u.service_result : u \in seen}
        /\ is_service \in BOOLEAN
    BY DEF IInv, ReadsAreSeen, StatusIsOfReads, CallIsTyped
  <2>4. ASSUME seen = {Crashed} PROVE Verdict(LeftState, LeftResult) = "service is failed"
    <3>1. LeftState = "failed"
      BY <2>2, <2>3, <2>4 DEF Crashed
    <3> QED BY <3>1 DEF Verdict
  <2>5. ASSUME seen = {Running} PROVE Verdict(LeftState, LeftResult) = "service is active"
    <3>1. LeftState = "active" /\ LeftResult \in {"none", "success"}
      BY <2>2, <2>3, <2>5 DEF Running
    <3> QED BY <3>1 DEF Verdict
  <2> QED BY <2>1, <2>4, <2>5
<1> QED BY <1>1, InitIsSound, StepIsSound, PTL DEF Spec
=============================================================================
