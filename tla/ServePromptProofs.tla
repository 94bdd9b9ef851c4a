--------------------------- MODULE ServePromptProofs ---------------------------
(***************************************************************************)
(* Proofs about ServePrompt, for every catalog, every edit of it and every *)
(* depth: the recursion is bounded, and what failed is reported; and while *)
(* the catalog is not edited, the answers are sound.  And about            *)
(* AssetResolution, for every text and every value: its passes forget      *)
(* nothing, and do not show where values hold no placeholders.  Where      *)
(* String.replace reads patterns in what is inserted is part of both.      *)
(*                                                                         *)
(* What both do to a text is to put texts in the place of some of its      *)
(* tokens.  The first part has the lemmas about that; they rest on an      *)
(* induction over the numbers, which is proved from their being well       *)
(* founded.                                                                *)
(*                                                                         *)
(* The type invariant used here does not say of lastIndex that it is a     *)
(* number; these arguments do not need it.                                 *)
(***************************************************************************)
EXTENDS ServePrompt, AssetResolution, SequenceTheorems, FiniteSetTheorems, WellFoundedInduction, TLAPS

-------------------------------------------------------------------------------
(***************************************************************************)
(* Numbers, sequences of sequences, and texts in which tokens are replaced *)
(***************************************************************************)
\* A nonempty set of numbers has a least element.
LEMMA MinIsLeast ==
    ASSUME NEW S, S \subseteq Nat, S # {}
    PROVE  \E x \in S : \A y \in S : x <= y
<1> DEFINE Less == {ss \in Nat \X Nat : ss[1] < ss[2]}
<1>1. IsWellFoundedOn(Less, Nat)
  BY NatLessThanWellFounded DEF OpToRel
<1>2. PICK x \in S : \A y \in S : ~(<<y, x>> \in Less)
  <2> HIDE DEF Less
  <2> QED
    BY <1>1, WFMin, Zenon
<1>3. ASSUME NEW y \in S PROVE x =< y
  <2>1. x \in Nat /\ y \in Nat /\ <<y, x>> \in Nat \X Nat
    OBVIOUS
  <2>2. ~(<<y, x>>[1] < <<y, x>>[2])
    BY <1>2, <2>1
  <2>3. QED
    BY <2>1, <2>2
<1>4. QED
  BY <1>3

\* The first version meant by a reference, or the first reference of a text,
\* is one of them: a nonempty set of numbers has a minimum.
LEMMA MinIsElement ==
    ASSUME NEW S, S \subseteq Nat, S # {}
    PROVE  Min(S) \in S
BY MinIsLeast DEF Min

\* The minimum is the least.
LEMMA MinIsLower ==
    ASSUME NEW S, S \subseteq Nat, NEW y \in S
    PROVE  Min(S) \in S /\ Min(S) <= y
<1>1. \E x \in S : \A z \in S : x <= z
  BY MinIsLeast
<1>2. QED
  BY <1>1 DEF Min

\* Induction: a set that holds zero, and with a number the next one, holds all.
LEMMA Induct ==
    ASSUME NEW S, 0 \in S, \A n \in Nat : n \in S => n + 1 \in S
    PROVE  Nat \subseteq S
<1> DEFINE R == OpToRel(<, Nat)
<1>1. IsWellFoundedOn(R, Nat)
  BY NatLessThanWellFounded DEF OpToRel
<1> DEFINE T == Nat \ S
<1>2. SUFFICES ASSUME T # {} PROVE FALSE
  OBVIOUS
<1> HIDE DEF R
<1>3. PICK m \in T : \A k \in T : <<k, m>> \notin R
  BY <1>1, <1>2, WFMin
<1>4. m \in Nat /\ m # 0
  BY <1>3
<1>5. m - 1 \in T
  BY <1>4
<1>6. <<m - 1, m>> \in R
  BY <1>4 DEF R, OpToRel
<1>7. QED
  BY <1>3, <1>5, <1>6

\* f holds the concatenations of the first, the first two, ... n of the sequences.
IsCat(seqs, n, f) == f = [i \in 1 .. n |-> IF i = 1 THEN seqs[i] ELSE f[i-1] \o seqs[i]]

\* There are concatenations of the first n, ...
LEMMA CatExists ==
    ASSUME NEW seqs
    PROVE  \A n \in Nat : \E f : IsCat(seqs, n, f)
<1> DEFINE S == {n \in Nat : \E f : IsCat(seqs, n, f)}
<1>1. 0 \in S
  <2>1. IsCat(seqs, 0, [i \in 1 .. 0 |-> 0])
    BY DEF IsCat
  <2>2. QED
    BY <2>1
<1>2. ASSUME NEW n \in Nat, n \in S PROVE n + 1 \in S
  <2>1. PICK f : IsCat(seqs, n, f)
    BY <1>2
  <2>2. ASSUME NEW i \in 1 .. n PROVE f[i] = IF i = 1 THEN seqs[i] ELSE f[i-1] \o seqs[i]
    BY <2>1 DEF IsCat
  <2> DEFINE g == [i \in 1 .. (n + 1) |-> IF i <= n THEN f[i] ELSE IF i = 1 THEN seqs[i] ELSE f[n] \o seqs[i]]
  <2>3. ASSUME NEW i \in 1 .. (n + 1) PROVE g[i] = IF i = 1 THEN seqs[i] ELSE g[i-1] \o seqs[i]
    <3>1. CASE i <= n
      <4>1. g[i] = f[i]
        BY <3>1
      <4>2. i # 1 => g[i-1] = f[i-1]
        BY <3>1
      <4>3. QED
        BY <4>1, <4>2, <2>2, <3>1
    <3>2. CASE ~(i <= n)
      <4>1. i = n + 1 /\ i - 1 = n
        BY <3>2
      <4>2. i # 1 => g[i-1] = f[n]
        BY <4>1
      <4>3. QED
        BY <4>1, <4>2
    <3>3. QED
      BY <3>1, <3>2
  <2>4. IsCat(seqs, n + 1, g)
    <3>1. g = [i \in 1 .. (n + 1) |-> g[i]]
      OBVIOUS
    <3> HIDE DEF g
    <3>2. QED
      BY <3>1, <2>3 DEF IsCat
  <2> HIDE DEF g
  <2>5. QED
    BY <2>4
<1>3. QED
  <2> HIDE DEF S
  <2>1. Nat \subseteq S
    BY <1>1, <1>2, Induct
  <2>2. QED
    BY <2>1 DEF S

\* ... and no two of them differ.
LEMMA CatAgree ==
    ASSUME NEW s, NEW t, NEW m \in Nat, NEW n \in Nat, NEW f, NEW g,
           IsCat(s, m, f), IsCat(t, n, g), \A i \in 1 .. m : s[i] = t[i], m <= n
    PROVE  \A i \in 1 .. m : f[i] = g[i]
<1> DEFINE S == {i \in Nat : i \in 1 .. m => f[i] = g[i]}
<1>1. 0 \in S
  OBVIOUS
<1>2. ASSUME NEW i \in Nat, i \in S PROVE i + 1 \in S
  <2>1. SUFFICES ASSUME i + 1 \in 1 .. m PROVE f[i+1] = g[i+1]
    OBVIOUS
  <2>2. f[i+1] = IF i + 1 = 1 THEN s[i+1] ELSE f[(i+1)-1] \o s[i+1]
    BY <2>1 DEF IsCat
  <2>3. g[i+1] = IF i + 1 = 1 THEN t[i+1] ELSE g[(i+1)-1] \o t[i+1]
    <3>1. i + 1 \in 1 .. n
      BY <2>1
    <3>2. QED
      BY <3>1 DEF IsCat
  <2>4. i # 0 => f[i] = g[i]
    BY <1>2, <2>1
  <2>5. QED
    BY <2>1, <2>2, <2>3, <2>4
<1>3. QED
  <2> HIDE DEF S
  <2>1. Nat \subseteq S
    BY <1>1, <1>2, Induct
  <2>2. QED
    BY <2>1 DEF S

\* Concatenation, of what need not be known to be sequences.
Join(a, b) == a \o b

\* One sequence more is joined to what there is.
LEMMA CatNext ==
    ASSUME NEW s, NEW t, NEW n \in Nat, NEW k \in Nat, NEW f, NEW g, n # 0, k = n + 1,
           IsCat(s, n, f), IsCat(t, k, g), \A i \in 1 .. n : s[i] = t[i]
    PROVE  g[k] = Join(f[n], t[k])
<1>1. \A i \in 1 .. n : f[i] = g[i]
  BY CatAgree
<1>2. k \in 1 .. k /\ k # 1 /\ k - 1 = n
  OBVIOUS
<1>3. g[k] = Join(g[n], t[k])
  BY <1>2 DEF IsCat, Join
<1>4. f[n] = g[n]
  BY <1>1
<1>5. QED
  BY <1>3, <1>4

\* FlattenSeq is the last of the concatenations.
LEMMA FlattenIs ==
    ASSUME NEW s, NEW n \in Nat \ {0}, Len(s) = n
    PROVE  \E f : IsCat(s, n, f) /\ FlattenSeq(s) = f[n]
<1> DEFINE f == CHOOSE f : IsCat(s, n, f)
<1>1. IsCat(s, n, f)
  BY CatExists
<1>2. FlattenSeq(s) = f[n]
  BY DEF FlattenSeq, IsCat
<1> HIDE DEF f
<1>3. QED
  BY <1>1, <1>2

\* What flattening computes.
LEMMA FlattenEmpty == FlattenSeq(<<>>) = <<>>
  BY DEF FlattenSeq

\* What FlattenSeq makes of sequences and one more.
LEMMA FlattenNext ==
    ASSUME NEW s, NEW t, NEW n \in Nat, n # 0,
           Len(s) = n, Len(t) = n + 1, \A i \in 1 .. n : s[i] = t[i]
    PROVE  FlattenSeq(t) = Join(FlattenSeq(s), t[n + 1])
<1>1. PICK k \in Nat : k = n + 1
  OBVIOUS
<1>2. PICK f : IsCat(s, n, f) /\ FlattenSeq(s) = f[n]
  BY FlattenIs
<1>3. PICK g : IsCat(t, k, g) /\ FlattenSeq(t) = g[k]
  BY <1>1, FlattenIs
<1>4. g[k] = Join(f[n], t[k])
  BY <1>1, <1>2, <1>3, CatNext
<1>5. QED
  BY <1>1, <1>2, <1>3, <1>4

\* What FlattenSeq makes of one sequence.
LEMMA FlattenOne ==
    ASSUME NEW t, Len(t) = 1
    PROVE  FlattenSeq(t) = t[1]
<1>1. PICK g : IsCat(t, 1, g) /\ FlattenSeq(t) = g[1]
  BY FlattenIs, 1 \in Nat \ {0}
<1>2. g[1] = t[1]
  BY <1>1 DEF IsCat
<1>3. QED
  BY <1>1, <1>2

\* The same as FlattenNext, where the one more is appended.
LEMMA FlattenAppend ==
    ASSUME NEW T, NEW s \in Seq(Seq(T)), NEW x \in Seq(T)
    PROVE  FlattenSeq(Append(s, x)) = FlattenSeq(s) \o x
<1>1. PICK n \in Nat : n = Len(s)
  BY LenProperties
<1>2. PICK t : t = Append(s, x)
  OBVIOUS
<1>3. Len(t) = n + 1 /\ t[n + 1] = x /\ \A i \in 1 .. n : t[i] = s[i]
  BY <1>1, <1>2, AppendProperties
<1>4. CASE n = 0
  <2>1. FlattenSeq(t) = x
    BY <1>3, <1>4, FlattenOne
  <2>2. s = <<>>
    BY <1>1, <1>4, EmptySeq
  <2>3. <<>> \o x = x
    BY ConcatEmptySeq
  <2>4. QED
    BY <1>2, <2>1, <2>2, <2>3, FlattenEmpty
<1>5. CASE n # 0
  <2>1. FlattenSeq(t) = Join(FlattenSeq(s), t[n + 1])
    BY <1>1, <1>3, <1>5, FlattenNext
  <2>2. FlattenSeq(t) = Join(FlattenSeq(s), x)
    BY <1>3, <2>1
  <2>3. QED
    BY <1>2, <2>2 DEF Join
<1>6. QED
  BY <1>4, <1>5

\* Induction over texts.
LEMMA InductOverTexts ==
    ASSUME NEW T, NEW Q, <<>> \in Q, \A s \in Seq(T), e \in T : s \in Q => Append(s, e) \in Q
    PROVE  Seq(T) \subseteq Q
<1> DEFINE S == {n \in Nat : \A s \in Seq(T) : Len(s) = n => s \in Q}
<1>1. 0 \in S
  <2>1. ASSUME NEW s \in Seq(T), Len(s) = 0 PROVE s = <<>>
    BY <2>1, EmptySeq
  <2>2. QED
    BY <2>1
<1>2. ASSUME NEW n \in Nat, n \in S PROVE n + 1 \in S
  <2>1. SUFFICES ASSUME NEW t \in Seq(T), Len(t) = n + 1 PROVE t \in Q
    OBVIOUS
  <2>2. t # <<>>
    BY <2>1
  <2>3. PICK s \in Seq(T), e \in T : t = Append(s, e)
    BY <2>2, SequenceEmptyOrAppend
  <2>4. Len(t) = Len(s) + 1 /\ Len(s) \in Nat
    BY <2>3, AppendProperties, LenProperties
  <2>5. Len(s) = n
    BY <2>1, <2>4
  <2>6. s \in Q
    BY <1>2, <2>5
  <2>7. QED
    BY <2>3, <2>6
<1> HIDE DEF S
<1>3. Nat \subseteq S
  BY <1>1, <1>2, Induct
<1>4. ASSUME NEW s \in Seq(T) PROVE s \in Q
  <2>1. Len(s) \in Nat
    BY LenProperties
  <2>2. Len(s) \in S
    BY <1>3, <2>1
  <2>3. QED
    BY <2>2 DEF S
<1>5. QED
  BY <1>4

\* What becomes of a text when each token is replaced by what a function says.
Spread(s, m) == FlattenSeq([i \in DOMAIN s |-> m[s[i]]])

\* Nothing comes of nothing.
LEMMA SpreadEmpty ==
    ASSUME NEW m
    PROVE  Spread(<<>>, m) = <<>>
<1>1. [i \in DOMAIN <<>> |-> m[<<>>[i]]] = <<>>
  OBVIOUS
<1>2. QED
  BY <1>1, FlattenEmpty DEF Spread

\* What comes of the last token stands at the end.
LEMMA SpreadAppend ==
    ASSUME NEW T, NEW U, NEW m \in [T -> Seq(U)], NEW s \in Seq(T), NEW e \in T
    PROVE  Spread(Append(s, e), m) = Spread(s, m) \o m[e]
<1>1. PICK n \in Nat : n = Len(s)
  BY LenProperties
<1>2. PICK t \in Seq(T) : t = Append(s, e)
  BY AppendProperties
<1>3. Len(t) = n + 1 /\ t[n + 1] = e /\ \A i \in 1 .. n : t[i] = s[i]
  BY <1>1, <1>2, AppendProperties
<1>4. DOMAIN s = 1 .. n /\ DOMAIN t = 1 .. n + 1
  BY <1>1, <1>3, LenProperties
<1>5. PICK ss : ss = [i \in 1 .. n |-> m[s[i]]]
  OBVIOUS
<1>6. \A i \in 1 .. n : s[i] \in T
  BY <1>1, ElementOfSeq
<1>7. ss \in Seq(Seq(U)) /\ Len(ss) = n
  BY <1>5, <1>6
<1>8. m[e] \in Seq(U)
  OBVIOUS
<1>9. [i \in 1 .. n + 1 |-> m[t[i]]] = Append(ss, m[e])
  <2>1. PICK x \in Seq(U) : x = m[e]
    BY <1>8
  <2>2. PICK r : r = Append(ss, x)
    OBVIOUS
  <2>3. r \in Seq(Seq(U)) /\ Len(r) = n + 1 /\ r[n + 1] = x /\ \A i \in 1 .. n : r[i] = ss[i]
    BY <1>7, <2>1, <2>2
  <2>4. DOMAIN r = 1 .. n + 1
    BY <2>3, LenProperties
  <2>5. r = [i \in 1 .. n + 1 |-> r[i]]
    BY <2>3, <2>4
  <2>6. ASSUME NEW i \in 1 .. n + 1 PROVE r[i] = m[t[i]]
    <3>1. CASE i \in 1 .. n
      BY <3>1, <2>3, <1>3, <1>5
    <3>2. CASE i = n + 1
      BY <3>2, <2>3, <2>1, <1>3
    <3>3. QED
      BY <3>1, <3>2
  <2>7. r = [i \in 1 .. n + 1 |-> m[t[i]]]
    BY <2>5, <2>6
  <2>8. QED
    BY <2>1, <2>2, <2>7
<1>10. FlattenSeq(Append(ss, m[e])) = FlattenSeq(ss) \o m[e]
  BY <1>7, <1>8, FlattenAppend
<1>11. Spread(s, m) = FlattenSeq(ss)
  BY <1>4, <1>5 DEF Spread
<1>12. Spread(t, m) = FlattenSeq(Append(ss, m[e]))
  BY <1>4, <1>9 DEF Spread
<1>13. QED
  BY <1>2, <1>10, <1>11, <1>12

\* Of a text comes a text.
LEMMA SpreadIsText ==
    ASSUME NEW T, NEW U, NEW m \in [T -> Seq(U)], NEW s \in Seq(T)
    PROVE  Spread(s, m) \in Seq(U)
<1> DEFINE Q == {t \in Seq(T) : Spread(t, m) \in Seq(U)}
<1>1. <<>> \in Q
  BY SpreadEmpty, EmptySeq
<1>2. ASSUME NEW t \in Seq(T), NEW e \in T, t \in Q PROVE Append(t, e) \in Q
  <2>1. Spread(Append(t, e), m) = Spread(t, m) \o m[e]
    BY SpreadAppend
  <2>2. Spread(t, m) \in Seq(U) /\ m[e] \in Seq(U)
    BY <1>2
  <2>3. Spread(t, m) \o m[e] \in Seq(U)
    BY <2>2, ConcatProperties
  <2>4. Append(t, e) \in Seq(T)
    BY AppendProperties
  <2>5. QED
    BY <2>1, <2>3, <2>4
<1> HIDE DEF Q
<1>3. Seq(T) \subseteq Q
  BY <1>1, <1>2, InductOverTexts
<1>4. QED
  BY <1>3 DEF Q

\* What comes of a single token.
LEMMA SpreadOne ==
    ASSUME NEW T, NEW U, NEW m \in [T -> Seq(U)], NEW e \in T
    PROVE  Spread(<<e>>, m) = m[e]
<1>1. <<>> \in Seq(T) /\ Append(<<>>, e) = <<e>>
  OBVIOUS
<1>2. Spread(Append(<<>>, e), m) = Spread(<<>>, m) \o m[e]
  BY <1>1, SpreadAppend
<1>3. m[e] \in Seq(U)
  OBVIOUS
<1>4. <<>> \o m[e] = m[e]
  BY <1>3, ConcatEmptySeq
<1>5. QED
  BY <1>1, <1>2, <1>4, SpreadEmpty

\* Texts one after the other are spread one after the other.
LEMMA SpreadConcat ==
    ASSUME NEW T, NEW U, NEW m \in [T -> Seq(U)], NEW s \in Seq(T), NEW t \in Seq(T)
    PROVE  Spread(s \o t, m) = Spread(s, m) \o Spread(t, m)
<1> DEFINE Q == {u \in Seq(T) : Spread(s \o u, m) = Spread(s, m) \o Spread(u, m)}
<1>0. Spread(s, m) \in Seq(U)
  BY SpreadIsText
<1>1. <<>> \in Q
  <2>1. s \o <<>> = s
    BY ConcatEmptySeq
  <2>2. Spread(s, m) \o <<>> = Spread(s, m)
    BY <1>0, ConcatEmptySeq
  <2>3. QED
    BY <2>1, <2>2, SpreadEmpty, EmptySeq
<1>2. ASSUME NEW u \in Seq(T), NEW e \in T, u \in Q PROVE Append(u, e) \in Q
  <2>1. Append(u, e) \in Seq(T) /\ s \o u \in Seq(T)
    BY AppendProperties, ConcatProperties
  <2>2. s \o Append(u, e) = Append(s \o u, e)
    <3>1. Append(u, e) = u \o <<e>> /\ Append(s \o u, e) = (s \o u) \o <<e>>
      BY <2>1, AppendIsConcat
    <3>2. <<e>> \in Seq(T)
      OBVIOUS
    <3>3. (s \o u) \o <<e>> = s \o (u \o <<e>>)
      BY <3>2, ConcatAssociative
    <3>4. QED
      BY <3>1, <3>3
  <2>3. Spread(Append(s \o u, e), m) = Spread(s \o u, m) \o m[e]
    BY <2>1, SpreadAppend
  <2>4. Spread(Append(u, e), m) = Spread(u, m) \o m[e]
    BY SpreadAppend
  <2>5. Spread(s \o u, m) = Spread(s, m) \o Spread(u, m)
    BY <1>2
  <2>6. Spread(u, m) \in Seq(U) /\ m[e] \in Seq(U)
    BY SpreadIsText
  <2>7. (Spread(s, m) \o Spread(u, m)) \o m[e] = Spread(s, m) \o (Spread(u, m) \o m[e])
    BY <1>0, <2>6, ConcatAssociative
  <2>8. Spread(s \o Append(u, e), m) = Spread(s, m) \o Spread(Append(u, e), m)
    BY <2>2, <2>3, <2>4, <2>5, <2>7
  <2>9. QED
    BY <2>1, <2>8
<1> HIDE DEF Q
<1>3. Seq(T) \subseteq Q
  BY <1>1, <1>2, InductOverTexts
<1>4. QED
  BY <1>3 DEF Q

\* To spread a text twice is to spread it once, element by element twice.
Combined(T, m, k, l, s) ==
    /\ m \in [T -> Seq(T)] /\ k \in [T -> Seq(T)] /\ l \in [T -> Seq(T)]
    /\ \A x \in T : l[x] = Spread(m[x], k)
    /\ s \in Seq(T)

\* To spread twice is to spread once, by what is spread of every token.
LEMMA SpreadSpread ==
    ASSUME NEW T, NEW m, NEW k, NEW l, NEW s, Combined(T, m, k, l, s)
    PROVE  Spread(Spread(s, m), k) = Spread(s, l)
<1>0. m \in [T -> Seq(T)] /\ k \in [T -> Seq(T)] /\ l \in [T -> Seq(T)] /\ s \in Seq(T)
  BY DEF Combined
<1> DEFINE Q == {t \in Seq(T) : Spread(Spread(t, m), k) = Spread(t, l)}
<1>1. <<>> \in Q
  BY SpreadEmpty, EmptySeq
<1>2. ASSUME NEW t \in Seq(T), NEW e \in T, t \in Q PROVE Append(t, e) \in Q
  <2>1. Spread(Append(t, e), m) = Spread(t, m) \o m[e]
    BY <1>0, SpreadAppend
  <2>2. Spread(t, m) \in Seq(T) /\ m[e] \in Seq(T)
    BY <1>0, SpreadIsText
  <2>3. ASSUME NEW a \in Seq(T), NEW b \in Seq(T)
        PROVE  Spread(a \o b, k) = Spread(a, k) \o Spread(b, k)
    BY <1>0, SpreadConcat
  <2>4. Spread(Append(t, e), l) = Spread(t, l) \o l[e]
    BY <1>0, SpreadAppend
  <2>5. l[e] = Spread(m[e], k)
    BY DEF Combined
  <2>6. Spread(Spread(t, m), k) = Spread(t, l)
    BY <1>2
  <2>7. Spread(Spread(Append(t, e), m), k) = Spread(Append(t, e), l)
    BY <2>1, <2>2, <2>3, <2>4, <2>5, <2>6
  <2>8. Append(t, e) \in Seq(T)
    BY AppendProperties
  <2>9. QED
    BY <2>7, <2>8
<1> HIDE DEF Q
<1>3. Seq(T) \subseteq Q
  BY <1>1, <1>2, InductOverTexts
<1>4. QED
  BY <1>0, <1>3 DEF Q

\* Only what the tokens of the text are replaced by matters.
LEMMA SpreadSame ==
    ASSUME NEW T, NEW s \in Seq(T), NEW m, NEW k, \A x \in Range(s) : m[x] = k[x]
    PROVE  Spread(s, m) = Spread(s, k)
<1>1. \A i \in DOMAIN s : s[i] \in Range(s)
  BY DEF Range
<1>2. [i \in DOMAIN s |-> m[s[i]]] = [i \in DOMAIN s |-> k[s[i]]]
  BY <1>1
<1>3. QED
  BY <1>2 DEF Spread

\* A token of the result has come of a token of the text.
LEMMA SpreadRange ==
    ASSUME NEW T, NEW U, NEW m \in [T -> Seq(U)], NEW s \in Seq(T), NEW y
    PROVE  y \in Range(Spread(s, m)) <=> \E x \in Range(s) : y \in Range(m[x])
<1> DEFINE Q == {t \in Seq(T) : y \in Range(Spread(t, m)) <=> \E x \in Range(t) : y \in Range(m[x])}
<1>1. <<>> \in Q
  <2>1. Range(<<>>) = {}
    BY DEF Range
  <2>2. QED
    BY <2>1, SpreadEmpty, EmptySeq
<1>2. ASSUME NEW t \in Seq(T), NEW e \in T, t \in Q PROVE Append(t, e) \in Q
  <2>1. Spread(Append(t, e), m) = Spread(t, m) \o m[e]
    BY SpreadAppend
  <2>2. Spread(t, m) \in Seq(U) /\ m[e] \in Seq(U)
    BY SpreadIsText
  <2>3. Range(Spread(t, m) \o m[e]) = Range(Spread(t, m)) \cup Range(m[e])
    BY <2>2, RangeConcatenation
  <2>4. Range(Append(t, e)) = Range(t) \cup {e}
    <3>1. <<e>> \in Seq(T) /\ Append(t, e) = t \o <<e>>
      BY AppendIsConcat
    <3>2. Range(t \o <<e>>) = Range(t) \cup Range(<<e>>)
      BY <3>1, RangeConcatenation
    <3>3. Range(<<e>>) = {e}
      BY DEF Range
    <3>4. QED
      BY <3>1, <3>2, <3>3
  <2>5. y \in Range(Spread(t, m)) <=> \E x \in Range(t) : y \in Range(m[x])
    BY <1>2
  <2>6. Append(t, e) \in Seq(T)
    BY AppendProperties
  <2>7. y \in Range(Spread(Append(t, e), m)) <=> y \in Range(Spread(t, m)) \/ y \in Range(m[e])
    <3>1. PICK u : u = Spread(Append(t, e), m)
      OBVIOUS
    <3>2. PICK v : v = Spread(t, m) \o m[e]
      OBVIOUS
    <3>3. u = v /\ Range(v) = Range(Spread(t, m)) \cup Range(m[e])
      BY <2>1, <2>3, <3>1, <3>2
    <3>4. QED
      BY <3>1, <3>3
  <2>8. (\E x \in Range(Append(t, e)) : y \in Range(m[x]))
        <=> (\E x \in Range(t) : y \in Range(m[x])) \/ y \in Range(m[e])
    BY <2>4
  <2>9. QED
    BY <2>5, <2>6, <2>7, <2>8
<1> HIDE DEF Q
<1>3. Seq(T) \subseteq Q
  BY <1>1, <1>2, InductOverTexts
<1>4. QED
  BY <1>3 DEF Q

\* A text in which no token is replaced by another stays as it is.
LEMMA SpreadIdentity ==
    ASSUME NEW T, NEW s \in Seq(T), NEW m, \A x \in Range(s) : m[x] = <<x>>
    PROVE  Spread(s, m) = s
<1>0. PICK k \in [T -> Seq(T)] : k = [x \in T |-> <<x>>]
  <2>1. \A x \in T : <<x>> \in Seq(T)
    OBVIOUS
  <2>2. [x \in T |-> <<x>>] \in [T -> Seq(T)]
    BY <2>1
  <2>3. QED
    BY <2>2
<1>1. Range(s) \subseteq T
  BY RangeOfSeq
<1>2. Spread(s, m) = Spread(s, k)
  BY <1>0, <1>1, SpreadSame
<1> DEFINE Q == {t \in Seq(T) : Spread(t, k) = t}
<1>3. <<>> \in Q
  BY SpreadEmpty, EmptySeq
<1>4. ASSUME NEW t \in Seq(T), NEW e \in T, t \in Q PROVE Append(t, e) \in Q
  <2>1. Spread(Append(t, e), k) = Spread(t, k) \o k[e]
    BY SpreadAppend
  <2>2. k[e] = <<e>> /\ Append(t, e) = t \o <<e>>
    BY <1>0, AppendIsConcat
  <2>3. Append(t, e) \in Seq(T)
    BY AppendProperties
  <2>4. QED
    BY <2>1, <2>2, <2>3, <1>4
<1> HIDE DEF Q
<1>5. Seq(T) \subseteq Q
  BY <1>3, <1>4, InductOverTexts
<1>6. QED
  BY <1>2, <1>5 DEF Q

-------------------------------------------------------------------------------
(***************************************************************************)
(* ReplacementPatterns.                                                    *)
(***************************************************************************)
\* What a token of the replacement contributes.
Piece(u, i, match, before, after) ==
    CASE Active(u, i) -> (CASE u[i + 1] = Dollar     -> <<Dollar>>
                            [] u[i + 1] = Ampersand  -> match
                            [] u[i + 1] = Backtick   -> before
                            [] u[i + 1] = Apostrophe -> after)
      [] i > 1 /\ Active(u, i - 1) -> <<>>
      [] OTHER -> <<u[i]>>

\* It is one of these.
LEMMA PieceIs ==
    ASSUME NEW u, NEW i, NEW match, NEW before, NEW after
    PROVE  Piece(u, i, match, before, after) \in {<<u[i]>>, <<>>, match, before, after}
<1>1. Active(u, i) => u[i] = Dollar /\ u[i + 1] \in {Dollar, Ampersand, Backtick, Apostrophe}
  BY DEF Active, Signs
<1>2. CASE Active(u, i)
  BY <1>1, <1>2, SignsAssumption DEF Piece
<1>3. CASE ~Active(u, i)
  BY <1>3 DEF Piece
<1>4. QED
  BY <1>2, <1>3

\* A replacement is read token by token.
LEMMA ReadingIs ==
    ASSUME NEW u, NEW match, NEW before, NEW after
    PROVE  Reading(u, match, before, after) = FlattenSeq([i \in DOMAIN u |-> Piece(u, i, match, before, after)])
BY DEF Reading, Piece

\* What is read is a text if its parts are.
LEMMA ReadingIsText ==
    ASSUME NEW T, NEW u \in Seq(T), NEW match \in Seq(T), NEW before \in Seq(T), NEW after \in Seq(T)
    PROVE  Reading(u, match, before, after) \in Seq(T)
<1>1. PICK n \in Nat : n = Len(u) /\ DOMAIN u = 1 .. n
  BY LenProperties
<1>2. ASSUME NEW i \in 1 .. n PROVE Piece(u, i, match, before, after) \in Seq(T)
  <2>1. u[i] \in T
    BY <1>1, ElementOfSeq
  <2>2. <<u[i]>> \in Seq(T) /\ <<>> \in Seq(T)
    BY <2>1
  <2>3. PICK p : p = Piece(u, i, match, before, after)
    OBVIOUS
  <2>4. p \in {<<u[i]>>, <<>>, match, before, after}
    BY <2>3, PieceIs
  <2>5. PICK one \in Seq(T) : one = <<u[i]>>
    BY <2>2
  <2>6. PICK none \in Seq(T) : none = <<>>
    BY <2>2
  <2>7. p \in {one, none, match, before, after}
    BY <2>4, <2>5, <2>6
  <2>8. QED
    BY <2>3, <2>7
<1>3. PICK m \in [1 .. n -> Seq(T)] : m = [i \in 1 .. n |-> Piece(u, i, match, before, after)]
  BY <1>2
<1>4. PICK places \in Seq(1 .. n) : places = [i \in 1 .. n |-> i] /\ DOMAIN places = 1 .. n
  <2>1. [i \in 1 .. n |-> i] \in [1 .. n -> 1 .. n]
    OBVIOUS
  <2>2. \E k \in Nat : [i \in 1 .. n |-> i] \in [1 .. k -> 1 .. n]
    BY <2>1
  <2>3. [i \in 1 .. n |-> i] \in Seq(1 .. n)
    BY <2>2, SeqDef
  <2>4. QED
    BY <2>3
<1>5. [i \in DOMAIN places |-> m[places[i]]] = [i \in DOMAIN u |-> Piece(u, i, match, before, after)]
  BY <1>1, <1>3, <1>4
<1>6. Reading(u, match, before, after) = Spread(places, m)
  BY <1>5, ReadingIs DEF Spread
<1>7. QED
  BY <1>6, SpreadIsText

\* Without a pattern a replacement is inserted as it stands.
LEMMA ReadingOfPlain ==
    ASSUME NEW T, NEW u \in Seq(T), NEW match, NEW before, NEW after,
           \A i \in DOMAIN u : u[i] = Dollar => i + 1 \in DOMAIN u /\ u[i + 1] \notin Signs
    PROVE  Reading(u, match, before, after) = u
<1>1. PICK n \in Nat : n = Len(u) /\ DOMAIN u = 1 .. n
  BY LenProperties
<1>2. ASSUME NEW i \in 1 .. n PROVE Piece(u, i, match, before, after) = <<u[i]>>
  <2>1. ~Active(u, i)
    BY <1>1 DEF Active
  <2>2. i > 1 => ~Active(u, i - 1)
    <3>1. i > 1 => i - 1 \in DOMAIN u
      BY <1>1
    <3>2. QED
      BY <3>1 DEF Active
  <2>3. QED
    BY <2>1, <2>2 DEF Piece
<1>3. PICK m : m = [x \in T |-> <<x>>]
  OBVIOUS
<1>4. \A i \in 1 .. n : u[i] \in T
  BY <1>1, ElementOfSeq
<1>5. [i \in DOMAIN u |-> Piece(u, i, match, before, after)] = [i \in DOMAIN u |-> m[u[i]]]
  BY <1>1, <1>2, <1>3, <1>4
<1>6. Reading(u, match, before, after) = Spread(u, m)
  BY <1>5, ReadingIs DEF Spread
<1>7. \A x \in Range(u) : m[x] = <<x>>
  <2>1. Range(u) \subseteq T
    BY RangeOfSeq
  <2>2. QED
    BY <1>3, <2>1
<1>8. QED
  BY <1>6, <1>7, SpreadIdentity

\* A self-contained one is read everywhere alike.
LEMMA ReadingOfSelfContained ==
    ASSUME NEW u, SelfContained(u), NEW match, NEW before, NEW after
    PROVE  Reading(u, match, before, after) = Unescaped(u)
<1>1. ASSUME NEW i \in DOMAIN u
      PROVE  Piece(u, i, match, before, after) = Piece(u, i, <<>>, <<>>, <<>>)
  <2>1. CASE Active(u, i)
    <3>1. u[i + 1] = Dollar
      BY <2>1 DEF SelfContained
    <3>2. QED
      BY <2>1, <3>1, SignsAssumption DEF Piece
  <2>2. CASE ~Active(u, i)
    BY <2>2 DEF Piece
  <2>3. QED
    BY <2>1, <2>2
<1>2. [i \in DOMAIN u |-> Piece(u, i, match, before, after)] = [i \in DOMAIN u |-> Piece(u, i, <<>>, <<>>, <<>>)]
  BY <1>1
<1>3. QED
  BY <1>2, ReadingIs DEF Unescaped

\* Reading its pairs of dollars adds nothing to a text.
LEMMA UnescapedIsText ==
    ASSUME NEW T, NEW u \in Seq(T)
    PROVE  Unescaped(u) \in Seq(T) /\ Range(Unescaped(u)) \subseteq Range(u)
<1>1. PICK U : U = Range(u)
  OBVIOUS
<1>2. u \in Seq(U)
  <2>1. PICK n \in Nat : n = Len(u) /\ DOMAIN u = 1 .. n
    BY LenProperties
  <2>2. \A i \in 1 .. n : u[i] \in U
    BY <1>1, <2>1 DEF Range
  <2>3. u = [i \in 1 .. n |-> u[i]]
    BY <2>1
  <2>4. QED
    BY <2>2, <2>3
<1>3. <<>> \in Seq(T) /\ <<>> \in Seq(U)
  OBVIOUS
<1>4. Unescaped(u) \in Seq(T)
  BY <1>3, ReadingIsText DEF Unescaped
<1>5. Unescaped(u) \in Seq(U)
  BY <1>2, <1>3, ReadingIsText DEF Unescaped
<1>6. QED
  BY <1>1, <1>4, <1>5, RangeOfSeq

-------------------------------------------------------------------------------
(***************************************************************************)
(* ServePrompt: the recursion is bounded.                                  *)
(***************************************************************************)
\* The tokens of a catalog's texts.
Parts == Literals \cup Reference

Offsets == {0} \cup {Start(words, i) + RefLength : words \in Text, i \in Nat}

AnyFrame == [ref     : Reference,
             project : Projects,
             text    : Text,
             pos     : Offsets,
             seen    : SUBSET (Projects \X Prompts),
             errors  : SUBSET Reference]

Typed ==
    /\ catalog \in [Prompts -> Versions]
    /\ stack \in Seq(AnyFrame)

\* What processedPrompts holds of a nested call.
KeyOf(frame) == <<Home[frame.ref.prompt], frame.ref.prompt>>

\* Every call knows the nested calls it runs inside of, and itself.
PathsAreSeen ==
    \A j \in 2 .. Len(stack) : \A i \in 2 .. j : KeyOf(stack[i]) \in stack[j].seen

Inductive == Typed /\ PathsAreSeen /\ BoundedDepth

-------------------------------------------------------------------------------
\* A version that is found has a text.
LEMMA TextIsText ==
    ASSUME catalog \in [Prompts -> Versions], NEW r \in Reference, Candidates(r) # {}
    PROVE  TextOf(r) \in Text
<1>1. catalog[r.prompt] \in Versions
  BY DEF Reference
<1>2. Candidates(r) \subseteq DOMAIN catalog[r.prompt]
  BY DEF Candidates
<1>3. DOMAIN catalog[r.prompt] = 1 .. Len(catalog[r.prompt])
  BY <1>1 DEF Versions
<1>4. Min(Candidates(r)) \in DOMAIN catalog[r.prompt]
  BY <1>2, <1>3, MinIsElement
<1>5. ASSUME NEW versions \in Versions, NEW i \in 1 .. Len(versions)
      PROVE  versions[i].text \in Text
  <2>1. versions[i] \in [tag : Tags, active : BOOLEAN, text : Text]
    BY ElementOfSeq DEF Versions
  <2>2. QED
    BY <2>1
<1>6. QED
  BY <1>1, <1>3, <1>4, <1>5 DEF TextOf

\* A spliced text is a text.
LEMMA SpliceIsText ==
    ASSUME NEW words \in Text, NEW r \in Reference, NEW replacement \in Text
    PROVE  Splice(words, r, replacement) \in Text
<1> DEFINE found == {j \in 1 .. Len(words) : words[j] = r}
           i == SelectInSeq(words, LAMBDA token : token = r)
<1>1. i \in 0 .. Len(words)
  <2>1. found # {} => Min(found) \in 1 .. Len(words)
    <3>1. found \subseteq 1 .. Len(words) /\ found \subseteq Nat
      OBVIOUS
    <3> HIDE DEF found
    <3>2. QED
      BY <3>1, MinIsElement
  <2>2. i = IF found # {} THEN Min(found) ELSE 0
    BY DEF SelectInSeq
  <2>3. QED
    BY <2>1, <2>2 DEF Text
<1>2. PICK before : before = SubSeq(words, 1, i - 1)
  OBVIOUS
<1>3. PICK after : after = SubSeq(words, i + 1, Len(words))
  OBVIOUS
<1>4. Splice(words, r, replacement) = before \o Reading(replacement, <<r>>, before, after) \o after
  BY <1>2, <1>3 DEF Splice
<1> HIDE DEF i
<1>5. before \in Seq(Parts) /\ after \in Seq(Parts)
  BY <1>1, <1>2, <1>3, SubSeqProperties DEF Text, Parts
<1>6. PICK match \in Seq(Parts) : match = <<r>>
  <2>1. r \in Parts
    BY DEF Parts
  <2>2. <<r>> \in Seq(Parts)
    BY <2>1
  <2>3. QED
    BY <2>2
<1>7. Reading(replacement, match, before, after) \in Seq(Parts)
  BY <1>5, ReadingIsText DEF Text, Parts
<1>8. PICK read \in Seq(Parts) : read = Reading(replacement, match, before, after)
  BY <1>7
<1>9. before \o read \o after \in Seq(Parts)
  BY <1>5, ConcatProperties
<1>10. QED
  BY <1>4, <1>6, <1>8, <1>9 DEF Text, Parts

-------------------------------------------------------------------------------
\* A frame's next reference is a reference, and its key is well typed.
LEMMA PendingReference ==
    ASSUME Typed, Searching
    PROVE  /\ Top \in AnyFrame
           /\ Match \in 1 .. Len(Top.text)
           /\ Ref \in Reference
           /\ Key(Top, Ref) \in Projects \X Prompts
<1>1. Top \in AnyFrame
  BY ElementOfSeq DEF Typed, Searching, Top, Last
<1>2. Top.text \in Seq(Literals \cup Reference)
  BY <1>1 DEF AnyFrame, Text
<1>3. Match \in Pending(Top)
  <2>1. Pending(Top) \subseteq Nat
    BY <1>2 DEF Pending
  <2>2. QED
    BY <2>1, MinIsElement DEF Searching, Match
<1>4. Match \in 1 .. Len(Top.text) /\ Ref \notin Literals
  BY <1>2, <1>3 DEF Pending, Ref, IsReference
<1>5. Ref \in Reference
  BY <1>2, <1>4, ElementOfSeq DEF Ref
<1>6. Key(Top, Ref) \in Projects \X Prompts
  BY <1>1, <1>5 DEF AnyFrame, Reference, Key, ProjectOf
<1>7. QED
  BY <1>1, <1>4, <1>5, <1>6

\* Taking up a reference moves lastIndex and adds the key, nothing else.
LEMMA AdvancedFrame ==
    ASSUME Typed, Searching
    PROVE  /\ Advanced \in AnyFrame
           /\ Advanced.ref = Top.ref
           /\ Advanced.seen = Top.seen \cup {Key(Top, Ref)}
<1>1. Top \in AnyFrame /\ Match \in Nat /\ Key(Top, Ref) \in Projects \X Prompts
  BY PendingReference
<1>2. Start(Top.text, Match) + RefLength \in Offsets
  BY <1>1 DEF AnyFrame, Offsets
<1>3. QED
  BY <1>1, <1>2 DEF AnyFrame, Advanced

\* What a sequence without its last element is.
LEMMA FrontIsPrefix ==
    ASSUME NEW S, NEW s \in Seq(S), Len(s) > 0
    PROVE  /\ Front(s) \in Seq(S)
           /\ Len(Front(s)) = Len(s) - 1
           /\ \A i \in 1 .. Len(s) - 1 : Front(s)[i] = s[i]
<1>1. ASSUME NEW n \in Nat, n =< Len(s)
      PROVE  /\ SubSeq(s, 1, n) \in Seq(S)
             /\ Len(SubSeq(s, 1, n)) = n
             /\ \A i \in 1 .. n : SubSeq(s, 1, n)[i] = s[i]
  <2>1. 1 \in Int /\ n \in Int
    OBVIOUS
  <2>2. ASSUME NEW i \in 1 .. n PROVE s[i] \in S
    <3>1. i \in 1 .. Len(s)
      BY <1>1, LenProperties
    <3>2. QED
      BY <3>1, ElementOfSeq, Zenon
  <2>3. /\ SubSeq(s, 1, n) \in Seq(S)
        /\ Len(SubSeq(s, 1, n)) = IF 1 <= n THEN n - 1 + 1 ELSE 0
        /\ \A i \in 1 .. n - 1 + 1 : SubSeq(s, 1, n)[i] = s[1 + i - 1]
    BY <2>1, <2>2, SubSeqProperties
  <2>4. QED
    BY <2>3, <1>1
<1>2. Len(s) - 1 \in Nat /\ Len(s) - 1 =< Len(s)
  OBVIOUS
<1>3. Front(s) = SubSeq(s, 1, Len(s) - 1)
  BY DEF Front
<1>4. QED
  BY <1>1, <1>2, <1>3, Zenon

\* Replacing the last element.
LEMMA Restacked ==
    ASSUME NEW S, NEW s \in Seq(S), Len(s) > 0, NEW x \in S
    PROVE  /\ Front(s) \o <<x>> \in Seq(S)
           /\ Len(Front(s) \o <<x>>) = Len(s)
           /\ \A i \in 1 .. Len(s) :
                 (Front(s) \o <<x>>)[i] = IF i = Len(s) THEN x ELSE s[i]
<1>1. <<x>> \in Seq(S) /\ Len(<<x>>) = 1 /\ <<x>>[1] = x
  OBVIOUS
<1>2. QED
  BY <1>1, FrontIsPrefix, ConcatProperties

-------------------------------------------------------------------------------
\* The first call: nothing is nested yet.
LEMMA RequestPreserves ==
    ASSUME Inductive, NEW r \in Reference, Request(r)
    PROVE  Inductive'
<1> DEFINE root == [ref |-> r, project |-> r.project, text |-> TextOf(r), pos |-> 0,
                    seen |-> {}, errors |-> {}]
<1>1. r.project \in Projects
  BY HomeAssumption DEF Request, Found, Reference
<1>2. TextOf(r) \in Text
  BY TextIsText DEF Request, Found, Inductive, Typed
<1>3. root \in AnyFrame
  BY <1>1, <1>2 DEF AnyFrame, Offsets
<1> HIDE DEF root
<1>4. stack' = <<root>> /\ catalog' = catalog
  BY DEF Request, root
<1>5. stack' \in Seq(AnyFrame) /\ Len(stack') = 1
  BY <1>3, <1>4
<1>6. QED
  BY <1>4, <1>5, DepthAssumption DEF Inductive, Typed, PathsAreSeen, BoundedDepth

\* The call in progress goes on with another frame of the same prompt that has
\* seen at least as much.
LEMMA TopChanges ==
    ASSUME Inductive, NEW frame \in AnyFrame,
           stack # <<>>, frame.ref = Top.ref, Top.seen \subseteq frame.seen,
           stack' = Front(stack) \o <<frame>>, catalog' = catalog
    PROVE  Inductive'
<1>1. /\ stack \in Seq(AnyFrame)
      /\ Len(stack) \in Nat \ {0}
      /\ Top = stack[Len(stack)]
  BY DEF Inductive, Typed, Top, Last
<1>2. /\ stack' \in Seq(AnyFrame)
      /\ Len(stack') = Len(stack)
      /\ \A i \in 1 .. Len(stack) : /\ stack'[i].ref = stack[i].ref
                                    /\ stack[i].seen \subseteq stack'[i].seen
  BY <1>1, Restacked
<1>3. PathsAreSeen'
  BY <1>1, <1>2 DEF Inductive, PathsAreSeen, KeyOf
<1>4. BoundedDepth'
  BY <1>1, <1>2 DEF Inductive, BoundedDepth
<1>5. QED
  BY <1>2, <1>3, <1>4 DEF Inductive, Typed

\* Only the metadata of the call in progress changes.
LEMMA NestedCallFailsPreserves ==
    ASSUME Inductive, NestedCallFails
    PROVE  Inductive'
<1> DEFINE frame == [Advanced EXCEPT !.errors = Advanced.errors \cup {Ref}]
<1>1. Typed /\ Searching
  BY DEF Inductive, NestedCallFails
<1>2. Ref \in Reference /\ Advanced \in AnyFrame /\ Advanced.ref = Top.ref
      /\ Top.seen \subseteq Advanced.seen
  BY <1>1, PendingReference, AdvancedFrame
<1>3. frame \in AnyFrame /\ frame.ref = Top.ref /\ Top.seen \subseteq frame.seen
  BY <1>2 DEF AnyFrame
<1>4. stack # <<>> /\ stack' = Front(stack) \o <<frame>> /\ catalog' = catalog
  BY DEF NestedCallFails, Searching
<1> HIDE DEF frame
<1>5. QED
  BY <1>3, <1>4, TopChanges

\* A nested call: its key is new to the caller, so its prompt is none of those
\* the caller is nested in, and the depth check leaves room for it.
LEMMA EnterPreserves ==
    ASSUME Inductive, Enter
    PROVE  Inductive'
<1> DEFINE n == Len(stack)
           base == Front(stack) \o <<Advanced>>
           child == Child(Ref)
<1>1. Typed /\ Searching /\ n \in Nat \ {0} /\ n < MaxDepth /\ stack \in Seq(AnyFrame)
      /\ Top = stack[n] /\ MaxDepth \in Nat
  BY DepthAssumption DEF Inductive, Typed, Enter, Searching, TooDeep, Top, Last
<1>2. /\ Ref \in Reference
      /\ Advanced \in AnyFrame
      /\ Advanced.ref = Top.ref
      /\ Advanced.seen = Top.seen \cup {Key(Top, Ref)}
  BY <1>1, PendingReference, AdvancedFrame
<1>3. Candidates(Ref) # {} /\ ProjectOf(Top, Ref) = Home[Ref.prompt]
  BY DEF Enter, Found
<1>4. child \in AnyFrame /\ child.ref = Ref /\ child.seen = Advanced.seen
  <2>1. TextOf(Ref) \in Text
    BY <1>1, <1>2, <1>3, TextIsText DEF Typed
  <2>2. Home[Ref.prompt] \in Projects
    BY <1>2, HomeAssumption DEF Reference
  <2>3. Advanced.seen \in SUBSET (Projects \X Prompts)
    BY <1>2 DEF AnyFrame
  <2>4. QED
    BY <1>2, <2>1, <2>2, <2>3 DEF Child, AnyFrame, Offsets
<1>5. /\ base \in Seq(AnyFrame)
      /\ Len(base) = n
      /\ \A i \in 1 .. n : base[i] = IF i = n THEN Advanced ELSE stack[i]
  BY <1>1, <1>2, Restacked
<1>6. /\ stack' = Append(base, child)
      /\ catalog' = catalog
  BY DEF Enter
<1>7. Key(Top, Ref) = KeyOf(child)
  BY <1>3, <1>4 DEF Key, KeyOf
<1>8. Key(Top, Ref) \notin Top.seen
  BY DEF Enter, Circular
<1> HIDE DEF n, base, child
<1>9. /\ stack' \in Seq(AnyFrame)
      /\ Len(stack') = n + 1
      /\ stack'[n + 1] = child
      /\ \A i \in 1 .. n : stack'[i] = IF i = n THEN Advanced ELSE stack[i]
  BY <1>4, <1>5, <1>6, AppendProperties
<1>10. \A i \in 1 .. n : /\ stack'[i].ref = stack[i].ref
                         /\ stack[i].seen \subseteq stack'[i].seen
  BY <1>1, <1>2, <1>9
<1>11. PathsAreSeen'
  <2>1. ASSUME NEW j \in 2 .. n + 1, NEW i \in 2 .. j
        PROVE  KeyOf(stack'[i]) \in stack'[j].seen
    <3>1. CASE j =< n
      BY <1>1, <1>10, <3>1 DEF Inductive, PathsAreSeen, KeyOf, n
    <3>2. CASE j = n + 1 /\ i = n + 1
      BY <1>2, <1>4, <1>7, <1>9, <3>2
    <3>3. CASE j = n + 1 /\ i =< n
      <4>1. KeyOf(stack[i]) \in stack[n].seen
        BY <1>1, <3>3 DEF Inductive, PathsAreSeen, n
      <4>2. KeyOf(stack'[i]) = KeyOf(stack[i])
        BY <1>1, <1>10, <3>3 DEF KeyOf
      <4>3. QED
        BY <1>1, <1>2, <1>4, <1>9, <3>3, <4>1, <4>2
    <3>4. QED
      BY <1>1, <3>1, <3>2, <3>3
  <2>2. QED
    BY <1>9, <2>1 DEF PathsAreSeen, KeyOf
<1>12. BoundedDepth'
  <2>1. ASSUME NEW i \in 2 .. n
        PROVE  stack'[i].ref.prompt # Ref.prompt
    <3>1. KeyOf(stack[i]) \in stack[n].seen
      BY <1>1 DEF Inductive, PathsAreSeen, n
    <3>2. KeyOf(stack[i]) # KeyOf(child)
      BY <1>1, <1>7, <1>8, <3>1
    <3>3. stack[i].ref.prompt # Ref.prompt
      BY <1>4, <3>2 DEF KeyOf
    <3>4. QED
      BY <1>1, <1>10, <3>3
  <2>2. ASSUME NEW i \in 2 .. n, NEW j \in 2 .. n, i # j
        PROVE  stack'[i].ref.prompt # stack'[j].ref.prompt
    BY <1>1, <1>10, <2>2 DEF Inductive, BoundedDepth, n
  <2>3. stack'[n + 1].ref.prompt = Ref.prompt
    BY <1>4, <1>9
  <2>4. ASSUME NEW i \in 2 .. n + 1, NEW j \in 2 .. n + 1, i # j
        PROVE  stack'[i].ref.prompt # stack'[j].ref.prompt
    <3>1. CASE i = n + 1
      BY <1>1, <2>1, <2>3, <2>4, <3>1
    <3>2. CASE j = n + 1
      BY <1>1, <2>1, <2>3, <2>4, <3>2
    <3>3. CASE i # n + 1 /\ j # n + 1
      BY <1>1, <2>2, <2>4, <3>3
    <3>4. QED
      BY <3>1, <3>2, <3>3
  <2>5. QED
    BY <1>1, <1>9, <2>4 DEF BoundedDepth
<1>13. QED
  BY <1>1, <1>6, <1>9, <1>11, <1>12 DEF Inductive, Typed

\* The caller goes on where it was, with a longer or shorter text.
LEMMA ReturnPreserves ==
    ASSUME Inductive, Return
    PROVE  Inductive'
<1> DEFINE n == Len(stack)
           rest == Front(stack)
           caller == Last(rest)
           resumed == Resumed(caller, Top)
<1>1. Typed /\ stack \in Seq(AnyFrame) /\ n \in Nat /\ n > 1 /\ Top = stack[n]
  BY DEF Inductive, Typed, Return, Top, Last
<1>2. /\ rest \in Seq(AnyFrame)
      /\ Len(rest) = n - 1
      /\ \A i \in 1 .. n - 1 : rest[i] = stack[i]
  BY <1>1, FrontIsPrefix
<1>3. caller = stack[n - 1] /\ caller \in AnyFrame /\ Top \in AnyFrame
  <2>1. n - 1 \in 1 .. n - 1 /\ n - 1 \in 1 .. n /\ n \in 1 .. n
    BY <1>1
  <2>2. stack[n - 1] \in AnyFrame /\ stack[n] \in AnyFrame
    BY <1>1, <2>1, ElementOfSeq
  <2>3. QED
    BY <1>1, <1>2, <2>1, <2>2 DEF Last
<1>4. resumed \in AnyFrame /\ resumed.ref = caller.ref /\ resumed.seen = caller.seen
  <2> DEFINE words == Splice(caller.text, Top.ref, Top.text)
  <2>1. words \in Text
    BY <1>3, SpliceIsText DEF AnyFrame
  <2>2. resumed = [caller EXCEPT !.text = words, !.errors = caller.errors \cup Top.errors]
    BY <1>3 DEF Resumed, AnyFrame
  <2> HIDE DEF words, resumed, caller
  <2>3. QED
    BY <1>3, <2>1, <2>2 DEF AnyFrame
<1>5. stack' = Front(rest) \o <<resumed>> /\ catalog' = catalog
  BY DEF Return
<1> HIDE DEF n, rest, caller, resumed
<1>6. /\ stack' \in Seq(AnyFrame)
      /\ Len(stack') = n - 1
      /\ \A i \in 1 .. n - 1 : stack'[i] = IF i = n - 1 THEN resumed ELSE stack[i]
  BY <1>1, <1>2, <1>4, <1>5, Restacked
<1>7. \A i \in 1 .. n - 1 : stack'[i].ref = stack[i].ref /\ stack'[i].seen = stack[i].seen
  BY <1>1, <1>3, <1>4, <1>6
<1>8. PathsAreSeen'
  BY <1>1, <1>6, <1>7 DEF Inductive, PathsAreSeen, KeyOf, n
<1>9. BoundedDepth'
  <2>1. Len(stack') <= MaxDepth
    BY <1>1, <1>6, DepthAssumption DEF Inductive, BoundedDepth, n
  <2>2. ASSUME NEW i \in 2 .. Len(stack'), NEW j \in 2 .. Len(stack'), i # j
        PROVE  stack'[i].ref.prompt # stack'[j].ref.prompt
    BY <1>1, <1>6, <1>7, <2>2 DEF Inductive, BoundedDepth, n
  <2>3. QED
    BY <2>1, <2>2 DEF BoundedDepth
<1>10. QED
  BY <1>1, <1>5, <1>6, <1>8, <1>9 DEF Inductive, Typed

\* No call is in progress any more.
LEMMA EndPreserves ==
    ASSUME Inductive, stack' = <<>>, catalog' = catalog
    PROVE  Inductive'
<1>1. stack' \in Seq(AnyFrame) /\ Len(stack') = 0
  OBVIOUS
<1>2. QED
  BY <1>1, DepthAssumption DEF Inductive, Typed, PathsAreSeen, BoundedDepth

\* The calls in progress do not notice that the catalog changes.
LEMMA CatalogPreserves ==
    ASSUME Inductive, stack' = stack, catalog' \in [Prompts -> Versions]
    PROVE  Inductive'
BY DEF Inductive, Typed, PathsAreSeen, BoundedDepth, KeyOf

-------------------------------------------------------------------------------
\* The inductive invariant holds of every reachable state.
LEMMA InductiveHolds == Spec => []Inductive
<1>1. Init => Inductive
  <2>1. SUFFICES ASSUME Init PROVE Inductive
    OBVIOUS
  <2>2. catalog \in [Prompts -> Versions]
    BY <2>1, CatalogAssumption DEF Init
  <2>3. stack = <<>>
    BY <2>1 DEF Init
  <2>4. stack \in Seq(AnyFrame) /\ Len(stack) = 0
    BY <2>3
  <2>5. QED
    BY <2>2, <2>4, DepthAssumption DEF Inductive, Typed, PathsAreSeen, BoundedDepth
<1>2. Inductive /\ [Next]_vars => Inductive'
  <2>1. SUFFICES ASSUME Inductive, [Next]_vars PROVE Inductive'
    OBVIOUS
  <2>2. ASSUME NEW project \in Projects, NEW p \in Prompts, NEW tag \in Tags \cup {NULL},
               NEW r, r = [project |-> project, prompt |-> p, tag |-> tag, language |-> NULL],
               Request(r) \/ RequestRaw(r) \/ RequestRefused(r)
        PROVE  Inductive'
    <3>1. r \in Reference
      BY <2>2 DEF Reference
    <3>2. CASE Request(r)
      BY <2>1, <3>1, <3>2, RequestPreserves
    <3>3. CASE RequestRaw(r) \/ RequestRefused(r)
      BY <2>1, <3>3, CatalogPreserves DEF RequestRaw, RequestRefused, Inductive, Typed
    <3>4. QED
      BY <2>2, <3>2, <3>3
  <2>3. CASE RefuseCircular
    BY <2>1, <2>3, EndPreserves DEF RefuseCircular, Refuse
  <2>4. CASE RefuseDepth
    BY <2>1, <2>4, EndPreserves DEF RefuseDepth, Refuse
  <2>5. CASE RefuseMissing
    BY <2>1, <2>5, EndPreserves DEF RefuseMissing, Refuse
  <2>6. CASE Enter
    BY <2>1, <2>6, EnterPreserves
  <2>7. CASE NestedCallFails
    BY <2>1, <2>7, NestedCallFailsPreserves
  <2>8. CASE Return
    BY <2>1, <2>8, ReturnPreserves
  <2>9. CASE Finish
    BY <2>1, <2>9, EndPreserves DEF Finish
  <2>10. CASE Edit
    <3>1. catalog' \in [Prompts -> Versions]
      BY <2>10, CatalogAssumption DEF Edit
    <3>2. QED
      BY <2>1, <2>10, <3>1, CatalogPreserves DEF Edit
  <2>11. CASE UNCHANGED vars
    BY <2>1, <2>11, CatalogPreserves DEF vars, Inductive, Typed
  <2>12. QED
    BY <2>1, <2>2, <2>3, <2>4, <2>5, <2>6, <2>7, <2>8, <2>9, <2>10, <2>11 DEF Next
<1>3. QED
  BY <1>1, <1>2, PTL DEF Spec

\* Whatever the catalog says and however it changes: at most MaxDepth calls of
\* executePromptVersion are in progress, no two nested ones for one prompt.
\* The prompts of the calls in progress are told apart by processedPrompts,
\* which every call hands on to the calls it makes.
THEOREM RecursionIsBounded == Spec => []BoundedDepth
<1>1. Inductive => BoundedDepth
  BY DEF Inductive
<1>2. QED
  BY <1>1, InductiveHolds, PTL

-------------------------------------------------------------------------------
(***************************************************************************)
(* What failed below a call is noted in the calls in progress.             *)
(***************************************************************************)
\* What the frames of a stack have noted.
Noted(s) == {r \in Reference : \E i \in 1 .. Len(s) : r \in s[i].errors}

FailuresAreNoted ==
    /\ stack # <<>> => /\ outcome = NULL
                       /\ failed = Noted(stack)
    /\ NoSilentFailure

\* The failures noted in a stack whose last frame is replaced by one that has
\* noted at least as much.
LEMMA ErrorsRestacked ==
    ASSUME NEW s \in Seq(AnyFrame), Len(s) > 0, NEW frame \in AnyFrame,
           Last(s).errors \subseteq frame.errors
    PROVE  /\ Noted(Front(s) \o <<frame>>) = Noted(s) \cup frame.errors
           /\ Last(s).errors \subseteq Noted(s)
<1> DEFINE n == Len(s)
           t == Front(s) \o <<frame>>
<1>1. /\ n \in 1 .. n
      /\ Len(t) = n
      /\ \A i \in 1 .. n : t[i] = IF i = n THEN frame ELSE s[i]
  BY Restacked
<1>2. Last(s) = s[n] /\ s[n] \in AnyFrame
  BY <1>1, ElementOfSeq DEF Last
<1>3. Last(s).errors \subseteq Reference /\ frame.errors \subseteq Reference
  BY <1>2 DEF AnyFrame
<1>4. Last(s).errors \subseteq Noted(s)
  BY <1>1, <1>2, <1>3 DEF Noted
<1> HIDE DEF n, t
<1>5. ASSUME NEW r \in Reference
      PROVE  r \in Noted(t) <=> r \in Noted(s) \/ r \in frame.errors
  BY <1>1, <1>2 DEF Noted, n
<1>6. Noted(t) = Noted(s) \cup frame.errors
  BY <1>3, <1>5 DEF Noted
<1>7. QED
  BY <1>4, <1>6 DEF t

\* A nested call starts without failures.
LEMMA EnterNotes ==
    ASSUME Inductive, FailuresAreNoted, Enter
    PROVE  FailuresAreNoted'
<1> DEFINE base == Front(stack) \o <<Advanced>>
           child == Child(Ref)
           t == Append(base, child)
<1>1. stack \in Seq(AnyFrame) /\ Len(stack) > 0 /\ stack # <<>> /\ Typed /\ Searching
  BY DEF Inductive, Typed, Enter, Searching
<1>2. Advanced \in AnyFrame /\ Advanced.errors = Last(stack).errors
  BY <1>1, PendingReference, AdvancedFrame DEF Advanced, AnyFrame, Top
<1>3. Noted(base) = Noted(stack)
  BY <1>1, <1>2, ErrorsRestacked
<1>4. base \in Seq(AnyFrame)
  BY <1>1, <1>2, Restacked
<1>5. stack' = t /\ failed' = failed /\ outcome' = outcome
  BY DEF Enter
<1>6. child.errors = {}
  BY DEF Child
<1> HIDE DEF base, child
<1>7. Noted(t) = Noted(base)
  <2>1. /\ Len(base) \in Nat
        /\ Len(t) = Len(base) + 1
        /\ \A i \in 1 .. Len(base) : t[i] = base[i]
        /\ t[Len(base) + 1] = child
    BY <1>4
  <2> HIDE DEF t
  <2>2. \A i \in 1 .. Len(t) :
            (i \in 1 .. Len(base) /\ t[i] = base[i]) \/ t[i].errors = {}
    BY <1>6, <2>1
  <2>3. \A i \in 1 .. Len(base) : i \in 1 .. Len(t)
    BY <2>1
  <2>4. QED
    BY <2>1, <2>2, <2>3 DEF Noted
<1>8. outcome = NULL /\ failed = Noted(stack)
  BY <1>1 DEF FailuresAreNoted
<1>9. QED
  BY <1>3, <1>5, <1>7, <1>8 DEF FailuresAreNoted, NoSilentFailure

\* The caller notes the reference whose call failed.
LEMMA NestedCallFailsNotes ==
    ASSUME Inductive, FailuresAreNoted, NestedCallFails
    PROVE  FailuresAreNoted'
<1> DEFINE frame == [Advanced EXCEPT !.errors = Advanced.errors \cup {Ref}]
<1>1. stack \in Seq(AnyFrame) /\ Len(stack) > 0 /\ Typed /\ Searching
  BY DEF Inductive, Typed, NestedCallFails, Searching
<1>2. Ref \in Reference /\ Advanced \in AnyFrame /\ Advanced.errors = Last(stack).errors
  BY <1>1, PendingReference, AdvancedFrame DEF Advanced, AnyFrame, Top
<1>3. frame \in AnyFrame /\ frame.errors = Last(stack).errors \cup {Ref}
  BY <1>2 DEF AnyFrame
<1>4. /\ stack' = Front(stack) \o <<frame>>
      /\ failed' = failed \cup {Ref}
      /\ outcome' = outcome
  BY DEF NestedCallFails
<1> HIDE DEF frame
<1>5. Noted(stack') = Noted(stack) \cup {Ref}
  BY <1>1, <1>3, <1>4, ErrorsRestacked
<1>6. QED
  BY <1>1, <1>4, <1>5 DEF FailuresAreNoted, NoSilentFailure

\* The caller takes over what the nested call noted.
LEMMA ReturnNotes ==
    ASSUME Inductive, FailuresAreNoted, Return
    PROVE  FailuresAreNoted'
<1> DEFINE n == Len(stack)
           rest == Front(stack)
           resumed == Resumed(Last(rest), Top)
<1>1. stack \in Seq(AnyFrame) /\ n \in Nat /\ n > 1 /\ Top = stack[n]
  BY DEF Inductive, Typed, Return, Top, Last
<1>2. /\ rest \in Seq(AnyFrame)
      /\ Len(rest) = n - 1
      /\ \A i \in 1 .. n - 1 : rest[i] = stack[i]
  BY <1>1, FrontIsPrefix
<1>3. Last(rest) \in AnyFrame /\ Top \in AnyFrame
  BY <1>1, <1>2, ElementOfSeq DEF Last
<1>4. resumed \in AnyFrame /\ resumed.errors = Last(rest).errors \cup Top.errors
  <2> DEFINE caller == Last(rest)
             words == Splice(caller.text, Top.ref, Top.text)
  <2>1. words \in Text
    BY <1>3, SpliceIsText DEF AnyFrame
  <2>2. resumed = [caller EXCEPT !.text = words, !.errors = caller.errors \cup Top.errors]
    BY <1>3 DEF Resumed, AnyFrame
  <2> HIDE DEF words, resumed, caller
  <2>3. caller \in AnyFrame
    BY <1>3 DEF caller
  <2>4. resumed \in AnyFrame /\ resumed.errors = caller.errors \cup Top.errors
    BY <1>3, <2>1, <2>2, <2>3 DEF AnyFrame
  <2>5. QED
    BY <2>4 DEF caller
<1>5. stack' = Front(rest) \o <<resumed>> /\ failed' = failed /\ outcome' = outcome
  BY DEF Return
<1> HIDE DEF n, rest, resumed
<1>6. Noted(stack') = Noted(rest) \cup Top.errors
  <2>1. Len(rest) > 0 /\ Last(rest).errors \subseteq resumed.errors
    BY <1>1, <1>2, <1>4
  <2>2. /\ Noted(stack') = Noted(rest) \cup resumed.errors
        /\ Last(rest).errors \subseteq Noted(rest)
    BY <1>2, <1>4, <1>5, <2>1, ErrorsRestacked
  <2>3. QED
    BY <1>4, <2>2
<1>7. Noted(stack) = Noted(rest) \cup Top.errors
  <2>1. \A i \in 1 .. n : stack[i].errors = IF i = n THEN Top.errors ELSE rest[i].errors
    BY <1>1, <1>2
  <2>2. n \in 1 .. n /\ \A i \in 1 .. n - 1 : i \in 1 .. n /\ i # n
    BY <1>1
  <2>3. \A i \in 1 .. n : i # n => i \in 1 .. n - 1
    BY <1>1
  <2>4. Top.errors \subseteq Reference
    BY <1>3 DEF AnyFrame
  <2>5. QED
    BY <1>2, <2>1, <2>2, <2>3, <2>4 DEF Noted, n
<1>8. outcome = NULL /\ failed = Noted(stack)
  BY <1>1 DEF FailuresAreNoted, n
<1>9. QED
  BY <1>5, <1>6, <1>7, <1>8 DEF FailuresAreNoted, NoSilentFailure

\* When the first call ends, what it noted is all that failed.
LEMMA FinishNotes ==
    ASSUME Inductive, FailuresAreNoted, Finish
    PROVE  FailuresAreNoted'
<1>1. stack \in Seq(AnyFrame) /\ Len(stack) = 1
  BY DEF Inductive, Typed, Finish
<1>2. stack # <<>>
  <2>1. Len(<<>>) = 0
    OBVIOUS
  <2>2. QED
    BY <1>1, <2>1
<1>3. failed = stack[1].errors /\ Top = stack[1]
  <2>1. stack[1] \in AnyFrame
    BY <1>1, ElementOfSeq
  <2>2. failed = Noted(stack) /\ Top = stack[1]
    BY <1>1, <1>2 DEF FailuresAreNoted, Top, Last
  <2>3. stack[1].errors \subseteq Reference
    BY <2>1 DEF AnyFrame
  <2>4. \A i \in 1 .. 1 : i = 1
    OBVIOUS
  <2>5. QED
    BY <1>1, <2>2, <2>3, <2>4 DEF Noted
<1>4. stack' = <<>> /\ outcome' = Answer("ok", Top.ref, Top.text, Top.errors) /\ failed' = failed
  BY DEF Finish
<1>5. QED
  BY <1>3, <1>4 DEF FailuresAreNoted, NoSilentFailure, Answer

\* An error answer says nothing about what failed.
LEMMA RefusedNotes ==
    ASSUME stack' = <<>>, outcome'.status # "ok"
    PROVE  FailuresAreNoted'
BY DEF FailuresAreNoted, NoSilentFailure

\* What a call could not resolve is reported with the answer, however deep it
\* was nested and whatever was spliced where: every call returns its metadata
\* with its text, and the caller merges it into its own.
THEOREM FailuresAreReported == Spec => []NoSilentFailure
<1>1. Init => FailuresAreNoted
  BY DEF Init, FailuresAreNoted, NoSilentFailure
<1>2. Inductive /\ FailuresAreNoted /\ [Next]_vars => FailuresAreNoted'
  <2>1. SUFFICES ASSUME Inductive, FailuresAreNoted, [Next]_vars PROVE FailuresAreNoted'
    OBVIOUS
  <2>2. ASSUME NEW r \in Reference, Request(r)
        PROVE  FailuresAreNoted'
    <3> DEFINE root == [ref |-> r, project |-> r.project, text |-> TextOf(r), pos |-> 0,
                        seen |-> {}, errors |-> {}]
    <3>1. stack' = <<root>> /\ failed' = {} /\ outcome' = NULL
      BY <2>2 DEF Request
    <3>2. root.errors = {}
      OBVIOUS
    <3> HIDE DEF root
    <3>3. Len(<<root>>) = 1 /\ <<root>>[1] = root /\ \A i \in 1 .. 1 : i = 1
      OBVIOUS
    <3>4. Noted(<<root>>) = {}
      BY <3>2, <3>3 DEF Noted
    <3>5. Noted(stack') = {}
      BY <3>1, <3>4
    <3>6. QED
      BY <3>1, <3>5 DEF FailuresAreNoted, NoSilentFailure
  <2>3. ASSUME NEW r \in Reference, RequestRaw(r) \/ RequestRefused(r)
        PROVE  FailuresAreNoted'
    BY <2>3, RefusedNotes DEF RequestRaw, RequestRefused, Answer
  <2>4. ASSUME NEW project \in Projects, NEW p \in Prompts, NEW tag \in Tags \cup {NULL},
               NEW r, r = [project |-> project, prompt |-> p, tag |-> tag, language |-> NULL],
               Request(r) \/ RequestRaw(r) \/ RequestRefused(r)
        PROVE  FailuresAreNoted'
    <3>1. r \in Reference
      BY <2>4 DEF Reference
    <3>2. QED
      BY <2>2, <2>3, <2>4, <3>1
  <2>5. CASE RefuseCircular
    BY <2>5, RefusedNotes DEF RefuseCircular, Refuse, Answer
  <2>6. CASE RefuseDepth
    BY <2>6, RefusedNotes DEF RefuseDepth, Refuse, Answer
  <2>7. CASE RefuseMissing
    BY <2>7, RefusedNotes DEF RefuseMissing, Refuse, Answer
  <2>8. CASE Enter
    BY <2>1, <2>8, EnterNotes
  <2>9. CASE NestedCallFails
    BY <2>1, <2>9, NestedCallFailsNotes
  <2>10. CASE Return
    BY <2>1, <2>10, ReturnNotes
  <2>11. CASE Finish
    BY <2>1, <2>11, FinishNotes
  <2>12. CASE Edit
    BY <2>1, <2>12 DEF Edit, FailuresAreNoted, NoSilentFailure, Noted
  <2>13. CASE UNCHANGED vars
    BY <2>1, <2>13 DEF vars, FailuresAreNoted, NoSilentFailure, Noted
  <2>14. QED
    BY <2>1, <2>4, <2>5, <2>6, <2>7, <2>8, <2>9, <2>10, <2>11, <2>12, <2>13 DEF Next
<1>3. FailuresAreNoted => NoSilentFailure
  BY DEF FailuresAreNoted
<1>4. QED
  BY <1>1, <1>2, <1>3, InductiveHolds, PTL DEF Spec

-------------------------------------------------------------------------------
(***************************************************************************)
(* ServePrompt: the answers are sound.                                     *)
(*                                                                         *)
(* What a prompt expands to, and the references that are met on the way,   *)
(* are defined level by level.  The argument that there are such functions *)
(* is the same for both.                                                   *)
(***************************************************************************)
Body(what, k, r, g) ==
    IF Candidates(r) = {} THEN <<r>>
    ELSE LET words == TextOf(r)
         IN  IF what = "expansion"
             THEN FlattenSeq([i \in DOMAIN words |->
                     IF k = 0 \/ ~IsReference(words[i]) THEN <<words[i]>> ELSE g[words[i]]])
             ELSE <<r>> \o FlattenSeq([i \in DOMAIN words |->
                     IF ~IsReference(words[i]) THEN <<>>
                     ELSE IF k = 0 THEN <<words[i]>> ELSE g[words[i]]])

Layer(what, k, g) == [r \in Reference |-> Body(what, k, r, g)]

\* The lowest layer does not look below itself.
LEMMA LowestLayer ==
    ASSUME NEW what, NEW f, NEW g
    PROVE  Layer(what, 0, f) = Layer(what, 0, g)
<1>1. ASSUME NEW r PROVE Body(what, 0, r, f) = Body(what, 0, r, g)
  BY DEF Body
<1>2. QED
  BY <1>1 DEF Layer

IsTower(what, n, h) == h = [k \in 0 .. n |-> Layer(what, k, h[k - 1])]

\* There are towers of every height, ...
LEMMA TowerExists ==
    ASSUME NEW what, NEW m \in Nat
    PROVE  \E h : IsTower(what, m, h)
<1> DEFINE S == {n \in Nat : \E h : IsTower(what, n, h)}
<1>1. 0 \in S
  <2> DEFINE h == [k \in 0 .. 0 |-> Layer(what, 0, <<>>)]
  <2>1. ASSUME NEW k \in 0 .. 0 PROVE h[k] = Layer(what, k, h[k - 1])
    BY LowestLayer
  <2>2. h = [k \in 0 .. 0 |-> h[k]]
    OBVIOUS
  <2> HIDE DEF h
  <2>3. IsTower(what, 0, h)
    BY <2>1, <2>2 DEF IsTower
  <2>4. QED
    BY <2>3
<1>2. ASSUME NEW n \in Nat, n \in S PROVE n + 1 \in S
  <2>1. PICK f : IsTower(what, n, f)
    BY <1>2
  <2>2. ASSUME NEW i \in 0 .. n PROVE f[i] = Layer(what, i, f[i - 1])
    BY <2>1 DEF IsTower
  <2> DEFINE h == [k \in 0 .. (n + 1) |-> IF k <= n THEN f[k] ELSE Layer(what, k, f[n])]
  <2>3. ASSUME NEW k \in 0 .. (n + 1) PROVE h[k] = Layer(what, k, h[k - 1])
    <3>1. CASE k = 0
      <4>1. h[k] = f[0] /\ k \in 0 .. n
        BY <3>1
      <4>2. Layer(what, 0, f[k - 1]) = Layer(what, 0, h[k - 1])
        BY LowestLayer
      <4>3. QED
        BY <2>2, <3>1, <4>1, <4>2
    <3>2. CASE k # 0 /\ k <= n
      <4>1. h[k] = f[k] /\ h[k - 1] = f[k - 1] /\ k \in 0 .. n
        BY <3>2
      <4>2. QED
        BY <2>2, <4>1
    <3>3. CASE ~(k <= n)
      <4>1. k = n + 1 /\ k - 1 = n
        BY <3>3
      <4>2. h[k - 1] = f[n] /\ h[k] = Layer(what, k, f[n])
        BY <3>3, <4>1
      <4>3. QED
        BY <4>2
    <3>4. QED
      BY <3>1, <3>2, <3>3
  <2>4. IsTower(what, n + 1, h)
    <3>1. h = [k \in 0 .. (n + 1) |-> h[k]]
      OBVIOUS
    <3> HIDE DEF h
    <3>2. QED
      BY <2>3, <3>1 DEF IsTower
  <2>5. QED
    BY <2>4
<1> HIDE DEF S
<1>3. m \in S
  BY <1>1, <1>2, Induct
<1>4. QED
  BY <1>3 DEF S

\* ... and where two of them have a layer, it is the same.
LEMMA TowerAgree ==
    ASSUME NEW what, NEW n \in Nat, NEW m \in Nat, n <= m, NEW f, NEW g, IsTower(what, n, f), IsTower(what, m, g)
    PROVE  f[n] = g[n]
<1>1. ASSUME NEW k \in 0 .. n
      PROVE  f[k] = Layer(what, k, f[k - 1]) /\ g[k] = Layer(what, k, g[k - 1])
  <2>1. k \in 0 .. m
    OBVIOUS
  <2>2. QED
    BY <2>1 DEF IsTower
<1> DEFINE S == {k \in Nat : k <= n => f[k] = g[k]}
<1>2. 0 \in S
  <2>1. Layer(what, 0, f[0 - 1]) = Layer(what, 0, g[0 - 1])
    BY LowestLayer
  <2>2. 0 \in 0 .. n
    OBVIOUS
  <2>3. QED
    BY <1>1, <2>1, <2>2
<1>3. ASSUME NEW k \in Nat, k \in S PROVE k + 1 \in S
  <2>1. SUFFICES ASSUME k + 1 <= n PROVE f[k + 1] = g[k + 1]
    OBVIOUS
  <2>2. k + 1 \in 0 .. n /\ (k + 1) - 1 = k
    BY <2>1
  <2>3. f[k] = g[k]
    BY <1>3, <2>1
  <2>4. QED
    BY <1>1, <2>2, <2>3
<1> HIDE DEF S
<1>4. n \in S
  BY <1>2, <1>3, Induct
<1>5. QED
  BY <1>4 DEF S

Tower(what, n) == CHOOSE h : IsTower(what, n, h)

Whole(what) == [n \in Nat |-> Tower(what, n)[n]]

\* So the tops of the towers make up a function that meets the definition.
LEMMA WholeIs ==
    ASSUME NEW what, NEW n \in Nat
    PROVE  Whole(what)[n] = Layer(what, n, Whole(what)[n - 1])
<1>1. IsTower(what, n, Tower(what, n))
  BY TowerExists DEF Tower
<1>2. Tower(what, n)[n] = Layer(what, n, Tower(what, n)[n - 1])
  BY <1>1 DEF IsTower
<1>3. Whole(what)[n] = Tower(what, n)[n]
  BY DEF Whole
<1>4. CASE n = 0
  BY <1>2, <1>3, <1>4, LowestLayer
<1>5. CASE n # 0
  <2>1. n - 1 \in Nat /\ n - 1 <= n
    BY <1>5
  <2>2. IsTower(what, n - 1, Tower(what, n - 1))
    BY <2>1, TowerExists DEF Tower
  <2>3. Tower(what, n)[n - 1] = Tower(what, n - 1)[n - 1]
    BY <1>1, <2>1, <2>2, TowerAgree
  <2>4. Whole(what)[n - 1] = Tower(what, n - 1)[n - 1]
    BY <2>1 DEF Whole
  <2>5. QED
    BY <1>2, <1>3, <2>3, <2>4
<1>6. QED
  BY <1>4, <1>5

\* The function that meets its definition is the one that the definition chooses.
LEMMA ExpansionIs ==
    ASSUME NEW n \in Nat, NEW r \in Reference
    PROVE  Expansion[n][r] = Body("expansion", n, r, Expansion[n - 1])
<1> DEFINE Right(f) == [k \in Nat |-> [t \in Reference |->
        IF Candidates(t) = {} THEN <<t>>
        ELSE LET words == TextOf(t)
             IN  FlattenSeq([i \in DOMAIN words |->
                    IF k = 0 \/ ~IsReference(words[i]) THEN <<words[i]>> ELSE f[k - 1][words[i]]])]]
           whole == Whole("expansion")
<1>1. \A f : Right(f) = [k \in Nat |-> Layer("expansion", k, f[k - 1])]
  BY DEF Layer, Body
<1>2. whole = Right(whole)
  <2>1. whole = [k \in Nat |-> whole[k]]
    BY DEF Whole
  <2>2. [k \in Nat |-> whole[k]] = [k \in Nat |-> Layer("expansion", k, whole[k - 1])]
    BY WholeIs
  <2>3. QED
    BY <1>1, <2>1, <2>2
<1>3. Expansion = CHOOSE f : f = Right(f)
  BY DEF Expansion
<1> HIDE DEF Right, whole
<1>4. Expansion = Right(Expansion)
  BY <1>2, <1>3
<1>5. Expansion[n] = Layer("expansion", n, Expansion[n - 1])
  BY <1>1, <1>4
<1>6. QED
  BY <1>5 DEF Layer

\* The same for the references on the way.
LEMMA VisitsIs ==
    ASSUME NEW n \in Nat, NEW r \in Reference
    PROVE  Visits[n][r] = Body("visits", n, r, Visits[n - 1])
<1> DEFINE Right(f) == [k \in Nat |-> [t \in Reference |->
        IF Candidates(t) = {} THEN <<t>>
        ELSE LET words == TextOf(t)
             IN  <<t>> \o FlattenSeq([i \in DOMAIN words |->
                    IF ~IsReference(words[i]) THEN <<>>
                    ELSE IF k = 0 THEN <<words[i]>> ELSE f[k - 1][words[i]]])]]
           whole == Whole("visits")
<1>1. \A f : Right(f) = [k \in Nat |-> Layer("visits", k, f[k - 1])]
  BY DEF Layer, Body
<1>2. whole = Right(whole)
  <2>1. whole = [k \in Nat |-> whole[k]]
    BY DEF Whole
  <2>2. [k \in Nat |-> whole[k]] = [k \in Nat |-> Layer("visits", k, whole[k - 1])]
    BY WholeIs
  <2>3. QED
    BY <1>1, <2>1, <2>2
<1>3. Visits = CHOOSE f : f = Right(f)
  BY DEF Visits
<1> HIDE DEF Right, whole
<1>4. Visits = Right(Visits)
  BY <1>2, <1>3
<1>5. Visits[n] = Layer("visits", n, Visits[n - 1])
  BY <1>1, <1>4
<1>6. QED
  BY <1>5 DEF Layer

\* What the tokens of a text are replaced by, n levels above the ground.
Below(n) == [t \in Parts |-> IF n = 0 \/ ~IsReference(t) THEN <<t>> ELSE Expansion[n - 1][t]]

\* An expansion is a spreading of the text.
LEMMA ExpansionIsSpread ==
    ASSUME catalog \in [Prompts -> Versions], NEW n \in Nat, NEW r \in Reference
    PROVE  Expansion[n][r] = IF Candidates(r) = {} THEN <<r>> ELSE Spread(TextOf(r), Below(n))
<1>1. CASE Candidates(r) = {}
  BY <1>1, ExpansionIs DEF Body
<1>2. CASE Candidates(r) # {}
  <2>1. PICK words \in Seq(Parts) : words = TextOf(r)
    BY <1>2, TextIsText DEF Text, Parts
  <2>2. \A i \in DOMAIN words : words[i] \in Parts
    BY <2>1, ElementOfSeq
  <2>3. [i \in DOMAIN words |-> IF n = 0 \/ ~IsReference(words[i]) THEN <<words[i]>> ELSE Expansion[n - 1][words[i]]]
          = [i \in DOMAIN words |-> Below(n)[words[i]]]
    BY <2>2 DEF Below
  <2>4. Body("expansion", n, r, Expansion[n - 1]) = FlattenSeq([i \in DOMAIN words |-> Below(n)[words[i]]])
    BY <1>2, <2>1, <2>3 DEF Body
  <2>5. QED
    BY <1>2, <2>1, <2>4, ExpansionIs DEF Spread
<1>3. QED
  BY <1>1, <1>2

\* It is a text again.
LEMMA ExpansionIsText ==
    ASSUME catalog \in [Prompts -> Versions]
    PROVE  /\ \A n \in Nat : \A r \in Reference : Expansion[n][r] \in Seq(Parts)
           /\ \A n \in Nat : Below(n) \in [Parts -> Seq(Parts)]
<1> DEFINE S == {n \in Nat : /\ Below(n) \in [Parts -> Seq(Parts)]
                             /\ \A r \in Reference : Expansion[n][r] \in Seq(Parts)}
<1>1. ASSUME NEW n \in Nat, Below(n) \in [Parts -> Seq(Parts)], NEW r \in Reference
      PROVE  Expansion[n][r] \in Seq(Parts)
  <2>1. r \in Parts /\ <<r>> \in Seq(Parts)
    BY DEF Parts
  <2>2. CASE Candidates(r) # {}
    <3>1. PICK words \in Seq(Parts) : words = TextOf(r)
      BY <2>2, TextIsText DEF Text, Parts
    <3>2. Spread(words, Below(n)) \in Seq(Parts)
      BY <1>1, SpreadIsText
    <3>3. QED
      BY <2>2, <3>1, <3>2, ExpansionIsSpread
  <2>3. QED
    BY <2>1, <2>2, ExpansionIsSpread
<1>2. \A t \in Parts : <<t>> \in Seq(Parts)
  OBVIOUS
<1>3. 0 \in S
  <2>1. Below(0) \in [Parts -> Seq(Parts)]
    BY <1>2 DEF Below
  <2>2. QED
    BY <1>1, <2>1
<1>4. ASSUME NEW n \in Nat, n \in S PROVE n + 1 \in S
  <2>1. ASSUME NEW t \in Parts, IsReference(t) PROVE Expansion[(n + 1) - 1][t] \in Seq(Parts)
    BY <1>4, <2>1 DEF Parts, IsReference
  <2>2. Below(n + 1) \in [Parts -> Seq(Parts)]
    BY <1>2, <2>1 DEF Below
  <2>3. QED
    BY <1>1, <2>2
<1> HIDE DEF S
<1>5. Nat \subseteq S
  BY <1>3, <1>4, Induct
<1>6. QED
  BY <1>5 DEF S

\* All that could be expanded has been.
Closed(s) == \A t \in Range(s) : IsReference(t) => Candidates(t) = {}

\* Further levels do not change a text that has been expanded all the way.
LEMMA ClosedIsStable ==
    ASSUME catalog \in [Prompts -> Versions]
    PROVE  \A n \in Nat : \A r \in Reference :
              Closed(Expansion[n][r]) => Expansion[n + 1][r] = Expansion[n][r]
<1> DEFINE S == {n \in Nat : \A r \in Reference :
                    Closed(Expansion[n][r]) => Expansion[n + 1][r] = Expansion[n][r]}
<1>1. ASSUME NEW r \in Reference, NEW n \in Nat, Candidates(r) # {}, NEW words \in Seq(Parts), words = TextOf(r),
             \A t \in Range(words) : Below(n + 1)[t] = Below(n)[t]
      PROVE  Expansion[n + 1][r] = Expansion[n][r]
  <2>1. Spread(words, Below(n + 1)) = Spread(words, Below(n))
    BY <1>1, SpreadSame
  <2>2. n + 1 \in Nat
    OBVIOUS
  <2>3. QED
    BY <1>1, <2>1, <2>2, ExpansionIsSpread
<1>2. ASSUME NEW r \in Reference, Candidates(r) = {}, NEW n \in Nat
      PROVE  Expansion[n + 1][r] = Expansion[n][r]
  <2>1. n + 1 \in Nat
    OBVIOUS
  <2>2. QED
    BY <1>2, <2>1, ExpansionIsSpread
<1>3. 0 \in S
  <2>1. SUFFICES ASSUME NEW r \in Reference, Candidates(r) # {}, Closed(Expansion[0][r])
                 PROVE  Expansion[0 + 1][r] = Expansion[0][r]
    BY <1>2
  <2>2. PICK words \in Seq(Parts) : words = TextOf(r)
    BY <2>1, TextIsText DEF Text, Parts
  <2>3. Range(words) \subseteq Parts
    BY RangeOfSeq
  <2>4. \A t \in Range(words) : Below(0)[t] = <<t>>
    BY <2>3 DEF Below
  <2>5. Expansion[0][r] = words
    BY <2>1, <2>2, <2>4, ExpansionIsSpread, SpreadIdentity
  <2>6. ASSUME NEW t \in Range(words) PROVE Below(1)[t] = <<t>>
    <3>1. t \in Parts
      BY <2>3
    <3>2. CASE ~IsReference(t)
      BY <3>1, <3>2 DEF Below
    <3>3. CASE IsReference(t)
      <4>1. t \in Reference /\ Candidates(t) = {}
        BY <2>1, <2>5, <3>1, <3>3 DEF Closed, Parts, IsReference
      <4>2. Expansion[0][t] = <<t>>
        BY <4>1, ExpansionIsSpread
      <4>3. QED
        BY <3>1, <4>2 DEF Below
    <3>4. QED
      BY <3>2, <3>3
  <2>7. QED
    BY <1>1, <2>1, <2>2, <2>4, <2>6
<1>4. ASSUME NEW n \in Nat, n \in S PROVE n + 1 \in S
  <2>0. PICK k \in Nat : k = n + 1
    OBVIOUS
  <2>1. SUFFICES ASSUME NEW r \in Reference, Candidates(r) # {}, Closed(Expansion[k][r])
                 PROVE  Expansion[k + 1][r] = Expansion[k][r]
    BY <1>2, <2>0
  <2>2. PICK words \in Seq(Parts) : words = TextOf(r)
    BY <2>1, TextIsText DEF Text, Parts
  <2>3. Range(words) \subseteq Parts
    BY RangeOfSeq
  <2>4. PICK m \in [Parts -> Seq(Parts)] : m = Below(k)
    BY ExpansionIsText
  <2>5. Expansion[k][r] = Spread(words, m)
    BY <2>1, <2>2, <2>4, ExpansionIsSpread
  <2>6. ASSUME NEW t \in Range(words) PROVE Closed(m[t])
    <3>1. ASSUME NEW y, y \in Range(m[t]) PROVE y \in Range(Spread(words, m))
      BY <3>1, SpreadRange
    <3>2. QED
      BY <2>1, <2>5, <3>1 DEF Closed
  <2>7. ASSUME NEW t \in Range(words) PROVE Below(k + 1)[t] = Below(k)[t]
    <3>1. t \in Parts
      BY <2>3
    <3>2. CASE ~IsReference(t)
      BY <3>1, <3>2 DEF Below
    <3>3. CASE IsReference(t)
      <4>1. t \in Reference
        BY <3>1, <3>3 DEF Parts, IsReference
      <4>2. m[t] = Expansion[n][t]
        BY <2>0, <2>4, <3>1, <3>3 DEF Below
      <4>3. Expansion[n + 1][t] = Expansion[n][t]
        BY <1>4, <2>6, <4>1, <4>2
      <4>4. Below(k + 1)[t] = Expansion[k][t]
        BY <2>0, <3>1, <3>3 DEF Below
      <4>5. QED
        BY <2>0, <2>4, <4>2, <4>3, <4>4
    <3>4. QED
      BY <3>2, <3>3
  <2>8. QED
    BY <1>1, <2>1, <2>2, <2>7
<1> HIDE DEF S
<1>5. Nat \subseteq S
  BY <1>3, <1>4, Induct
<1>6. QED
  BY <1>5 DEF S

\* What Expanded replaces a token by.
Full == [t \in Parts |-> IF IsReference(t) THEN Expansion[Depth][t] ELSE <<t>>]

\* Expanded is a spreading too, ...
LEMMA ExpandedIsSpread ==
    ASSUME NEW s \in Seq(Parts)
    PROVE  Expanded(s) = Spread(s, Full)
<1>1. \A i \in DOMAIN s : s[i] \in Parts
  BY ElementOfSeq
<1>2. [i \in DOMAIN s |-> IF IsReference(s[i]) THEN Expansion[Depth][s[i]] ELSE <<s[i]>>]
        = [i \in DOMAIN s |-> Full[s[i]]]
  BY <1>1 DEF Full
<1>3. QED
  BY <1>2 DEF Expanded, Spread

\* ... of every token to a text.
LEMMA FullIsFunction ==
    ASSUME catalog \in [Prompts -> Versions], Depth \in Nat
    PROVE  Full \in [Parts -> Seq(Parts)]
<1>1. ASSUME NEW t \in Parts, IsReference(t) PROVE Expansion[Depth][t] \in Seq(Parts)
  BY <1>1, ExpansionIsText DEF Parts, IsReference
<1>2. \A t \in Parts : <<t>> \in Seq(Parts)
  OBVIOUS
<1>3. QED
  BY <1>1, <1>2 DEF Full

\* The text of a version that can be expanded all the way expands to the same,
\* and so do those of the references it holds.
LEMMA TextOfAcyclic ==
    ASSUME catalog \in [Prompts -> Versions], Depth \in Nat,
           NEW r \in Reference, Candidates(r) # {}, Acyclic(r)
    PROVE  /\ Expanded(TextOf(r)) = Expansion[Depth][r]
           /\ \A t \in Range(TextOf(r)) : IsReference(t) => Acyclic(t)
<1>1. PICK n \in Nat : n = Depth
  OBVIOUS
<1>2. PICK k \in Nat : k = n + 1
  OBVIOUS
<1>3. PICK words \in Seq(Parts) : words = TextOf(r)
  BY TextIsText DEF Text, Parts
<1>4. Closed(Expansion[n][r])
  BY <1>1 DEF Acyclic, Closed
<1>5. Expansion[k][r] = Expansion[n][r]
  BY <1>2, <1>4, ClosedIsStable
<1>6. PICK m \in [Parts -> Seq(Parts)] : m = Full
  BY FullIsFunction
<1>7. Below(k) = m
  BY <1>1, <1>2, <1>6 DEF Below, Full
<1>8. Expansion[k][r] = Spread(words, m)
  BY <1>2, <1>3, <1>7, ExpansionIsSpread
<1>9. Expanded(words) = Spread(words, m)
  BY <1>6, ExpandedIsSpread
<1>10. ASSUME NEW t \in Range(words), IsReference(t) PROVE Acyclic(t)
  <2>1. t \in Parts
    BY <1>3, RangeOfSeq
  <2>2. m[t] = Expansion[Depth][t]
    BY <1>6, <1>10, <2>1 DEF Full
  <2>3. ASSUME NEW y, y \in Range(m[t]) PROVE y \in Range(Spread(words, m))
    BY <2>3, SpreadRange
  <2>4. QED
    BY <1>4, <1>5, <1>8, <2>2, <2>3 DEF Acyclic, Closed
<1>11. QED
  BY <1>1, <1>3, <1>5, <1>8, <1>9, <1>10

\* What is met of a token of a text.
Kids(n) == [t \in Parts |->
    IF ~IsReference(t) THEN <<>> ELSE IF n = 0 THEN <<t>> ELSE Visits[n - 1][t]]

\* The references on the way are a spreading of the text too, behind the one that leads there, ...
LEMMA VisitsIsSpread ==
    ASSUME catalog \in [Prompts -> Versions], NEW n \in Nat, NEW r \in Reference
    PROVE  Visits[n][r] = IF Candidates(r) = {} THEN <<r>> ELSE <<r>> \o Spread(TextOf(r), Kids(n))
<1>1. CASE Candidates(r) = {}
  BY <1>1, VisitsIs DEF Body
<1>2. CASE Candidates(r) # {}
  <2>1. PICK words \in Seq(Parts) : words = TextOf(r)
    BY <1>2, TextIsText DEF Text, Parts
  <2>2. \A i \in DOMAIN words : words[i] \in Parts
    BY <2>1, ElementOfSeq
  <2>3. [i \in DOMAIN words |-> IF ~IsReference(words[i]) THEN <<>> ELSE IF n = 0 THEN <<words[i]>> ELSE Visits[n - 1][words[i]]]
          = [i \in DOMAIN words |-> Kids(n)[words[i]]]
    BY <2>2 DEF Kids
  <2>4. Body("visits", n, r, Visits[n - 1]) = <<r>> \o FlattenSeq([i \in DOMAIN words |-> Kids(n)[words[i]]])
    BY <1>2, <2>1, <2>3 DEF Body
  <2>5. QED
    BY <1>2, <2>1, <2>4, VisitsIs DEF Spread
<1>3. QED
  BY <1>1, <1>2

\* ... and all of them are references.
LEMMA VisitsAreReferences ==
    ASSUME catalog \in [Prompts -> Versions]
    PROVE  /\ \A n \in Nat : \A r \in Reference : Visits[n][r] \in Seq(Reference)
           /\ \A n \in Nat : Kids(n) \in [Parts -> Seq(Reference)]
<1> DEFINE S == {n \in Nat : /\ Kids(n) \in [Parts -> Seq(Reference)]
                             /\ \A r \in Reference : Visits[n][r] \in Seq(Reference)}
<1>1. ASSUME NEW n \in Nat, Kids(n) \in [Parts -> Seq(Reference)], NEW r \in Reference
      PROVE  Visits[n][r] \in Seq(Reference)
  <2>1. <<r>> \in Seq(Reference)
    OBVIOUS
  <2>2. CASE Candidates(r) # {}
    <3>1. PICK words \in Seq(Parts) : words = TextOf(r)
      BY <2>2, TextIsText DEF Text, Parts
    <3>2. Spread(words, Kids(n)) \in Seq(Reference)
      BY <1>1, SpreadIsText
    <3>3. <<r>> \o Spread(words, Kids(n)) \in Seq(Reference)
      BY <2>1, <3>2, ConcatProperties
    <3>4. QED
      BY <2>2, <3>1, <3>3, VisitsIsSpread
  <2>3. QED
    BY <2>1, <2>2, VisitsIsSpread
<1>2. \A t \in Parts : IsReference(t) => t \in Reference
  BY DEF Parts, IsReference
<1>3. \A t \in Reference : <<t>> \in Seq(Reference)
  OBVIOUS
<1>4. <<>> \in Seq(Reference)
  OBVIOUS
<1>5. 0 \in S
  <2>1. Kids(0) \in [Parts -> Seq(Reference)]
    BY <1>2, <1>3, <1>4 DEF Kids
  <2>2. QED
    BY <1>1, <2>1
<1>6. ASSUME NEW n \in Nat, n \in S PROVE n + 1 \in S
  <2>1. ASSUME NEW t \in Parts, IsReference(t) PROVE Visits[(n + 1) - 1][t] \in Seq(Reference)
    BY <1>2, <1>6, <2>1
  <2>2. Kids(n + 1) \in [Parts -> Seq(Reference)]
    BY <1>4, <2>1 DEF Kids
  <2>3. QED
    BY <1>1, <2>2
<1> HIDE DEF S
<1>7. Nat \subseteq S
  BY <1>5, <1>6, Induct
<1>8. QED
  BY <1>7 DEF S

\* Further levels meet nothing more below a text that has been expanded all the way.
LEMMA VisitsAreStable ==
    ASSUME catalog \in [Prompts -> Versions]
    PROVE  \A n \in Nat : \A r \in Reference :
              Closed(Expansion[n][r]) => Visits[n + 1][r] = Visits[n][r]
<1> DEFINE S == {n \in Nat : \A r \in Reference :
                    Closed(Expansion[n][r]) => Visits[n + 1][r] = Visits[n][r]}
<1>1. ASSUME NEW r \in Reference, NEW n \in Nat, Candidates(r) # {}, NEW words \in Seq(Parts), words = TextOf(r),
             \A t \in Range(words) : Kids(n + 1)[t] = Kids(n)[t]
      PROVE  Visits[n + 1][r] = Visits[n][r]
  <2>1. Spread(words, Kids(n + 1)) = Spread(words, Kids(n))
    BY <1>1, SpreadSame
  <2>2. n + 1 \in Nat
    OBVIOUS
  <2>3. QED
    BY <1>1, <2>1, <2>2, VisitsIsSpread
<1>2. ASSUME NEW r \in Reference, Candidates(r) = {}, NEW n \in Nat
      PROVE  Visits[n + 1][r] = Visits[n][r]
  <2>1. n + 1 \in Nat
    OBVIOUS
  <2>2. QED
    BY <1>2, <2>1, VisitsIsSpread
<1>3. 0 \in S
  <2>1. SUFFICES ASSUME NEW r \in Reference, Candidates(r) # {}, Closed(Expansion[0][r])
                 PROVE  Visits[0 + 1][r] = Visits[0][r]
    BY <1>2
  <2>2. PICK words \in Seq(Parts) : words = TextOf(r)
    BY <2>1, TextIsText DEF Text, Parts
  <2>3. Range(words) \subseteq Parts
    BY RangeOfSeq
  <2>4. \A t \in Range(words) : Below(0)[t] = <<t>>
    BY <2>3 DEF Below
  <2>5. Expansion[0][r] = words
    BY <2>1, <2>2, <2>4, ExpansionIsSpread, SpreadIdentity
  <2>6. ASSUME NEW t \in Range(words) PROVE Kids(1)[t] = Kids(0)[t]
    <3>1. t \in Parts
      BY <2>3
    <3>2. CASE ~IsReference(t)
      BY <3>1, <3>2 DEF Kids
    <3>3. CASE IsReference(t)
      <4>1. t \in Reference /\ Candidates(t) = {}
        BY <2>1, <2>5, <3>1, <3>3 DEF Closed, Parts, IsReference
      <4>2. Visits[0][t] = <<t>>
        BY <4>1, VisitsIsSpread
      <4>3. QED
        BY <3>1, <3>3, <4>2 DEF Kids
    <3>4. QED
      BY <3>2, <3>3
  <2>7. QED
    BY <1>1, <2>1, <2>2, <2>6
<1>4. ASSUME NEW n \in Nat, n \in S PROVE n + 1 \in S
  <2>0. PICK k \in Nat : k = n + 1
    OBVIOUS
  <2>1. SUFFICES ASSUME NEW r \in Reference, Candidates(r) # {}, Closed(Expansion[k][r])
                 PROVE  Visits[k + 1][r] = Visits[k][r]
    BY <1>2, <2>0
  <2>2. PICK words \in Seq(Parts) : words = TextOf(r)
    BY <2>1, TextIsText DEF Text, Parts
  <2>3. Range(words) \subseteq Parts
    BY RangeOfSeq
  <2>4. PICK m \in [Parts -> Seq(Parts)] : m = Below(k)
    BY ExpansionIsText
  <2>5. Expansion[k][r] = Spread(words, m)
    BY <2>1, <2>2, <2>4, ExpansionIsSpread
  <2>6. ASSUME NEW t \in Range(words) PROVE Closed(m[t])
    <3>1. ASSUME NEW y, y \in Range(m[t]) PROVE y \in Range(Spread(words, m))
      BY <3>1, SpreadRange
    <3>2. QED
      BY <2>1, <2>5, <3>1 DEF Closed
  <2>7. ASSUME NEW t \in Range(words) PROVE Kids(k + 1)[t] = Kids(k)[t]
    <3>1. t \in Parts
      BY <2>3
    <3>2. CASE ~IsReference(t)
      BY <3>1, <3>2 DEF Kids
    <3>3. CASE IsReference(t)
      <4>1. t \in Reference
        BY <3>1, <3>3 DEF Parts, IsReference
      <4>2. m[t] = Expansion[n][t]
        BY <2>0, <2>4, <3>1, <3>3 DEF Below
      <4>3. Visits[n + 1][t] = Visits[n][t]
        BY <1>4, <2>6, <4>1, <4>2
      <4>4. Kids(k + 1)[t] = Visits[k][t] /\ Kids(k)[t] = Visits[n][t]
        BY <2>0, <3>1, <3>3 DEF Kids
      <4>5. QED
        BY <2>0, <4>3, <4>4
    <3>4. QED
      BY <3>2, <3>3
  <2>8. QED
    BY <1>1, <2>1, <2>2, <2>7
<1> HIDE DEF S
<1>5. Nat \subseteq S
  BY <1>3, <1>4, Induct
<1>6. QED
  BY <1>5 DEF S

\* A reference that can be expanded all the way, by texts that may be nested.
Smooth(t) ==
    /\ Acyclic(t)
    /\ \A q \in Range(Visits[Depth][t]) : Candidates(q) # {} => Inert(TextOf(q))

\* Its own text may be nested, and so may what its references stand for.
LEMMA TextOfSmooth ==
    ASSUME catalog \in [Prompts -> Versions], Depth \in Nat,
           NEW r \in Reference, Candidates(r) # {}, Smooth(r)
    PROVE  /\ Inert(TextOf(r))
           /\ \A t \in Range(TextOf(r)) : IsReference(t) => Smooth(t)
<1>1. PICK n \in Nat : n = Depth
  OBVIOUS
<1>2. PICK k \in Nat : k = n + 1
  OBVIOUS
<1>3. PICK words \in Seq(Parts) : words = TextOf(r)
  BY TextIsText DEF Text, Parts
<1>4. Acyclic(r) /\ Closed(Expansion[n][r])
  BY <1>1 DEF Smooth, Acyclic, Closed
<1>5. Visits[k][r] = Visits[n][r]
  BY <1>2, <1>4, VisitsAreStable
<1>6. PICK m \in [Parts -> Seq(Reference)] : m = Kids(k)
  BY VisitsAreReferences
<1>7. PICK u \in Seq(Reference) : u = Spread(words, m)
  BY SpreadIsText
<1>8. Visits[k][r] = <<r>> \o u
  BY <1>3, <1>6, <1>7, VisitsIsSpread
<1>9. Range(Visits[Depth][r]) = {r} \cup Range(u)
  <2>1. <<r>> \in Seq(Reference) /\ Range(<<r>>) = {r}
    BY DEF Range
  <2>2. PICK a \in Seq(Reference) : a = <<r>>
    BY <2>1
  <2>3. PICK v : v = a \o u
    OBVIOUS
  <2>4. Range(a \o u) = Range(a) \cup Range(u)
    BY RangeConcatenation, Zenon
  <2>5. Visits[Depth][r] = v /\ Range(v) = {r} \cup Range(u)
    BY <1>1, <1>5, <1>8, <2>1, <2>2, <2>3, <2>4
  <2>6. QED
    BY <2>5
<1>10. ASSUME NEW t \in Range(words), IsReference(t) PROVE Smooth(t)
  <2>1. t \in Parts
    BY <1>3, RangeOfSeq
  <2>2. m[t] = Visits[Depth][t]
    BY <1>1, <1>2, <1>6, <1>10, <2>1 DEF Kids
  <2>3. ASSUME NEW q \in Range(m[t]) PROVE q \in Range(u)
    BY <1>7, <2>3, SpreadRange
  <2>4. \A q \in Range(Visits[Depth][t]) : Candidates(q) # {} => Inert(TextOf(q))
    BY <1>9, <2>2, <2>3 DEF Smooth
  <2>5. Acyclic(t)
    BY <1>3, <1>4, <1>10, TextOfAcyclic
  <2>6. QED
    BY <2>4, <2>5 DEF Smooth
<1>11. Inert(TextOf(r))
  BY <1>9 DEF Smooth
<1>12. QED
  BY <1>3, <1>10, <1>11

\* A text is cut in two by a reference, in the place of which another is put.
Cut(s, r, u, i, a, b) ==
    /\ s[i] = r
    /\ Len(a) = i - 1
    /\ \A j \in 1 .. i - 1 : a[j] = s[j]
    /\ Len(b) = Len(s) - i
    /\ \A j \in 1 .. Len(s) - i : b[j] = s[i + j]
    /\ s = (a \o <<r>>) \o b
    /\ Splice(s, r, u) = (a \o u) \o b

\* Where a text without patterns is spliced in, it is put there as it stands.
LEMMA SpliceIs ==
    ASSUME NEW s \in Seq(Parts), NEW u \in Seq(Parts), Inert(u), NEW r \in Range(s)
    PROVE  \E i \in 1 .. Len(s), a \in Seq(Parts), b \in Seq(Parts) : Cut(s, r, u, i, a, b)
<1> DEFINE found == {j \in 1 .. Len(s) : s[j] = r}
           i == SelectInSeq(s, LAMBDA token : token = r)
<1>1. PICK n \in Nat : n = Len(s) /\ DOMAIN s = 1 .. n
  BY LenProperties
<1>2. i \in 1 .. n /\ s[i] = r
  <2>1. found # {} /\ found \subseteq Nat
    BY <1>1 DEF Range
  <2>2. Min(found) \in found
    <3> HIDE DEF found
    <3>1. QED
      BY <2>1, MinIsElement
  <2>3. i = Min(found)
    BY <2>1 DEF SelectInSeq
  <2>4. QED
    BY <1>1, <2>2, <2>3
<1>3. PICK a : a = SubSeq(s, 1, i - 1)
  OBVIOUS
<1>4. PICK b : b = SubSeq(s, i + 1, Len(s))
  OBVIOUS
<1>5. Splice(s, r, u) = (a \o u) \o b
  <2>1. Splice(s, r, u) = (a \o Reading(u, <<r>>, a, b)) \o b
    BY <1>3, <1>4 DEF Splice
  <2>2. \A k \in DOMAIN u : u[k] = Dollar => k + 1 \in DOMAIN u /\ u[k + 1] \notin Signs
    BY DEF Inert
  <2>3. Reading(u, <<r>>, a, b) = u
    BY <2>2, ReadingOfPlain
  <2>4. QED
    BY <2>1, <2>3
<1> HIDE DEF i, found
<1>6. \A j \in 1 .. n : s[j] \in Parts
  BY <1>1, ElementOfSeq
<1>7. /\ a \in Seq(Parts)
      /\ Len(a) = i - 1
      /\ \A j \in 1 .. i - 1 : a[j] = s[j]
  <2>1. /\ SubSeq(s, 1, i - 1) \in Seq(Parts)
        /\ Len(SubSeq(s, 1, i - 1)) = IF 1 <= i - 1 THEN i - 1 - 1 + 1 ELSE 0
        /\ \A j \in 1 .. i - 1 - 1 + 1 : SubSeq(s, 1, i - 1)[j] = s[1 + j - 1]
    BY <1>1, <1>2, <1>6, SubSeqProperties
  <2>2. QED
    BY <1>2, <1>3, <2>1
<1>8. /\ b \in Seq(Parts)
      /\ Len(b) = n - i
      /\ \A j \in 1 .. n - i : b[j] = s[i + j]
  <2>1. /\ SubSeq(s, i + 1, n) \in Seq(Parts)
        /\ Len(SubSeq(s, i + 1, n)) = IF i + 1 <= n THEN n - (i + 1) + 1 ELSE 0
        /\ \A j \in 1 .. n - (i + 1) + 1 : SubSeq(s, i + 1, n)[j] = s[i + 1 + j - 1]
    BY <1>1, <1>2, <1>6, SubSeqProperties
  <2>2. QED
    BY <1>1, <1>2, <1>4, <2>1
<1>9. s = (a \o <<r>>) \o b
  <2>1. r \in Parts /\ <<r>> \in Seq(Parts) /\ Len(<<r>>) = 1 /\ <<r>>[1] = r
    BY <1>1, <1>2, <1>6
  <2>2. PICK c \in Seq(Parts) : c = a \o <<r>>
    BY <1>7, <2>1, ConcatProperties
  <2>3. Len(c) = i /\ \A j \in 1 .. i : c[j] = s[j]
    BY <1>2, <1>7, <2>1, <2>2, ConcatProperties
  <2>4. PICK d \in Seq(Parts) : d = c \o b
    BY <1>8, ConcatProperties
  <2>5. Len(d) = n /\ \A j \in 1 .. n : d[j] = s[j]
    <3>1. Len(d) = Len(c) + Len(b) /\ \A j \in 1 .. Len(c) + Len(b) : d[j] = IF j <= Len(c) THEN c[j] ELSE b[j - Len(c)]
      BY <1>8, <2>4, ConcatProperties
    <3>2. ASSUME NEW j \in 1 .. n PROVE d[j] = s[j]
      <4>1. CASE j <= i
        BY <1>1, <1>2, <1>8, <2>3, <3>1, <4>1
      <4>2. CASE ~(j <= i)
        <5>1. PICK k \in 1 .. n - i : k = j - i
          BY <1>1, <1>2, <4>2
        <5>2. b[k] = s[j]
          <6>1. i + k = j
            BY <1>1, <1>2, <5>1
          <6>2. b[k] = s[i + k]
            BY <1>8, Zenon
          <6>3. QED
            BY <6>1, <6>2
        <5>3. QED
          BY <1>1, <1>2, <1>8, <2>3, <3>1, <4>2, <5>1, <5>2
      <4>3. QED
        BY <4>1, <4>2
    <3>3. QED
      BY <1>1, <1>2, <1>8, <2>3, <3>1, <3>2
  <2>6. s = d
    BY <1>1, <2>5, SeqEqual
  <2>7. QED
    BY <2>2, <2>4, <2>6
<1>10. Cut(s, r, u, i, a, b)
  BY <1>1, <1>2, <1>5, <1>7, <1>8, <1>9 DEF Cut
<1>11. i \in 1 .. Len(s)
  BY <1>1, <1>2
<1>12. QED
  BY <1>7, <1>8, <1>10, <1>11

\* Splicing in what spreads to the same as the reference does not change what
\* the text spreads to.
LEMMA SpliceSpreads ==
    ASSUME NEW m \in [Parts -> Seq(Parts)], NEW s \in Seq(Parts), NEW u \in Seq(Parts),
           NEW r \in Range(s), Spread(u, m) = m[r], Inert(u)
    PROVE  /\ Splice(s, r, u) \in Seq(Parts)
           /\ Spread(Splice(s, r, u), m) = Spread(s, m)
           /\ Range(Splice(s, r, u)) \subseteq Range(s) \cup Range(u)
<1>1. PICK n \in Nat : n = Len(s) /\ DOMAIN s = 1 .. n
  BY LenProperties
<1>2. PICK i \in 1 .. n, a \in Seq(Parts), b \in Seq(Parts) : Cut(s, r, u, i, a, b)
  BY <1>1, SpliceIs
<1>3. /\ Len(a) = i - 1 /\ \A j \in 1 .. i - 1 : a[j] = s[j]
      /\ Len(b) = n - i /\ \A j \in 1 .. n - i : b[j] = s[i + j]
      /\ s[i] = r
  BY <1>1, <1>2 DEF Cut
<1>4. r \in Parts /\ <<r>> \in Seq(Parts)
  BY <1>1, <1>3, ElementOfSeq
<1>5. PICK au \in Seq(Parts) : au = a \o u
  BY ConcatProperties
<1>6. PICK ar \in Seq(Parts) : ar = a \o <<r>>
  BY <1>4, ConcatProperties
<1>7. Spread(au, m) = Spread(ar, m)
  <2>1. Spread(au, m) = Spread(a, m) \o Spread(u, m)
    BY <1>5, SpreadConcat
  <2>2. Spread(ar, m) = Spread(a, m) \o Spread(<<r>>, m)
    BY <1>4, <1>6, SpreadConcat
  <2>3. Spread(<<r>>, m) = m[r]
    BY <1>4, SpreadOne
  <2>4. QED
    BY <2>1, <2>2, <2>3
<1>8. Spread(au \o b, m) = Spread(ar \o b, m)
  <2>1. Spread(au \o b, m) = Spread(au, m) \o Spread(b, m)
    BY SpreadConcat
  <2>2. Spread(ar \o b, m) = Spread(ar, m) \o Spread(b, m)
    BY SpreadConcat
  <2>3. QED
    BY <1>7, <2>1, <2>2
<1>9. au \o b \in Seq(Parts) /\ Range(au \o b) = Range(a) \cup Range(u) \cup Range(b)
  <2>1. Range(au) = Range(a) \cup Range(u)
    BY <1>5, RangeConcatenation
  <2>2. Range(au \o b) = Range(au) \cup Range(b)
    BY RangeConcatenation
  <2>3. au \o b \in Seq(Parts)
    BY ConcatProperties
  <2>4. QED
    BY <2>1, <2>2, <2>3
<1>10. Range(a) \subseteq Range(s) /\ Range(b) \subseteq Range(s)
  <2>1. DOMAIN a = 1 .. i - 1 /\ DOMAIN b = 1 .. n - i
    BY <1>3, LenProperties
  <2>2. ASSUME NEW j \in 1 .. i - 1 PROVE a[j] \in Range(s)
    <3>1. j \in 1 .. n /\ a[j] = s[j]
      BY <1>3
    <3>2. QED
      BY <1>1, <3>1 DEF Range
  <2>3. ASSUME NEW j \in 1 .. n - i PROVE b[j] \in Range(s)
    <3>1. PICK h \in 1 .. n : h = i + j
      OBVIOUS
    <3>2. b[j] = s[h]
      BY <1>3, <3>1
    <3>3. QED
      BY <1>1, <3>2 DEF Range
  <2>4. QED
    BY <2>1, <2>2, <2>3 DEF Range
<1>11. s = ar \o b /\ Splice(s, r, u) = au \o b
  BY <1>2, <1>5, <1>6 DEF Cut
<1>12. QED
  BY <1>8, <1>9, <1>10, <1>11

\* Texts whose dollars mean themselves, one after the other, are such a text.
LEMMA InertConcat ==
    ASSUME NEW a \in Seq(Parts), NEW b \in Seq(Parts), Inert(a), Inert(b)
    PROVE  Inert(a \o b)
<1>1. PICK n \in Nat : n = Len(a) /\ DOMAIN a = 1 .. n
  BY LenProperties
<1>2. PICK m \in Nat : m = Len(b) /\ DOMAIN b = 1 .. m
  BY LenProperties
<1>3. PICK c \in Seq(Parts) : c = a \o b
  BY ConcatProperties
<1>4. Len(c) = n + m /\ \A j \in 1 .. n + m : c[j] = IF j <= n THEN a[j] ELSE b[j - n]
  BY <1>1, <1>2, <1>3, ConcatProperties
<1>5. DOMAIN c = 1 .. n + m
  BY <1>4, LenProperties
<1>6. ASSUME NEW j \in 1 .. n + m, c[j] = Dollar
      PROVE  \E k \in 1 .. n + m : k = j + 1 /\ c[k] \notin Signs /\ ~IsReference(c[k])
  <2>1. CASE j <= n
    <3>1. j \in 1 .. n /\ a[j] = Dollar
      BY <1>4, <1>6, <2>1
    <3>2. PICK k \in 1 .. n : k = j + 1 /\ a[k] \notin Signs /\ ~IsReference(a[k])
      BY <1>1, <3>1 DEF Inert
    <3>3. k \in 1 .. n + m /\ c[k] = a[k]
      BY <1>4
    <3>4. QED
      BY <3>2, <3>3
  <2>2. CASE j > n
    <3>1. PICK i \in 1 .. m : i = j - n
      BY <2>2
    <3>2. b[i] = Dollar
      BY <1>4, <1>6, <2>2, <3>1
    <3>3. PICK h \in 1 .. m : h = i + 1 /\ b[h] \notin Signs /\ ~IsReference(b[h])
      BY <1>2, <3>2 DEF Inert
    <3>4. PICK k \in 1 .. n + m : k = n + h /\ ~(k <= n) /\ k - n = h
      OBVIOUS
    <3>5. c[k] = b[h]
      BY <1>4, <3>4
    <3>6. k = j + 1
      BY <3>1, <3>3, <3>4
    <3>7. QED
      BY <3>3, <3>5, <3>6
  <2>3. QED
    BY <2>1, <2>2
<1>7. Inert(c)
  BY <1>5, <1>6 DEF Inert
<1>8. QED
  BY <1>3, <1>7

\* Such a text remains one when another is spliced into it.
LEMMA SpliceIsInert ==
    ASSUME NEW s \in Seq(Parts), NEW u \in Seq(Parts), NEW r \in Range(s), IsReference(r),
           Inert(s), Inert(u)
    PROVE  Inert(Splice(s, r, u))
<1>1. PICK n \in Nat : n = Len(s) /\ DOMAIN s = 1 .. n
  BY LenProperties
<1>2. PICK i \in 1 .. n, a \in Seq(Parts), b \in Seq(Parts) : Cut(s, r, u, i, a, b)
  BY <1>1, SpliceIs
<1>3. /\ Len(a) = i - 1 /\ \A j \in 1 .. i - 1 : a[j] = s[j]
      /\ Len(b) = n - i /\ \A j \in 1 .. n - i : b[j] = s[i + j]
      /\ s[i] = r
  BY <1>1, <1>2 DEF Cut
<1>4. DOMAIN a = 1 .. i - 1 /\ DOMAIN b = 1 .. n - i
  BY <1>3, LenProperties
<1>5. \A j \in 1 .. n : s[j] = Dollar =>
          \E k \in 1 .. n : k = j + 1 /\ s[k] \notin Signs /\ ~IsReference(s[k])
  BY <1>1 DEF Inert
<1>6. ASSUME NEW j \in 1 .. i - 1, a[j] = Dollar
      PROVE  \E k \in 1 .. i - 1 : k = j + 1 /\ a[k] \notin Signs /\ ~IsReference(a[k])
  <2>1. j \in 1 .. n /\ s[j] = Dollar
    BY <1>3, <1>6
  <2>2. PICK k \in 1 .. n : k = j + 1 /\ s[k] \notin Signs /\ ~IsReference(s[k])
    BY <1>5, <2>1
  <2>3. k # i
    BY <1>3, <2>2
  <2>4. k \in 1 .. i - 1
    BY <2>2, <2>3
  <2>5. QED
    BY <1>3, <2>2, <2>4
<1>7. ASSUME NEW j \in 1 .. n - i, b[j] = Dollar
      PROVE  \E k \in 1 .. n - i : k = j + 1 /\ b[k] \notin Signs /\ ~IsReference(b[k])
  <2>1. PICK h \in 1 .. n : h = i + j /\ s[h] = Dollar
    BY <1>3, <1>7
  <2>2. PICK k \in 1 .. n : k = h + 1 /\ s[k] \notin Signs /\ ~IsReference(s[k])
    BY <1>5, <2>1
  <2>3. PICK g \in 1 .. n - i : g = j + 1 /\ i + g = k
    BY <2>1, <2>2
  <2>4. b[g] = s[k]
    BY <1>3, <2>3
  <2>5. QED
    BY <2>2, <2>3, <2>4
<1>8. Inert(a) /\ Inert(b)
  BY <1>4, <1>6, <1>7 DEF Inert
<1>9. PICK c \in Seq(Parts) : c = a \o u /\ Inert(c)
  BY <1>8, InertConcat, ConcatProperties
<1>10. Inert(c \o b)
  BY <1>8, <1>9, InertConcat
<1>11. Splice(s, r, u) = c \o b
  BY <1>2, <1>9 DEF Cut
<1>12. QED
  BY <1>10, <1>11

\* What may be asked for: it can be expanded all the way, by texts that may be nested.
Fit(r) == Acyclic(r) /\ InertBelow(r)

\* What is computed of the catalog only does not change when it does not.
LEMMA SameCatalog ==
    ASSUME catalog' = catalog
    PROVE  /\ Expansion' = Expansion
           /\ Visits' = Visits
           /\ \A r : Fit(r)' <=> Fit(r)
           /\ \A s : Expanded(s)' = Expanded(s)
           /\ \A r : Smooth(r)' <=> Smooth(r)
<1>1. Expansion' = Expansion /\ Visits' = Visits
  BY DEF Expansion, Visits, Candidates, TextOf
<1>2. \A r : Candidates(r)' = Candidates(r) /\ TextOf(r)' = TextOf(r)
  BY DEF Candidates, TextOf
<1>3. ASSUME NEW r PROVE Acyclic(r)' <=> Acyclic(r)
  BY <1>1, <1>2 DEF Acyclic
<1>4. ASSUME NEW r PROVE InertBelow(r)' <=> InertBelow(r)
  BY <1>1, <1>2 DEF InertBelow
<1>5. ASSUME NEW r PROVE Smooth(r)' <=> Smooth(r)
  BY <1>1, <1>2, <1>3 DEF Smooth
<1>6. ASSUME NEW s PROVE Expanded(s)' = Expanded(s)
  BY <1>1 DEF Expanded
<1>7. ASSUME NEW r PROVE Fit(r)' <=> Fit(r)
  BY <1>3, <1>4 DEF Fit
<1>8. QED
  BY <1>1, <1>5, <1>6, <1>7

\* What a call still has to do leads to what it was called for.
FrameSound(frame) ==
    /\ Expanded(frame.text) = Expansion[Depth][frame.ref]
    /\ \A t \in Range(frame.text) : IsReference(t) => Smooth(t)

\* So it is with all the calls in progress, if with the first; the texts of the others
\* may be nested; and what a nested call was made for stands in the text of its caller
\* until it returns.
StackSound ==
    /\ \A i \in 2 .. Len(stack) : stack[i].ref \in Range(stack[i - 1].text)
    /\ stack # <<>> /\ Fit(stack[1].ref) =>
          /\ \A i \in 1 .. Len(stack) : FrameSound(stack[i])
          /\ \A i \in 2 .. Len(stack) : Inert(stack[i].text)

\* Calls that keep what they are for and their texts stay sound.
LEMMA SameFrames ==
    ASSUME Inductive, StackSound, catalog' = catalog, Len(stack') = Len(stack), stack # <<>>,
           \A i \in 1 .. Len(stack) : stack'[i].ref = stack[i].ref /\ stack'[i].text = stack[i].text
    PROVE  StackSound'
<1>1. PICK n \in Nat \ {0} : n = Len(stack) /\ n = Len(stack')
  BY EmptySeq DEF Inductive, Typed
<1>2. ASSUME NEW i \in 1 .. n PROVE FrameSound(stack[i])' <=> FrameSound(stack[i])
  BY <1>1, SameCatalog DEF FrameSound
<1>3. Fit(stack[1].ref)' <=> Fit(stack[1].ref)
  BY <1>1, SameCatalog
<1>4. \A i \in 2 .. n : i \in 1 .. n /\ i - 1 \in 1 .. n
  OBVIOUS
<1>5. \A i \in 2 .. n : stack'[i].ref \in Range(stack'[i - 1].text)
  BY <1>1, <1>4 DEF StackSound
<1>6. ASSUME NEW i \in 2 .. n PROVE Inert(stack[i].text)' <=> Inert(stack[i].text)
  <2>1. stack'[i].text = stack[i].text
    BY <1>1, <1>4
  <2>2. QED
    BY <2>1 DEF Inert
<1>7. QED
  BY <1>1, <1>2, <1>3, <1>5, <1>6 DEF StackSound

\* The text a call starts with expands to what it is called for.
LEMMA FirstTextIsSound ==
    ASSUME catalog \in [Prompts -> Versions], Depth \in Nat, NEW r \in Reference, Candidates(r) # {}, Fit(r) \/ Smooth(r),
           NEW frame, frame.ref = r, frame.text = TextOf(r)
    PROVE  FrameSound(frame)
<1>1. Acyclic(r)
  BY DEF Fit, Smooth
<1>2. /\ Expanded(TextOf(r)) = Expansion[Depth][r]
      /\ \A t \in Range(TextOf(r)) : IsReference(t) => Acyclic(t)
  BY <1>1, TextOfAcyclic
<1>3. CASE Fit(r)
  BY <1>2, <1>3 DEF Fit, FrameSound, InertBelow, Smooth
<1>4. CASE Smooth(r)
  BY <1>2, <1>4, TextOfSmooth DEF FrameSound
<1>5. QED
  BY <1>3, <1>4

\* The first call begins with the text of what is asked for.
LEMMA RequestIsSound ==
    ASSUME Inductive, Depth \in Nat, NEW r \in Reference, Request(r)
    PROVE  StackSound'
<1> DEFINE root == [ref |-> r, project |-> r.project, text |-> TextOf(r), pos |-> 0,
                    seen |-> {}, errors |-> {}]
<1>1. stack' = <<root>> /\ catalog' = catalog /\ Candidates(r) # {}
  BY DEF Request, Found
<1>2. root.ref = r /\ root.text = TextOf(r)
  OBVIOUS
<1> HIDE DEF root
<1>3. Len(<<root>>) = 1 /\ <<root>>[1] = root /\ (\A i \in 1 .. 1 : i = 1) /\ 2 .. 1 = {}
  OBVIOUS
<1>4. Fit(r) => FrameSound(root)
  BY <1>1, <1>2, FirstTextIsSound DEF Inductive, Typed
<1>5. Fit(stack[1].ref)' <=> Fit(r)
  BY <1>1, <1>2, <1>3, SameCatalog
<1>6. FrameSound(stack[1])' <=> FrameSound(root)
  BY <1>1, <1>3, SameCatalog DEF FrameSound
<1>7. QED
  BY <1>1, <1>3, <1>4, <1>5, <1>6 DEF StackSound

\* A nested call is one for a reference that can be expanded all the way, since its
\* caller's references can.
LEMMA EnterIsSound ==
    ASSUME Inductive, StackSound, Depth \in Nat, Enter
    PROVE  StackSound'
<1> DEFINE base == Front(stack) \o <<Advanced>>
<1>1. PICK n \in Nat \ {0} : n = Len(stack)
  BY EmptySeq DEF Inductive, Typed, Enter, Searching
<1>2. Typed /\ Searching /\ stack \in Seq(AnyFrame) /\ Top = stack[n]
  BY <1>1 DEF Inductive, Typed, Enter, Top, Last
<1>3. /\ Top \in AnyFrame /\ Ref \in Reference /\ Match \in 1 .. Len(Top.text)
      /\ Advanced \in AnyFrame /\ Advanced.ref = Top.ref /\ Advanced.text = Top.text
  BY <1>2, PendingReference, AdvancedFrame DEF Advanced, AnyFrame
<1>4. Candidates(Ref) # {} /\ catalog' = catalog
  BY DEF Enter, Found
<1>5. /\ base \in Seq(AnyFrame)
      /\ Len(base) = n
      /\ \A i \in 1 .. n : base[i] = IF i = n THEN Advanced ELSE stack[i]
  BY <1>1, <1>2, <1>3, Restacked
<1>6. PICK child : /\ stack' = Append(base, child)
                   /\ child \in AnyFrame /\ child.ref = Ref /\ child.text = TextOf(Ref)
  <2>1. stack' = Append(base, Child(Ref))
    BY DEF Enter
  <2>2. Child(Ref) \in AnyFrame
    <3>1. TextOf(Ref) \in Text
      BY <1>2, <1>3, <1>4, TextIsText DEF Typed
    <3>2. Home[Ref.prompt] \in Projects
      BY <1>3, HomeAssumption DEF Reference
    <3>3. Advanced.seen \in SUBSET (Projects \X Prompts)
      BY <1>3 DEF AnyFrame
    <3>4. QED
      BY <1>3, <3>1, <3>2, <3>3 DEF Child, AnyFrame, Offsets
  <2>3. Child(Ref).ref = Ref /\ Child(Ref).text = TextOf(Ref)
    BY DEF Child
  <2>4. QED
    BY <2>1, <2>2, <2>3
<1> HIDE DEF base
<1>7. /\ Len(stack') = n + 1
      /\ stack'[n + 1] = child
      /\ \A i \in 1 .. n : stack'[i] = IF i = n THEN Advanced ELSE stack[i]
  BY <1>5, <1>6, AppendProperties
<1>8. \A i \in 1 .. n : stack'[i].ref = stack[i].ref /\ stack'[i].text = stack[i].text
  BY <1>2, <1>3, <1>7
<1>9. Ref \in Range(stack[n].text) /\ IsReference(Ref)
  <2>1. Top.text \in Seq(Parts)
    BY <1>3 DEF AnyFrame, Text, Parts
  <2>2. Match \in DOMAIN Top.text
    BY <1>3, <2>1, LenProperties
  <2>3. Ref \notin Literals
    BY <1>3, LiteralAssumption
  <2>4. QED
    BY <1>2, <2>2, <2>3 DEF Ref, Range, IsReference
<1>10. ASSUME NEW i \in 2 .. n + 1 PROVE stack'[i].ref \in Range(stack'[i - 1].text)
  <2>1. i - 1 \in 1 .. n
    BY <1>1
  <2>2. CASE i = n + 1
    BY <1>6, <1>7, <1>8, <1>9, <2>1, <2>2
  <2>3. CASE i # n + 1
    <3>1. i \in 1 .. n /\ i \in 2 .. n
      BY <1>1, <2>3
    <3>2. stack[i].ref \in Range(stack[i - 1].text)
      BY <1>1, <3>1 DEF StackSound
    <3>3. QED
      BY <1>8, <2>1, <3>1, <3>2
  <2>4. QED
    BY <2>2, <2>3
<1>11. ASSUME Fit(stack[1].ref)'
       PROVE  /\ \A i \in 1 .. n + 1 : FrameSound(stack[i])'
              /\ \A i \in 2 .. n + 1 : Inert(stack[i].text)'
  <2>1. 1 \in 1 .. n /\ n \in 1 .. n /\ stack # <<>>
    BY <1>1, <1>2, EmptySeq DEF Searching
  <2>2. Fit(stack[1].ref)
    BY <1>4, <1>8, <1>11, <2>1, SameCatalog
  <2>3. (\A i \in 1 .. n : FrameSound(stack[i])) /\ \A i \in 2 .. n : Inert(stack[i].text)
    BY <1>1, <2>1, <2>2 DEF StackSound
  <2>4. ASSUME NEW i \in 1 .. n PROVE FrameSound(stack[i])'
    <3>1. FrameSound(stack[i])
      BY <2>3
    <3>2. stack'[i].ref = stack[i].ref /\ stack'[i].text = stack[i].text
      BY <1>8
    <3>3. QED
      BY <1>4, <3>1, <3>2, SameCatalog DEF FrameSound
  <2>5. Smooth(Ref)
    BY <1>9, <2>1, <2>3 DEF FrameSound
  <2>6. FrameSound(child)
    BY <1>2, <1>3, <1>4, <1>6, <2>5, FirstTextIsSound DEF Typed
  <2>7. FrameSound(stack[n + 1])'
    BY <1>4, <1>7, <2>6, SameCatalog DEF FrameSound
  <2>8. \A i \in 1 .. n + 1 : i \in 1 .. n \/ i = n + 1
    BY <1>1
  <2>9. Inert(child.text)
    BY <1>2, <1>3, <1>4, <1>6, <2>5, TextOfSmooth DEF Typed
  <2>10. ASSUME NEW i \in 2 .. n + 1 PROVE Inert(stack[i].text)'
    <3>1. PICK words : words = stack'[i].text /\ Inert(words)
      <4>1. CASE i = n + 1
        BY <1>7, <2>9, <4>1
      <4>2. CASE i # n + 1
        <5>1. i \in 1 .. n /\ i \in 2 .. n
          BY <1>1, <4>2
        <5>2. QED
          BY <1>8, <2>3, <5>1
      <4>3. QED
        BY <4>1, <4>2
    <3>2. QED
      BY <3>1 DEF Inert
  <2>11. QED
    BY <2>4, <2>7, <2>8, <2>10
<1>12. QED
  BY <1>7, <1>10, <1>11 DEF StackSound

\* What a nested call hands back expands to what its reference does, so the caller's
\* text goes on expanding to the same.
LEMMA ReturnIsSound ==
    ASSUME Inductive, StackSound, Depth \in Nat, Return
    PROVE  StackSound'
<1> DEFINE rest == Front(stack)
           caller == Last(rest)
           resumed == Resumed(caller, Top)
<1>1. PICK n \in Nat \ {0} : n = Len(stack) - 1
  <2>1. Len(stack) \in Nat /\ Len(stack) > 1
    BY LenProperties DEF Inductive, Typed, Return
  <2>2. QED
    BY <2>1
<1>2. stack \in Seq(AnyFrame) /\ Len(stack) = n + 1 /\ Top = stack[n + 1] /\ catalog \in [Prompts -> Versions]
  BY <1>1 DEF Inductive, Typed, Top, Last
<1>3. rest \in Seq(AnyFrame) /\ Len(rest) = n /\ \A i \in 1 .. n : rest[i] = stack[i]
  <2>1. Len(stack) > 0 /\ Len(stack) - 1 = n
    BY <1>2
  <2>2. /\ Front(stack) \in Seq(AnyFrame)
        /\ Len(Front(stack)) = Len(stack) - 1
        /\ \A i \in 1 .. Len(stack) - 1 : Front(stack)[i] = stack[i]
    BY <1>2, <2>1, FrontIsPrefix
  <2>3. QED
    BY <2>1, <2>2
<1>4. /\ n \in 1 .. n + 1 /\ n + 1 \in 1 .. n + 1 /\ n \in 1 .. n /\ 1 \in 1 .. n + 1
      /\ caller = stack[n] /\ caller \in AnyFrame /\ Top \in AnyFrame
  <2>1. n \in 1 .. n + 1 /\ n + 1 \in 1 .. n + 1 /\ n \in 1 .. n /\ 1 \in 1 .. n + 1
    BY <1>1
  <2>2. stack[n] \in AnyFrame /\ stack[n + 1] \in AnyFrame
    BY <1>2, <2>1, ElementOfSeq
  <2>3. QED
    BY <1>2, <1>3, <2>1, <2>2 DEF Last
<1>5. caller.text \in Seq(Parts) /\ Top.text \in Seq(Parts) /\ Top.ref \in Range(caller.text)
  <2>1. n + 1 \in 2 .. n + 1 /\ (n + 1) - 1 = n
    BY <1>1
  <2>2. Top.ref \in Range(caller.text)
    BY <1>2, <1>4, <2>1 DEF StackSound
  <2>3. QED
    BY <1>4, <2>2 DEF AnyFrame, Text, Parts
<1>6. resumed \in AnyFrame /\ resumed.ref = caller.ref /\ resumed.text = Splice(caller.text, Top.ref, Top.text)
  <2> DEFINE words == Splice(caller.text, Top.ref, Top.text)
  <2>1. words \in Text
    BY <1>4, SpliceIsText DEF AnyFrame
  <2>2. resumed = [caller EXCEPT !.text = words, !.errors = caller.errors \cup Top.errors]
    BY <1>4 DEF Resumed, AnyFrame
  <2> HIDE DEF words, resumed, caller
  <2>3. resumed \in AnyFrame /\ resumed.ref = caller.ref /\ resumed.text = words
    BY <1>4, <2>1, <2>2 DEF AnyFrame
  <2>4. QED
    BY <2>3 DEF words
<1>7. stack' = Front(rest) \o <<resumed>> /\ catalog' = catalog
  BY DEF Return
<1> HIDE DEF rest, caller, resumed
<1>8. Len(stack') = n /\ \A i \in 1 .. n : stack'[i] = IF i = n THEN resumed ELSE stack[i]
  BY <1>1, <1>3, <1>6, <1>7, Restacked
<1>9. ASSUME NEW i \in 2 .. n PROVE stack'[i].ref \in Range(stack'[i - 1].text)
  <2>1. i \in 1 .. n /\ i - 1 \in 1 .. n /\ i - 1 # n /\ i \in 2 .. n + 1
    BY <1>1
  <2>2. stack[i].ref \in Range(stack[i - 1].text)
    BY <1>2, <2>1 DEF StackSound
  <2>3. QED
    BY <1>4, <1>6, <1>8, <2>1, <2>2
<1>10. ASSUME Fit(stack[1].ref)'
       PROVE  /\ \A i \in 1 .. n : FrameSound(stack[i])'
              /\ \A i \in 2 .. n : Inert(stack[i].text)'
  <2>1. 1 \in 1 .. n /\ stack # <<>>
    BY <1>1, <1>2, EmptySeq
  <2>2. stack'[1].ref = stack[1].ref
    BY <1>4, <1>6, <1>8, <2>1
  <2>3. Fit(stack[1].ref)
    BY <1>7, <1>10, <2>2, SameCatalog
  <2>4. (\A i \in 1 .. n + 1 : FrameSound(stack[i])) /\ \A i \in 2 .. n + 1 : Inert(stack[i].text)
    BY <1>2, <2>1, <2>3 DEF StackSound
  <2>5. FrameSound(caller) /\ FrameSound(Top) /\ Inert(Top.text) /\ (n # 1 => Inert(caller.text))
    <3>1. n + 1 \in 2 .. n + 1 /\ (n # 1 => n \in 2 .. n + 1)
      BY <1>1
    <3>2. QED
      BY <1>2, <1>4, <2>4, <3>1
  <2>6. FrameSound(resumed) /\ (n # 1 => Inert(resumed.text))
    <3>1. PICK m \in [Parts -> Seq(Parts)] : m = Full
      BY <1>2, FullIsFunction
    <3>2. PICK s \in Seq(Parts) : s = caller.text
      BY <1>5
    <3>3. PICK u \in Seq(Parts) : u = Top.text
      BY <1>5
    <3>4. PICK r \in Range(s) : r = Top.ref
      BY <1>5, <3>2
    <3>5. Spread(u, m) = m[r]
      <4>1. Spread(u, m) = Expanded(u)
        BY <3>1, ExpandedIsSpread
      <4>2. r \in Reference
        BY <1>4, <3>4 DEF AnyFrame
      <4>3. r \in Parts /\ IsReference(r)
        BY <4>2, LiteralAssumption DEF Parts, IsReference
      <4>4. m[r] = Expansion[Depth][r]
        BY <3>1, <4>3 DEF Full
      <4>5. QED
        BY <2>5, <3>3, <3>4, <4>1, <4>4 DEF FrameSound
    <3>6. PICK t : t = Splice(s, r, u)
      OBVIOUS
    <3>7. t \in Seq(Parts) /\ Spread(t, m) = Spread(s, m) /\ Range(t) \subseteq Range(s) \cup Range(u)
      BY <2>5, <3>3, <3>5, <3>6, SpliceSpreads
    <3>8. Expanded(t) = Expanded(s)
      BY <3>1, <3>7, ExpandedIsSpread
    <3>9. resumed.text = t /\ resumed.ref = caller.ref
      BY <1>6, <3>2, <3>3, <3>4, <3>6
    <3>10. FrameSound(resumed)
      BY <2>5, <3>2, <3>3, <3>7, <3>8, <3>9 DEF FrameSound
    <3>11. IsReference(r)
      <4>1. r \in Reference
        BY <1>4, <3>4 DEF AnyFrame
      <4>2. QED
        BY <4>1, LiteralAssumption DEF IsReference
    <3>12. n # 1 => Inert(t)
      BY <2>5, <3>2, <3>3, <3>6, <3>11, SpliceIsInert
    <3>13. QED
      BY <3>9, <3>10, <3>12
  <2>7. ASSUME NEW i \in 1 .. n PROVE FrameSound(stack[i])'
    <3>1. PICK frame : frame = stack'[i] /\ FrameSound(frame)
      <4>1. CASE i = n
        BY <1>8, <2>6, <4>1
      <4>2. CASE i # n
        <5>1. i \in 1 .. n + 1
          BY <1>1
        <5>2. QED
          BY <1>8, <2>4, <4>2, <5>1
      <4>3. QED
        BY <4>1, <4>2
    <3>2. QED
      BY <1>7, <3>1, SameCatalog DEF FrameSound
  <2>8. ASSUME NEW i \in 2 .. n PROVE Inert(stack[i].text)'
    <3>1. PICK words : words = stack'[i].text /\ Inert(words)
      <4>1. i \in 1 .. n /\ i \in 2 .. n + 1 /\ n # 1
        BY <1>1
      <4>2. CASE i = n
        BY <1>8, <2>6, <4>1, <4>2
      <4>3. CASE i # n
        BY <1>8, <2>4, <4>1, <4>3
      <4>4. QED
        BY <4>2, <4>3
    <3>2. QED
      BY <3>1 DEF Inert
  <2>9. QED
    BY <2>7, <2>8
<1>11. QED
  BY <1>8, <1>9, <1>10 DEF StackSound

\* The first call ends with a text in which nothing is pending; what has been
\* left over expands to what was asked for.
LEMMA FinishIsSound ==
    ASSUME Inductive, StackSound, Finish
    PROVE  SubstitutionSound'
<1>1. stack \in Seq(AnyFrame) /\ Len(stack) = 1 /\ stack # <<>> /\ 1 \in 1 .. 1
  <2>1. Len(<<>>) = 0
    OBVIOUS
  <2>2. stack \in Seq(AnyFrame) /\ Len(stack) = 1
    BY DEF Inductive, Typed, Finish
  <2>3. QED
    BY <2>1, <2>2
<1>2. Top = stack[1]
  BY <1>1 DEF Top, Last
<1>3. /\ outcome' = Answer("ok", Top.ref, Top.text, Top.errors) /\ catalog' = catalog
  BY DEF Finish
<1>4. outcome'.asked = Top.ref /\ outcome'.text = Top.text
  BY <1>3 DEF Answer
<1>5. ASSUME Fit(Top.ref) PROVE FrameSound(Top)
  BY <1>1, <1>2, <1>5 DEF StackSound
<1>6. ASSUME Fit(outcome.asked)' PROVE (Expanded(outcome.text) = Expansion[Depth][outcome.asked])'
  <2>1. Fit(Top.ref)
    BY <1>3, <1>4, <1>6, SameCatalog
  <2>2. FrameSound(Top)
    BY <1>5, <2>1
  <2>3. QED
    BY <1>3, <1>4, <2>2, SameCatalog DEF FrameSound
<1>7. QED
  BY <1>6 DEF SubstitutionSound, Fit

\* Where nothing is in progress, nothing is to be shown of it.
LEMMA EndIsSound ==
    ASSUME stack' = <<>>
    PROVE  StackSound'
<1>1. Len(<<>>) = 0 /\ 2 .. 0 = {}
  OBVIOUS
<1>2. QED
  BY <1>1 DEF StackSound

\* A text that is handed out as it stands expands to what its version does.
LEMMA RawIsSound ==
    ASSUME Inductive, Depth \in Nat, NEW r \in Reference, RequestRaw(r)
    PROVE  StackSound' /\ SubstitutionSound'
<1>1. /\ stack' = <<>> /\ catalog' = catalog /\ Candidates(r) # {}
      /\ outcome' = Answer("raw", r, TextOf(r), {})
  BY DEF RequestRaw, Found
<1>2. outcome'.asked = r /\ outcome'.text = TextOf(r)
  BY <1>1 DEF Answer
<1>3. ASSUME Fit(outcome.asked)' PROVE (Expanded(outcome.text) = Expansion[Depth][outcome.asked])'
  <2>1. Fit(r)
    BY <1>1, <1>2, <1>3, SameCatalog
  <2>2. Expanded(TextOf(r)) = Expansion[Depth][r]
    BY <1>1, <2>1, TextOfAcyclic DEF Inductive, Typed, Fit
  <2>3. QED
    BY <1>1, <1>2, <2>2, SameCatalog
<1>4. QED
  BY <1>1, <1>3, EndIsSound DEF SubstitutionSound, Fit

\* A refusal promises nothing.
LEMMA RefusalIsSound ==
    ASSUME stack' = <<>>, outcome'.status \notin {"ok", "raw"}
    PROVE  StackSound' /\ SubstitutionSound'
BY EndIsSound DEF SubstitutionSound

\* The answer stays what it is, and so does the catalog.
LEMMA SameAnswer ==
    ASSUME SubstitutionSound, outcome' = outcome, catalog' = catalog
    PROVE  SubstitutionSound'
<1>1. ASSUME NEW r PROVE Fit(r)' <=> Fit(r)
  BY SameCatalog
<1>2. QED
  BY <1>1, SameCatalog DEF SubstitutionSound, Fit

\* While the catalog is not edited, the calls in progress and the answers are sound.
LEMMA SoundnessHolds ==
    ASSUME ~Editable, IsFiniteSet(Prompts)
    PROVE  Spec => [](StackSound /\ SubstitutionSound)
<1>1. Depth \in Nat
  BY FS_CardinalityType DEF Depth
<1>2. Init => StackSound /\ SubstitutionSound
  <2>1. SUFFICES ASSUME Init PROVE StackSound /\ SubstitutionSound
    OBVIOUS
  <2>2. Len(<<>>) = 0 /\ 2 .. 0 = {}
    OBVIOUS
  <2>3. QED
    BY <2>1, <2>2 DEF Init, StackSound, SubstitutionSound
<1>3. Inductive /\ StackSound /\ SubstitutionSound /\ [Next]_vars => (StackSound /\ SubstitutionSound)'
  <2>1. SUFFICES ASSUME Inductive, StackSound, SubstitutionSound, [Next]_vars
                 PROVE  StackSound' /\ SubstitutionSound'
    OBVIOUS
  <2>2. ASSUME NEW project \in Projects, NEW p \in Prompts, NEW tag \in Tags \cup {NULL},
               NEW r, r = [project |-> project, prompt |-> p, tag |-> tag, language |-> NULL],
               Request(r) \/ RequestRaw(r) \/ RequestRefused(r)
        PROVE  StackSound' /\ SubstitutionSound'
    <3>1. r \in Reference
      BY <2>2 DEF Reference
    <3>2. CASE Request(r)
      BY <1>1, <2>1, <3>1, <3>2, RequestIsSound DEF Request, SubstitutionSound
    <3>3. CASE RequestRefused(r)
      <4>1. stack' = <<>> /\ outcome'.status \notin {"ok", "raw"}
        BY <3>3 DEF RequestRefused, Answer
      <4>2. QED
        BY <4>1, RefusalIsSound
    <3>4. CASE RequestRaw(r)
      BY <1>1, <2>1, <3>1, <3>4, RawIsSound
    <3>5. QED
      BY <2>2, <3>2, <3>3, <3>4
  <2>3. CASE RefuseCircular
    BY <2>3, RefusalIsSound DEF RefuseCircular, Refuse, Answer
  <2>4. CASE RefuseDepth
    BY <2>4, RefusalIsSound DEF RefuseDepth, Refuse, Answer
  <2>5. CASE RefuseMissing
    BY <2>5, RefusalIsSound DEF RefuseMissing, Refuse, Answer
  <2>6. CASE Enter
    BY <1>1, <2>1, <2>6, EnterIsSound, SameAnswer DEF Enter
  <2>7. CASE NestedCallFails
    <3>1. PICK failing : failing = [Advanced EXCEPT !.errors = @ \cup {Ref}]
      OBVIOUS
    <3>2. stack \in Seq(AnyFrame) /\ stack # <<>> /\ Len(stack) > 0 /\ Top = stack[Len(stack)]
      BY <2>1, <2>7, EmptySeq DEF Inductive, Typed, NestedCallFails, Searching, Top, Last
    <3>3. Advanced \in AnyFrame /\ Advanced.ref = Top.ref /\ Advanced.text = Top.text /\ Ref \in Reference
      BY <2>1, <2>7, PendingReference, AdvancedFrame DEF Advanced, AnyFrame, Inductive, NestedCallFails
    <3>4. failing \in AnyFrame /\ failing.ref = Top.ref /\ failing.text = Top.text
      BY <3>1, <3>3 DEF AnyFrame
    <3>5. stack' = Front(stack) \o <<failing>> /\ catalog' = catalog /\ outcome' = outcome
      BY <2>7, <3>1 DEF NestedCallFails
    <3>6. /\ Len(stack') = Len(stack)
          /\ \A i \in 1 .. Len(stack) : stack'[i] = IF i = Len(stack) THEN failing ELSE stack[i]
      BY <3>2, <3>4, <3>5, Restacked
    <3>7. \A i \in 1 .. Len(stack) : stack'[i].ref = stack[i].ref /\ stack'[i].text = stack[i].text
      BY <3>2, <3>4, <3>6
    <3>8. QED
      BY <2>1, <3>2, <3>5, <3>6, <3>7, SameFrames, SameAnswer
  <2>8. CASE Return
    BY <1>1, <2>1, <2>8, ReturnIsSound, SameAnswer DEF Return
  <2>9. CASE Finish
    BY <2>1, <2>9, FinishIsSound, EndIsSound DEF Finish
  <2>10. CASE Edit
    BY <2>10 DEF Edit
  <2>11. CASE UNCHANGED vars
    <3>1. stack' = stack /\ catalog' = catalog /\ outcome' = outcome
      BY <2>11 DEF vars
    <3>2. CASE stack = <<>>
      BY <2>1, <3>1, <3>2, EndIsSound, SameAnswer
    <3>3. CASE stack # <<>>
      BY <2>1, <3>1, <3>3, SameFrames, SameAnswer
    <3>4. QED
      BY <3>2, <3>3
  <2>12. QED
    BY <2>1, <2>2, <2>3, <2>4, <2>5, <2>6, <2>7, <2>8, <2>9, <2>10, <2>11 DEF Next
<1>4. QED
  BY <1>2, <1>3, InductiveHolds, PTL DEF Spec

\* While the catalog is not edited, whatever is answered expands to what was
\* asked for, though it may not have been processed and though the search may
\* have left something out.  Every splice puts in the place of a reference a text
\* that expands to the same, in all the calls in progress at once: String.replace
\* finds no pattern in it, whatever has been spliced into it before.
THEOREM AnswersAreSound ==
    ASSUME ~Editable, IsFiniteSet(Prompts)
    PROVE  Spec => []SubstitutionSound
BY SoundnessHolds, PTL

-------------------------------------------------------------------------------
(***************************************************************************)
(* A simple prompt is served.  Offsets first; then the references that are *)
(* met below a simple one, a tree; then the calls that walk it.            *)
(***************************************************************************)
\* g holds the widths of the first 0, 1, ... n tokens together.
AreWidths(s, n, g) == g = [k \in 0 .. n |-> IF k = 0 THEN 0 ELSE g[k - 1] + Width(s[k])]

\* There are such widths, ...
LEMMA WidthsExist ==
    ASSUME NEW s, NEW m \in Nat
    PROVE  \E g : AreWidths(s, m, g)
<1> DEFINE S == {n \in Nat : \E g : AreWidths(s, n, g)}
<1>1. 0 \in S
  <2> DEFINE h == [k \in 0 .. 0 |-> 0]
  <2>1. \A k \in 0 .. 0 : k = 0
    OBVIOUS
  <2>2. h = [k \in 0 .. 0 |-> IF k = 0 THEN 0 ELSE h[k - 1] + Width(s[k])]
    BY <2>1
  <2>3. AreWidths(s, 0, h)
    BY <2>2 DEF AreWidths
  <2>4. QED
    BY <2>3
<1>2. ASSUME NEW n \in Nat, n \in S PROVE n + 1 \in S
  <2>1. PICK g : AreWidths(s, n, g)
    BY <1>2
  <2>2. ASSUME NEW k \in 0 .. n PROVE g[k] = IF k = 0 THEN 0 ELSE g[k - 1] + Width(s[k])
    BY <2>1 DEF AreWidths
  <2> DEFINE h == [k \in 0 .. (n + 1) |-> IF k <= n THEN g[k] ELSE g[n] + Width(s[k])]
  <2>3. ASSUME NEW k \in 0 .. (n + 1) PROVE h[k] = IF k = 0 THEN 0 ELSE h[k - 1] + Width(s[k])
    <3>1. CASE k = 0
      <4>1. h[k] = g[0] /\ k \in 0 .. n
        BY <3>1
      <4>2. QED
        BY <2>2, <3>1, <4>1
    <3>2. CASE k # 0 /\ k <= n
      <4>1. h[k] = g[k] /\ h[k - 1] = g[k - 1] /\ k \in 0 .. n
        BY <3>2
      <4>2. QED
        BY <2>2, <3>2, <4>1
    <3>3. CASE ~(k <= n)
      <4>1. k = n + 1 /\ k - 1 = n
        BY <3>3
      <4>2. h[k - 1] = g[n] /\ h[k] = g[n] + Width(s[k])
        BY <3>3, <4>1
      <4>3. QED
        BY <4>1, <4>2
    <3>4. QED
      BY <3>1, <3>2, <3>3
  <2>4. AreWidths(s, n + 1, h)
    <3>1. h = [k \in 0 .. (n + 1) |-> h[k]]
      OBVIOUS
    <3> HIDE DEF h
    <3>2. QED
      BY <2>3, <3>1 DEF AreWidths
  <2>5. QED
    BY <2>4
<1> HIDE DEF S
<1>3. m \in S
  BY <1>1, <1>2, Induct
<1>4. QED
  BY <1>3 DEF S

\* ... and they do not depend on how many are computed.
LEMMA WidthsAgree ==
    ASSUME NEW s, NEW n \in Nat, NEW m \in Nat, n <= m, NEW f, NEW g, AreWidths(s, n, f), AreWidths(s, m, g)
    PROVE  f[n] = g[n]
<1>1. ASSUME NEW k \in 0 .. n
      PROVE  /\ f[k] = IF k = 0 THEN 0 ELSE f[k - 1] + Width(s[k])
             /\ g[k] = IF k = 0 THEN 0 ELSE g[k - 1] + Width(s[k])
  <2>1. k \in 0 .. m
    OBVIOUS
  <2>2. QED
    BY <2>1 DEF AreWidths
<1> DEFINE S == {k \in Nat : k <= n => f[k] = g[k]}
<1>2. 0 \in S
  <2>1. 0 \in 0 .. n
    OBVIOUS
  <2>2. QED
    BY <1>1, <2>1
<1>3. ASSUME NEW k \in Nat, k \in S PROVE k + 1 \in S
  <2>1. SUFFICES ASSUME k + 1 <= n PROVE f[k + 1] = g[k + 1]
    OBVIOUS
  <2>2. k + 1 \in 0 .. n /\ (k + 1) - 1 = k /\ k + 1 # 0
    BY <2>1
  <2>3. f[k] = g[k]
    BY <1>3, <2>1
  <2>4. QED
    BY <1>1, <2>2, <2>3
<1> HIDE DEF S
<1>4. n \in S
  BY <1>2, <1>3, Induct
<1>5. QED
  BY <1>4 DEF S

\* Where a token begins.
LEMMA StartIs ==
    ASSUME NEW s
    PROVE  /\ Start(s, 1) = 0
           /\ \A i \in Nat \ {0} : Start(s, i + 1) = Start(s, i) + Width(s[i])
<1> DEFINE W(n) == CHOOSE g : AreWidths(s, n, g)
           w == [n \in Nat |-> W(n)[n]]
           Right(f) == [n \in Nat |-> IF n = 0 THEN 0 ELSE f[n - 1] + Width(s[n])]
<1>1. ASSUME NEW n \in Nat PROVE w[n] = IF n = 0 THEN 0 ELSE w[n - 1] + Width(s[n])
  <2>1. AreWidths(s, n, W(n))
    BY WidthsExist
  <2>2. W(n)[n] = IF n = 0 THEN 0 ELSE W(n)[n - 1] + Width(s[n])
    <3>1. n \in 0 .. n
      OBVIOUS
    <3> HIDE DEF W
    <3>2. QED
      BY <2>1, <3>1 DEF AreWidths
  <2>3. CASE n # 0
    <3>1. n - 1 \in Nat /\ n - 1 <= n
      BY <2>3
    <3>2. AreWidths(s, n - 1, W(n - 1))
      BY <3>1, WidthsExist
    <3> HIDE DEF W
    <3>3. W(n)[n - 1] = W(n - 1)[n - 1]
      BY <2>1, <3>1, <3>2, WidthsAgree
    <3>4. QED
      BY <2>2, <2>3, <3>1, <3>3
  <2>4. CASE n = 0
    BY <2>2, <2>4
  <2>5. QED
    BY <2>3, <2>4
<1>2. w = Right(w)
  <2>1. w = [n \in Nat |-> w[n]]
    OBVIOUS
  <2> HIDE DEF w
  <2>2. QED
    BY <1>1, <2>1
<1>3. PICK f : f = Right(f) /\ \A i : Start(s, i) = f[i - 1]
  <2> DEFINE f == CHOOSE f : f = Right(f)
  <2>1. \A i : Start(s, i) = f[i - 1]
    BY DEF Start
  <2> HIDE DEF Right, w
  <2>2. f = Right(f)
    BY <1>2
  <2> HIDE DEF f
  <2>3. QED
    BY <2>1, <2>2
<1>4. \A n \in Nat : f[n] = IF n = 0 THEN 0 ELSE f[n - 1] + Width(s[n])
  BY <1>3
<1> HIDE DEF Right, w
<1>5. Start(s, 1) = 0
  <2>1. Start(s, 1) = f[0]
    BY <1>3
  <2>2. QED
    BY <1>4, <2>1
<1>6. ASSUME NEW i \in Nat \ {0} PROVE Start(s, i + 1) = Start(s, i) + Width(s[i])
  <2>1. (i + 1) - 1 = i
    OBVIOUS
  <2>2. Start(s, i + 1) = f[i] /\ Start(s, i) = f[i - 1]
    BY <1>3, <2>1
  <2>3. QED
    BY <1>4, <2>2
<1>7. QED
  BY <1>5, <1>6

\* No token has a negative width.
LEMMA WidthIsNatural ==
    ASSUME NEW t \in Parts
    PROVE  Width(t) \in Nat
BY LengthAssumption DEF Width, IsReference, Parts

\* Tokens begin at numbers, ...
LEMMA StartIsNatural ==
    ASSUME NEW s \in Seq(Parts), NEW i \in 1 .. Len(s) + 1
    PROVE  Start(s, i) \in Nat
<1>1. PICK n \in Nat : n = Len(s)
  BY LenProperties
<1> DEFINE S == {k \in Nat : k <= n => Start(s, k + 1) \in Nat}
<1>2. 0 \in S
  <2>1. Start(s, 0 + 1) = 0
    BY StartIs
  <2>2. QED
    BY <2>1
<1>3. ASSUME NEW k \in Nat, k \in S PROVE k + 1 \in S
  <2>1. SUFFICES ASSUME k + 1 <= n PROVE Start(s, (k + 1) + 1) \in Nat
    OBVIOUS
  <2>2. PICK j \in 1 .. n : j = k + 1
    BY <2>1
  <2>3. Start(s, j) \in Nat
    BY <1>3, <2>1, <2>2
  <2>4. Width(s[j]) \in Nat
    BY <1>1, <2>2, ElementOfSeq, WidthIsNatural
  <2>5. Start(s, j + 1) = Start(s, j) + Width(s[j])
    BY <2>2, StartIs
  <2>6. QED
    BY <2>2, <2>3, <2>4, <2>5
<1> HIDE DEF S
<1>4. i - 1 \in S
  <2>1. i - 1 \in Nat
    OBVIOUS
  <2>2. QED
    BY <1>2, <1>3, <2>1, Induct
<1>5. (i - 1) + 1 = i /\ i - 1 <= n
  BY <1>1
<1>6. QED
  BY <1>4, <1>5 DEF S

\* ... and the later ones not before the earlier.
LEMMA StartsGrow ==
    ASSUME NEW s \in Seq(Parts), NEW i \in 1 .. Len(s) + 1, NEW j \in 1 .. Len(s) + 1, i <= j
    PROVE  Start(s, i) <= Start(s, j)
<1>1. PICK n \in Nat : n = Len(s)
  BY LenProperties
<1> DEFINE S == {k \in Nat : i + k <= n + 1 => Start(s, i) <= Start(s, i + k)}
<1>2. 0 \in S
  <2>1. i + 0 = i /\ Start(s, i) \in Nat
    BY StartIsNatural
  <2>2. QED
    BY <2>1
<1>3. ASSUME NEW k \in Nat, k \in S PROVE k + 1 \in S
  <2>1. SUFFICES ASSUME i + (k + 1) <= n + 1 PROVE Start(s, i) <= Start(s, i + (k + 1))
    OBVIOUS
  <2>2. PICK h \in 1 .. n : h = i + k
    BY <1>1, <2>1
  <2>3. Start(s, i) <= Start(s, h)
    BY <1>3, <2>1, <2>2
  <2>4. Start(s, i) \in Nat /\ Start(s, h) \in Nat
    BY <1>1, <2>2, StartIsNatural
  <2>5. Width(s[h]) \in Nat
    BY <1>1, <2>2, ElementOfSeq, WidthIsNatural
  <2>6. Start(s, h + 1) = Start(s, h) + Width(s[h])
    BY <2>2, StartIs
  <2>7. h + 1 = i + (k + 1)
    BY <2>2
  <2>8. QED
    BY <2>3, <2>4, <2>5, <2>6, <2>7
<1> HIDE DEF S
<1>4. j - i \in S
  <2>1. j - i \in Nat
    OBVIOUS
  <2>2. QED
    BY <1>2, <1>3, <2>1, Induct
<1>5. i + (j - i) = j /\ j <= n + 1
  BY <1>1
<1>6. QED
  BY <1>4, <1>5 DEF S

\* Of texts one after the other, the tokens of the second begin behind the first.
LEMMA StartBehind ==
    ASSUME NEW a \in Seq(Parts), NEW b \in Seq(Parts), NEW j \in 1 .. Len(b) + 1
    PROVE  Start(a \o b, Len(a) + j) = TotalWidth(a) + Start(b, j)
<1>1. PICK m \in Nat : m = Len(a)
  BY LenProperties
<1>2. PICK n \in Nat : n = Len(b)
  BY LenProperties
<1>3. PICK c \in Seq(Parts) : c = a \o b
  BY ConcatProperties
<1>4. /\ Len(c) = m + n
      /\ \A i \in 1 .. m : c[i] = a[i]
      /\ \A i \in 1 .. n : c[m + i] = b[i]
  <2>1. /\ Len(c) = Len(a) + Len(b)
        /\ \A i \in 1 .. Len(a) + Len(b) : c[i] = IF i <= Len(a) THEN a[i] ELSE b[i - Len(a)]
    BY <1>3, ConcatProperties
  <2>2. ASSUME NEW i \in 1 .. n PROVE c[m + i] = b[i]
    <3>1. PICK k \in 1 .. m + n : k = m + i /\ ~(k <= m) /\ k - m = i
      BY <1>1, <1>2
    <3>2. c[k] = b[k - m]
      BY <1>1, <1>2, <2>1, <3>1
    <3>3. QED
      BY <3>1, <3>2
  <2>3. QED
    BY <1>1, <1>2, <2>1, <2>2
<1> DEFINE S == {k \in Nat : k <= m => Start(c, k + 1) = Start(a, k + 1)}
<1>5. 0 \in S
  <2>1. Start(c, 0 + 1) = 0 /\ Start(a, 0 + 1) = 0
    BY StartIs
  <2>2. QED
    BY <2>1
<1>6. ASSUME NEW k \in Nat, k \in S PROVE k + 1 \in S
  <2>1. SUFFICES ASSUME k + 1 <= m PROVE Start(c, (k + 1) + 1) = Start(a, (k + 1) + 1)
    OBVIOUS
  <2>2. PICK h \in 1 .. m : h = k + 1
    BY <2>1
  <2>3. Start(c, h) = Start(a, h) /\ c[h] = a[h]
    BY <1>4, <1>6, <2>1, <2>2
  <2>4. Start(c, h + 1) = Start(c, h) + Width(c[h]) /\ Start(a, h + 1) = Start(a, h) + Width(a[h])
    BY <2>2, StartIs
  <2>5. QED
    BY <2>2, <2>3, <2>4
<1> HIDE DEF S
<1>7. Start(c, m + 1) = TotalWidth(a)
  <2>1. m \in S
    BY <1>5, <1>6, Induct
  <2>2. QED
    BY <1>1, <2>1 DEF S, TotalWidth
<1>8. PICK v \in Nat : v = TotalWidth(a)
  <2>1. Len(a) + 1 \in 1 .. Len(a) + 1
    BY <1>1
  <2>2. QED
    BY <2>1, StartIsNatural DEF TotalWidth
<1> DEFINE T == {k \in Nat : k <= n => Start(c, m + (k + 1)) = v + Start(b, k + 1)}
<1>9. 0 \in T
  <2>1. Start(b, 0 + 1) = 0
    BY StartIs
  <2>2. QED
    BY <1>7, <1>8, <2>1
<1>10. ASSUME NEW k \in Nat, k \in T PROVE k + 1 \in T
  <2>1. SUFFICES ASSUME k + 1 <= n PROVE Start(c, m + ((k + 1) + 1)) = v + Start(b, (k + 1) + 1)
    OBVIOUS
  <2>2. PICK h \in 1 .. n : h = k + 1
    BY <2>1
  <2>3. Start(c, m + h) = v + Start(b, h)
    BY <1>10, <2>1, <2>2
  <2>4. c[m + h] = b[h]
    BY <1>4
  <2>5. Start(b, h + 1) = Start(b, h) + Width(b[h])
    BY <2>2, StartIs
  <2>6. Start(c, (m + h) + 1) = Start(c, m + h) + Width(c[m + h])
    <3>1. m + h \in Nat \ {0}
      BY <2>2
    <3>2. QED
      BY <3>1, StartIs
  <2>7. Start(b, h) \in Nat /\ Width(b[h]) \in Nat
    BY <1>2, <2>2, ElementOfSeq, WidthIsNatural, StartIsNatural
  <2>8. (m + h) + 1 = m + ((k + 1) + 1)
    BY <2>2
  <2>9. QED
    BY <2>2, <2>3, <2>4, <2>5, <2>6, <2>7, <2>8
<1> HIDE DEF T
<1>11. j - 1 \in T
  <2>1. j - 1 \in Nat
    BY <1>2
  <2>2. QED
    BY <1>9, <1>10, <2>1, Induct
<1>12. (j - 1) + 1 = j /\ j - 1 <= n /\ j \in Nat
  BY <1>2
<1>13. QED
  BY <1>1, <1>3, <1>8, <1>11, <1>12 DEF T

\* No prompt stands there twice.
Once(s) == \A i, j \in DOMAIN s : s[i].prompt = s[j].prompt => i = j

\* They have no prompt in common.
Apart(s, t) == \A i \in DOMAIN s, j \in DOMAIN t : s[i].prompt # t[j].prompt

\* No prompt stands twice in either of two lists one after the other, nor in both.
LEMMA OnceConcat ==
    ASSUME NEW s \in Seq(Reference), NEW t \in Seq(Reference), Once(s \o t)
    PROVE  Once(s) /\ Once(t) /\ Apart(s, t)
<1>1. PICK m \in Nat : m = Len(s)
  BY LenProperties
<1>2. PICK n \in Nat : n = Len(t)
  BY LenProperties
<1>3. PICK c \in Seq(Reference) : c = s \o t
  BY ConcatProperties
<1>4. /\ Len(c) = m + n
      /\ \A i \in 1 .. m : c[i] = s[i]
      /\ \A i \in 1 .. n : c[m + i] = t[i]
  <2>1. /\ Len(c) = Len(s) + Len(t)
        /\ \A i \in 1 .. Len(s) + Len(t) : c[i] = IF i <= Len(s) THEN s[i] ELSE t[i - Len(s)]
    BY <1>3, ConcatProperties
  <2>2. ASSUME NEW i \in 1 .. n PROVE c[m + i] = t[i]
    <3>1. PICK k \in 1 .. m + n : k = m + i /\ ~(k <= m) /\ k - m = i
      BY <1>1, <1>2
    <3>2. c[k] = t[k - m]
      BY <1>1, <1>2, <2>1, <3>1
    <3>3. QED
      BY <3>1, <3>2
  <2>3. QED
    BY <1>1, <1>2, <2>1, <2>2
<1>5. DOMAIN s = 1 .. m /\ DOMAIN t = 1 .. n /\ DOMAIN c = 1 .. m + n
  BY <1>1, <1>2, <1>4, LenProperties
<1>6. ASSUME NEW i \in 1 .. m + n, NEW j \in 1 .. m + n, c[i].prompt = c[j].prompt
      PROVE  i = j
  BY <1>3, <1>5, <1>6 DEF Once
<1>7. Once(s)
  <2>1. ASSUME NEW i \in 1 .. m, NEW j \in 1 .. m, s[i].prompt = s[j].prompt PROVE i = j
    <3>1. i \in 1 .. m + n /\ j \in 1 .. m + n
      OBVIOUS
    <3>2. c[i] = s[i] /\ c[j] = s[j]
      BY <1>4
    <3>3. QED
      BY <1>6, <2>1, <3>1, <3>2
  <2>2. QED
    BY <1>5, <2>1 DEF Once
<1>8. Once(t)
  <2>1. ASSUME NEW i \in 1 .. n, NEW j \in 1 .. n, t[i].prompt = t[j].prompt PROVE i = j
    <3>1. m + i \in 1 .. m + n /\ m + j \in 1 .. m + n
      OBVIOUS
    <3>2. c[m + i] = t[i] /\ c[m + j] = t[j]
      BY <1>4
    <3>3. m + i = m + j
      BY <1>6, <2>1, <3>1, <3>2
    <3>4. QED
      BY <3>3
  <2>2. QED
    BY <1>5, <2>1 DEF Once
<1>9. Apart(s, t)
  <2>1. ASSUME NEW i \in 1 .. m, NEW j \in 1 .. n, s[i].prompt = t[j].prompt PROVE FALSE
    <3>1. i \in 1 .. m + n /\ m + j \in 1 .. m + n
      OBVIOUS
    <3>2. c[i] = s[i] /\ c[m + j] = t[j]
      BY <1>4
    <3>3. i = m + j
      BY <1>6, <2>1, <3>1, <3>2
    <3>4. QED
      BY <3>3
  <2>2. QED
    BY <1>5, <2>1 DEF Apart
<1>10. QED
  BY <1>7, <1>8, <1>9

\* What is in one of two lists is in none of the other.
LEMMA ApartRanges ==
    ASSUME NEW s, NEW t, Apart(s, t), NEW x \in Range(s), NEW y \in Range(t)
    PROVE  x.prompt # y.prompt
BY DEF Apart, Range

\* What comes of the tokens of a text, when no prompt comes twice: neither of one
\* token nor of two.
Pieces(s, m) ==
    /\ \A i \in DOMAIN s : Once(m[s[i]]) /\ Len(m[s[i]]) <= Len(Spread(s, m))
    /\ \A i, j \in DOMAIN s : i # j => Apart(m[s[i]], m[s[j]])

\* So it is.
LEMMA PiecesAreApart ==
    ASSUME NEW T, NEW m \in [T -> Seq(Reference)], NEW s \in Seq(T), Once(Spread(s, m))
    PROVE  Pieces(s, m)
<1> DEFINE Q == {t \in Seq(T) : Once(Spread(t, m)) => Pieces(t, m)}
<1>1. <<>> \in Q
  <2>1. DOMAIN <<>> = {}
    OBVIOUS
  <2>2. QED
    BY <2>1, EmptySeq DEF Pieces
<1>2. ASSUME NEW t \in Seq(T), NEW e \in T, t \in Q PROVE Append(t, e) \in Q
  <2>1. Spread(Append(t, e), m) = Spread(t, m) \o m[e]
    BY SpreadAppend
  <2>2. PICK u \in Seq(Reference) : u = Spread(t, m)
    BY SpreadIsText
  <2>3. PICK v \in Seq(Reference) : v = m[e]
    OBVIOUS
  <2>4. PICK w \in Seq(Reference) : w = u \o v
    BY ConcatProperties
  <2>5. PICK r \in Seq(T) : r = Append(t, e)
    BY AppendProperties
  <2>6. Spread(r, m) = w
    BY <2>1, <2>2, <2>3, <2>4, <2>5
  <2>7. PICK n \in Nat : n = Len(t)
    BY LenProperties
  <2>8. Len(r) = n + 1 /\ r[n + 1] = e /\ \A i \in 1 .. n : r[i] = t[i]
    BY <2>5, <2>7, AppendProperties
  <2>9. DOMAIN t = 1 .. n /\ DOMAIN r = 1 .. n + 1
    BY <2>7, <2>8, LenProperties
  <2>10. Len(w) = Len(u) + Len(v) /\ Len(u) \in Nat /\ Len(v) \in Nat
    BY <2>4, ConcatProperties, LenProperties
  <2>11. SUFFICES ASSUME Once(w) PROVE Pieces(r, m)
    BY <2>5, <2>6
  <2>12. Once(u) /\ Once(v) /\ Apart(u, v)
    BY <2>4, <2>11, OnceConcat
  <2>13. Pieces(t, m)
    BY <1>2, <2>2, <2>12
  <2>14. ASSUME NEW i \in 1 .. n + 1 PROVE Once(m[r[i]]) /\ Len(m[r[i]]) <= Len(w)
    <3>1. CASE i = n + 1
      BY <2>3, <2>8, <2>10, <2>12, <3>1
    <3>2. CASE i # n + 1
      <4>1. i \in 1 .. n
        BY <3>2
      <4>2. r[i] = t[i] /\ t[i] \in T
        BY <2>7, <2>8, <4>1, ElementOfSeq
      <4>3. m[t[i]] \in Seq(Reference)
        BY <4>2
      <4>4. Len(m[t[i]]) \in Nat
        BY <4>3, LenProperties
      <4>5. Once(m[t[i]]) /\ Len(m[t[i]]) <= Len(u)
        BY <2>2, <2>9, <2>13, <4>1 DEF Pieces
      <4>6. QED
        BY <2>10, <4>2, <4>4, <4>5
    <3>3. QED
      BY <3>1, <3>2
  <2>15. ASSUME NEW i \in 1 .. n PROVE Apart(m[t[i]], v) /\ Apart(v, m[t[i]])
    <3>1. ASSUME NEW x \in Range(m[t[i]]) PROVE x \in Range(u)
      <4>1. t[i] \in Range(t)
        BY <2>9 DEF Range
      <4>2. QED
        BY <2>2, <3>1, <4>1, SpreadRange
    <3>2. ASSUME NEW x \in Range(m[t[i]]), NEW y \in Range(v) PROVE x.prompt # y.prompt
      BY <2>12, <3>1, <3>2, ApartRanges
    <3>3. QED
      BY <3>2 DEF Apart, Range
  <2>16. ASSUME NEW i \in 1 .. n + 1, NEW j \in 1 .. n + 1, i # j PROVE Apart(m[r[i]], m[r[j]])
    <3>1. CASE i \in 1 .. n /\ j \in 1 .. n
      BY <2>8, <2>9, <2>13, <2>16, <3>1 DEF Pieces
    <3>2. CASE i = n + 1
      <4>1. j \in 1 .. n
        BY <2>16, <3>2
      <4>2. r[i] = e /\ r[j] = t[j]
        BY <2>8, <3>2, <4>1
      <4>3. QED
        BY <2>3, <2>15, <4>1, <4>2
    <3>3. CASE j = n + 1
      <4>1. i \in 1 .. n
        BY <2>16, <3>3
      <4>2. r[j] = e /\ r[i] = t[i]
        BY <2>8, <3>3, <4>1
      <4>3. QED
        BY <2>3, <2>15, <4>1, <4>2
    <3>4. QED
      BY <3>1, <3>2, <3>3
  <2>17. QED
    BY <2>6, <2>9, <2>14, <2>16 DEF Pieces
<1> HIDE DEF Q
<1>3. s \in Q
  BY <1>1, <1>2, InductOverTexts
<1>4. QED
  BY <1>3 DEF Q

-------------------------------------------------------------------------------
\* The references of what r is called for, wherever they are met, form a tree: none
\* leads back to r, each stands in one text, and there once.
Tree(r, W) ==
    /\ r \in W
    /\ \A q \in W : \A i \in DOMAIN TextOf(q) :
          IsReference(TextOf(q)[i]) => TextOf(q)[i] \in W /\ TextOf(q)[i] # r
    /\ \A q, s \in W : \A i \in DOMAIN TextOf(q), j \in DOMAIN TextOf(s) :
          IsReference(TextOf(q)[i]) /\ IsReference(TextOf(s)[j]) /\ TextOf(q)[i].prompt = TextOf(s)[j].prompt
             => q = s /\ i = j
    /\ \A q, s \in W : q.prompt = s.prompt => q = s

\* Trees without common prompts, under one reference, are a tree.
LEMMA TreeGrows ==
    ASSUME NEW r, NEW P,
           \A i \in DOMAIN TextOf(r) :
              IF IsReference(TextOf(r)[i]) THEN Tree(TextOf(r)[i], P[i]) ELSE P[i] = {},
           \A i, j \in DOMAIN TextOf(r) : i # j => \A x \in P[i], y \in P[j] : x.prompt # y.prompt,
           \A i \in DOMAIN TextOf(r) : \A x \in P[i] : x.prompt # r.prompt
    PROVE  Tree(r, {r} \cup UNION {P[i] : i \in DOMAIN TextOf(r)})
<1> DEFINE words == TextOf(r)
           W == {r} \cup UNION {P[i] : i \in DOMAIN words}
<1>1. ASSUME NEW q \in W, q # r
      PROVE  \E i \in DOMAIN words : IsReference(words[i]) /\ q \in P[i] /\ Tree(words[i], P[i])
  BY <1>1
<1>2. ASSUME NEW i \in DOMAIN words, IsReference(words[i])
      PROVE  words[i] \in P[i] /\ Tree(words[i], P[i])
  BY <1>2 DEF Tree
<1>3. ASSUME NEW q \in W, NEW i \in DOMAIN TextOf(q), IsReference(TextOf(q)[i])
      PROVE  TextOf(q)[i] \in W /\ TextOf(q)[i] # r
  <2>1. CASE q = r
    BY <1>2, <1>3, <2>1
  <2>2. CASE q # r
    <3>1. PICK k \in DOMAIN words : q \in P[k] /\ Tree(words[k], P[k])
      BY <1>1, <2>2
    <3>2. TextOf(q)[i] \in P[k]
      BY <1>3, <3>1 DEF Tree
    <3>3. QED
      BY <3>2
  <2>3. QED
    BY <2>1, <2>2
<1>4. ASSUME NEW q \in W, NEW s \in W, NEW i \in DOMAIN TextOf(q), NEW j \in DOMAIN TextOf(s),
             IsReference(TextOf(q)[i]), IsReference(TextOf(s)[j]), TextOf(q)[i].prompt = TextOf(s)[j].prompt
      PROVE  q = s /\ i = j
  <2>1. ASSUME NEW u \in W, u # r, NEW h \in DOMAIN TextOf(u), IsReference(TextOf(u)[h])
        PROVE  \E k \in DOMAIN words : /\ IsReference(words[k]) /\ u \in P[k] /\ TextOf(u)[h] \in P[k]
                                       /\ TextOf(u)[h] # words[k] /\ Tree(words[k], P[k])
    <3>1. PICK k \in DOMAIN words : IsReference(words[k]) /\ u \in P[k] /\ Tree(words[k], P[k])
      BY <1>1, <2>1
    <3>2. TextOf(u)[h] \in P[k] /\ TextOf(u)[h] # words[k]
      BY <2>1, <3>1 DEF Tree
    <3>3. QED
      BY <3>1, <3>2
  <2>2. ASSUME NEW u \in W, u # r, NEW h \in DOMAIN TextOf(u), IsReference(TextOf(u)[h]),
               NEW l \in DOMAIN words, IsReference(words[l]), TextOf(u)[h].prompt = words[l].prompt
        PROVE  FALSE
    <3>1. PICK k \in DOMAIN words : /\ IsReference(words[k]) /\ TextOf(u)[h] \in P[k]
                                    /\ TextOf(u)[h] # words[k] /\ Tree(words[k], P[k])
      BY <2>1, <2>2
    <3>2. words[l] \in P[l]
      BY <1>2, <2>2
    <3>3. k = l
      BY <2>2, <3>1, <3>2
    <3>4. TextOf(u)[h] = words[l]
      BY <2>2, <3>1, <3>2, <3>3 DEF Tree
    <3>5. QED
      BY <3>1, <3>3, <3>4
  <2>3. CASE q = r /\ s = r
    <3>1. words[i] \in P[i] /\ words[j] \in P[j]
      BY <1>2, <1>4, <2>3
    <3>2. QED
      BY <1>4, <2>3, <3>1
  <2>4. CASE q = r /\ s # r
    BY <1>4, <2>2, <2>4
  <2>5. CASE q # r /\ s = r
    BY <1>4, <2>2, <2>5
  <2>6. CASE q # r /\ s # r
    <3>1. PICK k \in DOMAIN words : q \in P[k] /\ TextOf(q)[i] \in P[k] /\ Tree(words[k], P[k])
      BY <1>4, <2>1, <2>6
    <3>2. PICK l \in DOMAIN words : s \in P[l] /\ TextOf(s)[j] \in P[l]
      BY <1>4, <2>1, <2>6
    <3>3. k = l
      BY <1>4, <3>1, <3>2
    <3>4. QED
      BY <1>4, <3>1, <3>2, <3>3 DEF Tree
  <2>7. QED
    BY <2>3, <2>4, <2>5, <2>6
<1>5. ASSUME NEW q \in W, NEW s \in W, q.prompt = s.prompt PROVE q = s
  <2>1. CASE q # r /\ s # r
    <3>1. PICK k \in DOMAIN words : q \in P[k] /\ Tree(words[k], P[k])
      BY <1>1, <2>1
    <3>2. PICK l \in DOMAIN words : s \in P[l]
      BY <1>1, <2>1
    <3>3. k = l
      BY <1>5, <3>1, <3>2
    <3>4. QED
      BY <1>5, <3>1, <3>2, <3>3 DEF Tree
  <2>2. QED
    BY <1>1, <1>5, <2>1
<1>6. r \in W
  OBVIOUS
<1> HIDE DEF W
<1>7. Tree(r, W)
  BY <1>3, <1>4, <1>5, <1>6 DEF Tree
<1>8. QED
  BY <1>7 DEF W

\* All the references below r are found, no prompt twice, and they are not more
\* than the levels that are looked at.
Neat(n, r) ==
    /\ Once(Visits[n][r])
    /\ Len(Visits[n][r]) <= n
    /\ \A x \in Range(Visits[n][r]) : Candidates(x) # {}

\* What is met below r, a level lower, by the tokens of its text.
Branches(n, r, k, P) ==
    /\ n = k + 1
    /\ Candidates(r) # {}
    /\ Range(Visits[n][r]) = {r} \cup UNION {P[i] : i \in DOMAIN TextOf(r)}
    /\ \A i \in DOMAIN TextOf(r) :
          IF IsReference(TextOf(r)[i])
          THEN Neat(k, TextOf(r)[i]) /\ P[i] = Range(Visits[k][TextOf(r)[i]])
          ELSE P[i] = {}
    /\ \A i, j \in DOMAIN TextOf(r) : i # j => \A x \in P[i], y \in P[j] : x.prompt # y.prompt
    /\ \A i \in DOMAIN TextOf(r) : \A x \in P[i] : x.prompt # r.prompt

\* It branches, if nothing is missing and no prompt is found twice.
LEMMA NeatBelow ==
    ASSUME catalog \in [Prompts -> Versions], NEW n \in Nat, NEW r \in Reference, Neat(n, r)
    PROVE  \E k \in Nat : \E P : Branches(n, r, k, P)
<1>1. PICK v \in Seq(Reference) : v = Visits[n][r]
  BY VisitsAreReferences
<1>2. Once(v) /\ Len(v) <= n /\ \A x \in Range(v) : Candidates(x) # {}
  BY <1>1 DEF Neat
<1>3. <<r>> \in Seq(Reference) /\ Len(<<r>>) = 1 /\ <<r>>[1] = r /\ Range(<<r>>) = {r}
  BY DEF Range
<1>4. Candidates(r) # {}
  <2>1. CASE Candidates(r) = {}
    <3>1. v = <<r>>
      BY <1>1, <2>1, VisitsIsSpread
    <3>2. QED
      BY <1>2, <1>3, <3>1
  <2>2. QED
    BY <2>1
<1>5. PICK words \in Seq(Parts) : words = TextOf(r)
  BY <1>4, TextIsText DEF Text, Parts
<1>6. PICK m \in [Parts -> Seq(Reference)] : m = Kids(n)
  BY VisitsAreReferences
<1>7. PICK u \in Seq(Reference) : u = Spread(words, m)
  BY SpreadIsText
<1>8. v = <<r>> \o u
  BY <1>1, <1>4, <1>5, <1>6, <1>7, VisitsIsSpread
<1>9. Len(v) = 1 + Len(u) /\ Len(u) \in Nat
  BY <1>3, <1>8, ConcatProperties, LenProperties
<1>10. PICK k \in Nat : n = k + 1
  <2>1. n - 1 \in Nat /\ n = (n - 1) + 1
    BY <1>2, <1>9
  <2>2. QED
    BY <2>1
<1>11. Len(u) <= k
  BY <1>2, <1>9, <1>10
<1>12. Range(v) = {r} \cup Range(u)
  <2>1. PICK one \in Seq(Reference) : one = <<r>> /\ Range(one) = {r}
    BY <1>3
  <2>2. Range(one \o u) = Range(one) \cup Range(u)
    BY RangeConcatenation
  <2>3. QED
    BY <1>8, <2>1, <2>2
<1>13. Once(u) /\ Apart(<<r>>, u)
  BY <1>2, <1>3, <1>8, OnceConcat
<1>14. Pieces(words, m)
  BY <1>7, <1>13, PiecesAreApart
<1>15. ASSUME NEW i \in DOMAIN words PROVE words[i] \in Range(words) /\ words[i] \in Parts
  <2>1. words[i] \in Parts
    BY ElementOfSeq
  <2>2. QED
    BY <2>1 DEF Range
<1>16. ASSUME NEW i \in DOMAIN words, IsReference(words[i])
       PROVE  m[words[i]] = Visits[k][words[i]]
  <2>1. n # 0 /\ n - 1 = k
    BY <1>10
  <2>2. QED
    BY <1>6, <1>15, <1>16, <2>1 DEF Kids
<1>17. ASSUME NEW i \in DOMAIN words, ~IsReference(words[i])
       PROVE  m[words[i]] = <<>>
  BY <1>6, <1>15, <1>17 DEF Kids
<1>18. ASSUME NEW i \in DOMAIN words, NEW x \in Range(m[words[i]]) PROVE x \in Range(u)
  BY <1>7, <1>15, <1>18, SpreadRange
<1> DEFINE P == [i \in DOMAIN words |-> Range(m[words[i]])]
<1>19. Range(u) = UNION {P[i] : i \in DOMAIN words}
  <2>1. ASSUME NEW x \in Range(u) PROVE \E i \in DOMAIN words : x \in P[i]
    <3>1. PICK y \in Range(words) : x \in Range(m[y])
      BY <1>7, <2>1, SpreadRange
    <3>2. PICK i \in DOMAIN words : y = words[i]
      BY <3>1 DEF Range
    <3>3. QED
      BY <3>1, <3>2
  <2>2. ASSUME NEW i \in DOMAIN words, NEW x \in P[i] PROVE x \in Range(u)
    BY <1>18
  <2> HIDE DEF P
  <2>3. QED
    BY <2>1, <2>2
<1>20. ASSUME NEW i \in DOMAIN words
       PROVE  IF IsReference(words[i])
              THEN Neat(k, words[i]) /\ P[i] = Range(Visits[k][words[i]])
              ELSE P[i] = {}
  <2>1. CASE ~IsReference(words[i])
    <3>1. Range(<<>>) = {}
      BY DEF Range
    <3>2. QED
      BY <1>17, <2>1, <3>1
  <2>2. CASE IsReference(words[i])
    <3>1. m[words[i]] = Visits[k][words[i]] /\ P[i] = Range(m[words[i]])
      BY <1>16, <2>2
    <3>2. Once(m[words[i]]) /\ Len(m[words[i]]) <= Len(u)
      BY <1>7, <1>14 DEF Pieces
    <3>3. m[words[i]] \in Seq(Reference)
      BY <1>15
    <3>4. Len(m[words[i]]) \in Nat
      BY <3>3, LenProperties
    <3>5. Len(m[words[i]]) <= k
      BY <1>9, <1>11, <3>2, <3>4
    <3>6. \A x \in Range(m[words[i]]) : Candidates(x) # {}
      BY <1>2, <1>12, <1>18
    <3>7. QED
      BY <2>2, <3>1, <3>2, <3>5, <3>6 DEF Neat
  <2>3. QED
    BY <2>1, <2>2
<1>21. ASSUME NEW i \in DOMAIN words, NEW j \in DOMAIN words, i # j, NEW x \in P[i], NEW y \in P[j]
       PROVE  x.prompt # y.prompt
  <2>1. Apart(m[words[i]], m[words[j]])
    BY <1>14, <1>21 DEF Pieces
  <2>2. QED
    BY <2>1, ApartRanges
<1>22. ASSUME NEW i \in DOMAIN words, NEW x \in P[i] PROVE x.prompt # r.prompt
  <2>1. x \in Range(u) /\ r \in Range(<<r>>)
    BY <1>3, <1>18
  <2>2. QED
    BY <1>13, <2>1, ApartRanges
<1> HIDE DEF P
<1>23. Branches(n, r, k, P)
  BY <1>1, <1>4, <1>5, <1>10, <1>12, <1>19, <1>20, <1>21, <1>22 DEF Branches
<1>24. QED
  BY <1>23

\* Then they form a tree, and nothing is left to expand.
LEMMA NeatIsTree ==
    ASSUME catalog \in [Prompts -> Versions]
    PROVE  \A n \in Nat : \A r \in Reference : Neat(n, r) =>
              /\ Tree(r, Range(Visits[n][r]))
              /\ \A t \in Range(Expansion[n][r]) : ~IsReference(t)
<1> DEFINE Good(n, r) == /\ Tree(r, Range(Visits[n][r]))
                         /\ \A t \in Range(Expansion[n][r]) : ~IsReference(t)
           S == {n \in Nat : \A r \in Reference : Neat(n, r) => Good(n, r)}
<1>1. ASSUME NEW n \in Nat, NEW r \in Reference, Neat(n, r),
             \A k \in Nat : n = k + 1 => \A t \in Reference : Neat(k, t) => Good(k, t)
      PROVE  Good(n, r)
  <2>0. PICK k \in Nat : \E P : Branches(n, r, k, P)
    BY <1>1, NeatBelow
  <2>1. PICK P : Branches(n, r, k, P)
    BY <2>0
  <2>2. PICK words \in Seq(Parts) : words = TextOf(r)
    BY <2>1, TextIsText DEF Branches, Text, Parts
  <2>3. ASSUME NEW i \in DOMAIN words, IsReference(words[i])
        PROVE  Good(k, words[i])
    <3>1. words[i] \in Parts
      BY ElementOfSeq
    <3>2. words[i] \in Reference
      BY <2>3, <3>1 DEF Parts, IsReference
    <3>3. Neat(k, words[i])
      BY <2>1, <2>2, <2>3 DEF Branches
    <3> HIDE DEF Good
    <3>4. QED
      BY <1>1, <2>1, <3>2, <3>3 DEF Branches
  <2>4. \A i \in DOMAIN TextOf(r) :
          IF IsReference(TextOf(r)[i]) THEN Tree(TextOf(r)[i], P[i]) ELSE P[i] = {}
    BY <2>1, <2>2, <2>3 DEF Branches, Good
  <2>5. Tree(r, Range(Visits[n][r]))
    BY <2>1, <2>4, TreeGrows DEF Branches
  <2>6. PICK m \in [Parts -> Seq(Parts)] : m = Below(n)
    BY ExpansionIsText
  <2>7. Expansion[n][r] = Spread(words, m)
    BY <2>1, <2>2, <2>6, ExpansionIsSpread DEF Branches
  <2>8. ASSUME NEW t \in Range(Spread(words, m)) PROVE ~IsReference(t)
    <3>1. PICK y \in Range(words) : t \in Range(m[y])
      BY <2>8, SpreadRange
    <3>2. PICK i \in DOMAIN words : y = words[i]
      BY <3>1 DEF Range
    <3>3. y \in Parts
      BY <3>1, <2>2, RangeOfSeq
    <3>4. CASE IsReference(y)
      <4>1. n # 0 /\ n - 1 = k
        BY <2>1 DEF Branches
      <4>2. m[y] = Expansion[k][y]
        BY <2>6, <3>3, <3>4, <4>1 DEF Below
      <4>3. QED
        BY <2>3, <3>1, <3>2, <3>4, <4>2
    <3>5. CASE ~IsReference(y)
      <4>1. m[y] = <<y>>
        BY <2>6, <3>3, <3>5 DEF Below
      <4>2. Range(<<y>>) = {y}
        BY DEF Range
      <4>3. QED
        BY <3>1, <3>5, <4>1, <4>2
    <3>6. QED
      BY <3>4, <3>5
  <2>9. QED
    BY <2>5, <2>7, <2>8
<1> HIDE DEF Good
<1>2. 0 \in S
  <2>1. \A k \in Nat : 0 # k + 1
    OBVIOUS
  <2>2. QED
    BY <1>1, <2>1
<1>3. ASSUME NEW n \in Nat, n \in S PROVE n + 1 \in S
  <2>1. PICK l \in Nat : l = n + 1
    OBVIOUS
  <2>2. \A k \in Nat : l = k + 1 => k = n
    BY <2>1
  <2>3. \A t \in Reference : Neat(n, t) => Good(n, t)
    BY <1>3
  <2>4. \A r \in Reference : Neat(l, r) => Good(l, r)
    BY <1>1, <2>2, <2>3
  <2>5. QED
    BY <2>1, <2>4
<1> HIDE DEF S
<1>4. Nat \subseteq S
  BY <1>2, <1>3, Induct
<1>5. QED
  BY <1>4 DEF S, Good

\* A list is no longer than there are prompts, if it names none twice.
LEMMA OnceIsShort ==
    ASSUME IsFiniteSet(Prompts), NEW s \in Seq(Reference), Once(s)
    PROVE  Len(s) <= Depth
<1>1. PICK n \in Nat : n = Len(s) /\ DOMAIN s = 1 .. n
  BY LenProperties
<1>2. ASSUME NEW i \in 1 .. n PROVE s[i].prompt \in Prompts
  <2>1. s[i] \in Reference
    BY <1>1, ElementOfSeq
  <2>2. QED
    BY <2>1 DEF Reference
<1>3. PICK f \in [1 .. n -> Prompts] : f = [i \in 1 .. n |-> s[i].prompt]
  BY <1>2
<1>4. f \in Injection(1 .. n, Prompts)
  BY <1>1, <1>3 DEF Injection, IsInjective, Once
<1>5. Cardinality(1 .. n) <= Cardinality(Prompts)
  BY <1>4, FS_Injection
<1>6. Cardinality(1 .. n) = n
  BY FS_Interval
<1>7. QED
  BY <1>1, <1>5, <1>6 DEF Depth

\* A list is at least as long as a list of different things that are all in it.
LEMMA DistinctIsShort ==
    ASSUME NEW v \in Seq(Reference), NEW m \in Nat, NEW g,
           \A i \in 1 .. m : g[i] \in Range(v),
           \A i, j \in 1 .. m : g[i] = g[j] => i = j
    PROVE  m <= Len(v)
<1>1. PICK n \in Nat : n = Len(v) /\ DOMAIN v = 1 .. n
  BY LenProperties
<1>2. \A i \in 1 .. m : \E k \in 1 .. n : v[k] = g[i]
  BY <1>1 DEF Range
<1>3. PICK f \in [1 .. m -> 1 .. n] : \A i \in 1 .. m : v[f[i]] = g[i]
  <2> DEFINE f == [i \in 1 .. m |-> CHOOSE k \in 1 .. n : v[k] = g[i]]
  <2>1. \A i \in 1 .. m : f[i] \in 1 .. n /\ v[f[i]] = g[i]
    BY <1>2
  <2>2. f \in [1 .. m -> 1 .. n]
    BY <2>1
  <2> HIDE DEF f
  <2>3. QED
    BY <2>1, <2>2
<1>4. f \in Injection(1 .. m, 1 .. n)
  BY <1>3 DEF Injection, IsInjective
<1>5. Cardinality(1 .. m) = m /\ Cardinality(1 .. n) = n /\ IsFiniteSet(1 .. n)
  BY FS_Interval
<1>6. Cardinality(1 .. m) <= Cardinality(1 .. n)
  BY <1>4, <1>5, FS_Injection
<1>7. QED
  BY <1>1, <1>5, <1>6

\* The references that are met below a simple one, itself included.
MetBelow(r) == Range(Visits[Depth][r])

\* They are found, in one project, with texts not narrower than the references to them.
Easy(x, r) ==
    /\ x \in Reference
    /\ Candidates(x) # {}
    /\ Home[x.prompt] = Home[r.prompt]
    /\ x.project \in {NULL, Home[r.prompt]}
    /\ x # r => TotalWidth(Expansion[Depth][x]) >= RefLength

\* What makes a reference simple.
LEMMA SimpleIs ==
    ASSUME IsFiniteSet(Prompts), Depth \in Nat, catalog \in [Prompts -> Versions],
           NEW r \in Reference, Simple(r)
    PROVE  /\ Tree(r, MetBelow(r))
           /\ Acyclic(r)
           /\ Visits[Depth][r] \in Seq(Reference)
           /\ Len(Visits[Depth][r]) <= MaxDepth
           /\ \A x \in MetBelow(r) : Easy(x, r)
<1>1. PICK v \in Seq(Reference) : v = Visits[Depth][r]
  BY VisitsAreReferences
<1>2. PICK n \in Nat : n = Len(v) /\ DOMAIN v = 1 .. n
  BY LenProperties
<1>3. \A x \in Range(v) : x \in Reference /\ Candidates(x) # {}
  <2>1. \A x \in Range(v) : x \in Reference
    BY RangeOfSeq
  <2>2. QED
    BY <1>1, <2>1 DEF Simple, Complete
<1>4. Once(v)
  <2>1. IsInjective([i \in DOMAIN v |-> v[i].prompt])
    BY <1>1 DEF Simple
  <2>2. QED
    BY <2>1 DEF IsInjective, Once
<1>5. Neat(Depth, r)
  BY <1>1, <1>3, <1>4, OnceIsShort DEF Neat
<1>6. Tree(r, Range(v)) /\ \A t \in Range(Expansion[Depth][r]) : ~IsReference(t)
  BY <1>1, <1>5, NeatIsTree
<1>7. Acyclic(r)
  BY <1>6 DEF Acyclic
<1>8. n <= MaxDepth
  BY <1>1, <1>2 DEF Simple
<1>9. ASSUME NEW i \in 1 .. n
      PROVE  /\ Home[v[i].prompt] = Home[r.prompt]
             /\ v[i].project \in {NULL, Home[r.prompt]}
             /\ i > 1 => TotalWidth(Expansion[Depth][v[i]]) >= RefLength
  BY <1>1, <1>2 DEF Simple
<1>10. n >= 1 /\ v[1] = r
  <2>1. <<r>> \in Seq(Reference) /\ Len(<<r>>) = 1 /\ <<r>>[1] = r
    OBVIOUS
  <2>2. CASE Candidates(r) = {}
    <3>1. v = <<r>>
      BY <1>1, <2>2, VisitsIsSpread
    <3>2. QED
      BY <1>2, <2>1, <3>1
  <2>3. CASE Candidates(r) # {}
    <3>1. PICK words \in Seq(Parts) : words = TextOf(r)
      BY <2>3, TextIsText DEF Text, Parts
    <3>2. PICK m \in [Parts -> Seq(Reference)] : m = Kids(Depth)
      BY VisitsAreReferences
    <3>3. PICK u \in Seq(Reference) : u = Spread(words, m)
      BY SpreadIsText
    <3>4. v = <<r>> \o u
      BY <1>1, <2>3, <3>1, <3>2, <3>3, VisitsIsSpread
    <3>5. PICK one \in Seq(Reference) : one = <<r>> /\ Len(one) = 1 /\ one[1] = r
      BY <2>1
    <3>6. /\ Len(one \o u) = Len(one) + Len(u)
          /\ \A i \in 1 .. Len(one) + Len(u) : (one \o u)[i] = IF i <= Len(one) THEN one[i] ELSE u[i - Len(one)]
      BY ConcatProperties
    <3>7. Len(u) \in Nat
      BY LenProperties
    <3>8. 1 \in 1 .. Len(one) + Len(u)
      BY <3>5, <3>7
    <3>9. QED
      BY <1>2, <3>4, <3>5, <3>6, <3>7, <3>8
  <2>4. QED
    BY <2>2, <2>3
<1>11. ASSUME NEW x \in Range(v)
       PROVE  /\ Home[x.prompt] = Home[r.prompt]
              /\ x.project \in {NULL, Home[r.prompt]}
              /\ x # r => TotalWidth(Expansion[Depth][x]) >= RefLength
  <2>1. PICK i \in 1 .. n : x = v[i]
    BY <1>2 DEF Range
  <2>2. i = 1 \/ i > 1
    OBVIOUS
  <2>3. QED
    BY <1>9, <1>10, <2>1, <2>2
<1>12. \A x \in Range(v) : Easy(x, r)
  BY <1>3, <1>11 DEF Easy
<1>13. QED
  BY <1>1, <1>2, <1>6, <1>7, <1>8, <1>12 DEF MetBelow

\* A call that is made for what is met below root; its text is still made of the
\* references of its version, each at most once.
Held(frame, root) ==
    /\ frame.ref \in MetBelow(root)
    /\ frame.project = Home[root.prompt]
    /\ \A x \in DOMAIN frame.text : IsReference(frame.text[x]) =>
          /\ frame.text[x] \in Range(TextOf(frame.ref))
          /\ \A y \in DOMAIN frame.text : frame.text[y] = frame.text[x] => y = x

\* The search has passed none of the references but the one that the nested call is for, ...
Waits(frame, ref) ==
    \E x \in DOMAIN frame.text :
        /\ frame.text[x] = ref
        /\ frame.pos = Start(frame.text, x) + RefLength
        /\ \A y \in DOMAIN frame.text : IsReference(frame.text[y]) =>
              y = x \/ Start(frame.text, y) >= frame.pos

\* ... and none at all in the call on top.
Runs(frame) ==
    \A x \in DOMAIN frame.text : IsReference(frame.text[x]) => Start(frame.text, x) >= frame.pos

-------------------------------------------------------------------------------
\* A call that begins.
LEMMA FreshFrame ==
    ASSUME catalog \in [Prompts -> Versions], NEW root, Tree(root, MetBelow(root)),
           NEW r \in Reference, Candidates(r) # {}, r \in MetBelow(root),
           NEW frame, frame.ref = r, frame.project = Home[root.prompt],
           frame.text = TextOf(r), frame.pos = 0
    PROVE  Held(frame, root) /\ Runs(frame)
<1>1. PICK words \in Seq(Parts) : words = TextOf(r)
  BY TextIsText DEF Text, Parts
<1>2. PICK n \in Nat : n = Len(words) /\ DOMAIN words = 1 .. n
  BY LenProperties
<1>3. ASSUME NEW x \in 1 .. n, IsReference(words[x])
      PROVE  /\ words[x] \in Range(words)
             /\ \A y \in 1 .. n : words[y] = words[x] => y = x
  BY <1>1, <1>2, <1>3 DEF Tree, Range
<1>4. ASSUME NEW x \in 1 .. n PROVE Start(words, x) >= 0
  <2>1. x \in 1 .. Len(words) + 1
    BY <1>2
  <2>2. Start(words, x) \in Nat
    BY <2>1, StartIsNatural
  <2>3. QED
    BY <2>2
<1>5. QED
  BY <1>1, <1>2, <1>3, <1>4 DEF Held, Runs

\* A call that has taken up its next reference waits for it.
LEMMA AdvancedWaits ==
    ASSUME NEW frame, frame.text \in Seq(Parts), Runs(frame), Pending(frame) # {},
           NEW next, next.text = frame.text,
           next.pos = Start(frame.text, Min(Pending(frame))) + RefLength
    PROVE  Waits(next, frame.text[Min(Pending(frame))])
<1>1. PICK words \in Seq(Parts) : words = frame.text
  OBVIOUS
<1>2. PICK n \in Nat : n = Len(words) /\ DOMAIN words = 1 .. n
  BY LenProperties
<1>3. Pending(frame) \subseteq 1 .. n
  BY <1>1, <1>2 DEF Pending
<1>4. PICK x : x = Min(Pending(frame))
  OBVIOUS
<1>5. x \in Pending(frame) /\ \A y \in Pending(frame) : x <= y
  BY <1>3, <1>4, MinIsLower
<1>6. x \in 1 .. n /\ IsReference(words[x])
  BY <1>1, <1>3, <1>5 DEF Pending
<1>7. Start(words, x + 1) = Start(words, x) + RefLength
  <2>1. x \in Nat \ {0}
    BY <1>6
  <2>2. Width(words[x]) = RefLength
    BY <1>6 DEF Width
  <2>3. QED
    BY <2>1, <2>2, StartIs
<1>8. ASSUME NEW y \in 1 .. n, IsReference(words[y]), y # x
      PROVE  Start(words, y) >= Start(words, x) + RefLength
  <2>1. y \in Pending(frame)
    BY <1>1, <1>2, <1>8 DEF Runs, Pending
  <2>2. x + 1 <= y /\ x + 1 \in 1 .. Len(words) + 1 /\ y \in 1 .. Len(words) + 1
    BY <1>2, <1>5, <1>6, <1>8, <2>1
  <2>3. Start(words, x + 1) <= Start(words, y)
    <3>1. PICK z \in 1 .. Len(words) + 1 : z = x + 1
      BY <2>2
    <3>2. QED
      BY <2>2, <3>1, StartsGrow
  <2>4. Start(words, x + 1) \in Nat /\ Start(words, y) \in Nat
    BY <2>2, StartIsNatural
  <2>5. QED
    BY <1>7, <2>3, <2>4
<1>9. QED
  BY <1>1, <1>2, <1>4, <1>6, <1>8 DEF Waits

\* Texts one after the other are together as wide as they are.
LEMMA WidthsAdd ==
    ASSUME NEW a \in Seq(Parts), NEW b \in Seq(Parts)
    PROVE  /\ TotalWidth(a \o b) = TotalWidth(a) + TotalWidth(b)
           /\ TotalWidth(a) \in Nat
<1>1. PICK m \in Nat : m = Len(a)
  BY LenProperties
<1>2. PICK n \in Nat : n = Len(b)
  BY LenProperties
<1>3. Len(a \o b) = m + n
  BY <1>1, <1>2, ConcatProperties
<1>4. PICK j \in 1 .. Len(b) + 1 : j = n + 1
  BY <1>2
<1>5. Start(a \o b, Len(a) + j) = TotalWidth(a) + Start(b, j)
  BY StartBehind
<1>6. Len(a) + j = Len(a \o b) + 1 /\ j = Len(b) + 1
  BY <1>1, <1>2, <1>3, <1>4
<1>7. TotalWidth(a) \in Nat
  <2>1. Len(a) + 1 \in 1 .. Len(a) + 1
    BY <1>1
  <2>2. QED
    BY <2>1, StartIsNatural DEF TotalWidth
<1>8. QED
  BY <1>5, <1>6, <1>7 DEF TotalWidth

\* The references of t are those of s, but the one at i, in the same order; behind i
\* they begin no earlier.
Stays(t, s, i, l) ==
    \A j \in DOMAIN t : IsReference(t[j]) =>
        \E k \in DOMAIN s :
            /\ k # i /\ s[k] = t[j]
            /\ k < i => j = k
            /\ k > i => j = k + l - 1
            /\ k > i => Start(t, j) >= Start(s, k)

\* Where the tokens of a spliced text without references in the replacement come from.
LEMMA SplicedTokens ==
    ASSUME NEW s \in Seq(Parts), NEW u \in Seq(Parts), NEW r \in Reference, NEW i \in 1 .. Len(s), s[i] = r,
           Inert(u), \A j \in DOMAIN u : ~IsReference(u[j]),
           \A y \in DOMAIN s : s[y] = r => y = i,
           TotalWidth(u) >= RefLength
    PROVE  /\ Splice(s, r, u) \in Seq(Parts)
           /\ Stays(Splice(s, r, u), s, i, Len(u))
<1>1. PICK n \in Nat : n = Len(s) /\ DOMAIN s = 1 .. n
  BY LenProperties
<1>2. PICK l \in Nat : l = Len(u) /\ DOMAIN u = 1 .. l
  BY LenProperties
<1>3. r \in Range(s) /\ r \in Parts /\ IsReference(r)
  BY <1>1, LiteralAssumption DEF Range, Parts, IsReference
<1>4. PICK h \in 1 .. Len(s), a \in Seq(Parts), b \in Seq(Parts) : Cut(s, r, u, h, a, b)
  BY <1>3, SpliceIs
<1>5. h = i
  BY <1>1, <1>4 DEF Cut
<1>6. /\ Len(a) = i - 1 /\ Len(b) = n - i
      /\ \A j \in 1 .. i - 1 : a[j] = s[j]
      /\ \A j \in 1 .. n - i : b[j] = s[i + j]
  BY <1>1, <1>4, <1>5 DEF Cut
<1>7. PICK c \in Seq(Parts) : c = a \o u
  BY ConcatProperties
<1>8. PICK t \in Seq(Parts) : t = c \o b /\ t = Splice(s, r, u)
  BY <1>4, <1>7, ConcatProperties DEF Cut
<1>9. Len(c) = (i - 1) + l /\ \A j \in 1 .. (i - 1) + l : c[j] = IF j <= i - 1 THEN a[j] ELSE u[j - (i - 1)]
  <2>1. Len(c) = Len(a) + Len(u) /\ \A j \in 1 .. Len(a) + Len(u) : c[j] = IF j <= Len(a) THEN a[j] ELSE u[j - Len(a)]
    BY <1>7, ConcatProperties
  <2>2. QED
    BY <1>2, <1>6, <2>1
<1>10. /\ Len(t) = ((i - 1) + l) + (n - i)
       /\ \A j \in 1 .. ((i - 1) + l) + (n - i) :
             t[j] = IF j <= (i - 1) + l THEN c[j] ELSE b[j - ((i - 1) + l)]
  <2>1. Len(t) = Len(c) + Len(b) /\ \A j \in 1 .. Len(c) + Len(b) : t[j] = IF j <= Len(c) THEN c[j] ELSE b[j - Len(c)]
    BY <1>8, ConcatProperties
  <2>2. QED
    BY <1>6, <1>9, <2>1
<1>11. DOMAIN t = 1 .. ((i - 1) + l) + (n - i)
  BY <1>10, LenProperties
<1>12. PICK one \in Seq(Parts) : one = <<r>> /\ TotalWidth(one) = RefLength
  <2>1. <<r>> \in Seq(Parts) /\ Len(<<r>>) = 1 /\ <<r>>[1] = r
    BY <1>3
  <2>2. Start(<<r>>, 1 + 1) = Start(<<r>>, 1) + Width(<<r>>[1]) /\ Start(<<r>>, 1) = 0
    BY StartIs
  <2>3. Width(r) = RefLength
    BY <1>3 DEF Width
  <2>4. TotalWidth(<<r>>) = RefLength
    BY <2>1, <2>2, <2>3, LengthAssumption DEF TotalWidth
  <2>5. QED
    BY <2>1, <2>4
<1>13. PICK d \in Seq(Parts) : d = a \o one /\ s = d \o b
  BY <1>4, <1>12, ConcatProperties DEF Cut
<1>14. Len(d) = i
  <2>1. Len(one) = 1
    BY <1>12
  <2>2. Len(d) = Len(a) + Len(one)
    BY <1>13, ConcatProperties
  <2>3. QED
    BY <1>6, <2>1, <2>2
<1>15. /\ TotalWidth(c) = TotalWidth(a) + TotalWidth(u)
       /\ TotalWidth(d) = TotalWidth(a) + RefLength
       /\ TotalWidth(a) \in Nat /\ TotalWidth(u) \in Nat
  BY <1>7, <1>12, <1>13, WidthsAdd
<1>16. ASSUME NEW k \in 1 .. n - i
       PROVE  Start(t, Len(c) + k) >= Start(s, i + k)
  <2>1. k \in 1 .. Len(b) + 1
    BY <1>6
  <2>2. Start(t, Len(c) + k) = TotalWidth(c) + Start(b, k)
    <3>1. Start(c \o b, Len(c) + k) = TotalWidth(c) + Start(b, k)
      BY <2>1, StartBehind
    <3>2. QED
      BY <1>8, <3>1
  <2>3. Start(s, Len(d) + k) = TotalWidth(d) + Start(b, k)
    <3>1. Start(d \o b, Len(d) + k) = TotalWidth(d) + Start(b, k)
      BY <2>1, StartBehind
    <3>2. QED
      BY <1>13, <3>1
  <2>4. Start(b, k) \in Nat
    BY <2>1, StartIsNatural
  <2>5. QED
    BY <1>14, <1>15, <2>2, <2>3, <2>4, LengthAssumption
<1>17. ASSUME NEW j \in DOMAIN t, IsReference(t[j])
       PROVE  \E k \in 1 .. n : /\ k # i /\ s[k] = t[j]
                                /\ k < i => j = k
                                /\ k > i => j = k + l - 1
                                /\ k > i => Start(t, j) >= Start(s, k)
  <2>0. /\ i \in Nat /\ 1 <= i /\ i <= n
        /\ j \in Nat /\ 1 <= j /\ j <= (l + n) - 1
        /\ j \in 1 .. ((i - 1) + l) + (n - i)
    BY <1>1, <1>11
  <2>1. CASE j <= i - 1
    <3>1. j \in 1 .. i - 1 /\ j \in 1 .. n /\ j \in 1 .. (i - 1) + l /\ j <= (i - 1) + l
      BY <2>0, <2>1
    <3>2. t[j] = c[j]
      BY <1>10, <2>0, <3>1
    <3>3. c[j] = a[j] /\ a[j] = s[j]
      BY <1>6, <1>9, <2>1, <3>1
    <3>4. j # i /\ j < i /\ ~(j > i)
      BY <2>0, <2>1
    <3>5. t[j] = s[j]
      BY <3>2, <3>3
    <3>6. QED
      BY <3>1, <3>4, <3>5
  <2>2. CASE j > i - 1 /\ j <= (i - 1) + l
    <3>1. PICK k \in 1 .. l : k = j - (i - 1)
      BY <2>0, <2>2
    <3>2. j \in 1 .. (i - 1) + l /\ ~(j <= i - 1)
      BY <2>0, <2>2
    <3>3. t[j] = u[k]
      BY <1>9, <1>10, <2>0, <2>2, <3>1, <3>2
    <3>4. QED
      BY <1>2, <1>17, <3>1, <3>3
  <2>3. CASE j > (i - 1) + l
    <3>1. PICK k \in 1 .. n - i : k = j - ((i - 1) + l)
      BY <2>0, <2>3
    <3>2. t[j] = b[k]
      <4>1. t[j] = IF j <= (i - 1) + l THEN c[j] ELSE b[j - ((i - 1) + l)]
        BY <1>10, <2>0
      <4>2. ~(j <= (i - 1) + l)
        BY <1>2, <2>0, <2>3
      <4>3. QED
        BY <3>1, <4>1, <4>2
    <3>3. b[k] = s[i + k]
      BY <1>6
    <3>4. PICK q \in 1 .. n : q = i + k /\ q # i /\ q > i /\ ~(q < i) /\ j = q + l - 1
      <4>1. k \in Nat /\ 1 <= k /\ k <= n - i
        BY <1>1, <2>0, <3>1
      <4>2. i + k \in 1 .. n
        BY <1>1, <2>0, <4>1
      <4>3. i + k > i /\ i + k # i /\ ~(i + k < i)
        BY <2>0, <4>1
      <4>4. j = (i + k) + l - 1
        <5>1. i \in Nat /\ j \in Nat /\ l \in Nat /\ k \in Nat /\ k = j - ((i - 1) + l)
          BY <2>0, <3>1, <4>1
        <5>2. PICK f \in Nat, g \in Nat : f = i /\ g = j /\ k = g - ((f - 1) + l)
          BY <5>1
        <5>3. PICK e \in Nat : e = k /\ e = g - ((f - 1) + l)
          BY <5>1, <5>2
        <5>4. g = (f + e) + l - 1
          BY <5>3
        <5>5. QED
          BY <5>2, <5>3, <5>4
      <4>5. QED
        BY <4>2, <4>3, <4>4
    <3>5. Start(t, j) >= Start(s, q)
      <4>1. j = Len(c) + k
        <5>1. (i - 1) + l \in Nat
          BY <1>2, <2>0
        <5>2. PICK p \in Nat : p = (i - 1) + l
          BY <5>1
        <5>3. Len(c) = p /\ k = j - p
          BY <1>9, <3>1, <5>2
        <5>4. PICK g \in Nat, e \in Nat : g = j /\ e = k /\ e = g - p
          BY <2>0, <3>4, <5>3
        <5>5. g = p + e
          BY <5>4
        <5>6. QED
          BY <5>3, <5>4, <5>5
      <4>2. QED
        BY <1>16, <3>4, <4>1
    <3>6. QED
      BY <3>2, <3>3, <3>4, <3>5
  <2>4. QED
    BY <2>0, <2>1, <2>2, <2>3
<1>18. Stays(t, s, i, l)
  BY <1>1, <1>17 DEF Stays
<1>19. QED
  BY <1>2, <1>8, <1>18

\* A caller that goes on: the nested text is not narrower than the reference it
\* replaces, so that the search still stands before all references that are left.
LEMMA SplicedRuns ==
    ASSUME NEW root, NEW frame, frame.text \in Seq(Parts), NEW r \in Reference, NEW u \in Seq(Parts),
           Inert(u), \A j \in DOMAIN u : ~IsReference(u[j]), TotalWidth(u) >= RefLength,
           Held(frame, root), Waits(frame, r),
           NEW next, next.ref = frame.ref, next.project = frame.project, next.pos = frame.pos,
           next.text = Splice(frame.text, r, u)
    PROVE  /\ Held(next, root)
           /\ Runs(next)
           /\ \A t \in Range(next.text) : IsReference(t) => t \in Range(frame.text) /\ t # r
<1>1. PICK s \in Seq(Parts) : s = frame.text
  OBVIOUS
<1>2. PICK n \in Nat : n = Len(s) /\ DOMAIN s = 1 .. n
  BY LenProperties
<1>3. PICK i \in 1 .. n : /\ s[i] = r
                          /\ frame.pos = Start(s, i) + RefLength
                          /\ \A y \in 1 .. n : IsReference(s[y]) => y = i \/ Start(s, y) >= frame.pos
  BY <1>1, <1>2 DEF Waits
<1>4. \A x \in 1 .. n : IsReference(s[x]) =>
          /\ s[x] \in Range(TextOf(frame.ref))
          /\ \A y \in 1 .. n : s[y] = s[x] => y = x
  BY <1>1, <1>2 DEF Held
<1>5. IsReference(r)
  BY LiteralAssumption DEF IsReference
<1>6. \A y \in 1 .. n : s[y] = r => y = i
  BY <1>3, <1>4, <1>5
<1>7. PICK t : t = Splice(s, r, u) /\ t = next.text
  BY <1>1
<1>8. t \in Seq(Parts) /\ Stays(t, s, i, Len(u))
  <2>1. i \in 1 .. Len(s)
    BY <1>2
  <2>2. QED
    BY <1>2, <1>3, <1>6, <1>7, <2>1, SplicedTokens
<1>9. PICK l \in Nat : l = Len(u)
  BY LenProperties
<1>10. ASSUME NEW j \in DOMAIN t, IsReference(t[j])
       PROVE  \E k \in 1 .. n : /\ s[k] = t[j] /\ k > i /\ j = k + l - 1
                                /\ Start(t, j) >= frame.pos /\ t[j] # r
  <2>1. PICK k \in 1 .. n : /\ k # i /\ s[k] = t[j]
                            /\ k < i => j = k
                            /\ k > i => j = k + l - 1
                            /\ k > i => Start(t, j) >= Start(s, k)
    BY <1>2, <1>8, <1>9, <1>10 DEF Stays
  <2>2. Start(s, k) >= frame.pos
    BY <1>3, <1>10, <2>1
  <2>3. k \in 1 .. Len(s) + 1 /\ i \in 1 .. Len(s) + 1
    BY <1>2
  <2>4. Start(s, k) \in Nat /\ Start(s, i) \in Nat
    BY <2>3, StartIsNatural
  <2>5. k > i
    <3>1. SUFFICES ASSUME k <= i PROVE FALSE
      OBVIOUS
    <3>2. Start(s, k) <= Start(s, i)
      BY <2>3, <3>1, StartsGrow
    <3>3. QED
      BY <1>3, <2>2, <2>4, <3>2, LengthAssumption
  <2>6. j \in 1 .. Len(t) + 1
    <3>1. PICK m \in Nat : m = Len(t) /\ DOMAIN t = 1 .. m
      BY <1>8, LenProperties
    <3>2. j \in 1 .. m
      BY <3>1
    <3>3. QED
      BY <3>1, <3>2
  <2>7. Start(t, j) \in Nat
    BY <1>8, <2>6, StartIsNatural
  <2>8. Start(t, j) >= frame.pos
    BY <1>3, <2>1, <2>2, <2>4, <2>5, <2>7, LengthAssumption
  <2>9. t[j] # r
    BY <1>6, <2>1
  <2>10. QED
    BY <2>1, <2>5, <2>8, <2>9
<1>11. ASSUME NEW j \in DOMAIN t, IsReference(t[j])
       PROVE  t[j] \in Range(s) /\ t[j] \in Range(TextOf(frame.ref))
  <2>1. PICK k \in 1 .. n : s[k] = t[j]
    BY <1>10, <1>11
  <2>2. QED
    BY <1>2, <1>4, <1>11, <2>1 DEF Range
<1>12. ASSUME NEW j \in DOMAIN t, IsReference(t[j]), NEW h \in DOMAIN t, t[h] = t[j]
       PROVE  h = j
  <2>1. PICK k \in 1 .. n : s[k] = t[j] /\ j = k + l - 1
    BY <1>10, <1>12
  <2>2. PICK q \in 1 .. n : s[q] = t[h] /\ h = q + l - 1
    BY <1>10, <1>12
  <2>3. q = k
    BY <1>4, <1>12, <2>1, <2>2
  <2>4. QED
    BY <2>1, <2>2, <2>3
<1>13. Held(next, root)
  BY <1>7, <1>11, <1>12 DEF Held
<1>14. Runs(next)
  BY <1>7, <1>10 DEF Runs
<1>15. \A x \in Range(t) : IsReference(x) => x \in Range(s) /\ x # r
  BY <1>10, <1>11 DEF Range
<1>16. QED
  BY <1>1, <1>7, <1>13, <1>14, <1>15

\* A reference that has been taken up in a text does not stand there any more, unless the
\* nested call for it is in progress.
Taken(s, k, u) ==
    u \in Range(s[k].text) => \E l \in 1 .. Len(s) : l = k + 1 /\ s[l].ref = u

\* What a call has seen are references of the calls it is nested in, or its own that are done.
SeenIs(s, k) ==
    \A key \in s[k].seen : \E j \in 1 .. k : \E u \in Range(TextOf(s[j].ref)) :
        /\ IsReference(u)
        /\ key[2] = u.prompt
        /\ j = k => Taken(s, k, u)

\* The calls that serve a simple reference.
Served(s, root) ==
    /\ s[1].ref = root
    /\ \A k \in 1 .. Len(s) : Held(s[k], root) /\ SeenIs(s, k)
    /\ \A k, l \in 1 .. Len(s) : l = k + 1 => Waits(s[k], s[l].ref)
    /\ Runs(s[Len(s)])

\* A nested call is for a reference of its caller's version.
LEMMA CallersHold ==
    ASSUME Inductive, NEW root, Served(stack, root), Tree(root, MetBelow(root)),
           NEW k \in 1 .. Len(stack), NEW l \in 1 .. Len(stack), l = k + 1
    PROVE  /\ IsReference(stack[l].ref)
           /\ stack[l].ref \in Range(TextOf(stack[k].ref))
           /\ stack[l].ref # root
<1>1. PICK t : t = stack[l].ref
  OBVIOUS
<1>2. IsReference(t)
  <2>1. stack[l] \in AnyFrame
    BY ElementOfSeq DEF Inductive, Typed
  <2>2. t \in Reference
    BY <1>1, <2>1 DEF AnyFrame
  <2>3. QED
    BY <2>2, LiteralAssumption DEF IsReference
<1>3. Waits(stack[k], t) /\ Held(stack[k], root)
  BY <1>1 DEF Served
<1>4. PICK x \in DOMAIN stack[k].text : stack[k].text[x] = t
  BY <1>3 DEF Waits
<1>5. t \in Range(TextOf(stack[k].ref)) /\ stack[k].ref \in MetBelow(root)
  BY <1>2, <1>3, <1>4 DEF Held
<1>6. t # root
  BY <1>2, <1>5 DEF Range, Tree
<1>7. QED
  BY <1>1, <1>2, <1>5, <1>6

\* All calls in progress are for different references.
LEMMA CallsDiffer ==
    ASSUME Inductive, NEW root, Served(stack, root), Tree(root, MetBelow(root))
    PROVE  \A i, j \in 1 .. Len(stack) : stack[i].ref = stack[j].ref => i = j
<1>1. PICK n \in Nat : n = Len(stack)
  BY LenProperties DEF Inductive, Typed
<1>2. ASSUME NEW l \in 2 .. n PROVE stack[l].ref # root
  <2>1. PICK k \in 1 .. n : l = k + 1
    BY <1>1
  <2>2. l \in 1 .. n
    BY <1>1
  <2>3. QED
    BY <1>1, <2>1, <2>2, CallersHold
<1>3. n > 0 => stack[1].ref = root
  BY DEF Served
<1>4. ASSUME NEW i \in 1 .. n, NEW j \in 1 .. n, stack[i].ref = stack[j].ref, i # j PROVE FALSE
  <2>1. CASE i \in 2 .. n /\ j \in 2 .. n
    BY <1>1, <1>4, <2>1 DEF Inductive, BoundedDepth
  <2>2. CASE i = 1
    <3>1. j \in 2 .. n
      BY <1>1, <1>4, <2>2
    <3>2. QED
      BY <1>2, <1>3, <1>4, <2>2, <3>1
  <2>3. CASE j = 1
    <3>1. i \in 2 .. n
      BY <1>1, <1>4, <2>3
    <3>2. QED
      BY <1>2, <1>3, <1>4, <2>3, <3>1
  <2>4. QED
    BY <1>1, <2>1, <2>2, <2>3
<1>5. QED
  BY <1>1, <1>4

\* The next reference is a new one: none of those the calls in progress are for, and its
\* prompt none that has been seen.
LEMMA NextIsNew ==
    ASSUME Inductive, NEW root, Served(stack, root), Tree(root, MetBelow(root)), Searching
    PROVE  /\ Ref \in Reference /\ IsReference(Ref)
           /\ Ref \in Range(TextOf(Top.ref))
           /\ Ref \in MetBelow(root)
           /\ \A i \in 1 .. Len(stack) : stack[i].ref # Ref
           /\ ~Circular
<1>1. PICK n \in Nat \ {0} : n = Len(stack) /\ n \in 1 .. n
  BY EmptySeq DEF Inductive, Typed, Searching
<1>2. Top = stack[n]
  BY <1>1 DEF Top, Last
<1>3. /\ Top \in AnyFrame /\ Ref \in Reference /\ Match \in 1 .. Len(Top.text)
  BY PendingReference DEF Inductive
<1>4. PICK t : t = Ref
  OBVIOUS
<1>5. IsReference(t)
  BY <1>3, <1>4, LiteralAssumption DEF IsReference
<1>6. Match \in DOMAIN Top.text /\ Top.text[Match] = t
  <2>1. Top.text \in Seq(Parts)
    BY <1>3 DEF AnyFrame, Text, Parts
  <2>2. QED
    BY <1>3, <1>4, <2>1, LenProperties DEF Ref
<1>7. Held(stack[n], root)
  BY <1>1 DEF Served
<1>8. t \in Range(TextOf(stack[n].ref)) /\ stack[n].ref \in MetBelow(root)
  BY <1>2, <1>5, <1>6, <1>7 DEF Held
<1>9. t \in MetBelow(root) /\ t # root
  BY <1>5, <1>8 DEF Tree, Range
<1>10. ASSUME NEW i \in 1 .. n, stack[i].ref = t PROVE FALSE
  <2>1. CASE i = 1
    BY <1>9, <1>10, <2>1 DEF Served
  <2>2. CASE i # 1
    <3>1. PICK k \in 1 .. n : i = k + 1 /\ k # n
      BY <1>1, <2>2
    <3>2. t \in Range(TextOf(stack[k].ref))
      BY <1>1, <1>10, <3>1, CallersHold
    <3>3. stack[k].ref \in MetBelow(root)
      BY <1>1 DEF Served, Held
    <3>4. stack[k].ref = stack[n].ref
      BY <1>5, <1>8, <3>2, <3>3 DEF Tree, Range
    <3>5. QED
      BY <1>1, <3>1, <3>4, CallsDiffer
  <2>3. QED
    BY <2>1, <2>2
<1>11. ASSUME Circular PROVE FALSE
  <2>1. PICK key : key = Key(Top, Ref)
    OBVIOUS
  <2>2. key \in stack[n].seen /\ key[2] = t.prompt
    BY <1>2, <1>4, <1>11, <2>1 DEF Circular, Key
  <2>3. SeenIs(stack, n)
    BY <1>1 DEF Served
  <2>4. PICK j \in 1 .. n : \E u \in Range(TextOf(stack[j].ref)) :
            IsReference(u) /\ key[2] = u.prompt /\ (j = n => Taken(stack, n, u))
    BY <2>2, <2>3, Zenon DEF SeenIs
  <2>5. PICK u \in Range(TextOf(stack[j].ref)) :
            IsReference(u) /\ key[2] = u.prompt /\ (j = n => Taken(stack, n, u))
    BY <2>4
  <2>6. IsReference(u) /\ u.prompt = t.prompt
    BY <2>2, <2>5
  <2>7. stack[j].ref \in MetBelow(root)
    BY <1>1 DEF Served, Held
  <2>8. PICK x \in DOMAIN TextOf(stack[j].ref) : u = TextOf(stack[j].ref)[x]
    BY DEF Range
  <2>9. PICK y \in DOMAIN TextOf(stack[n].ref) : t = TextOf(stack[n].ref)[y]
    BY <1>8 DEF Range
  <2>10. stack[j].ref = stack[n].ref /\ x = y
    BY <1>5, <1>8, <2>6, <2>7, <2>8, <2>9 DEF Tree
  <2>11. j = n /\ u = t
    BY <1>1, <2>8, <2>9, <2>10, CallsDiffer
  <2>12. t \in Range(stack[n].text)
    BY <1>2, <1>6 DEF Range
  <2>13. PICK l \in 1 .. n : l = n + 1
    BY <1>1, <2>5, <2>11, <2>12 DEF Taken
  <2>14. QED
    BY <1>1, <2>13
<1>12. QED
  BY <1>1, <1>2, <1>3, <1>4, <1>5, <1>8, <1>9, <1>10, <1>11

\* What is met below a simple reference is served: it is found, in the caller's project,
\* and within the depth.
LEMMA NextIsFound ==
    ASSUME IsFiniteSet(Prompts), Depth \in Nat, Inductive, NULL \notin Projects,
           NEW root \in Reference, Simple(root), Served(stack, root), Searching
    PROVE  /\ ~TooDeep
           /\ Found(ProjectOf(Top, Ref), Ref)
           /\ Home[Ref.prompt] = Home[root.prompt]
<1>1. PICK n \in Nat \ {0} : n = Len(stack) /\ n \in 1 .. n
  BY EmptySeq DEF Inductive, Typed, Searching
<1>2. Top = stack[n]
  BY <1>1 DEF Top, Last
<1>3. catalog \in [Prompts -> Versions]
  BY DEF Inductive, Typed
<1>4. /\ Tree(root, MetBelow(root))
      /\ Visits[Depth][root] \in Seq(Reference)
      /\ Len(Visits[Depth][root]) <= MaxDepth
      /\ \A x \in MetBelow(root) : Easy(x, root)
  BY <1>3, SimpleIs
<1>5. /\ Ref \in Reference /\ Ref \in MetBelow(root)
      /\ \A i \in 1 .. n : stack[i].ref # Ref
  BY <1>1, <1>4, NextIsNew
<1>6. Top.project = Home[root.prompt]
  BY <1>1, <1>2 DEF Served, Held
<1>7. Found(ProjectOf(Top, Ref), Ref) /\ Home[Ref.prompt] = Home[root.prompt]
  BY <1>4, <1>5, <1>6 DEF Easy, Found, ProjectOf
<1>8. ASSUME n >= MaxDepth PROVE FALSE
  <2>1. PICK m \in Nat : m = n + 1
    OBVIOUS
  <2>2. PICK g : g = [i \in 1 .. m |-> IF i = m THEN Ref ELSE stack[i].ref]
    OBVIOUS
  <2>3. \A i \in 1 .. m : i = m \/ i \in 1 .. n
    BY <2>1
  <2>4. \A i \in 1 .. n : i \in 1 .. m /\ i # m
    BY <2>1
  <2>5. \A i \in 1 .. n : stack[i].ref \in MetBelow(root)
    BY <1>1 DEF Served, Held
  <2>6. ASSUME NEW i \in 1 .. m PROVE g[i] \in Range(Visits[Depth][root])
    BY <1>5, <2>2, <2>3, <2>5, <2>6 DEF MetBelow
  <2>7. \A i, j \in 1 .. n : stack[i].ref = stack[j].ref => i = j
    BY <1>1, <1>4, CallsDiffer
  <2>8. ASSUME NEW i \in 1 .. m, NEW j \in 1 .. m, g[i] = g[j] PROVE i = j
    BY <1>5, <2>2, <2>3, <2>7, <2>8
  <2>9. PICK v \in Seq(Reference) : v = Visits[Depth][root]
    BY <1>4
  <2>10. m <= Len(v)
    BY <2>6, <2>8, <2>9, DistinctIsShort
  <2>11. Len(v) \in Nat /\ Len(v) <= MaxDepth
    BY <1>4, <2>9, LenProperties
  <2>12. QED
    BY <1>8, <2>1, <2>10, <2>11, DepthAssumption
<1>9. QED
  BY <1>1, <1>7, <1>8, DepthAssumption DEF TooDeep

\* The first call.
LEMMA RequestServes ==
    ASSUME IsFiniteSet(Prompts), Depth \in Nat, Inductive,
           NEW r \in Reference, Simple(r), Request(r)
    PROVE  \E s : s = stack' /\ Served(s, r)
<1>1. PICK root : /\ root = [ref |-> r, project |-> r.project, text |-> TextOf(r), pos |-> 0,
                             seen |-> {}, errors |-> {}]
                  /\ stack' = <<root>>
  BY DEF Request
<1>2. PICK s : s = <<root>> /\ Len(s) = 1 /\ s[1] = root
  <2>1. Len(<<root>>) = 1 /\ <<root>>[1] = root
    OBVIOUS
  <2>2. QED
    BY <2>1
<1>3. root.ref = r /\ root.project = Home[r.prompt] /\ root.text = TextOf(r) /\ root.pos = 0 /\ root.seen = {}
  BY <1>1 DEF Request, Found
<1>4. catalog \in [Prompts -> Versions] /\ Candidates(r) # {}
  BY DEF Inductive, Typed, Request, Found
<1>5. Tree(r, MetBelow(r))
  BY <1>4, SimpleIs
<1>6. r \in MetBelow(r)
  BY <1>5 DEF Tree
<1>7. Held(root, r) /\ Runs(root)
  BY <1>3, <1>4, <1>5, <1>6, FreshFrame
<1>8. SeenIs(s, 1)
  BY <1>2, <1>3 DEF SeenIs
<1>9. \A k \in 1 .. 1 : k = 1
  OBVIOUS
<1>10. Served(s, r)
  BY <1>2, <1>3, <1>7, <1>8, <1>9 DEF Served
<1>11. QED
  BY <1>1, <1>2, <1>10

\* A nested call begins: its caller waits for it, it knows what its caller has seen.
LEMMA EnterServes ==
    ASSUME IsFiniteSet(Prompts), Depth \in Nat, Inductive, NULL \notin Projects,
           NEW root \in Reference, Simple(root), Served(stack, root), Enter
    PROVE  \E s : s = stack' /\ Served(s, root)
<1> DEFINE base == Front(stack) \o <<Advanced>>
<1>1. PICK n \in Nat \ {0} : n = Len(stack) /\ n \in 1 .. n
  BY EmptySeq DEF Inductive, Typed, Enter, Searching
<1>2. PICK m \in Nat : m = n + 1
  OBVIOUS
<1>3. Typed /\ Searching /\ stack \in Seq(AnyFrame) /\ Top = stack[n]
  BY <1>1 DEF Inductive, Typed, Enter, Top, Last
<1>4. /\ Top \in AnyFrame /\ Ref \in Reference /\ Advanced \in AnyFrame
      /\ Advanced.ref = Top.ref /\ Advanced.text = Top.text /\ Advanced.project = Top.project
      /\ Advanced.pos = Start(Top.text, Match) + RefLength
      /\ Advanced.seen = Top.seen \cup {Key(Top, Ref)}
  BY <1>3, PendingReference, AdvancedFrame DEF Advanced, AnyFrame
<1>5. catalog \in [Prompts -> Versions] /\ Candidates(Ref) # {}
  BY <1>3 DEF Typed, Enter, Found
<1>6. Tree(root, MetBelow(root))
  BY <1>5, SimpleIs
<1>7. PICK t : t = Ref /\ IsReference(t) /\ t \in Range(TextOf(Top.ref)) /\ t \in MetBelow(root)
  BY <1>3, <1>6, NextIsNew
<1>8. Home[Ref.prompt] = Home[root.prompt]
  BY <1>3, NextIsFound
<1>9. PICK waiting : waiting = Advanced
  OBVIOUS
<1>10. PICK child : /\ stack' = Append(base, child) /\ child \in AnyFrame
                    /\ child.ref = t /\ child.project = Home[root.prompt]
                    /\ child.text = TextOf(t) /\ child.pos = 0 /\ child.seen = waiting.seen
  <2>1. stack' = Append(base, Child(Ref))
    BY DEF Enter
  <2>2. Child(Ref) \in AnyFrame
    <3>1. TextOf(Ref) \in Text
      BY <1>4, <1>5, TextIsText
    <3>2. Home[Ref.prompt] \in Projects
      BY <1>4, HomeAssumption DEF Reference
    <3>3. Advanced.seen \in SUBSET (Projects \X Prompts)
      BY <1>4 DEF AnyFrame
    <3>4. QED
      BY <1>4, <3>1, <3>2, <3>3 DEF Child, AnyFrame, Offsets
  <2>3. /\ Child(Ref).ref = Ref /\ Child(Ref).text = TextOf(Ref) /\ Child(Ref).project = Home[Ref.prompt]
        /\ Child(Ref).pos = 0 /\ Child(Ref).seen = Advanced.seen
    BY DEF Child
  <2>4. QED
    BY <1>7, <1>8, <1>9, <2>1, <2>2, <2>3
<1>11. /\ base \in Seq(AnyFrame)
       /\ Len(base) = n
       /\ \A i \in 1 .. n : base[i] = IF i = n THEN waiting ELSE stack[i]
  BY <1>1, <1>3, <1>4, <1>9, Restacked
<1> HIDE DEF base
<1>12. PICK s : /\ s = stack' /\ Len(s) = m
                /\ s[m] = child
                /\ \A i \in 1 .. n : s[i] = IF i = n THEN waiting ELSE stack[i]
  BY <1>2, <1>10, <1>11, AppendProperties
<1>13. s[n] = waiting /\ \A i \in 1 .. n : i # n => s[i] = stack[i]
  BY <1>1, <1>12
<1>14. \A i \in 1 .. m : (i \in 1 .. n /\ i # n) \/ i = n \/ i = m
  BY <1>2
<1>15. \A i \in 1 .. n : i \in 1 .. m /\ i # m
  BY <1>2
<1>16. \A i \in 1 .. n : s[i].ref = stack[i].ref
  BY <1>3, <1>4, <1>9, <1>13
<1>17. Held(child, root) /\ Runs(child)
  <2>1. t \in Reference
    BY <1>4, <1>7
  <2>2. QED
    BY <1>5, <1>6, <1>7, <1>10, <2>1, FreshFrame
<1>18. Held(waiting, root)
  <2>1. Held(Top, root)
    BY <1>1, <1>3 DEF Served
  <2>2. QED
    BY <1>4, <1>9, <2>1 DEF Held
<1>19. Waits(waiting, t)
  <2>1. Runs(Top) /\ Pending(Top) # {}
    BY <1>1, <1>3 DEF Served, Searching
  <2>2. Top.text \in Seq(Parts)
    BY <1>4 DEF AnyFrame, Text, Parts
  <2>3. waiting.text = Top.text /\ waiting.pos = Start(Top.text, Min(Pending(Top))) + RefLength
    BY <1>4, <1>9 DEF Match
  <2>4. Waits(waiting, Top.text[Min(Pending(Top))])
    BY <2>1, <2>2, <2>3, AdvancedWaits
  <2>5. t = Top.text[Min(Pending(Top))]
    BY <1>7 DEF Ref, Match
  <2>6. QED
    BY <2>4, <2>5
<1>20. ASSUME NEW k \in 1 .. m PROVE Held(s[k], root)
  <2>1. CASE k \in 1 .. n /\ k # n
    BY <1>1, <1>13, <2>1 DEF Served
  <2>2. QED
    BY <1>12, <1>13, <1>14, <1>17, <1>18, <2>1
<1>21. ASSUME NEW k \in 1 .. m, NEW l \in 1 .. m, l = k + 1 PROVE Waits(s[k], s[l].ref)
  <2>1. CASE l = m
    <3>1. k = n
      BY <1>2, <1>21, <2>1
    <3>2. QED
      BY <1>10, <1>12, <1>13, <1>19, <2>1, <3>1
  <2>2. CASE l # m
    <3>1. k \in 1 .. n /\ l \in 1 .. n /\ k # n
      BY <1>2, <1>21, <2>2
    <3>2. Waits(stack[k], stack[l].ref)
      BY <1>1, <1>21, <3>1 DEF Served
    <3>3. QED
      BY <1>13, <1>16, <3>1, <3>2
  <2>3. QED
    BY <2>1, <2>2
\* What the callers have seen is as it was, ...
<1>22. ASSUME NEW k \in 1 .. n, NEW key \in stack[k].seen
       PROVE  \E j \in 1 .. k : \E u \in Range(TextOf(s[j].ref)) :
                 /\ IsReference(u) /\ key[2] = u.prompt /\ (j = k => Taken(s, k, u))
  <2>1. SeenIs(stack, k)
    BY <1>1 DEF Served
  <2>2. PICK j \in 1 .. k : \E u \in Range(TextOf(stack[j].ref)) :
            IsReference(u) /\ key[2] = u.prompt /\ (j = k => Taken(stack, k, u))
    BY <2>1, Zenon DEF SeenIs
  <2>3. PICK u \in Range(TextOf(stack[j].ref)) :
            IsReference(u) /\ key[2] = u.prompt /\ (j = k => Taken(stack, k, u))
    BY <2>2
  <2>4. j \in 1 .. n
    BY <1>1
  <2>5. u \in Range(TextOf(s[j].ref))
    BY <1>16, <2>3, <2>4
  <2>6. ASSUME Taken(stack, k, u) PROVE Taken(s, k, u)
    <3>1. s[k].text = stack[k].text
      BY <1>3, <1>4, <1>9, <1>13
    <3>2. ASSUME NEW l \in 1 .. n, l = k + 1, stack[l].ref = u
          PROVE  \E h \in 1 .. m : h = k + 1 /\ s[h].ref = u
      BY <1>15, <1>16, <3>2
    <3>3. QED
      BY <1>1, <1>12, <2>6, <3>1, <3>2 DEF Taken
  <2>7. QED
    BY <2>3, <2>5, <2>6
\* ... and what is taken up now belongs to the nested call.
<1>23. Taken(s, n, t)
  <2>1. m \in 1 .. m
    BY <1>2
  <2>2. QED
    BY <1>2, <1>10, <1>12, <2>1 DEF Taken
<1>24. SeenIs(s, n)
  <2>1. ASSUME NEW key \in waiting.seen
        PROVE  \E j \in 1 .. n : \E u \in Range(TextOf(s[j].ref)) :
                  /\ IsReference(u) /\ key[2] = u.prompt /\ (j = n => Taken(s, n, u))
    <3>1. CASE key \in stack[n].seen
      BY <1>1, <1>22, <3>1
    <3>2. CASE key \notin stack[n].seen
      <4>1. key[2] = t.prompt
        BY <1>3, <1>4, <1>7, <1>9, <3>2 DEF Key
      <4>2. t \in Range(TextOf(s[n].ref))
        BY <1>1, <1>3, <1>7, <1>16
      <4>3. QED
        BY <1>1, <1>7, <1>23, <4>1, <4>2
    <3>3. QED
      BY <3>1, <3>2
  <2>2. QED
    BY <1>13, <2>1, Zenon DEF SeenIs
<1>25. SeenIs(s, m)
  <2>1. ASSUME NEW key \in waiting.seen
        PROVE  \E j \in 1 .. m : \E u \in Range(TextOf(s[j].ref)) :
                  /\ IsReference(u) /\ key[2] = u.prompt /\ (j = m => Taken(s, m, u))
    <3>1. PICK j \in 1 .. n : \E u \in Range(TextOf(s[j].ref)) : IsReference(u) /\ key[2] = u.prompt
      BY <1>13, <1>24, Zenon DEF SeenIs
    <3>2. j \in 1 .. m /\ j # m
      BY <1>15
    <3>3. QED
      BY <3>1, <3>2
  <2>2. s[m].seen = waiting.seen
    BY <1>10, <1>12
  <2>3. QED
    BY <2>1, <2>2, Zenon DEF SeenIs
<1>26. ASSUME NEW k \in 1 .. m PROVE SeenIs(s, k)
  <2>1. CASE k \in 1 .. n /\ k # n
    <3>1. s[k].seen = stack[k].seen
      BY <1>13, <2>1
    <3>2. QED
      BY <1>22, <2>1, <3>1, Zenon DEF SeenIs
  <2>2. QED
    BY <1>14, <1>24, <1>25, <2>1
<1>27. s[1].ref = root
  <2>1. 1 \in 1 .. n
    BY <1>1
  <2>2. QED
    BY <1>16, <2>1 DEF Served
<1>28. Served(s, root)
  BY <1>12, <1>17, <1>20, <1>21, <1>26, <1>27 DEF Served
<1>29. QED
  BY <1>12, <1>28

\* A call in which nothing is pending has no references left, so its text is what it was
\* called for, and all of it.
LEMMA DoneIsExpanded ==
    ASSUME IsFiniteSet(Prompts), Depth \in Nat, Inductive, StackSound,
           NEW root \in Reference, Simple(root), Served(stack, root),
           stack # <<>>, Pending(Top) = {}
    PROVE  /\ Top.text \in Seq(Parts)
           /\ \A j \in DOMAIN Top.text : ~IsReference(Top.text[j])
           /\ Top.text = Expansion[Depth][Top.ref]
           /\ Len(stack) > 1 => Inert(Top.text)
<1>1. PICK n \in Nat \ {0} : n = Len(stack) /\ n \in 1 .. n /\ 1 \in 1 .. n
  BY EmptySeq DEF Inductive, Typed
<1>2. Top = stack[n] /\ Top \in AnyFrame
  BY <1>1, ElementOfSeq DEF Top, Last, Inductive, Typed
<1>3. PICK u \in Seq(Parts) : u = Top.text
  BY <1>2 DEF AnyFrame, Text, Parts
<1>4. \A j \in DOMAIN u : ~IsReference(u[j])
  <2>1. Runs(Top)
    BY <1>1, <1>2 DEF Served
  <2>2. QED
    BY <1>3, <2>1 DEF Runs, Pending
<1>5. catalog \in [Prompts -> Versions]
  BY DEF Inductive, Typed
<1>6. Fit(stack[1].ref)
  <2>1. Acyclic(root)
    BY <1>5, SimpleIs
  <2>2. InertBelow(root)
    BY DEF Simple
  <2>3. QED
    BY <2>1, <2>2 DEF Served, Fit
<1>7. FrameSound(Top) /\ (n > 1 => Inert(Top.text))
  BY <1>1, <1>2, <1>6 DEF StackSound
<1>8. Expanded(u) = u
  <2>1. PICK m \in [Parts -> Seq(Parts)] : m = Full
    BY <1>5, FullIsFunction
  <2>2. \A x \in Range(u) : x \in Parts /\ ~IsReference(x)
    <3>1. Range(u) \subseteq Parts
      BY RangeOfSeq
    <3>2. QED
      BY <1>4, <3>1 DEF Range
  <2>3. \A x \in Range(u) : m[x] = <<x>>
    BY <2>1, <2>2 DEF Full
  <2>4. Spread(u, m) = u
    BY <2>3, SpreadIdentity
  <2>5. QED
    BY <2>1, <2>4, ExpandedIsSpread
<1>9. QED
  BY <1>1, <1>3, <1>4, <1>7, <1>8 DEF FrameSound

\* A nested call ends: its caller goes on, with one reference less.
LEMMA ReturnServes ==
    ASSUME IsFiniteSet(Prompts), Depth \in Nat, Inductive, StackSound,
           NEW root \in Reference, Simple(root), Served(stack, root), Return
    PROVE  \E s : s = stack' /\ Served(s, root)
<1> DEFINE rest == Front(stack)
<1>1. PICK n \in Nat \ {0} : n = Len(stack) - 1
  <2>1. Len(stack) \in Nat /\ Len(stack) > 1
    BY LenProperties DEF Inductive, Typed, Return
  <2>2. QED
    BY <2>1
<1>2. PICK m \in Nat : m = n + 1
  OBVIOUS
<1>3. stack \in Seq(AnyFrame) /\ Len(stack) = m /\ stack # <<>> /\ Top = stack[m] /\ catalog \in [Prompts -> Versions]
  <2>1. stack \in Seq(AnyFrame) /\ Len(stack) = m /\ catalog \in [Prompts -> Versions]
    BY <1>1, <1>2 DEF Inductive, Typed
  <2>2. stack # <<>>
    BY <1>2, <2>1, EmptySeq
  <2>3. QED
    BY <2>1, <2>2 DEF Top, Last
<1>4. n \in 1 .. n /\ n \in 1 .. m /\ m \in 1 .. m /\ 1 \in 1 .. n /\ 1 \in 1 .. m /\ n # m
  BY <1>2
<1>5. rest \in Seq(AnyFrame) /\ Len(rest) = n /\ \A i \in 1 .. n : rest[i] = stack[i]
  <2>1. Len(stack) > 0 /\ Len(stack) - 1 = n
    BY <1>1, <1>2, <1>3
  <2>2. /\ Front(stack) \in Seq(AnyFrame)
        /\ Len(Front(stack)) = Len(stack) - 1
        /\ \A i \in 1 .. Len(stack) - 1 : Front(stack)[i] = stack[i]
    BY <1>3, <2>1, FrontIsPrefix
  <2>3. QED
    BY <2>1, <2>2
<1>6. PICK caller : caller = Last(rest) /\ caller = stack[n] /\ caller \in AnyFrame
  BY <1>3, <1>4, <1>5, ElementOfSeq DEF Last
<1>7. PICK callee : callee = Top /\ callee = stack[m] /\ callee \in AnyFrame
  BY <1>3, <1>4, ElementOfSeq
<1>8. PICK words : words = Splice(caller.text, callee.ref, callee.text)
  OBVIOUS
<1>9. PICK resumed : /\ resumed = Resumed(caller, callee) /\ resumed \in AnyFrame
                     /\ resumed.ref = caller.ref /\ resumed.project = caller.project
                     /\ resumed.pos = caller.pos /\ resumed.seen = caller.seen /\ resumed.text = words
  <2>1. words \in Text
    BY <1>6, <1>7, <1>8, SpliceIsText DEF AnyFrame
  <2>2. Resumed(caller, callee) = [caller EXCEPT !.text = words, !.errors = caller.errors \cup callee.errors]
    BY <1>6, <1>8 DEF Resumed, AnyFrame
  <2>3. QED
    BY <1>6, <1>7, <2>1, <2>2 DEF AnyFrame
<1>10. stack' = Front(rest) \o <<resumed>>
  BY <1>6, <1>7, <1>9 DEF Return
<1> HIDE DEF rest
<1>11. PICK s : s = stack' /\ Len(s) = n /\ \A i \in 1 .. n : s[i] = IF i = n THEN resumed ELSE stack[i]
  <2>1. Len(rest) > 0
    BY <1>5
  <2>2. /\ Len(Front(rest) \o <<resumed>>) = Len(rest)
        /\ \A i \in 1 .. Len(rest) : (Front(rest) \o <<resumed>>)[i] = IF i = Len(rest) THEN resumed ELSE rest[i]
    BY <1>5, <1>9, <2>1, Restacked
  <2>3. PICK s : s = stack'
    OBVIOUS
  <2>4. Len(s) = n /\ \A i \in 1 .. n : s[i] = IF i = n THEN resumed ELSE rest[i]
    BY <1>5, <1>10, <2>2, <2>3
  <2>5. QED
    BY <1>5, <2>3, <2>4
<1>12. s[n] = resumed /\ \A i \in 1 .. n : i # n => s[i] = stack[i]
  BY <1>4, <1>11
<1>13. \A i \in 1 .. n : s[i].ref = stack[i].ref /\ s[i].seen = stack[i].seen
  BY <1>6, <1>9, <1>12
<1>14. \A i \in 1 .. n : i \in 1 .. m /\ i # m
  BY <1>2
<1>15. /\ Held(resumed, root)
       /\ Runs(resumed)
       /\ \A t \in Range(words) : IsReference(t) => t \in Range(caller.text) /\ t # callee.ref
  <2>1. PICK old \in Seq(Parts) : old = caller.text
    BY <1>6 DEF AnyFrame, Text, Parts
  <2>2. PICK u \in Seq(Parts) : u = callee.text /\ (\A j \in DOMAIN u : ~IsReference(u[j]))
                                /\ u = Expansion[Depth][callee.ref] /\ Inert(u)
    BY <1>3, <1>7, DoneIsExpanded DEF Return
  <2>3. PICK r \in Reference : r = callee.ref
    BY <1>7 DEF AnyFrame
  <2>4. Held(caller, root) /\ Waits(caller, r) /\ r \in MetBelow(root)
    <3>1. Held(stack[n], root) /\ Held(stack[m], root) /\ Waits(stack[n], stack[m].ref)
      BY <1>2, <1>3, <1>4 DEF Served
    <3>2. QED
      BY <1>6, <1>7, <2>3, <3>1 DEF Held
  <2>5. Tree(root, MetBelow(root)) /\ Easy(r, root)
    BY <1>3, <2>4, SimpleIs
  <2>6. r # root
    BY <1>2, <1>3, <1>4, <1>7, <2>3, <2>5, CallersHold
  <2>7. TotalWidth(u) >= RefLength
    BY <2>2, <2>3, <2>5, <2>6 DEF Easy
  <2>8. resumed.text = Splice(old, r, u)
    BY <1>8, <1>9, <2>1, <2>2, <2>3
  <2>9. /\ Held(resumed, root)
        /\ Runs(resumed)
        /\ \A t \in Range(resumed.text) : IsReference(t) => t \in Range(caller.text) /\ t # r
    BY <1>9, <2>1, <2>2, <2>4, <2>7, <2>8, SplicedRuns
  <2>10. QED
    BY <1>9, <2>3, <2>9
<1>16. ASSUME NEW k \in 1 .. n PROVE Held(s[k], root)
  <2>1. CASE k = n
    BY <1>12, <1>15, <2>1
  <2>2. CASE k # n
    BY <1>3, <1>12, <1>14, <2>2 DEF Served
  <2>3. QED
    BY <2>1, <2>2
<1>17. ASSUME NEW k \in 1 .. n, NEW l \in 1 .. n, l = k + 1 PROVE Waits(s[k], s[l].ref)
  <2>1. k # n
    BY <1>17
  <2>2. Waits(stack[k], stack[l].ref)
    BY <1>3, <1>14, <1>17 DEF Served
  <2>3. QED
    BY <1>12, <1>13, <2>1, <2>2
<1>18. ASSUME NEW k \in 1 .. n, NEW u, IsReference(u), Taken(stack, k, u) PROVE Taken(s, k, u)
  <2>1. CASE k = n
    <3>1. SUFFICES ASSUME u \in Range(s[k].text) PROVE FALSE
      BY DEF Taken
    <3>2. u \in Range(words)
      BY <1>9, <1>12, <2>1, <3>1
    <3>3. u \in Range(stack[k].text) /\ u # callee.ref
      BY <1>6, <1>15, <1>18, <2>1, <3>2
    <3>4. PICK l \in 1 .. m : l = k + 1 /\ stack[l].ref = u
      BY <1>3, <1>18, <3>3 DEF Taken
    <3>5. l = m
      BY <1>2, <2>1, <3>4
    <3>6. QED
      BY <1>7, <3>3, <3>4, <3>5
  <2>2. CASE k # n
    <3>1. s[k].text = stack[k].text
      BY <1>12, <2>2
    <3>2. ASSUME NEW l \in 1 .. m, l = k + 1, stack[l].ref = u
          PROVE  \E h \in 1 .. n : h = k + 1 /\ s[h].ref = u
      <4>1. l \in 1 .. n
        BY <1>2, <2>2, <3>2
      <4>2. QED
        BY <1>13, <3>2, <4>1
    <3>3. QED
      BY <1>3, <1>11, <1>18, <3>1, <3>2 DEF Taken
  <2>3. QED
    BY <2>1, <2>2
<1>19. ASSUME NEW k \in 1 .. n PROVE SeenIs(s, k)
  <2>1. SeenIs(stack, k)
    BY <1>3, <1>14 DEF Served
  <2>2. ASSUME NEW key \in stack[k].seen
        PROVE  \E j \in 1 .. k : \E u \in Range(TextOf(s[j].ref)) :
                  /\ IsReference(u) /\ key[2] = u.prompt /\ (j = k => Taken(s, k, u))
    <3>1. PICK j \in 1 .. k : \E u \in Range(TextOf(stack[j].ref)) :
              IsReference(u) /\ key[2] = u.prompt /\ (j = k => Taken(stack, k, u))
      BY <2>1, Zenon DEF SeenIs
    <3>2. PICK u \in Range(TextOf(stack[j].ref)) :
              IsReference(u) /\ key[2] = u.prompt /\ (j = k => Taken(stack, k, u))
      BY <3>1
    <3>3. j \in 1 .. n
      OBVIOUS
    <3>4. u \in Range(TextOf(s[j].ref))
      BY <1>13, <3>2, <3>3
    <3>5. j = k => Taken(s, k, u)
      BY <1>18, <3>2
    <3>6. QED
      BY <3>2, <3>4, <3>5
  <2>3. s[k].seen = stack[k].seen
    BY <1>13
  <2>4. QED
    BY <2>2, <2>3, Zenon DEF SeenIs
<1>20. s[1].ref = root
  BY <1>4, <1>13 DEF Served
<1>21. Runs(s[Len(s)])
  BY <1>11, <1>12, <1>15
<1>22. Served(s, root)
  BY <1>11, <1>16, <1>17, <1>19, <1>20, <1>21 DEF Served
<1>23. QED
  BY <1>11, <1>22

\* The calls that serve a simple reference are in order.
SimpleServed ==
    stack # <<>> /\ failed = {} /\ Simple(stack[1].ref) => Served(stack, stack[1].ref)

\* More that is computed of the catalog only.
LEMMA SameTrees ==
    ASSUME catalog' = catalog
    PROVE  /\ \A r : Simple(r)' <=> Simple(r)
           /\ \A s, root : Served(s, root)' <=> Served(s, root)
<1>1. Visits' = Visits /\ Expansion' = Expansion
  BY DEF Visits, Expansion, Candidates, TextOf
<1>2. \A r : Candidates(r)' = Candidates(r) /\ TextOf(r)' = TextOf(r)
  BY DEF Candidates, TextOf
<1>3. ASSUME NEW r PROVE Simple(r)' <=> Simple(r)
  BY <1>1, <1>2 DEF Simple, Complete, InertBelow
<1>4. ASSUME NEW frame, NEW root PROVE Held(frame, root)' <=> Held(frame, root)
  BY <1>1, <1>2 DEF Held, MetBelow
<1>5. ASSUME NEW s, NEW k PROVE SeenIs(s, k)' <=> SeenIs(s, k)
  BY <1>2, Zenon DEF SeenIs
<1>6. ASSUME NEW s, NEW root PROVE Served(s, root)' <=> Served(s, root)
  BY <1>4, <1>5, Zenon DEF Served
<1>7. QED
  BY <1>3, <1>6

\* The root of the calls in progress stays the same.
LEMMA RootStays ==
    ASSUME Inductive, Enter \/ Return
    PROVE  stack # <<>> /\ stack'[1].ref = stack[1].ref
<1>1. CASE Enter
  <2>1. PICK n \in Nat \ {0} : n = Len(stack) /\ n \in 1 .. n /\ 1 \in 1 .. n
    BY <1>1, EmptySeq DEF Inductive, Typed, Enter, Searching
  <2>2. stack # <<>> /\ Typed /\ Searching /\ stack \in Seq(AnyFrame) /\ Top = stack[n]
    BY <1>1, <2>1 DEF Inductive, Typed, Enter, Searching, Top, Last
  <2>3. Advanced \in AnyFrame /\ Advanced.ref = Top.ref
    BY <2>2, AdvancedFrame
  <2>4. PICK base \in Seq(AnyFrame) : /\ base = Front(stack) \o <<Advanced>>
                                      /\ Len(base) = n
                                      /\ \A i \in 1 .. n : base[i] = IF i = n THEN Advanced ELSE stack[i]
    <3>1. Len(stack) > 0
      BY <2>1
    <3>2. /\ Front(stack) \o <<Advanced>> \in Seq(AnyFrame)
          /\ Len(Front(stack) \o <<Advanced>>) = Len(stack)
          /\ \A i \in 1 .. Len(stack) :
                (Front(stack) \o <<Advanced>>)[i] = IF i = Len(stack) THEN Advanced ELSE stack[i]
      BY <2>2, <2>3, <3>1, Restacked
    <3>3. QED
      BY <2>1, <3>2
  <2>5. base[1].ref = stack[1].ref
    BY <2>1, <2>2, <2>3, <2>4
  <2>6. PICK child : stack' = Append(base, child)
    BY <1>1, <2>4 DEF Enter
  <2>7. stack'[1] = base[1]
    BY <2>1, <2>4, <2>6, AppendProperties
  <2>8. QED
    BY <2>2, <2>5, <2>7
<1>2. CASE Return
  <2>1. PICK n \in Nat \ {0} : n = Len(stack) - 1 /\ n \in 1 .. n /\ 1 \in 1 .. n
    <3>1. Len(stack) \in Nat /\ Len(stack) > 1
      BY <1>2, LenProperties DEF Inductive, Typed, Return
    <3>2. QED
      BY <3>1
  <2>2. stack \in Seq(AnyFrame) /\ Len(stack) > 0 /\ stack # <<>>
    BY <1>2, <2>1, EmptySeq DEF Inductive, Typed, Return
  <2>3. PICK rest \in Seq(AnyFrame) : rest = Front(stack) /\ Len(rest) = n /\ (\A i \in 1 .. n : rest[i] = stack[i])
    BY <2>1, <2>2, FrontIsPrefix
  <2>4. PICK caller : caller = Last(rest) /\ caller = rest[n] /\ caller \in AnyFrame
    BY <2>1, <2>3, ElementOfSeq DEF Last
  <2>5. PICK callee : callee = Top /\ callee \in AnyFrame
    BY <2>2, ElementOfSeq DEF Top, Last
  <2>6. PICK resumed : resumed = Resumed(caller, callee) /\ resumed \in AnyFrame /\ resumed.ref = caller.ref
    <3>1. PICK words : words = Splice(caller.text, callee.ref, callee.text)
      OBVIOUS
    <3>2. words \in Text
      BY <2>4, <2>5, <3>1, SpliceIsText DEF AnyFrame
    <3>3. Resumed(caller, callee) = [caller EXCEPT !.text = words, !.errors = caller.errors \cup callee.errors]
      BY <2>4, <3>1 DEF Resumed, AnyFrame
    <3>4. QED
      BY <2>4, <2>5, <3>2, <3>3 DEF AnyFrame
  <2>7. Len(rest) > 0
    BY <2>3
  <2>8. \A i \in 1 .. Len(rest) : (Front(rest) \o <<resumed>>)[i] = IF i = Len(rest) THEN resumed ELSE rest[i]
    BY <2>3, <2>6, <2>7, Restacked
  <2>9. stack' = Front(rest) \o <<resumed>>
    BY <1>2, <2>3, <2>4, <2>5, <2>6 DEF Return
  <2>10. stack'[1] = IF 1 = n THEN resumed ELSE rest[1]
    BY <2>1, <2>3, <2>8, <2>9
  <2>11. QED
    BY <2>1, <2>2, <2>3, <2>4, <2>6, <2>10
<1>3. QED
  BY <1>1, <1>2

\* Served calls are served calls after the step.
LEMMA ServesOn ==
    ASSUME NEW root, catalog' = catalog, stack'[1].ref = root,
           Simple(root) => \E s : s = stack' /\ Served(s, root)
    PROVE  SimpleServed'
<1>1. SUFFICES ASSUME Simple(root)' PROVE Served(stack, root)'
  BY DEF SimpleServed
<1>2. Simple(root)
  BY <1>1, SameTrees
<1>3. PICK s : s = stack' /\ Served(s, root)
  BY <1>2
<1>4. Served(s, root)'
  BY <1>3, SameTrees
<1>5. QED
  BY <1>3, <1>4 DEF Served

\* A simple reference is not refused.
LEMMA NothingRefused ==
    ASSUME IsFiniteSet(Prompts), Depth \in Nat, Inductive, NULL \notin Projects, SimpleServed,
           failed = {}, RefuseCircular \/ RefuseDepth \/ RefuseMissing
    PROVE  ~Simple(stack[1].ref)
<1>1. SUFFICES ASSUME Simple(stack[1].ref) PROVE FALSE
  OBVIOUS
<1>2. Searching /\ stack # <<>>
  BY DEF RefuseCircular, RefuseDepth, RefuseMissing, Searching
<1>3. PICK root : root = stack[1].ref
  OBVIOUS
<1>4. root \in Reference
  <2>1. stack \in Seq(AnyFrame) /\ 1 \in 1 .. Len(stack)
    BY <1>2, EmptySeq DEF Inductive, Typed
  <2>2. stack[1] \in AnyFrame
    BY <2>1, ElementOfSeq
  <2>3. QED
    BY <1>3, <2>2 DEF AnyFrame
<1>5. Served(stack, root) /\ Simple(root)
  BY <1>1, <1>2, <1>3 DEF SimpleServed
<1>6. Tree(root, MetBelow(root))
  BY <1>4, <1>5, SimpleIs DEF Inductive, Typed
<1>7. ~Circular
  BY <1>2, <1>5, <1>6, NextIsNew
<1>8. ~TooDeep /\ Found(ProjectOf(Top, Ref), Ref)
  BY <1>2, <1>4, <1>5, NextIsFound
<1>9. QED
  BY <1>7, <1>8 DEF RefuseCircular, RefuseDepth, RefuseMissing

\* A refused simple reference would be one of a simple root.
LEMMA RefusalServes ==
    ASSUME IsFiniteSet(Prompts), Depth \in Nat, Inductive, NULL \notin Projects, SimpleServed,
           RefuseCircular \/ RefuseDepth \/ RefuseMissing
    PROVE  SimpleServed' /\ SimpleIsServed'
<1>1. /\ stack' = <<>> /\ catalog' = catalog /\ failed' = failed
      /\ outcome'.asked = Head(stack).ref
      /\ stack # <<>>
  BY DEF RefuseCircular, RefuseDepth, RefuseMissing, Refuse, Answer, Searching
<1>2. Head(stack) = stack[1]
  BY <1>1, HeadTailProperties DEF Inductive, Typed
<1>3. ASSUME failed' = {}, Simple(outcome.asked)' PROVE FALSE
  <2>1. Simple(stack[1].ref)
    BY <1>1, <1>2, <1>3, SameTrees
  <2>2. QED
    BY <1>1, <1>3, <2>1, NothingRefused
<1>4. QED
  BY <1>1, <1>3 DEF SimpleServed, SimpleIsServed

\* A simple reference that is asked for in its project is found.
LEMMA SimpleIsFound ==
    ASSUME IsFiniteSet(Prompts), Depth \in Nat, catalog \in [Prompts -> Versions], NULL \notin Projects,
           NEW r \in Reference, r.project \in Projects, Simple(r)
    PROVE  Found(r.project, r)
<1>1. Tree(r, MetBelow(r)) /\ \A x \in MetBelow(r) : Easy(x, r)
  BY SimpleIs
<1>2. Easy(r, r)
  BY <1>1 DEF Tree
<1>3. QED
  BY <1>2 DEF Easy, Found

\* The first call ends with all of what was asked for.
LEMMA FinishServes ==
    ASSUME IsFiniteSet(Prompts), Depth \in Nat, Inductive, StackSound, SimpleServed, Finish
    PROVE  SimpleServed' /\ SimpleIsServed'
<1>1. stack \in Seq(AnyFrame) /\ Len(stack) = 1 /\ stack # <<>> /\ 1 \in 1 .. Len(stack)
  <2>1. Len(<<>>) = 0
    OBVIOUS
  <2>2. stack \in Seq(AnyFrame) /\ Len(stack) = 1
    BY DEF Inductive, Typed, Finish
  <2>3. QED
    BY <2>1, <2>2
<1>2. Top = stack[1] /\ Top \in AnyFrame
  BY <1>1, ElementOfSeq DEF Top, Last
<1>3. /\ outcome' = Answer("ok", Top.ref, Top.text, Top.errors) /\ catalog' = catalog
      /\ stack' = <<>> /\ failed' = failed /\ Pending(Top) = {}
  BY DEF Finish
<1>4. outcome'.status = "ok" /\ outcome'.asked = Top.ref /\ outcome'.text = Top.text
  BY <1>3 DEF Answer
<1>5. PICK root \in Reference : root = Top.ref /\ root = stack[1].ref
  BY <1>2 DEF AnyFrame
<1>6. ASSUME failed' = {}, Simple(outcome.asked)'
      PROVE  (outcome.text = Expansion[Depth][outcome.asked])'
  <2>1. Simple(root)
    BY <1>3, <1>4, <1>5, <1>6, SameTrees
  <2>2. Served(stack, root)
    BY <1>1, <1>3, <1>5, <1>6, <2>1 DEF SimpleServed
  <2>3. Top.text = Expansion[Depth][Top.ref]
    BY <1>1, <1>3, <2>1, <2>2, DoneIsExpanded
  <2>4. QED
    BY <1>3, <1>4, <2>3, SameCatalog
<1>7. QED
  BY <1>3, <1>4, <1>6 DEF SimpleServed, SimpleIsServed

\* While the catalog is not edited and the database answers, a prompt is served, and
\* with all its references replaced, if it and what it names, directly or through
\* others, are in one project, name each prompt once, lie within the depth, and have texts
\* without replacement patterns, not narrower than the references to them: no call meets a prompt it has seen, none passes
\* over a reference, each returns without any.
THEOREM SimplePromptsAreServed ==
    ASSUME ~Editable, IsFiniteSet(Prompts), NULL \notin Projects
    PROVE  Spec => []SimpleIsServed
<1>1. Depth \in Nat
  BY FS_CardinalityType DEF Depth
<1>2. Init => SimpleServed /\ SimpleIsServed
  BY DEF Init, SimpleServed, SimpleIsServed
<1>3. Inductive /\ StackSound /\ SimpleServed /\ SimpleIsServed /\ [Next]_vars => (SimpleServed /\ SimpleIsServed)'
  <2>1. SUFFICES ASSUME Inductive, StackSound, SimpleServed, SimpleIsServed, [Next]_vars
                 PROVE  SimpleServed' /\ SimpleIsServed'
    OBVIOUS
  <2>2. ASSUME NEW project \in Projects, NEW p \in Prompts, NEW tag \in Tags \cup {NULL},
               NEW r, r = [project |-> project, prompt |-> p, tag |-> tag, language |-> NULL],
               Request(r) \/ RequestRaw(r) \/ RequestRefused(r)
        PROVE  SimpleServed' /\ SimpleIsServed'
    <3>1. r \in Reference /\ r.project \in Projects
      BY <2>2 DEF Reference
    <3>2. CASE Request(r)
      <4>1. Simple(r) => \E s : s = stack' /\ Served(s, r)
        BY <1>1, <2>1, <3>1, <3>2, RequestServes
      <4>2. stack'[1].ref = r /\ catalog' = catalog /\ outcome' = NULL
        BY <3>2 DEF Request
      <4>3. QED
        BY <4>1, <4>2, ServesOn DEF SimpleIsServed
    <3>3. CASE RequestRaw(r)
      BY <3>3 DEF RequestRaw, Answer, SimpleServed, SimpleIsServed
    <3>4. CASE RequestRefused(r)
      <4>1. stack' = <<>> /\ catalog' = catalog /\ outcome'.asked = r
        BY <3>4 DEF RequestRefused, Answer
      <4>2. CASE ~Found(r.project, r)
        <5>1. ~Simple(r)
          BY <1>1, <2>1, <3>1, <4>2, SimpleIsFound DEF Inductive, Typed
        <5>2. ~Simple(outcome.asked)'
          BY <4>1, <5>1, SameTrees
        <5>3. QED
          BY <4>1, <5>2 DEF SimpleServed, SimpleIsServed
      <4>3. CASE outcome' = Answer("error", r, <<>>, {})
        BY <4>1, <4>3 DEF Answer, SimpleServed, SimpleIsServed
      <4>4. QED
        BY <3>4, <4>2, <4>3 DEF RequestRefused
    <3>5. QED
      BY <2>2, <3>2, <3>3, <3>4
  <2>3. CASE RefuseCircular \/ RefuseDepth \/ RefuseMissing
    BY <1>1, <2>1, <2>3, RefusalServes
  <2>4. ASSUME catalog' = catalog, outcome' = outcome, failed' = failed
        PROVE  SimpleIsServed'
    <3>1. ASSUME Simple(outcome.asked)' PROVE Simple(outcome.asked)
      BY <2>4, <3>1, SameTrees
    <3>2. Expansion' = Expansion
      BY <2>4, SameCatalog
    <3>3. QED
      BY <2>1, <2>4, <3>1, <3>2 DEF SimpleIsServed
  <2>5. CASE Enter \/ Return
    <3>1. PICK root : root = stack[1].ref
      OBVIOUS
    <3>2. stack # <<>> /\ stack'[1].ref = root /\ catalog' = catalog /\ outcome' = outcome /\ failed' = failed
      BY <2>1, <2>5, <3>1, RootStays DEF Enter, Return
    <3>3. root \in Reference
      <4>1. stack \in Seq(AnyFrame) /\ 1 \in 1 .. Len(stack)
        BY <2>1, <3>2, EmptySeq DEF Inductive, Typed
      <4>2. stack[1] \in AnyFrame
        BY <4>1, ElementOfSeq
      <4>3. QED
        BY <3>1, <4>2 DEF AnyFrame
    <3>4. CASE failed = {}
      <4>1. ASSUME Simple(root) PROVE \E s : s = stack' /\ Served(s, root)
        <5>1. Served(stack, root)
          BY <2>1, <3>1, <3>2, <3>4, <4>1 DEF SimpleServed
        <5>2. QED
          BY <1>1, <2>1, <2>5, <3>3, <4>1, <5>1, EnterServes, ReturnServes
      <4>2. SimpleServed'
        BY <3>2, <4>1, ServesOn
      <4>3. QED
        BY <2>4, <3>2, <4>2
    <3>5. CASE failed # {}
      BY <2>4, <3>2, <3>5 DEF SimpleServed
    <3>6. QED
      BY <3>4, <3>5
  <2>6. CASE NestedCallFails
    <3>1. failed' # {}
      BY <2>6 DEF NestedCallFails
    <3>2. QED
      BY <3>1 DEF SimpleServed, SimpleIsServed
  <2>7. CASE Finish
    BY <1>1, <2>1, <2>7, FinishServes
  <2>8. CASE Edit
    BY <2>8 DEF Edit
  <2>9. CASE UNCHANGED vars
    <3>1. stack' = stack /\ catalog' = catalog /\ outcome' = outcome /\ failed' = failed
      BY <2>9 DEF vars
    <3>2. PICK s, root : s = stack /\ root = stack[1].ref
      OBVIOUS
    <3>3. ASSUME s # <<>>, failed = {}, Simple(root)' PROVE Served(s, root)'
      BY <2>1, <3>1, <3>2, <3>3, SameTrees DEF SimpleServed
    <3>4. SimpleServed'
      BY <3>1, <3>2, <3>3 DEF SimpleServed
    <3>5. QED
      BY <2>4, <3>1, <3>4
  <2>10. QED
    BY <2>1, <2>2, <2>3, <2>5, <2>6, <2>7, <2>8, <2>9 DEF Next
<1>4. QED
  BY <1>2, <1>3, InductiveHolds, SoundnessHolds, PTL DEF Spec

-------------------------------------------------------------------------------
(***************************************************************************)
(* AssetResolution.                                                        *)
(***************************************************************************)
AssetAssumptions ==
    /\ Inputs \subseteq Input
    /\ Words \cap Placeholder = {}
    /\ None \notin Content

Tokens == Words \cup Placeholder

HasValue(token) ==
    IF token.kind = "asset" THEN Resolvable(token) ELSE Provided(token)

ValueFor(token) ==
    IF token.kind = "asset" THEN ValueOf(token) ELSE input.variables[token.name]

\* What is inserted for it, where no value brings a part of the text along.
Supplied(token) ==
    IF token.kind = "plain" THEN ValueFor(token) ELSE Unescaped(ValueFor(token))

Sought == IF pass = "plain" THEN Current ELSE Plainly(Current)

AssetTyped ==
    /\ input \in Input
    /\ pass \in {"asset", "variable", "plain", "done"}
    /\ source \in Content
    /\ text \in Content
    /\ at \in Nat \ {0}
    /\ pass \in {"asset", "variable"} => source = input.text

Walk ==
    /\ Unfinished
    /\ at' = at + 1
    /\ UNCHANGED <<input, pass, source>>
    /\ IF IsA(pass, Current) /\ HasValue(Current)
       THEN \/ text' = ReplaceVerbatim(text, Sought, Supplied(Current))
            \/ pass # "plain" /\ Again /\ text' = text
       ELSE text' = text
    /\ unresolved' = IF IsA(pass, Current) /\ pass # "asset" /\ ~HasValue(Current)
                     THEN unresolved \cup {Current.name} ELSE unresolved

\* What a placeholder is made of, and that trimming it changes nothing else.
LEMMA AnAsset ==
    ASSUME NEW token \in Placeholder
    PROVE  /\ token.kind \in {"asset", "variable", "plain"}
           /\ token.name \in Names
           /\ Plainly(token) \in Placeholder
           /\ Plainly(token).kind = token.kind
           /\ Plainly(token).name = token.name
           /\ Plainly(token).tag = token.tag
           /\ ~Plainly(token).padded
           /\ ~token.padded => Plainly(token) = token
BY DEF Placeholder, Plainly

\* What a call is made of.
LEMMA InputParts ==
    ASSUME input \in Input, NEW n \in Names
    PROVE  /\ input.text \in Content
           /\ input.assets[n] \in Seq(Version)
           /\ input.variables[n] \in Content \cup {None}
           /\ input.language \in AssetLanguages \cup {None}
BY DEF Input

\* The version that is chosen is one.
LEMMA ChosenIsVersion ==
    ASSUME input \in Input, NEW token \in Placeholder, input.assets[token.name] # <<>>
    PROVE  Chosen(token) \in DOMAIN input.assets[token.name]
<1> DEFINE versions == input.assets[token.name]
<1>1. versions \in Seq(Version)
  BY AnAsset, InputParts
<1> HIDE DEF versions
<1>2. DOMAIN versions = 1 .. Len(versions) /\ Len(versions) \in Nat
  BY <1>1, LenProperties
<1>3. DOMAIN versions # {} /\ DOMAIN versions \subseteq Nat
  <2>1. versions # <<>>
    BY DEF versions
  <2>2. Len(versions) \in Nat \ {0}
    BY <1>1, <2>1, EmptySeq
  <2>3. QED
    BY <1>2, <2>2
<1> DEFINE tagged == {i \in DOMAIN versions : versions[i].tag = token.tag}
           active == {i \in DOMAIN versions : versions[i].active}
           S == IF tagged # {} THEN tagged ELSE IF active # {} THEN active ELSE DOMAIN versions
<1>4. S # {} /\ S \subseteq DOMAIN versions
  BY <1>3
<1>5. Chosen(token) = Min(S)
  BY DEF Chosen, versions
<1>6. Min(S) = Min(S)
  BY DEF Min, Min
<1> HIDE DEF S
<1>7. Min(S) \in S
  BY <1>3, <1>4, MinIsElement
<1>8. QED
  BY <1>4, <1>5, <1>6, <1>7 DEF versions

\* A value is a text, and one of the call's.
LEMMA ValueIsText ==
    ASSUME AssetAssumptions, input \in Input, NEW token \in Placeholder, HasValue(token)
    PROVE  /\ ValueFor(token) \in Content
           /\ ValueFor(token) \in Values \ {None}
           /\ token.kind # "asset" => ValueFor(token) \in Range(input.variables)
<1>0. token.name \in Names /\ None \notin Content
  BY AnAsset DEF AssetAssumptions
<1>1. CASE token.kind = "asset"
  <2> DEFINE versions == input.assets[token.name]
  <2>1. versions \in Seq(Version) /\ versions # <<>>
    BY <1>0, <1>1, InputParts DEF HasValue, Resolvable
  <2>2. Chosen(token) \in DOMAIN versions
    BY <2>1, ChosenIsVersion
  <2> DEFINE version == versions[Chosen(token)]
  <2>3. version \in Version
    <3>1. DOMAIN versions = 1 .. Len(versions)
      BY <2>1, LenProperties
    <3>2. QED
      BY <2>1, <2>2, <3>1, ElementOfSeq
  <2>4. version \in UNION {Range(input.assets[n]) : n \in Names}
    <3>1. version \in Range(versions)
      BY <2>2 DEF Range
    <3>2. QED
      BY <3>1, <1>0
  <2>5. ValueOf(token)
          = IF input.language # None /\ version.translations[input.language] # None
            THEN version.translations[input.language] ELSE version.value
    BY DEF ValueOf
  <2> HIDE DEF version
  <2>6. /\ version.value \in Content
        /\ version.translations \in [AssetLanguages -> Content \cup {None}]
    BY <2>3 DEF Version
  <2>7. input.language \in AssetLanguages \cup {None}
    BY <1>0, InputParts
  <2>8. {version.value} \cup Range(version.translations) \subseteq Values
    BY <2>4 DEF Values
  <2>9. CASE input.language # None /\ version.translations[input.language] # None
    <3>1. version.translations[input.language] \in Range(version.translations)
      BY <2>6, <2>7, <2>9 DEF Range
    <3>2. version.translations[input.language] \in Content
      BY <2>6, <2>7, <2>9
    <3>3. QED
      BY <2>5, <2>8, <2>9, <3>1, <3>2, <1>0, <1>1 DEF ValueFor
  <2>10. CASE ~(input.language # None /\ version.translations[input.language] # None)
    BY <2>5, <2>6, <2>8, <2>10, <1>0, <1>1 DEF ValueFor
  <2>11. QED
    BY <2>9, <2>10
<1>2. CASE token.kind # "asset"
  <2>1. input.variables[token.name] \in Content /\ input.variables[token.name] # None
    BY <1>0, <1>2, InputParts DEF HasValue, Provided
  <2>2. input.variables \in [Names -> Content \cup {None}]
    BY DEF Input
  <2>3. input.variables[token.name] \in Range(input.variables)
    BY <1>0, <2>2 DEF Range
  <2>4. Range(input.variables) \subseteq Values
    <3> DEFINE others == UNION {{v.value} \cup Range(v.translations) :
                                  v \in UNION {Range(input.assets[n]) : n \in Names}}
    <3>1. Values = Range(input.variables) \cup others
      BY DEF Values
    <3> HIDE DEF others
    <3>2. QED
      BY <3>1
  <2>5. ValueFor(token) = input.variables[token.name]
    BY <1>2 DEF ValueFor
  <2>6. QED
    BY <2>1, <2>3, <2>4, <2>5
<1>3. QED
  BY <1>1, <1>2

\* A padded placeholder means what it means without the blanks.
LEMMA PlainlyMeansTheSame ==
    ASSUME NEW token \in Placeholder
    PROVE  /\ HasValue(Plainly(token)) <=> HasValue(token)
           /\ ValueFor(Plainly(token)) = ValueFor(token)
<1>1. PICK plain : plain = Plainly(token)
  OBVIOUS
<1>2. plain.name = token.name /\ plain.kind = token.kind /\ plain.tag = token.tag
  BY <1>1, AnAsset
<1>3. Chosen(plain) = Chosen(token)
  BY <1>2 DEF Chosen
<1>4. ValueOf(plain) = ValueOf(token)
  BY <1>2, <1>3 DEF ValueOf
<1>5. HasValue(plain) <=> HasValue(token)
  BY <1>2 DEF HasValue, Resolvable, Provided
<1>6. ValueFor(plain) = ValueFor(token)
  BY <1>2, <1>4 DEF ValueFor
<1>7. QED
  BY <1>1, <1>5, <1>6

\* A text of the instance is one of tokens.
LEMMA TextIsOfTokens == Content = Seq(Tokens)
  BY DEF Content, Tokens

\* One replacement.
Replacing(token, r) == [x \in Tokens |-> IF x = token THEN r ELSE <<x>>]

\* The function is one from tokens to texts.
LEMMA ReplacingIsFunction ==
    ASSUME NEW token, NEW r \in Seq(Tokens)
    PROVE  Replacing(token, r) \in [Tokens -> Seq(Tokens)]
<1>1. ASSUME NEW x \in Tokens PROVE (IF x = token THEN r ELSE <<x>>) \in Seq(Tokens)
  OBVIOUS
<1>2. QED
  BY <1>1 DEF Replacing

\* The global replacement of one token is a spreading.
LEMMA ReplaceIsSpread ==
    ASSUME NEW s \in Seq(Tokens), NEW token, NEW r
    PROVE  ReplaceVerbatim(s, token, r) = Spread(s, Replacing(token, r))
<1>1. \A i \in DOMAIN s : s[i] \in Tokens
  OBVIOUS
<1>2. \A x \in Tokens : Replacing(token, r)[x] = IF x = token THEN r ELSE <<x>>
  BY DEF Replacing
<1>3. [i \in DOMAIN s |-> Replacing(token, r)[s[i]]]
        = [i \in DOMAIN s |-> IF s[i] = token THEN r ELSE <<s[i]>>]
  BY <1>1, <1>2
<1>4. QED
  BY <1>3 DEF Spread, ReplaceVerbatim

\* Of a text it makes a text.
LEMMA ReplaceIsText ==
    ASSUME NEW s \in Seq(Tokens), NEW token, NEW r \in Seq(Tokens)
    PROVE  ReplaceVerbatim(s, token, r) \in Seq(Tokens)
BY ReplaceIsSpread, ReplacingIsFunction, SpreadIsText

\* It takes every occurrence of the token away, and brings the replacement's.
LEMMA ReplaceRange ==
    ASSUME NEW s \in Seq(Tokens), NEW token, NEW r \in Seq(Tokens), NEW y
    PROVE  y \in Range(ReplaceVerbatim(s, token, r)) <=>
              \/ y \in Range(s) /\ y # token
              \/ token \in Range(s) /\ y \in Range(r)
<1>1. PICK m \in [Tokens -> Seq(Tokens)] : m = Replacing(token, r)
  BY ReplacingIsFunction
<1>2. y \in Range(ReplaceVerbatim(s, token, r)) <=> \E x \in Range(s) : y \in Range(m[x])
  <2>1. PICK u : u = Spread(s, m)
    OBVIOUS
  <2>2. ReplaceVerbatim(s, token, r) = u
    BY <1>1, <2>1, ReplaceIsSpread
  <2>3. y \in Range(u) <=> \E x \in Range(s) : y \in Range(m[x])
    BY <2>1, SpreadRange
  <2>4. QED
    BY <2>2, <2>3
<1>3. Range(s) \subseteq Tokens
  BY RangeOfSeq
<1>4. ASSUME NEW x \in Range(s) PROVE y \in Range(m[x]) <=> IF x = token THEN y \in Range(r) ELSE y = x
  <2>1. m[x] = IF x = token THEN r ELSE <<x>>
    BY <1>1, <1>3 DEF Replacing
  <2>2. Range(<<x>>) = {x}
    BY DEF Range
  <2>3. QED
    BY <2>1, <2>2
<1>5. QED
  BY <1>2, <1>4

Met(token) == \E j \in DOMAIN source :
    /\ j < at
    /\ IsA(pass, source[j])
    /\ source[j] = token \/ (pass # "plain" /\ Plainly(source[j]) = token)

Handled(token) ==
    \/ token.kind = "asset" /\ pass # "asset"
    \/ token.kind = "variable" /\ pass \in {"plain", "done"}
    \/ pass = "done"
    \/ pass = token.kind /\ Met(token)

Replaceable(token) ==
    /\ token \in Placeholder
    /\ HasValue(token)
    /\ token.padded => token.kind = "plain"
    /\ \A value \in Values \ {None} : token \notin Range(value)

Gone ==
    \A token \in Range(input.text) : Replaceable(token) /\ Handled(token) => token \notin Range(text)

Brought ==
    pass \in {"plain", "done"} => \A y \in Range(text) :
        \/ y \in Range(source)
        \/ \E value \in Range(input.variables) \ {None} : y \in Range(value)

Reported ==
    \A j \in DOMAIN source :
        /\ (pass = "plain" /\ j < at) \/ pass = "done"
        /\ IsA("plain", source[j])
        /\ ~Provided(source[j])
        => source[j].name \in unresolved

\* A match is a placeholder of the text that is being searched.
LEMMA MatchIsToken ==
    ASSUME AssetAssumptions, AssetTyped, Unfinished
    PROVE  /\ at \in DOMAIN source
           /\ Current \in Tokens
           /\ pass \in {"asset", "variable", "plain"}
           /\ IsA(pass, Current) => Current \in Placeholder /\ Current.kind = pass
<1>1. source \in Seq(Tokens)
  BY TextIsOfTokens DEF AssetTyped
<1>2. PICK n \in Nat : n = Len(source) /\ DOMAIN source = 1 .. n
  BY <1>1, LenProperties
<1>3. at \in 1 .. n
  BY <1>2 DEF AssetTyped, Unfinished
<1>4. source[at] \in Tokens
  BY <1>1, <1>2, <1>3, ElementOfSeq
<1>5. QED
  BY <1>2, <1>3, <1>4 DEF Current, IsA, Tokens, AssetTyped, Unfinished

\* A step handles the match, in the first two passes also without its blanks.
LEMMA HandledNext ==
    ASSUME AssetAssumptions, AssetTyped, Walk, NEW token
    PROVE  Handled(token)' <=>
              \/ Handled(token)
              \/ /\ pass = token.kind
                 /\ IsA(pass, Current)
                 /\ Current = token \/ (pass # "plain" /\ Plainly(Current) = token)
<1>1. at \in DOMAIN source /\ pass # "done" /\ at \in Nat /\ DOMAIN source \subseteq Nat
  <2>1. source \in Seq(Tokens)
    BY TextIsOfTokens DEF AssetTyped
  <2>2. DOMAIN source \subseteq Nat
    BY <2>1, LenProperties
  <2>3. QED
    BY <2>2, MatchIsToken DEF Walk, Unfinished, AssetTyped
<1>2. at' = at + 1 /\ pass' = pass /\ source' = source
  BY DEF Walk
<1>3. Met(token)' <=> Met(token) \/ (/\ IsA(pass, Current)
                                     /\ Current = token \/ (pass # "plain" /\ Plainly(Current) = token))
  <2>1. \A j \in DOMAIN source : j < at + 1 <=> j < at \/ j = at
    BY <1>1
  <2>2. QED
    BY <1>1, <1>2, <2>1 DEF Met, Current, IsA, Plainly
<1>4. QED
  BY <1>2, <1>3 DEF Handled

\* A pass that has come to the end has met every placeholder of its kind.
LEMMA AllMet ==
    ASSUME AssetAssumptions, AssetTyped, at > Len(source), NEW token \in Range(source), IsA(pass, token)
    PROVE  Met(token)
<1>1. source \in Seq(Tokens)
  BY TextIsOfTokens DEF AssetTyped
<1>2. PICK n \in Nat : n = Len(source) /\ DOMAIN source = 1 .. n
  BY <1>1, LenProperties
<1>3. PICK j \in DOMAIN source : source[j] = token
  BY DEF Range
<1>4. j < at
  BY <1>2, <1>3 DEF AssetTyped
<1>5. QED
  BY <1>3, <1>4 DEF Met

\* The value of a match is a text of the call's, in the later passes of a variable.
LEMMA ValueOfMatch ==
    ASSUME AssetAssumptions, AssetTyped, Unfinished,
           IsA(pass, Current), HasValue(Current)
    PROVE  /\ ValueFor(Current) \in Values \ {None}
           /\ pass # "asset" => ValueFor(Current) \in Range(input.variables) \ {None}
           /\ Supplied(Current) \in Seq(Tokens)
           /\ Range(Supplied(Current)) \subseteq Range(ValueFor(Current))
<1>1. /\ ValueFor(Current) \in Seq(Tokens)
      /\ ValueFor(Current) \in Values \ {None}
      /\ pass # "asset" => ValueFor(Current) \in Range(input.variables) \ {None}
  BY MatchIsToken, ValueIsText, TextIsOfTokens DEF AssetTyped
<1>2. QED
  BY <1>1, UnescapedIsText DEF Supplied

\* A value that brings nothing of the text along is inserted everywhere alike.
LEMMA ReplacingSelfContained ==
    ASSUME NEW s, NEW token, NEW value, SelfContained(value)
    PROVE  Replace(s, token, value) = ReplaceVerbatim(s, token, Unescaped(value))
<1>1. ASSUME NEW i \in DOMAIN s PROVE Inserted(s, i, value) = Unescaped(value)
  BY ReadingOfSelfContained DEF Inserted
<1>2. [i \in DOMAIN s |-> IF s[i] = token THEN Inserted(s, i, value) ELSE <<s[i]>>]
        = [i \in DOMAIN s |-> IF s[i] = token THEN Unescaped(value) ELSE <<s[i]>>]
  BY <1>1
<1>3. QED
  BY <1>2 DEF Replace, ReplaceVerbatim

\* Every action but the one between passes is a step of a walk.
LEMMA Walks ==
    ASSUME AssetAssumptions, AssetTyped, SelfContainedValues,
           PassOver \/ SkipAsset \/ ReplaceAsset \/ ReplaceVariable
             \/ ReplacePlain \/ Report
    PROVE  Walk
<1>1. CASE PassOver
  BY <1>1 DEF PassOver, Walk
<1>2. CASE SkipAsset
  BY <1>2 DEF SkipAsset, Walk, Reached, HasValue, IsA
<1>3. CASE ReplaceAsset
  <2>1. Unfinished /\ pass = "asset" /\ IsA(pass, Current) /\ Current.kind = "asset" /\ HasValue(Current)
    BY <1>3 DEF ReplaceAsset, Reached, HasValue, IsA
  <2>2. ValueFor(Current) = ValueOf(Current) /\ SelfContained(ValueFor(Current))
    BY <2>1, ValueOfMatch DEF ValueFor, SelfContainedValues
  <2>3. Replace(text, Plainly(Current), ValueOf(Current)) = ReplaceVerbatim(text, Sought, Supplied(Current))
    BY <2>1, <2>2, ReplacingSelfContained DEF Sought, Supplied
  <2>4. QED
    BY <1>3, <2>1, <2>3 DEF ReplaceAsset, Walk
<1>4. CASE ReplaceVariable
  <2>1. Unfinished /\ pass = "variable" /\ IsA(pass, Current) /\ Current.kind = "variable" /\ HasValue(Current)
    BY <1>4 DEF ReplaceVariable, Reached, HasValue, IsA
  <2>2. ValueFor(Current) = input.variables[Current.name] /\ SelfContained(ValueFor(Current))
    BY <2>1, ValueOfMatch DEF ValueFor, SelfContainedValues
  <2>3. Replace(text, Plainly(Current), input.variables[Current.name])
          = ReplaceVerbatim(text, Sought, Supplied(Current))
    BY <2>1, <2>2, ReplacingSelfContained DEF Sought, Supplied
  <2>4. QED
    BY <1>4, <2>1, <2>3 DEF ReplaceVariable, Walk
<1>5. CASE ReplacePlain
  BY <1>5 DEF ReplacePlain, Walk, Reached, HasValue, ValueFor, Supplied, Sought, IsA
<1>6. CASE Report
  BY <1>6 DEF Report, Walk, Reached, HasValue, IsA
<1>7. QED
  BY <1>1, <1>2, <1>3, <1>4, <1>5, <1>6

\* The type is kept by each step.
LEMMA AssetTypedNext ==
    ASSUME AssetAssumptions, AssetTyped, SelfContainedValues, [ResolutionNext]_resolution
    PROVE  AssetTyped'
<1>1. CASE Walk
  <2>1. input' = input /\ pass' = pass /\ source' = source /\ at' = at + 1
    BY <1>1 DEF Walk
  <2>2. text \in Seq(Tokens)
    BY TextIsOfTokens DEF AssetTyped
  <2>3. text' \in Seq(Tokens)
    <3>1. CASE text' = text
      BY <3>1, <2>2
    <3>2. CASE text' # text
      <4>1. /\ IsA(pass, Current) /\ HasValue(Current)
            /\ text' = ReplaceVerbatim(text, Sought, Supplied(Current))
        BY <1>1, <3>2 DEF Walk
      <4>2. Supplied(Current) \in Seq(Tokens)
        BY <1>1, <4>1, ValueOfMatch DEF Walk
      <4>3. QED
        BY <2>2, <4>1, <4>2, ReplaceIsText
    <3>3. QED
      BY <3>1, <3>2
  <2>4. text' \in Content
    BY <2>3, TextIsOfTokens
  <2>5. QED
    BY <2>1, <2>4 DEF AssetTyped
<1>2. CASE NextPass
  BY <1>2 DEF NextPass, AssetTyped
<1>3. CASE UNCHANGED resolution
  BY <1>3 DEF resolution, AssetTyped
<1>4. QED
  BY <1>1, <1>2, <1>3, Walks DEF ResolutionNext

\* What depends on the call only does not change.
LEMMA SameInput ==
    ASSUME input' = input, NEW token
    PROVE  /\ HasValue(token)' <=> HasValue(token)
           /\ ValueFor(token)' = ValueFor(token)
           /\ Values' = Values
           /\ SelfContainedValues' <=> SelfContainedValues
           /\ Replaceable(token)' <=> Replaceable(token)
<1>1. HasValue(token)' <=> HasValue(token)
  BY DEF HasValue, Resolvable, Provided
<1>2. ValueFor(token)' = ValueFor(token)
  BY DEF ValueFor, ValueOf, Chosen
<1>3. Values' = Values
  BY DEF Values
<1>4. SelfContainedValues' <=> SelfContainedValues
  BY <1>3 DEF SelfContainedValues
<1>5. QED
  BY <1>1, <1>2, <1>3, <1>4 DEF Replaceable

\* What was replaced stays away.
LEMMA GoneNext ==
    ASSUME AssetAssumptions, AssetTyped, SelfContainedValues, Gone, Brought, [ResolutionNext]_resolution
    PROVE  Gone'
<1>1. CASE Walk
  <2>0. Unfinished /\ input' = input
    BY <1>1 DEF Walk
  <2>1. SUFFICES ASSUME NEW token \in Range(input.text), Replaceable(token), Handled(token)'
                 PROVE  token \notin Range(text')
    BY <2>0, SameInput DEF Gone
  <2>2. text \in Seq(Tokens)
    BY TextIsOfTokens DEF AssetTyped
  <2>3. token \in Placeholder /\ \A value \in Values \ {None} : token \notin Range(value)
    BY <2>1 DEF Replaceable
  <2>4. ASSUME IsA(pass, Current), HasValue(Current),
               text' = ReplaceVerbatim(text, Sought, Supplied(Current)),
               token \notin Range(text) \/ token = Sought
        PROVE  token \notin Range(text')
    <3>1. PICK r \in Seq(Tokens) : r = Supplied(Current)
      BY <2>0, <2>4, ValueOfMatch
    <3>2. token \notin Range(r)
      BY <2>0, <2>3, <2>4, <3>1, ValueOfMatch
    <3>3. token \in Range(ReplaceVerbatim(text, Sought, r)) <=>
              \/ token \in Range(text) /\ token # Sought
              \/ Sought \in Range(text) /\ token \in Range(r)
      BY <2>2, ReplaceRange
    <3>4. QED
      BY <2>4, <3>1, <3>2, <3>3
  <2>5. CASE Handled(token)
    <3>1. token \notin Range(text)
      BY <2>1, <2>5 DEF Gone
    <3>2. CASE text' = text
      BY <3>1, <3>2
    <3>3. CASE text' # text
      BY <1>1, <2>4, <3>1, <3>3 DEF Walk
    <3>4. QED
      BY <3>2, <3>3
  <2>6. CASE ~Handled(token)
    <3>1. /\ pass = token.kind
          /\ IsA(pass, Current)
          /\ Current = token \/ (pass # "plain" /\ Plainly(Current) = token)
      BY <1>1, <2>1, <2>6, HandledNext
    <3>2. Current \in Placeholder
      BY <2>0, <3>1, MatchIsToken
    <3>3. HasValue(Current)
      BY <2>1, <3>1, <3>2, PlainlyMeansTheSame DEF Replaceable
    <3>4. Sought = token
      BY <2>1, <3>1, <3>2, AnAsset DEF Sought, Replaceable
    <3>5. ~(pass # "plain" /\ Again)
      <4>1. SUFFICES ASSUME pass # "plain", Again PROVE FALSE
        OBVIOUS
      <4>2. PICK i \in 1 .. (at - 1) : IsA(pass, source[i]) /\ Plainly(source[i]) = Plainly(Current)
        BY <4>1 DEF Again
      <4>3. Plainly(Current) = token
        BY <3>4, <4>1 DEF Sought
      <4>4. i \in DOMAIN source /\ i < at
        <5>1. source \in Seq(Tokens)
          BY TextIsOfTokens DEF AssetTyped
        <5>2. PICK n \in Nat : n = Len(source) /\ DOMAIN source = 1 .. n
          BY <5>1, LenProperties
        <5>3. QED
          BY <2>0, <5>2 DEF AssetTyped, Unfinished
      <4>5. Met(token)
        BY <4>1, <4>2, <4>3, <4>4 DEF Met
      <4>6. QED
        BY <2>6, <3>1, <4>5 DEF Handled
    <3>6. text' = ReplaceVerbatim(text, Sought, Supplied(Current))
      BY <1>1, <3>1, <3>3, <3>5 DEF Walk
    <3>7. QED
      BY <2>4, <3>1, <3>3, <3>4, <3>6
  <2>7. QED
    BY <2>5, <2>6
<1>2. CASE NextPass
  <2>1. /\ input' = input /\ text' = text /\ at' = 1 /\ pass # "done" /\ at > Len(source)
        /\ pass' = CASE pass = "asset" -> "variable" [] pass = "variable" -> "plain" [] pass = "plain" -> "done"
    BY <1>2 DEF NextPass
  <2>2. SUFFICES ASSUME NEW token \in Range(input.text), Replaceable(token), Handled(token)', ~Handled(token),
                        token \in Range(text)
                 PROVE  FALSE
    BY <2>1, SameInput DEF Gone
  <2>3. token \in Placeholder /\ token.kind \in {"asset", "variable", "plain"} /\ token \notin Words
    BY <2>2, AnAsset DEF Replaceable, AssetAssumptions
  <2>4. ~Met(token)'
    <3>1. \A j \in DOMAIN source' : j \in Nat /\ j # 0
      <4>1. source' \in Seq(Tokens)
        BY <1>2, TextIsOfTokens DEF AssetTyped, NextPass
      <4>2. QED
        BY <4>1, LenProperties
    <3>2. \A j \in DOMAIN source' : ~(j < 1)
      BY <3>1
    <3>3. QED
      BY <2>1, <3>2 DEF Met
  <2>5. pass = token.kind
    BY <2>1, <2>2, <2>3, <2>4 DEF Handled, AssetTyped
  <2>6. token \in Range(source)
    <3>1. CASE pass = "plain"
      <4>1. \/ token \in Range(source)
            \/ \E value \in Range(input.variables) \ {None} : token \in Range(value)
        BY <2>2, <3>1 DEF Brought
      <4>2. Range(input.variables) \subseteq Values
        BY DEF Values
      <4>3. QED
        BY <2>2, <4>1, <4>2 DEF Replaceable
    <3>2. CASE pass # "plain"
      BY <2>1, <2>2, <3>2 DEF AssetTyped
    <3>3. QED
      BY <3>1, <3>2
  <2>7. Met(token)
    BY <2>1, <2>3, <2>5, <2>6, AllMet DEF IsA
  <2>8. QED
    BY <2>2, <2>5, <2>7 DEF Handled
<1>3. CASE UNCHANGED resolution
  <2>1. /\ input' = input /\ pass' = pass /\ source' = source /\ at' = at /\ text' = text
    BY <1>3 DEF resolution
  <2>2. ASSUME NEW token PROVE Handled(token)' <=> Handled(token)
    BY <2>1 DEF Handled, Met, IsA, Plainly
  <2>3. QED
    BY <2>1, <2>2, SameInput DEF Gone
<1>4. QED
  BY <1>1, <1>2, <1>3, Walks DEF ResolutionNext

\* In the plain pass, all that comes into the text is of the values of variables.
LEMMA BroughtNext ==
    ASSUME AssetAssumptions, AssetTyped, SelfContainedValues, Brought, [ResolutionNext]_resolution
    PROVE  Brought'
<1>1. CASE Walk
  <2>0. Unfinished /\ input' = input /\ pass' = pass /\ source' = source
    BY <1>1 DEF Walk
  <2>1. SUFFICES ASSUME pass \in {"plain", "done"}, NEW y \in Range(text')
                 PROVE  \/ y \in Range(source)
                        \/ \E value \in Range(input.variables) \ {None} : y \in Range(value)
    BY <2>0 DEF Brought
  <2>2. CASE y \in Range(text)
    BY <2>1, <2>2 DEF Brought
  <2>3. CASE y \notin Range(text)
    <3>1. /\ IsA(pass, Current) /\ HasValue(Current)
          /\ text' = ReplaceVerbatim(text, Sought, Supplied(Current))
      BY <1>1, <2>1, <2>3 DEF Walk
    <3>2. PICK r \in Seq(Tokens) : r = Supplied(Current)
      BY <2>0, <3>1, ValueOfMatch
    <3>3. text \in Seq(Tokens)
      BY TextIsOfTokens DEF AssetTyped
    <3>4. y \in Range(ReplaceVerbatim(text, Sought, r)) <=>
              \/ y \in Range(text) /\ y # Sought
              \/ Sought \in Range(text) /\ y \in Range(r)
      BY <3>2, <3>3, ReplaceRange
    <3>5. y \in Range(r)
      BY <2>1, <2>3, <3>1, <3>2, <3>4
    <3>6. /\ ValueFor(Current) \in Range(input.variables) \ {None}
          /\ y \in Range(ValueFor(Current))
      BY <2>0, <2>1, <3>1, <3>2, <3>5, ValueOfMatch
    <3>7. QED
      BY <3>6
  <2>4. QED
    BY <2>2, <2>3
<1>2. CASE NextPass
  BY <1>2 DEF NextPass, Brought, AssetTyped
<1>3. CASE UNCHANGED resolution
  BY <1>3 DEF resolution, Brought
<1>4. QED
  BY <1>1, <1>2, <1>3, Walks DEF ResolutionNext

\* The plain placeholders met without a value are reported, and stay so.
LEMMA ReportedNext ==
    ASSUME AssetAssumptions, AssetTyped, SelfContainedValues, Reported, [ResolutionNext]_resolution
    PROVE  Reported'
<1>0. DOMAIN source \subseteq Nat /\ \A j \in DOMAIN source : j >= 1 /\ j <= Len(source)
  <2>1. source \in Seq(Tokens)
    BY TextIsOfTokens DEF AssetTyped
  <2>2. PICK n \in Nat : n = Len(source) /\ DOMAIN source = 1 .. n
    BY <2>1, LenProperties
  <2>3. QED
    BY <2>2
<1>1. CASE Walk
  <2>0. Unfinished /\ input' = input /\ pass' = pass /\ source' = source /\ at' = at + 1
    BY <1>1 DEF Walk
  <2>1. SUFFICES ASSUME NEW j \in DOMAIN source, pass = "plain", j < at + 1,
                        IsA("plain", source[j]), ~Provided(source[j])
                 PROVE  source[j].name \in unresolved'
    BY <2>0, SameInput DEF Reported, Unfinished, IsA, Provided
  <2>2. unresolved \subseteq unresolved'
    BY <1>1 DEF Walk
  <2>3. CASE j < at
    BY <2>1, <2>2, <2>3 DEF Reported
  <2>4. CASE j = at
    <3>1. IsA(pass, Current) /\ ~HasValue(Current)
      BY <2>1, <2>4 DEF Current, HasValue, IsA
    <3>2. unresolved' = unresolved \cup {Current.name}
      BY <1>1, <2>1, <3>1 DEF Walk
    <3>3. QED
      BY <2>4, <3>2 DEF Current
  <2>5. QED
    BY <1>0, <2>1, <2>3, <2>4 DEF AssetTyped
<1>2. CASE NextPass
  <2>1. /\ input' = input /\ at' = 1 /\ pass # "done" /\ at > Len(source) /\ unresolved' = unresolved
        /\ pass' = CASE pass = "asset" -> "variable" [] pass = "variable" -> "plain" [] pass = "plain" -> "done"
        /\ source' = IF pass = "variable" THEN text ELSE source
    BY <1>2 DEF NextPass
  <2>2. CASE pass = "asset"
    BY <2>1, <2>2 DEF Reported
  <2>3. CASE pass = "variable"
    <3>1. \A j \in DOMAIN text : j >= 1 /\ j \in Nat
      <4>1. text \in Seq(Tokens)
        BY TextIsOfTokens DEF AssetTyped
      <4>2. PICK n \in Nat : n = Len(text) /\ DOMAIN text = 1 .. n
        BY <4>1, LenProperties
      <4>3. QED
        BY <4>2
    <3>2. \A j \in DOMAIN source' : ~(j < at')
      BY <2>1, <2>3, <3>1
    <3>3. pass' = "plain"
      BY <2>1, <2>3
    <3>4. QED
      BY <3>2, <3>3 DEF Reported
  <2>4. CASE pass = "plain"
    <3>1. \A j \in DOMAIN source : j < at
      <4>1. PICK n \in Nat : n = Len(source)
        <5>1. source \in Seq(Tokens)
          BY TextIsOfTokens DEF AssetTyped
        <5>2. QED
          BY <5>1, LenProperties
      <4>2. QED
        BY <1>0, <2>1, <4>1 DEF AssetTyped
    <3>2. source' = source
      BY <2>1, <2>4
    <3>3. QED
      BY <2>1, <2>4, <3>1, <3>2 DEF Reported, IsA, Provided
  <2>5. QED
    BY <2>1, <2>2, <2>3, <2>4 DEF AssetTyped
<1>3. CASE UNCHANGED resolution
  BY <1>3 DEF resolution, Reported, IsA, Provided
<1>4. QED
  BY <1>1, <1>2, <1>3, Walks DEF ResolutionNext

NothingLost == AssetTyped /\ Gone /\ Brought /\ Reported

\* The argument holds in the beginning, ...
LEMMA NothingLostInit ==
    ASSUME AssetAssumptions, ResolutionInit
    PROVE  NothingLost
<1>1. input \in Input
  BY DEF AssetAssumptions, ResolutionInit
<1>2. input.text \in Seq(Tokens)
  BY <1>1, TextIsOfTokens DEF Input
<1>3. AssetTyped
  BY <1>1, <1>2, TextIsOfTokens DEF AssetTyped, ResolutionInit
<1>4. \A j \in DOMAIN source : j \in Nat /\ j # 0
  <2>1. source \in Seq(Tokens)
    BY <1>2 DEF ResolutionInit
  <2>2. QED
    BY <2>1, LenProperties
<1>5. \A j \in DOMAIN source : ~(j < at)
  BY <1>4 DEF ResolutionInit
<1>6. Gone
  BY <1>5 DEF Gone, Handled, Met, ResolutionInit
<1>7. Brought /\ Reported
  BY DEF Brought, Reported, ResolutionInit
<1>8. QED
  BY <1>3, <1>6, <1>7 DEF NothingLost

\* ... and gives the property in the end.
LEMMA NothingLostIsEnough ==
    ASSUME AssetAssumptions, SelfContainedValues => NothingLost
    PROVE  NothingIsForgotten
<1>1. SUFFICES ASSUME pass = "done", SelfContainedValues PROVE NothingIsForgotten
  BY DEF NothingIsForgotten
<1>0. AssetTyped /\ Gone /\ Brought /\ Reported
  BY <1>1 DEF NothingLost
<1>2. text \in Seq(Tokens) /\ source \in Seq(Tokens) /\ input.text \in Seq(Tokens)
  BY <1>0, TextIsOfTokens DEF AssetTyped, Input
<1>3. Range(text) \subseteq Tokens
  BY <1>2, RangeOfSeq
<1>4. ASSUME NEW token \in Range(input.text), token \in Range(text)
      PROVE  \/ token \in Words
             \/ \E value \in Values \ {None} : token \in Range(value)
             \/ token.padded /\ token.kind # "plain"
             \/ token.kind = "asset" /\ (Provided(token) \/ input.assets[token.name] = <<>>)
             \/ token.kind # "asset" /\ ~Provided(token)
  <2>1. ~Replaceable(token)
    BY <1>0, <1>1, <1>4 DEF Gone, Handled
  <2>2. token \in Words \/ token \in Placeholder
    BY <1>3, <1>4 DEF Tokens
  <2>3. QED
    BY <2>1, <2>2 DEF Replaceable, HasValue, Resolvable
<1>5. ASSUME NEW token \in Range(text)
      PROVE  \/ token \in Words
             \/ token.kind # "plain"
             \/ token.name \in unresolved
             \/ Provided(token)
             \/ \E value \in Range(input.variables) \ {None} : token \in Range(value)
  <2>1. SUFFICES ASSUME token \in Range(source), token \notin Words, token.kind = "plain", ~Provided(token)
                 PROVE  token.name \in unresolved
    BY <1>0, <1>1, <1>5 DEF Brought
  <2>2. PICK j \in DOMAIN source : source[j] = token
    BY <2>1 DEF Range
  <2>3. QED
    BY <1>0, <1>1, <2>1, <2>2 DEF Reported, IsA
<1>6. QED
  BY <1>1, <1>4, <1>5 DEF NothingIsForgotten

\* The input of a call stays what it is.
LEMMA InputStays ==
    ASSUME [ResolutionNext]_resolution
    PROVE  input' = input /\ (SelfContainedValues' <=> SelfContainedValues)
<1>1. input' = input
  BY DEF ResolutionNext, resolution, PassOver, SkipAsset, ReplaceAsset,
         ReplaceVariable, ReplacePlain, Report, NextPass
<1>2. QED
  BY <1>1, SameInput

\* Whatever texts and values hold, nothing that could have been replaced is left
\* over, and nothing that could not goes unreported, unless a value has a pattern
\* that brings a part of the text along.
THEOREM NothingIsForgottenTheorem == ResolutionSpec => []NothingIsForgotten
<1>0. AssetAssumptions
  BY InputAssumption, WordsAssumption, NoneAssumption DEF AssetAssumptions
<1> DEFINE Kept == SelfContainedValues => NothingLost
<1>1. ResolutionInit => Kept
  BY <1>0, NothingLostInit
<1>2. Kept /\ [ResolutionNext]_resolution => Kept'
  BY <1>0, InputStays, AssetTypedNext, GoneNext, BroughtNext, ReportedNext DEF NothingLost
<1>3. Kept => NothingIsForgotten
  BY <1>0, NothingLostIsEnough
<1> HIDE DEF Kept
<1>4. QED
  BY <1>1, <1>2, <1>3, PTL DEF ResolutionSpec

\* The two ways to say which version is meant agree.
LEMMA ChosenIsPreferred ==
    ASSUME input \in Input, NEW token \in Placeholder, input.assets[token.name] # <<>>
    PROVE  Preferred(token) = Chosen(token)
<1> DEFINE versions == input.assets[token.name]
<1>1. versions \in Seq(Version)
  BY AnAsset, InputParts
<1>2. PICK n \in Nat : n = Len(versions) /\ DOMAIN versions = 1 .. n
  BY <1>1, LenProperties
<1> DEFINE tagged == {i \in DOMAIN versions : versions[i].tag = token.tag}
           active == {i \in DOMAIN versions : versions[i].active}
           S == IF tagged # {} THEN tagged ELSE IF active # {} THEN active ELSE DOMAIN versions
           Rank(i) == IF versions[i].tag = token.tag THEN 0 ELSE IF versions[i].active THEN 1 ELSE 2
           Best(i) == \A j \in DOMAIN versions : Rank(i) < Rank(j) \/ (Rank(i) = Rank(j) /\ i <= j)
<1>3. PICK c : c = Chosen(token)
  OBVIOUS
<1>4. c = Min(S)
  <2>1. Chosen(token) = Min(S)
    BY DEF Chosen
  <2>2. Min(S) = Min(S)
    BY DEF Min, Min
  <2>3. QED
    BY <1>3, <2>1, <2>2
<1>5. versions # <<>>
  OBVIOUS
<1>6. Preferred(token) = CHOOSE i \in DOMAIN versions : Best(i)
  BY DEF Preferred
<1> HIDE DEF versions
<1>7. S # {} /\ S \subseteq DOMAIN versions /\ DOMAIN versions \subseteq Nat
  BY <1>1, <1>2, <1>5, EmptySeq
<1>8. c \in S /\ \A j \in S : c <= j
  <2> HIDE DEF S
  <2>1. \E x \in S : \A y \in S : x <= y
    BY <1>7, MinIsLeast
  <2>2. QED
    BY <1>4, <2>1 DEF Min
<1>9. Best(c)
  <2>1. CASE tagged # {}
    BY <2>1, <1>7, <1>8
  <2>2. CASE tagged = {} /\ active # {}
    BY <2>2, <1>7, <1>8
  <2>3. CASE tagged = {} /\ active = {}
    BY <2>3, <1>7, <1>8
  <2>4. QED
    BY <2>1, <2>2, <2>3
<1>10. ASSUME NEW i \in DOMAIN versions, Best(i) PROVE i = c
  <2>1. i \in Nat /\ c \in Nat /\ c \in DOMAIN versions
    BY <1>7, <1>8
  <2>2. Rank(i) < Rank(c) \/ (Rank(i) = Rank(c) /\ i <= c)
    BY <1>10, <2>1
  <2>3. Rank(c) < Rank(i) \/ (Rank(c) = Rank(i) /\ c <= i)
    BY <1>9, <1>10
  <2>4. QED
    BY <2>1, <2>2, <2>3
<1>11. c \in DOMAIN versions
  BY <1>7, <1>8
<1> HIDE DEF Best
<1>12. (CHOOSE i \in DOMAIN versions : Best(i)) = c
  BY <1>9, <1>10, <1>11
<1>13. QED
  BY <1>3, <1>6, <1>12

\* The meaning of a placeholder is its value if it has one, else itself.
LEMMA MeaningIs ==
    ASSUME AssetAssumptions, input \in Input, Flat, NEW x \in Placeholder
    PROVE  /\ HasValue(x) => /\ Meaning(x) = Supplied(x)
                             /\ Meaning(x) \in Seq(Tokens)
                             /\ Range(Meaning(x)) \subseteq Words
           /\ ~HasValue(x) => Meaning(x) = <<x>>
<1>0. x \notin Words /\ x.name \in Names /\ x.kind \in {"asset", "variable", "plain"}
  BY AnAsset DEF AssetAssumptions
<1>1. input.assets[x.name] = <<>> \/ input.variables[x.name] = None
  BY <1>0 DEF Flat
<1>2. CASE HasValue(x)
  <2>1. Meaning(x) = Supplied(x)
    <3>1. CASE x.kind = "asset"
      <4>1. input.assets[x.name] # <<>>
        BY <1>2, <3>1 DEF HasValue, Resolvable
      <4>2. Preferred(x) = Chosen(x)
        BY <4>1, ChosenIsPreferred
      <4>3. PICK version : version = input.assets[x.name][Chosen(x)]
        OBVIOUS
      <4>4. Meaning(x) = IF input.language = None \/ version.translations[input.language] = None
                                THEN Unescaped(version.value) ELSE Unescaped(version.translations[input.language])
        BY <1>0, <3>1, <4>1, <4>2, <4>3 DEF Meaning
      <4>5. ValueFor(x) = IF input.language # None /\ version.translations[input.language] # None
                          THEN version.translations[input.language] ELSE version.value
        BY <3>1, <4>3 DEF ValueFor, ValueOf
      <4>6. QED
        BY <3>1, <4>4, <4>5 DEF Supplied
    <3>2. CASE x.kind # "asset"
      BY <1>0, <1>2, <3>2 DEF Meaning, HasValue, ValueFor, Supplied
    <3>3. QED
      BY <3>1, <3>2
  <2>2. ValueFor(x) \in Content /\ ValueFor(x) \in Values \ {None}
    BY <1>2, ValueIsText
  <2>3. Range(ValueFor(x)) \subseteq Words
    BY <2>2 DEF Flat
  <2>4. Supplied(x) \in Seq(Tokens) /\ Range(Supplied(x)) \subseteq Range(ValueFor(x))
    BY <2>2, TextIsOfTokens, UnescapedIsText DEF Supplied
  <2>5. QED
    BY <1>2, <2>1, <2>3, <2>4
<1>3. CASE ~HasValue(x)
  BY <1>0, <1>1, <1>3 DEF HasValue, Resolvable, Provided, Meaning
<1>4. QED
  BY <1>2, <1>3

\* The text of the moment: of the placeholders handled so far the meaning.
Partial == [x \in Tokens |-> IF x \notin Words /\ Handled(x) THEN Meaning(x) ELSE <<x>>]

\* It is a function from tokens to texts.
LEMMA PartialIsFunction ==
    ASSUME AssetAssumptions, input \in Input, Flat
    PROVE  Partial \in [Tokens -> Seq(Tokens)]
<1>1. ASSUME NEW x \in Tokens
      PROVE  (IF x \notin Words /\ Handled(x) THEN Meaning(x) ELSE <<x>>) \in Seq(Tokens)
  <2>1. <<x>> \in Seq(Tokens)
    OBVIOUS
  <2>2. x \notin Words => Meaning(x) \in Seq(Tokens)
    <3>1. SUFFICES ASSUME x \notin Words PROVE Meaning(x) \in Seq(Tokens)
      OBVIOUS
    <3>2. x \in Placeholder
      BY <3>1 DEF Tokens
    <3>3. QED
      BY <2>1, <3>2, MeaningIs
  <2>3. QED
    BY <2>1, <2>2
<1>2. QED
  BY <1>1 DEF Partial

SourceIsFlat ==
    pass = "plain" => \A x \in Placeholder :
        x.kind = "plain" => (x \in Range(source) <=> x \in Range(input.text))

Unresolved ==
    unresolved = {x.name : x \in {y \in Range(input.text) :
        y \notin Words /\ y.kind # "asset" /\ ~Provided(y) /\ Handled(y)}}

FlatSoFar ==
    Flat =>
        /\ text = Spread(input.text, Partial)
        /\ SourceIsFlat
        /\ Unresolved

\* What stands for the step of a walk, where values are flat.
LEMMA FlatMatch ==
    ASSUME AssetAssumptions, AssetTyped, Flat, SourceIsFlat, Unfinished,
           IsA(pass, Current)
    PROVE  /\ Current \in Range(input.text)
           /\ Current \in Placeholder
           /\ Plainly(Current) = Current
           /\ Sought = Current
<1>1. Current \in Placeholder /\ Current.kind = pass /\ at \in DOMAIN source
  BY MatchIsToken
<1>2. Current \in Range(source)
  BY <1>1 DEF Range, Current
<1>3. Current \in Range(input.text)
  <2>1. CASE pass = "plain"
    BY <1>1, <1>2, <2>1 DEF SourceIsFlat
  <2>2. CASE pass # "plain"
    BY <1>2, <2>2, MatchIsToken DEF AssetTyped
  <2>3. QED
    BY <2>1, <2>2
<1>4. ~Current.padded
  BY <1>1, <1>3 DEF Flat, IsA
<1>5. Plainly(Current) = Current
  BY <1>1, <1>4, AnAsset
<1>6. QED
  BY <1>1, <1>3, <1>5 DEF Sought

\* Where values are flat, a step handles its match and nothing else.
LEMMA FlatHandled ==
    ASSUME AssetAssumptions, AssetTyped, Flat, SourceIsFlat, Walk, NEW x
    PROVE  Handled(x)' <=> Handled(x) \/ (IsA(pass, Current) /\ x = Current)
<1>1. Handled(x)' <=>
              \/ Handled(x)
              \/ /\ pass = x.kind
                 /\ IsA(pass, Current)
                 /\ Current = x \/ (pass # "plain" /\ Plainly(Current) = x)
  BY HandledNext
<1>2. ASSUME IsA(pass, Current)
      PROVE  Plainly(Current) = Current /\ Current.kind = pass
  BY <1>2, FlatMatch, MatchIsToken DEF Walk
<1>3. QED
  BY <1>1, <1>2

\* A match that is met again has been handled.
LEMMA FlatAgain ==
    ASSUME AssetAssumptions, AssetTyped, Flat, SourceIsFlat, Unfinished,
           IsA(pass, Current), pass # "plain", Again
    PROVE  Handled(Current)
<1>1. PICK i \in 1 .. (at - 1) : IsA(pass, source[i]) /\ Plainly(source[i]) = Plainly(Current)
  BY DEF Again
<1>2. i \in DOMAIN source /\ i < at
  <2>1. source \in Seq(Tokens)
    BY TextIsOfTokens DEF AssetTyped
  <2>2. PICK n \in Nat : n = Len(source) /\ DOMAIN source = 1 .. n
    BY <2>1, LenProperties
  <2>3. QED
    BY <2>2 DEF AssetTyped, Unfinished
<1>3. Plainly(source[i]) = Current
  BY <1>1, FlatMatch
<1>4. Met(Current)
  BY <1>1, <1>2, <1>3 DEF Met
<1>5. QED
  BY <1>4, MatchIsToken DEF Handled

\* One step of a walk replaces one placeholder by its meaning.
LEMMA FlatTextWalk ==
    ASSUME AssetAssumptions, AssetTyped, Flat, SourceIsFlat, text = Spread(input.text, Partial), Walk
    PROVE  text' = Spread(input.text, Partial')
<1>0. Unfinished /\ input' = input
  BY DEF Walk
<1>1. input \in Input /\ input.text \in Seq(Tokens)
  BY TextIsOfTokens DEF AssetTyped, Input
<1>2. Range(input.text) \subseteq Tokens
  BY <1>1, RangeOfSeq
<1>3. PICK m \in [Tokens -> Seq(Tokens)] : m = Partial
  BY <1>1, PartialIsFunction
<1>4. ASSUME NEW x \in Tokens
      PROVE  /\ m[x] = IF x \notin Words /\ Handled(x) THEN Meaning(x) ELSE <<x>>
             /\ Partial'[x] = IF x \notin Words /\ Handled(x)' THEN Meaning(x) ELSE <<x>>
  <2>1. Meaning(x)' = Meaning(x)
    BY <1>0 DEF Meaning, Preferred, Provided
  <2>2. QED
    BY <1>3, <2>1 DEF Partial
<1>5. CASE IsA(pass, Current) /\ HasValue(Current)
           /\ text' = ReplaceVerbatim(text, Sought, Supplied(Current))
  <2>1. PICK token \in Placeholder : token = Current /\ token = Sought
    BY <1>0, <1>5, FlatMatch
  <2>2. PICK r \in Seq(Tokens) : r = Supplied(token)
    BY <1>0, <1>5, <2>1, ValueOfMatch
  <2>3. Meaning(token) = r
    BY <1>1, <1>5, <2>1, <2>2, MeaningIs
  <2>4. PICK k \in [Tokens -> Seq(Tokens)] : k = Replacing(token, r)
    BY ReplacingIsFunction
  <2>5. ASSUME NEW x \in Tokens PROVE k[x] = IF x = token THEN r ELSE <<x>>
    BY <2>4 DEF Replacing
  <2>6. text \in Seq(Tokens)
    BY TextIsOfTokens DEF AssetTyped
  <2>7. text' = Spread(text, k)
    BY <1>5, <2>1, <2>2, <2>4, <2>6, ReplaceIsSpread
  <2>8. PICK l \in [Tokens -> Seq(Tokens)] : \A x \in Tokens : l[x] = Spread(m[x], k)
    <3>1. ASSUME NEW x \in Tokens PROVE Spread(m[x], k) \in Seq(Tokens)
      <4>1. m[x] \in Seq(Tokens)
        OBVIOUS
      <4>2. QED
        BY <4>1, SpreadIsText
    <3>2. [x \in Tokens |-> Spread(m[x], k)] \in [Tokens -> Seq(Tokens)]
      BY <3>1
    <3>3. QED
      BY <3>2
  <2>9. ASSUME NEW x \in Range(input.text)
        PROVE  Spread(m[x], k) = Partial'[x]
    <3>0. x \in Tokens
      BY <1>2
    <3>1. Spread(<<x>>, k) = k[x]
      BY <3>0, SpreadOne
    <3>2. Handled(x)' <=> Handled(x) \/ x = token
      BY <1>5, <2>1, FlatHandled
    <3>3. CASE x \in Words
      BY <1>4, <2>1, <2>5, <3>0, <3>1, <3>3 DEF AssetAssumptions
    <3>4. CASE x \notin Words /\ ~Handled(x)
      <4>1. m[x] = <<x>>
        BY <1>4, <3>0, <3>4
      <4>2. CASE x = token
        BY <1>4, <2>3, <2>5, <3>0, <3>1, <3>2, <3>4, <4>1, <4>2
      <4>3. CASE x # token
        BY <1>4, <2>5, <3>0, <3>1, <3>2, <3>4, <4>1, <4>3
      <4>4. QED
        BY <4>2, <4>3
    <3>5. CASE x \notin Words /\ Handled(x)
      <4>1. m[x] = Meaning(x) /\ Partial'[x] = Meaning(x) /\ x \in Placeholder
        BY <1>4, <3>0, <3>2, <3>5 DEF Tokens
      <4>2. CASE HasValue(x)
        <5>1. PICK v \in Seq(Tokens) : v = Meaning(x) /\ Range(v) \subseteq Words
          BY <1>1, <4>1, <4>2, MeaningIs
        <5>2. \A y \in Range(v) : k[y] = <<y>>
          BY <2>1, <2>5, <5>1 DEF AssetAssumptions, Tokens
        <5>3. Spread(v, k) = v
          BY <5>2, SpreadIdentity
        <5>4. QED
          BY <4>1, <5>1, <5>3
      <4>3. CASE ~HasValue(x)
        <5>1. x # token
          BY <1>5, <2>1, <4>3
        <5>2. Meaning(x) = <<x>>
          BY <1>1, <4>1, <4>3, MeaningIs
        <5>3. QED
          BY <2>5, <3>0, <3>1, <4>1, <5>1, <5>2
      <4>4. QED
        BY <4>2, <4>3
    <3>6. QED
      BY <3>3, <3>4, <3>5
  <2>10. Spread(Spread(input.text, m), k) = Spread(input.text, l)
    <3>1. Combined(Tokens, m, k, l, input.text)
      BY <1>1, <2>8 DEF Combined
    <3>2. QED
      BY <3>1, SpreadSpread
  <2>11. \A x \in Range(input.text) : l[x] = Partial'[x]
    BY <1>2, <2>8, <2>9
  <2>12. Spread(input.text, l) = Spread(input.text, Partial')
    BY <1>1, <2>11, SpreadSame
  <2>13. QED
    BY <1>3, <2>7, <2>10, <2>12
<1>6. CASE text' = text /\ \A x \in Range(input.text) :
             x \notin Words /\ Handled(x)' => Handled(x) \/ Meaning(x) = <<x>>
  <2>1. ASSUME NEW x \in Range(input.text) PROVE m[x] = Partial'[x]
    <3>1. Handled(x) => Handled(x)'
      BY FlatHandled
    <3>2. QED
      BY <1>2, <1>4, <1>6, <3>1
  <2>2. Spread(input.text, m) = Spread(input.text, Partial')
    BY <1>1, <2>1, SpreadSame
  <2>3. QED
    BY <1>3, <1>6, <2>2
<1>7. CASE IsA(pass, Current) /\ HasValue(Current)
           /\ pass # "plain" /\ Again /\ text' = text
  <2>1. Handled(Current)
    BY <1>0, <1>7, FlatAgain
  <2>2. \A x : Handled(x)' => Handled(x)
    BY <2>1, FlatHandled
  <2>3. QED
    BY <1>6, <1>7, <2>2
<1>8. CASE ~(IsA(pass, Current) /\ HasValue(Current)) /\ text' = text
  <2>1. ASSUME NEW x \in Range(input.text), Handled(x)', ~Handled(x) PROVE Meaning(x) = <<x>>
    <3>1. IsA(pass, Current) /\ x = Current
      BY <2>1, FlatHandled
    <3>2. x \in Placeholder /\ ~HasValue(x)
      BY <1>0, <1>8, <3>1, FlatMatch
    <3>3. QED
      BY <1>1, <3>2, MeaningIs
  <2>2. QED
    BY <1>6, <1>8, <2>1
<1>9. QED
  BY <1>5, <1>7, <1>8 DEF Walk

\* A step of a walk leaves the sources what they are, and reports what it must.
LEMMA FlatReportWalk ==
    ASSUME AssetAssumptions, AssetTyped, Flat, SourceIsFlat, Unresolved, Walk
    PROVE  SourceIsFlat' /\ Unresolved'
<1>0. Unfinished /\ input' = input /\ pass' = pass /\ source' = source
  BY DEF Walk
<1>1. SourceIsFlat'
  <2>1. Placeholder' = Placeholder
    BY DEF Placeholder
  <2>2. QED
    BY <1>0, <2>1 DEF SourceIsFlat
<1>2. ASSUME NEW y PROVE Provided(y)' <=> Provided(y)
  BY <1>0 DEF Provided
<1>3. ASSUME NEW y PROVE Handled(y)' <=> Handled(y) \/ (IsA(pass, Current) /\ y = Current)
  BY FlatHandled
<1>4. CASE IsA(pass, Current) /\ pass # "asset" /\ ~HasValue(Current)
  <2>1. PICK token \in Placeholder : token = Current
    BY <1>0, <1>4, FlatMatch
  <2>2. token \in Range(input.text) /\ token \notin Words /\ token.kind # "asset" /\ ~Provided(token)
    BY <1>0, <1>4, <2>1, FlatMatch DEF IsA, HasValue
  <2>3. unresolved' = unresolved \cup {token.name}
    BY <1>4, <2>1 DEF Walk
  <2>4. ASSUME NEW y PROVE Handled(y)' <=> Handled(y) \/ y = token
    BY <1>3, <1>4, <2>1
  <2>5. {y \in Range(input.text) : y \notin Words /\ y.kind # "asset" /\ ~Provided(y) /\ Handled(y)'}
          = {y \in Range(input.text) : y \notin Words /\ y.kind # "asset" /\ ~Provided(y) /\ Handled(y)}
            \cup {token}
    BY <2>2, <2>4
  <2>6. Unresolved'
    BY <1>0, <1>2, <2>3, <2>5 DEF Unresolved
  <2>7. QED
    BY <1>1, <2>6
<1>5. CASE ~(IsA(pass, Current) /\ pass # "asset" /\ ~HasValue(Current))
  <2>1. unresolved' = unresolved
    BY <1>5 DEF Walk
  <2>2. ASSUME NEW y, y.kind # "asset", ~Provided(y) PROVE Handled(y)' <=> Handled(y)
    BY <1>3, <1>5, <2>2 DEF HasValue, IsA
  <2>3. {y \in Range(input.text) : y \notin Words /\ y.kind # "asset" /\ ~Provided(y) /\ Handled(y)'}
          = {y \in Range(input.text) : y \notin Words /\ y.kind # "asset" /\ ~Provided(y) /\ Handled(y)}
    BY <2>2
  <2>4. Unresolved'
    BY <1>0, <1>2, <2>1, <2>3 DEF Unresolved
  <2>5. QED
    BY <1>1, <2>4
<1>6. QED
  BY <1>4, <1>5

\* At the end of a pass all the placeholders of its kind have been handled: the
\* next one starts with what has been handled before.
LEMMA FlatNextPassHandled ==
    ASSUME AssetAssumptions, AssetTyped, Flat, SourceIsFlat, NextPass,
           NEW x \in Range(input.text), x \notin Words
    PROVE  Handled(x)' <=> Handled(x)
<1>1. /\ input' = input /\ at' = 1 /\ pass # "done" /\ at > Len(source)
      /\ pass' = CASE pass = "asset" -> "variable" [] pass = "variable" -> "plain" [] pass = "plain" -> "done"
  BY DEF NextPass
<1>2. x \in Placeholder
  <2>1. input.text \in Seq(Tokens)
    BY TextIsOfTokens DEF AssetTyped, Input
  <2>2. QED
    BY <2>1, RangeOfSeq DEF Tokens
<1>3. x.kind \in {"asset", "variable", "plain"}
  BY <1>2, AnAsset
<1>4. ~Met(x)'
  <2>1. \A j \in DOMAIN source' : j \in Nat /\ j # 0
    <3>1. source' \in Seq(Tokens)
      BY TextIsOfTokens DEF AssetTyped, NextPass
    <3>2. QED
      BY <3>1, LenProperties
  <2>2. \A j \in DOMAIN source' : ~(j < 1)
    BY <2>1
  <2>3. QED
    BY <1>1, <2>2 DEF Met
<1>5. pass = x.kind => Met(x)
  <2>1. SUFFICES ASSUME pass = x.kind PROVE x \in Range(source)
    BY <1>1, AllMet DEF IsA
  <2>2. CASE pass = "plain"
    BY <1>2, <2>1, <2>2 DEF SourceIsFlat
  <2>3. CASE pass # "plain"
    BY <1>1, <2>3 DEF AssetTyped
  <2>4. QED
    BY <2>2, <2>3
<1>6. QED
  BY <1>1, <1>3, <1>4, <1>5 DEF Handled, AssetTyped

\* Values bring no placeholders: the plain ones of the text of the moment are
\* those of the text that was handed in.
LEMMA PlainOnesRemain ==
    ASSUME AssetAssumptions, AssetTyped, Flat, text = Spread(input.text, Partial),
           NEW x \in Placeholder, ~Handled(x)
    PROVE  x \in Range(text) <=> x \in Range(input.text)
<1>1. input \in Input
  BY DEF AssetTyped
<1>2. PICK s \in Seq(Tokens) : s = input.text
  BY <1>1, TextIsOfTokens DEF Input
<1>3. PICK m \in [Tokens -> Seq(Tokens)] : m = Partial
  BY <1>1, PartialIsFunction
<1>4. x \in Range(text) <=> \E y \in Range(s) : x \in Range(m[y])
  <2>1. x \in Range(Spread(s, m)) <=> \E y \in Range(s) : x \in Range(m[y])
    BY SpreadRange
  <2>2. QED
    BY <1>2, <1>3, <2>1
<1>5. Range(s) \subseteq Tokens
  BY RangeOfSeq
<1>6. x \notin Words
  BY DEF AssetAssumptions
<1>7. ASSUME NEW y \in Range(s), x \in Range(m[y]) PROVE x = y
  <2>1. y \in Tokens /\ m[y] = IF y \notin Words /\ Handled(y) THEN Meaning(y) ELSE <<y>>
    BY <1>3, <1>5 DEF Partial
  <2>2. CASE m[y] = <<y>>
    BY <1>7, <2>2 DEF Range
  <2>3. CASE m[y] # <<y>>
    <3>1. y \notin Words /\ m[y] = Meaning(y) /\ y \in Placeholder
      BY <2>1, <2>3 DEF Tokens
    <3>2. HasValue(y)
      BY <1>1, <2>3, <3>1, MeaningIs
    <3>3. Range(m[y]) \subseteq Words
      BY <1>1, <3>1, <3>2, MeaningIs
    <3>4. QED
      BY <1>6, <1>7, <3>3
  <2>4. QED
    BY <2>2, <2>3
<1>8. x \in Range(m[x])
  <2>1. m[x] = <<x>>
    BY <1>3 DEF Partial, Tokens
  <2>2. <<x>>[1] = x /\ 1 \in DOMAIN <<x>>
    OBVIOUS
  <2>3. QED
    BY <2>1, <2>2 DEF Range
<1>9. QED
  BY <1>2, <1>4, <1>7, <1>8

\* Between the passes the text stays what it is.
LEMMA FlatNextPass ==
    ASSUME AssetAssumptions, AssetTyped, Flat, SourceIsFlat, Unresolved,
           text = Spread(input.text, Partial), NextPass
    PROVE  text' = Spread(input.text, Partial') /\ SourceIsFlat' /\ Unresolved'
<1>1. /\ input' = input /\ text' = text /\ unresolved' = unresolved /\ pass # "done"
      /\ pass' = CASE pass = "asset" -> "variable" [] pass = "variable" -> "plain" [] pass = "plain" -> "done"
      /\ source' = IF pass = "variable" THEN text ELSE source
  BY DEF NextPass
<1>2. PICK s \in Seq(Tokens) : s = input.text
  BY TextIsOfTokens DEF AssetTyped, Input
<1>3. Range(s) \subseteq Tokens
  BY RangeOfSeq
<1>4. text' = Spread(input.text, Partial')
  <2>1. ASSUME NEW x \in Range(s) PROVE Partial[x] = Partial'[x]
    <3>1. Meaning(x)' = Meaning(x)
      BY <1>1 DEF Meaning, Preferred, Provided
    <3>2. x \in Tokens
      BY <1>3
    <3>3. Partial[x] = IF x \notin Words /\ Handled(x) THEN Meaning(x) ELSE <<x>>
      BY <3>2 DEF Partial
    <3>4. Partial'[x] = IF x \notin Words /\ Handled(x)' THEN Meaning(x) ELSE <<x>>
      BY <3>1, <3>2 DEF Partial
    <3>5. x \notin Words => (Handled(x)' <=> Handled(x))
      BY <1>2, FlatNextPassHandled
    <3>6. QED
      BY <3>3, <3>4, <3>5
  <2>2. Spread(s, Partial) = Spread(s, Partial')
    BY <2>1, SpreadSame
  <2>3. QED
    BY <1>1, <1>2, <2>2
<1>5. SourceIsFlat'
  <2>1. Placeholder' = Placeholder
    BY DEF Placeholder
  <2>2. SUFFICES ASSUME pass' = "plain", NEW x \in Placeholder, x.kind = "plain"
                 PROVE  x \in Range(source') <=> x \in Range(input.text)
    BY <1>1, <2>1 DEF SourceIsFlat
  <2>3. pass = "variable" /\ source' = text
    BY <1>1, <2>2 DEF AssetTyped
  <2>4. ~Handled(x)
    BY <2>2, <2>3 DEF Handled
  <2>5. QED
    BY <2>3, <2>4, PlainOnesRemain
<1>6. Unresolved'
  <2>1. ASSUME NEW y \in Range(input.text), y \notin Words
        PROVE  (Handled(y)' <=> Handled(y)) /\ (Provided(y)' <=> Provided(y))
    BY <1>1, <2>1, FlatNextPassHandled DEF Provided
  <2>2. {y \in Range(input.text) : y \notin Words /\ y.kind # "asset" /\ ~Provided(y)' /\ Handled(y)'}
          = {y \in Range(input.text) : y \notin Words /\ y.kind # "asset" /\ ~Provided(y) /\ Handled(y)}
    BY <2>1
  <2>3. QED
    BY <1>1, <2>2 DEF Unresolved
<1>7. QED
  BY <1>4, <1>5, <1>6

\* In the beginning nothing is handled.
LEMMA FlatSoFarInit ==
    ASSUME AssetAssumptions, ResolutionInit
    PROVE  FlatSoFar
<1>1. input \in Input /\ input.text \in Seq(Tokens)
  BY TextIsOfTokens DEF AssetAssumptions, ResolutionInit, Input
<1>2. ASSUME NEW x \in Range(input.text), x \notin Words PROVE ~Handled(x)
  <2>1. \A j \in DOMAIN source : j \in Nat /\ j # 0
    BY <1>1, LenProperties DEF ResolutionInit
  <2>2. \A j \in DOMAIN source : ~(j < at)
    BY <2>1 DEF ResolutionInit
  <2>3. QED
    BY <2>2 DEF Handled, Met, ResolutionInit
<1>3. Range(input.text) \subseteq Tokens
  BY <1>1, RangeOfSeq
<1>4. \A x \in Range(input.text) : Partial[x] = <<x>>
  BY <1>2, <1>3 DEF Partial
<1>5. text = Spread(input.text, Partial)
  BY <1>1, <1>4, SpreadIdentity DEF ResolutionInit
<1>6. SourceIsFlat
  BY DEF SourceIsFlat, ResolutionInit
<1>7. Unresolved
  <2>1. {y \in Range(input.text) : y \notin Words /\ y.kind # "asset" /\ ~Provided(y) /\ Handled(y)} = {}
    BY <1>2
  <2>2. QED
    BY <2>1 DEF Unresolved, ResolutionInit
<1>8. QED
  BY <1>5, <1>6, <1>7 DEF FlatSoFar

\* The text is at any time the spreading of what has been handled.
LEMMA FlatSoFarNext ==
    ASSUME AssetAssumptions, AssetTyped, SelfContainedValues, FlatSoFar, [ResolutionNext]_resolution
    PROVE  FlatSoFar'
<1>1. input' = input
  BY InputStays
<1>2. Flat' <=> Flat
  BY <1>1, SameInput DEF Flat
<1>3. SUFFICES ASSUME Flat
               PROVE  text' = Spread(input.text, Partial') /\ SourceIsFlat' /\ Unresolved'
  BY <1>1, <1>2 DEF FlatSoFar
<1>4. text = Spread(input.text, Partial) /\ SourceIsFlat /\ Unresolved
  BY <1>3 DEF FlatSoFar
<1>5. CASE Walk
  BY <1>3, <1>4, <1>5, FlatTextWalk, FlatReportWalk
<1>6. CASE NextPass
  BY <1>3, <1>4, <1>6, FlatNextPass
<1>7. CASE UNCHANGED resolution
  <2>1. /\ input' = input /\ pass' = pass /\ source' = source /\ at' = at /\ text' = text
        /\ unresolved' = unresolved
    BY <1>7 DEF resolution
  <2>2. ASSUME NEW x PROVE (Handled(x)' <=> Handled(x)) /\ Meaning(x)' = Meaning(x)
    BY <2>1 DEF Handled, Met, IsA, Plainly, Meaning, Preferred, Provided
  <2>3. Partial' = Partial
    BY <2>2 DEF Partial
  <2>4. SourceIsFlat'
    BY <1>4, <2>1 DEF SourceIsFlat, Placeholder
  <2>5. Unresolved'
    BY <1>4, <2>1, <2>2 DEF Unresolved, Provided
  <2>6. QED
    BY <1>4, <2>1, <2>3, <2>4, <2>5
<1>8. QED
  BY <1>5, <1>6, <1>7, Walks DEF ResolutionNext

\* In the end everything is handled.
LEMMA FlatSoFarIsEnough ==
    ASSUME AssetAssumptions, SelfContainedValues => AssetTyped /\ FlatSoFar
    PROVE  FlatIsParallel
<1>1. SUFFICES ASSUME Flat, pass = "done" PROVE
          /\ text = FlattenSeq([i \in DOMAIN input.text |-> Meaning(input.text[i])])
          /\ unresolved = {token.name : token \in
                {t \in Range(text) : t \notin Words /\ t.kind # "asset"}}
  BY DEF FlatIsParallel
<1>0. AssetTyped /\ FlatSoFar
  BY <1>1 DEF Flat
<1>2. text = Spread(input.text, Partial) /\ Unresolved
  BY <1>0, <1>1 DEF FlatSoFar
<1>3. input \in Input
  BY <1>0 DEF AssetTyped
<1>4. PICK s \in Seq(Tokens) : s = input.text
  BY <1>3, TextIsOfTokens DEF Input
<1>5. Range(s) \subseteq Tokens
  BY RangeOfSeq
<1>6. ASSUME NEW x \in Tokens PROVE Partial[x] = Meaning(x)
  <2>1. Handled(x)
    BY <1>1 DEF Handled
  <2>2. x \in Words => Meaning(x) = <<x>>
    BY DEF Meaning
  <2>3. QED
    BY <2>1, <2>2 DEF Partial
<1>7. text = FlattenSeq([i \in DOMAIN input.text |-> Meaning(input.text[i])])
  <2>1. \A i \in DOMAIN s : s[i] \in Tokens
    BY <1>5 DEF Range
  <2>2. [i \in DOMAIN s |-> Partial[s[i]]] = [i \in DOMAIN s |-> Meaning(s[i])]
    BY <1>6, <2>1
  <2>3. QED
    BY <1>2, <1>4, <2>2 DEF Spread
<1>8. ASSUME NEW t
      PROVE  (t \in Range(text) /\ t \notin Words /\ t.kind # "asset")
               <=> (t \in Range(s) /\ t \notin Words /\ t.kind # "asset" /\ ~Provided(t))
  <2>1. PICK m \in [Tokens -> Seq(Tokens)] : m = Partial
    BY <1>1, <1>3, PartialIsFunction
  <2>2. t \in Range(text) <=> \E y \in Range(s) : t \in Range(m[y])
    <3>1. t \in Range(Spread(s, m)) <=> \E y \in Range(s) : t \in Range(m[y])
      BY SpreadRange
    <3>2. QED
      BY <1>2, <1>4, <2>1, <3>1
  <2>3. ASSUME NEW y \in Range(s)
        PROVE  \/ m[y] = <<y>> /\ (y \in Words \/ ~HasValue(y))
               \/ y \notin Words /\ HasValue(y) /\ Range(m[y]) \subseteq Words
    <3>1. y \in Tokens /\ m[y] = Meaning(y)
      BY <1>5, <1>6, <2>1
    <3>2. CASE y \in Words
      BY <3>1, <3>2 DEF Meaning
    <3>3. CASE y \notin Words
      <4>1. y \in Placeholder
        BY <3>1, <3>3 DEF Tokens
      <4>2. QED
        BY <1>1, <1>3, <3>1, <3>3, <4>1, MeaningIs
    <3>4. QED
      BY <3>2, <3>3
  <2>4. ASSUME NEW y PROVE Range(<<y>>) = {y}
    BY DEF Range
  <2>5. ASSUME t \in Range(text), t \notin Words, t.kind # "asset"
        PROVE  t \in Range(s) /\ ~Provided(t)
    <3>1. PICK y \in Range(s) : t \in Range(m[y])
      BY <2>2, <2>5
    <3>2. m[y] = <<y>> /\ (y \in Words \/ ~HasValue(y))
      BY <2>3, <2>5, <3>1
    <3>3. t = y
      BY <2>4, <3>1, <3>2
    <3>4. QED
      BY <2>5, <3>2, <3>3 DEF HasValue
  <2>6. ASSUME t \in Range(s), t \notin Words, t.kind # "asset", ~Provided(t)
        PROVE  t \in Range(text)
    <3>1. ~HasValue(t)
      BY <2>6 DEF HasValue
    <3>2. m[t] = <<t>>
      BY <2>3, <2>6, <3>1
    <3>3. QED
      BY <2>2, <2>4, <2>6, <3>2
  <2>7. QED
    BY <2>5, <2>6
<1>9. {t \in Range(text) : t \notin Words /\ t.kind # "asset"}
        = {y \in Range(s) : y \notin Words /\ y.kind # "asset" /\ ~Provided(y) /\ Handled(y)}
  <2>1. \A y : Handled(y)
    BY <1>1 DEF Handled
  <2>2. QED
    BY <1>8, <2>1
<1>10. unresolved = {token.name : token \in
                {t \in Range(text) : t \notin Words /\ t.kind # "asset"}}
  BY <1>2, <1>4, <1>9 DEF Unresolved
<1>11. QED
  BY <1>7, <1>10

\* Where the values hold no placeholders and bring nothing of the text along, the passes
\* come to the same as the replacement of every placeholder by its meaning, all at once.
THEOREM FlatIsParallelTheorem == ResolutionSpec => []FlatIsParallel
<1>0. AssetAssumptions
  BY InputAssumption, WordsAssumption, NoneAssumption DEF AssetAssumptions
<1> DEFINE Kept == SelfContainedValues => AssetTyped /\ FlatSoFar
<1>1. ResolutionInit => Kept
  BY <1>0, NothingLostInit, FlatSoFarInit DEF NothingLost
<1>2. Kept /\ [ResolutionNext]_resolution => Kept'
  BY <1>0, InputStays, AssetTypedNext, FlatSoFarNext
<1>3. Kept => FlatIsParallel
  BY <1>0, FlatSoFarIsEnough
<1> HIDE DEF Kept
<1>4. QED
  BY <1>1, <1>2, <1>3, PTL DEF ResolutionSpec
===============================================================================
