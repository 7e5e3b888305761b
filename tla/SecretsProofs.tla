---------------------------- MODULE SecretsProofs ----------------------------
(***************************************************************************)
(* Proofs about replacement and redaction, for every list of secrets and   *)
(* every text, however long: replacing one sentinel after the other is     *)
(* replacing all at once, and a redacted text has none of the values.      *)
(***************************************************************************)
EXTENDS Secrets, SequenceTheorems, WellFoundedInduction, TLAPS

-----------------------------------------------------------------------------
(* Induction.                                                              *)

\* A non-empty set of naturals has a least element.
LEMMA LeastNatural ==
  ASSUME NEW T, T \subseteq Nat, T # {}
  PROVE  \E x \in T : \A y \in T : x <= y
<1> DEFINE R == {ss \in Nat \X Nat : ss[1] < ss[2]}
<1>1. IsWellFoundedOn(R, Nat)
  BY NatLessThanWellFounded, Zenon DEF OpToRel
<1> HIDE DEF R
<1>2. PICK x \in T : \A y \in T : ~ (<<y, x>> \in R)
  BY <1>1, WFMin, Zenon
<1>3. \A y \in T : ~ (y < x)
  BY <1>2 DEF R
<1> QED
  BY <1>3

\* From the end of a text to its start: a set that has a position whenever it has
\* all later ones has them all.
LEMMA Backwards ==
  ASSUME NEW L \in Nat, NEW Good,
         \A i \in 1 .. L + 1 : (\A j \in i + 1 .. L + 1 : j \in Good) => i \in Good
  PROVE  \A i \in 1 .. L + 1 : i \in Good
<1> DEFINE Bad == {n \in 0 .. L : L + 1 - n \notin Good}
<1> SUFFICES ASSUME Bad # {} PROVE FALSE
  <2>1. ASSUME NEW i \in 1 .. L + 1, Bad = {} PROVE i \in Good
    <3>1. L + 1 - i \in 0 .. L /\ L + 1 - (L + 1 - i) = i
      OBVIOUS
    <3> QED BY <2>1, <3>1
  <2> QED BY <2>1
<1>1. PICK n \in Bad : \A m \in Bad : n <= m
  <2>1. Bad \subseteq Nat
    OBVIOUS
  <2> QED BY <2>1, LeastNatural
<1>2. ASSUME NEW j \in L + 1 - n + 1 .. L + 1 PROVE j \in Good
  <2>1. L + 1 - j \in 0 .. L /\ L + 1 - j < n /\ L + 1 - (L + 1 - j) = j
    OBVIOUS
  <2> QED BY <1>1, <2>1
<1>3. L + 1 - n \in 1 .. L + 1 /\ L + 1 - n \notin Good
  OBVIOUS
<1> QED BY <1>2, <1>3

\* And from the start of a list to its end.
LEMMA Forwards ==
  ASSUME NEW N \in Nat, NEW Good, 0 \in Good, \A n \in 1 .. N : n - 1 \in Good => n \in Good
  PROVE  \A n \in 0 .. N : n \in Good
<1> DEFINE Bad == {n \in 0 .. N : n \notin Good}
<1> SUFFICES ASSUME Bad # {} PROVE FALSE
  OBVIOUS
<1>1. PICK n \in Bad : \A m \in Bad : n <= m
  <2>1. Bad \subseteq Nat
    OBVIOUS
  <2> QED BY <2>1, LeastNatural
<1>2. n \in 1 .. N /\ n - 1 \in 0 .. N /\ n - 1 \notin Bad
  BY <1>1
<1> QED BY <1>1, <1>2

-----------------------------------------------------------------------------
(* Texts.                                                                  *)

\* The library's facts about sequences, of texts.
LEMMA TextFacts ==
  /\ << >> \in Text
  /\ \A t \in Text :
       /\ Len(t) \in Nat /\ (t = << >> <=> Len(t) = 0)
       /\ t \o << >> = t /\ << >> \o t = t
       /\ \A i \in 1 .. Len(t) : t[i] \in Token
  /\ \A x \in Token : <<x>> \in Text /\ Len(<<x>>) = 1 /\ <<x>>[1] = x
  BY EmptySeq, LenProperties, ConcatEmptySeq, ElementOfSeq DEF Text

\* What a text followed by a text is.
LEMMA Concat ==
  ASSUME NEW s \in Text, NEW t \in Text
  PROVE  /\ s \o t \in Text
         /\ Len(s \o t) = Len(s) + Len(t)
         /\ \A i \in 1 .. Len(s) : (s \o t)[i] = s[i]
         /\ \A i \in 1 .. Len(t) : (s \o t)[Len(s) + i] = t[i]
<1>1. Len(s) \in Nat /\ Len(t) \in Nat
  BY TextFacts
<1>2. /\ s \o t \in Text
      /\ Len(s \o t) = Len(s) + Len(t)
      /\ \A i \in 1 .. Len(s) + Len(t) :
           (s \o t)[i] = IF i <= Len(s) THEN s[i] ELSE t[i - Len(s)]
  BY ConcatProperties DEF Text
<1>3. ASSUME NEW i \in 1 .. Len(t) PROVE (s \o t)[Len(s) + i] = t[i]
  <2>1. /\ Len(s) + i \in 1 .. Len(s) + Len(t) /\ ~(Len(s) + i <= Len(s))
        /\ Len(s) + i - Len(s) = i
    BY <1>1
  <2> QED BY <1>2, <2>1
<1>4. ASSUME NEW i \in 1 .. Len(s) PROVE (s \o t)[i] = s[i]
  <2>1. i \in 1 .. Len(s) + Len(t) /\ i <= Len(s)
    BY <1>1
  <2> QED BY <1>2, <2>1
<1> QED BY <1>2, <1>3, <1>4

\* In which order texts are joined makes no difference.
LEMMA Associative ==
  ASSUME NEW s \in Text, NEW t \in Text, NEW u \in Text
  PROVE  (s \o t) \o u = s \o (t \o u)
  BY ConcatAssociative DEF Text

-----------------------------------------------------------------------------
(* Occurrences.                                                            *)

\* s occurs in t at position i, token by token.
startsAt(s, t, i) == \A m \in 1 .. Len(s) : i + m - 1 \in 1 .. Len(t) /\ t[i + m - 1] = s[m]

\* This is what occursAt says.
LEMMA OccursAt ==
  ASSUME NEW s \in Text, NEW t \in Text, NEW i \in 1 .. Len(t)
  PROVE  occursAt(s, t, i) <=> startsAt(s, t, i)
<1> USE DEF Text
<1>1. Len(s) \in Nat /\ Len(t) \in Nat
  BY LenProperties
<1>2. CASE i + Len(s) - 1 <= Len(t)
  <2> DEFINE u == SubSeq(t, i, i + Len(s) - 1)
  <2>1. \A k \in i .. i + Len(s) - 1 : t[k] \in Token
    BY <1>1, <1>2, ElementOfSeq
  <2>2. /\ u \in Seq(Token)
        /\ Len(u) = Len(s)
        /\ \A m \in 1 .. Len(s) : u[m] = t[i + m - 1]
    BY <1>1, <2>1, SubSeqProperties
  <2> HIDE DEF u
  <2>3. u = s <=> \A m \in 1 .. Len(s) : t[i + m - 1] = s[m]
    BY <2>2, SeqEqual
  <2>4. \A m \in 1 .. Len(s) : i + m - 1 \in 1 .. Len(t)
    BY <1>1, <1>2
  <2> QED BY <1>2, <2>3, <2>4 DEF occursAt, startsAt, u
<1>3. CASE ~(i + Len(s) - 1 <= Len(t))
  <2>1. Len(s) \in 1 .. Len(s) /\ i + Len(s) - 1 \notin 1 .. Len(t)
    BY <1>1, <1>3
  <2> QED BY <1>3, <2>1 DEF occursAt, startsAt
<1> QED BY <1>2, <1>3

\* Two texts that are laid over each other so that they share a position, and agree
\* where both are, overlap: here t begins after d tokens of s.
LEMMA MeetRight ==
  ASSUME NEW s \in Text, NEW t \in Text, NEW d \in Nat, d < Len(s), Len(t) > 0,
         \A p \in 1 .. Len(s) : p - d \in 1 .. Len(t) => s[p] = t[p - d]
  PROVE  overlap(s, t) \/ overlap(t, s)
<1> USE DEF Text
<1>1. Len(s) \in Nat /\ Len(t) \in Nat
  BY LenProperties
<1>2. CASE d + Len(t) <= Len(s)
  <2>1. d + 1 \in 1 .. Len(s) /\ startsAt(t, s, d + 1)
    <3>1. ASSUME NEW m \in 1 .. Len(t)
          PROVE  d + 1 + m - 1 \in 1 .. Len(s) /\ s[d + 1 + m - 1] = t[m]
      <4>1. d + m \in 1 .. Len(s) /\ d + m - d = m /\ d + 1 + m - 1 = d + m
        BY <1>1, <1>2
      <4> QED BY <4>1
    <3> QED BY <1>1, <3>1 DEF startsAt
  <2> QED BY <2>1, OccursAt DEF overlap, occursIn
<1>3. CASE d + Len(t) > Len(s) /\ d = 0
  <2>1. 1 \in 1 .. Len(t) /\ startsAt(s, t, 1)
    <3>1. ASSUME NEW m \in 1 .. Len(s) PROVE 1 + m - 1 \in 1 .. Len(t) /\ t[1 + m - 1] = s[m]
      <4>1. m - d \in 1 .. Len(t) /\ 1 + m - 1 = m /\ m - d = m
        BY <1>1, <1>3
      <4> QED BY <4>1
    <3> QED BY <1>1, <3>1 DEF startsAt
  <2> QED BY <2>1, OccursAt DEF overlap, occursIn
<1>4. CASE d + Len(t) > Len(s) /\ d > 0
  <2> DEFINE u == SubSeq(s, d + 1, Len(s))
             N == Len(s) - d
  <2>1. \A k \in d + 1 .. Len(s) : s[k] \in Token
    BY <1>1, ElementOfSeq
  <2>2. /\ u \in Seq(Token) /\ Len(u) = N
        /\ \A m \in 1 .. N : u[m] = s[d + m]
    BY <1>1, <2>1, SubSeqProperties
  <2>3. N \in Nat /\ N <= Len(t)
    BY <1>1, <1>4
  <2>4. \A m \in 1 .. N : s[d + m] = t[m]
    <3>1. ASSUME NEW m \in 1 .. N PROVE s[d + m] = t[m]
      <4>1. d + m \in 1 .. Len(s) /\ d + m - d = m /\ m \in 1 .. Len(t)
        BY <1>1, <2>3
      <4> QED BY <4>1
    <3> QED BY <3>1
  <2> HIDE DEF u, N
  <2>5. SubSeq(u, 1, N) = u
    BY <2>2, SubSeqFull
  <2>6. SubSeq(t, 1, N) = u
    <3>1. \A k \in 1 .. N : t[k] \in Token
      BY <1>1, <2>3, ElementOfSeq
    <3>2. /\ SubSeq(t, 1, N) \in Seq(Token) /\ Len(SubSeq(t, 1, N)) = N
          /\ \A m \in 1 .. N : SubSeq(t, 1, N)[m] = t[m]
      BY <2>3, <3>1, SubSeqProperties
    <3> QED BY <2>2, <2>4, <3>2, SeqEqual
  <2>7. IsPrefix(u, t)
    BY <2>2, <2>3, <2>5, <2>6 DEF IsPrefix
  <2>8. d \in 1 .. Len(s) - 1
    BY <1>1, <1>4
  <2> QED BY <2>7, <2>8 DEF overlap, u
<1> QED BY <1>1, <1>2, <1>3, <1>4

\* So texts that are apart never share a position, wherever t is put.
LEMMA Meet ==
  ASSUME NEW s \in Text, NEW t \in Text, apart(s, t),
         NEW d \in Int, NEW q \in 1 .. Len(s), q - d \in 1 .. Len(t)
  PROVE  \E p \in 1 .. Len(s) : p - d \in 1 .. Len(t) /\ s[p] # t[p - d]
<1> SUFFICES ASSUME \A p \in 1 .. Len(s) : p - d \in 1 .. Len(t) => s[p] = t[p - d]
             PROVE  FALSE
  OBVIOUS
<1>1. Len(s) \in Nat /\ Len(t) \in Nat
  BY LenProperties DEF Text
<1>2. CASE d >= 0
  <2>1. d \in Nat /\ d < Len(s) /\ Len(t) > 0
    BY <1>1, <1>2
  <2> QED BY <2>1, MeetRight DEF apart
<1>3. CASE d < 0
  <2>1. -d \in Nat /\ -d < Len(t) /\ Len(s) > 0
    BY <1>1, <1>3
  <2>2. ASSUME NEW p \in 1 .. Len(t), p - (-d) \in 1 .. Len(s) PROVE t[p] = s[p - (-d)]
    <3>1. p - (-d) - d = p
      BY <1>1
    <3> QED BY <2>2, <3>1
  <2> QED BY <2>1, <2>2, MeetRight DEF apart
<1> QED BY <1>2, <1>3

-----------------------------------------------------------------------------
(* What rewrite computes.                                                  *)

Piece == [length : Nat \ {0}, by : Text]

\* What can be done at each position of t.
Picks(t) ==
  {p \in [1 .. Len(t) -> Piece] : \A i \in 1 .. Len(t) : i + p[i].length <= Len(t) + 1}

\* F[i] is what becomes of t from position i on.
IsRun(F, t, p) ==
  /\ F \in [1 .. Len(t) + 1 -> Text]
  /\ F[Len(t) + 1] = << >>
  /\ \A i \in 1 .. Len(t) : F[i] = p[i].by \o F[i + p[i].length]

\* There is such a function, built from the end.
LEMMA RunExists ==
  ASSUME NEW t \in Text, NEW p \in Picks(t)
  PROVE  \E F : IsRun(F, t, p)
<1> DEFINE L == Len(t)
           by(i) == p[i].by
           next(i) == i + p[i].length
           Run(F, i) == F[L + 1] = << >> /\ \A k \in i .. L : F[k] = by(k) \o F[next(k)]
           Good == {i \in 1 .. L + 1 : \E F \in [i .. L + 1 -> Text] : Run(F, i)}
<1>1. L \in Nat
  BY LenProperties DEF Text
<1>2. \A i \in 1 .. L : by(i) \in Text /\ next(i) \in i + 1 .. L + 1
  <2>1. ASSUME NEW i \in 1 .. L
        PROVE  p[i].by \in Text /\ p[i].length \in Nat \ {0} /\ i + p[i].length <= L + 1
    BY DEF Picks, Piece
  <2> QED BY <1>1, <2>1
<1>3. << >> \in Text /\ \A u, w \in Text : u \o w \in Text
  BY EmptySeq, ConcatProperties DEF Text
<1> HIDE DEF L, by, next
<1>4. L + 1 \in Good
  <2> DEFINE F == [k \in L + 1 .. L + 1 |-> << >>]
  <2>1. F \in [L + 1 .. L + 1 -> Text] /\ F[L + 1] = << >>
    BY <1>1, <1>3
  <2>2. Run(F, L + 1)
    BY <1>1, <2>1
  <2>3. \E G \in [L + 1 .. L + 1 -> Text] : Run(G, L + 1)
    <3> HIDE DEF F, Run
    <3> QED BY <2>1, <2>2
  <2> QED BY <1>1, <2>3
<1>5. ASSUME NEW i \in 1 .. L, i + 1 \in Good PROVE i \in Good
  <2>1. PICK F \in [i + 1 .. L + 1 -> Text] : Run(F, i + 1)
    BY <1>5
  <2> DEFINE G == [k \in i .. L + 1 |-> IF k = i THEN by(i) \o F[next(i)] ELSE F[k]]
  <2>2. by(i) \o F[next(i)] \in Text
    BY <1>1, <1>2, <1>3
  <2>3. G \in [i .. L + 1 -> Text]
    BY <1>1, <2>2
  <2>4. \A k \in i + 1 .. L + 1 : G[k] = F[k]
    BY <1>1
  <2>5. G[i] = by(i) \o F[next(i)]
    BY <1>1
  <2> HIDE DEF G
  <2>6. Run(G, i)
    <3>1. G[L + 1] = << >>
      BY <1>1, <2>1, <2>4
    <3>2. G[i] = by(i) \o G[next(i)]
      BY <1>2, <2>4, <2>5
    <3>3. ASSUME NEW k \in i + 1 .. L PROVE G[k] = by(k) \o G[next(k)]
      <4>1. k \in 1 .. L /\ next(k) \in i + 1 .. L + 1 /\ k \in i + 1 .. L + 1
        BY <1>1, <1>2
      <4>2. F[k] = by(k) \o F[next(k)]
        BY <2>1
      <4> QED BY <2>4, <4>1, <4>2
    <3>4. ASSUME NEW k \in i .. L PROVE k = i \/ k \in i + 1 .. L
      BY <1>1
    <3> QED BY <3>1, <3>2, <3>3, <3>4
  <2>7. \E H \in [i .. L + 1 -> Text] : Run(H, i)
    <3> HIDE DEF Run
    <3> QED BY <2>3, <2>6
  <2>8. i \in 1 .. L + 1
    BY <1>1
  <2> HIDE DEF Run
  <2> QED BY <2>7, <2>8
<1>6. 1 \in Good
  <2> HIDE DEF Good
  <2>1. ASSUME NEW i \in 1 .. L + 1, \A j \in i + 1 .. L + 1 : j \in Good PROVE i \in Good
    <3>1. i = L + 1 \/ (i \in 1 .. L /\ i + 1 \in i + 1 .. L + 1)
      BY <1>1
    <3> QED BY <1>4, <1>5, <2>1, <3>1
  <2>2. \A i \in 1 .. L + 1 : i \in Good
    BY <1>1, <2>1, Backwards
  <2> QED BY <1>1, <2>2
<1>7. PICK F \in [1 .. L + 1 -> Text] : Run(F, 1)
  BY <1>6
<1>8. IsRun(F, t, p)
  BY <1>7 DEF IsRun, L, by, next
<1> QED BY <1>8

\* And rewrite is what it gives for the whole text.
LEMMA RewriteRuns ==
  ASSUME NEW t \in Text, NEW p \in Picks(t)
  PROVE  \E F : IsRun(F, t, p) /\ rewrite(t, p) = F[1]
<1> DEFINE L == Len(t)
           Def(f) == [i \in 1 .. L + 1 |-> IF i > L THEN << >> ELSE p[i].by \o f[i + p[i].length]]
           G == CHOOSE f : f = Def(f)
<1>1. L \in Nat
  BY LenProperties DEF Text
<1>2. PICK F : IsRun(F, t, p)
  BY RunExists
<1>3. F = Def(F)
  <2>1. ASSUME NEW i \in 1 .. L + 1
        PROVE  F[i] = IF i > L THEN << >> ELSE p[i].by \o F[i + p[i].length]
    <3>1. CASE i > L
      <4>1. i = L + 1
        BY <1>1, <3>1
      <4> QED BY <1>2, <3>1, <4>1 DEF IsRun
    <3>2. CASE ~(i > L)
      <4>1. i \in 1 .. L
        BY <1>1, <3>2
      <4> QED BY <1>2, <3>2, <4>1 DEF IsRun
    <3> QED BY <3>1, <3>2
  <2> QED BY <1>2, <2>1 DEF IsRun
<1>4. G = Def(G)
  BY <1>3, Zenon
<1>5. rewrite(t, p) = G[1]
  BY DEF rewrite
<1> HIDE DEF G
<1>6. /\ G[L + 1] = << >>
      /\ \A i \in 1 .. L : G[i] = p[i].by \o G[i + p[i].length]
  <2>1. L + 1 \in 1 .. L + 1 /\ L + 1 > L
    BY <1>1
  <2>2. G[L + 1] = << >>
    BY <1>4, <2>1
  <2>3. ASSUME NEW i \in 1 .. L PROVE G[i] = p[i].by \o G[i + p[i].length]
    <3>1. i \in 1 .. L + 1 /\ ~(i > L)
      BY <1>1
    <3> QED BY <1>4, <3>1
  <2> QED BY <2>2, <2>3
<1>7. \A i \in 1 .. L + 1 : G[i] \in Text
  <2> DEFINE Good == {i \in 1 .. L + 1 : G[i] \in Text}
  <2>1. ASSUME NEW i \in 1 .. L + 1, \A j \in i + 1 .. L + 1 : j \in Good PROVE i \in Good
    <3>1. CASE i = L + 1
      <4>1. << >> \in Text
        BY EmptySeq DEF Text
      <4> QED BY <1>6, <3>1, <4>1
    <3>2. CASE i \in 1 .. L
      <4>1. p[i].by \in Text /\ i + p[i].length \in i + 1 .. L + 1
        BY <1>1, <3>2 DEF Picks, Piece
      <4>2. G[i + p[i].length] \in Text
        BY <2>1, <4>1
      <4>3. p[i].by \o G[i + p[i].length] \in Text
        BY <4>1, <4>2, ConcatProperties DEF Text
      <4> QED BY <1>6, <3>2, <4>3
    <3> QED BY <1>1, <3>1, <3>2
  <2> HIDE DEF Good
  <2>2. \A i \in 1 .. L + 1 : i \in Good
    BY <1>1, <2>1, Backwards
  <2> QED BY <2>2 DEF Good
<1>8. G \in [1 .. L + 1 -> Text]
  <2>1. G = [i \in 1 .. L + 1 |-> G[i]]
    BY <1>4
  <2> QED BY <1>7, <2>1
<1>9. IsRun(G, t, p)
  BY <1>6, <1>8 DEF IsRun
<1> QED BY <1>5, <1>9

\* Two texts of which the second is the end of the first, and which are treated
\* alike there, become the same from there on.
LEMMA SameEnd ==
  ASSUME NEW u \in Text, NEW w \in Text, NEW n \in Nat, Len(u) = n + Len(w),
         NEW p \in Picks(u), NEW q \in Picks(w), \A k \in 1 .. Len(w) : p[n + k] = q[k],
         NEW F, IsRun(F, u, p), NEW G, IsRun(G, w, q)
  PROVE  F[n + 1] = G[1]
<1> DEFINE L == Len(w)
           Good == {k \in 1 .. L + 1 : F[n + k] = G[k]}
<1>1. L \in Nat /\ Len(u) \in Nat
  BY LenProperties DEF Text
<1>2. ASSUME NEW k \in 1 .. L + 1, \A j \in k + 1 .. L + 1 : j \in Good PROVE k \in Good
  <2>1. CASE k = L + 1
    <3>1. n + k = Len(u) + 1
      BY <1>1, <2>1
    <3> QED BY <2>1, <3>1 DEF IsRun
  <2>2. CASE k \in 1 .. L
    <3>1. n + k \in 1 .. Len(u)
      BY <1>1, <2>2
    <3>2. q[k].length \in Nat \ {0} /\ k + q[k].length <= L + 1
      BY <2>2 DEF Picks, Piece
    <3>3. k + q[k].length \in k + 1 .. L + 1 /\ n + k + q[k].length = n + (k + q[k].length)
      BY <1>1, <2>2, <3>2
    <3>4. F[n + k] = q[k].by \o F[n + (k + q[k].length)]
      BY <2>2, <3>1, <3>3 DEF IsRun
    <3>5. G[k] = q[k].by \o G[k + q[k].length]
      BY <2>2 DEF IsRun
    <3>6. F[n + (k + q[k].length)] = G[k + q[k].length]
      BY <1>2, <3>3
    <3> QED BY <2>2, <3>4, <3>5, <3>6
  <2> QED BY <1>1, <2>1, <2>2
<1> HIDE DEF Good
<1>3. \A k \in 1 .. L + 1 : k \in Good
  BY <1>1, <1>2, Backwards
<1> QED BY <1>1, <1>3 DEF Good

\* What is kept is one token.
LEMMA KeptPiece == \A t, i : kept(t, i).length = 1 /\ kept(t, i).by = <<t[i]>>
  BY DEF kept

\* What is kept from i up to j stays.
LEMMA KeptRun ==
  ASSUME NEW t \in Text, NEW p \in Picks(t), NEW F, IsRun(F, t, p), NEW y \in Text,
         NEW i \in 1 .. Len(t) + 1, NEW j \in 1 .. Len(t) + 1, j = i + Len(y),
         \A k \in 1 .. Len(t) : i <= k /\ k < j => p[k] = kept(t, k),
         \A k \in 1 .. Len(y) : y[k] = t[i + k - 1]
  PROVE  F[i] = y \o F[j]
<1> DEFINE L == Len(t)
           Good == {n \in 0 .. Len(y) : \A x \in Text :
                      Len(x) = n /\ (\A k \in 1 .. n : x[k] = y[k]) => F[i] = x \o F[i + n]}
<1>1. L \in Nat /\ Len(y) \in Nat
  BY TextFacts
<1>2. \A k \in 1 .. L + 1 : F[k] \in Text
  BY DEF IsRun
<1>3. 0 \in Good
  <2>1. ASSUME NEW x \in Text, Len(x) = 0 PROVE F[i] = x \o F[i + 0]
    <3>1. x = << >> /\ i + 0 = i
      BY <2>1, TextFacts
    <3> QED BY <1>2, <3>1, TextFacts
  <2>2. 0 \in 0 .. Len(y)
    BY <1>1
  <2> QED BY <2>1, <2>2
<1>4. ASSUME NEW n \in 1 .. Len(y), n - 1 \in Good PROVE n \in Good
  <2>1. PICK k \in 1 .. L : /\ k = i + n - 1 /\ i <= k /\ k < j /\ i + (n - 1) = k
                            /\ k + 1 = i + n /\ k + 1 \in 1 .. L + 1
    BY <1>1
  <2>2. ASSUME NEW x \in Text, Len(x) = n, \A m \in 1 .. n : x[m] = y[m]
        PROVE  F[i] = x \o F[k + 1]
    <3>1. PICK z \in Text : z = <<t[k]>> /\ Len(z) = 1 /\ z[1] = t[k]
      BY <2>1, TextFacts
    <3>2. PICK w \in Text : Len(w) = n - 1 /\ \A m \in 1 .. n - 1 : w[m] = x[m]
      <4>1. PICK m \in Nat : m = n - 1
        BY <1>1
      <4>2. \A l \in 1 .. m : x[l] \in Token
        BY <1>1, <2>2, <4>1, TextFacts
      <4>3. PICK w : w = [l \in 1 .. m |-> x[l]]
        OBVIOUS
      <4>4. w \in Seq(Token) /\ Len(w) = m
        BY <4>1, <4>2, <4>3
      <4> QED BY <4>1, <4>3, <4>4 DEF Text
    <3>3. \A m \in 1 .. n - 1 : w[m] = y[m]
      BY <1>1, <2>2, <3>2
    <3>4. F[i] = w \o F[k]
      BY <1>4, <2>1, <3>2, <3>3
    <3>5. F[k] = z \o F[k + 1]
      <4>1. p[k] = kept(t, k)
        BY <2>1
      <4>2. F[k] = p[k].by \o F[k + p[k].length]
        BY <2>1 DEF IsRun
      <4>3. p[k].by = z /\ p[k].length = 1
        BY <3>1, <4>1, KeptPiece
      <4> QED BY <4>2, <4>3, Zenon
    <3>6. (w \o z) \o F[k + 1] = w \o (z \o F[k + 1])
      BY <1>2, <2>1, Associative
    <3>7. w \o z = x
      <4>1. PICK v \in Text : /\ v = w \o z /\ Len(v) = Len(w) + Len(z)
                              /\ \A m \in 1 .. Len(w) : v[m] = w[m]
                              /\ v[Len(w) + 1] = z[1]
        <5>1. 1 \in 1 .. Len(z)
          BY <3>1
        <5> QED BY <5>1, Concat
      <4>2. Len(w) + 1 = n /\ n \in 1 .. n
        BY <1>1, <3>2
      <4>3. v[n] = t[k] /\ x[n] = y[n] /\ y[n] = t[k] /\ Len(v) = n
        BY <2>1, <2>2, <3>1, <3>2, <4>1, <4>2
      <4>4. ASSUME NEW m \in 1 .. n PROVE v[m] = x[m]
        <5>1. m = n \/ m \in 1 .. n - 1
          BY <1>1
        <5> QED BY <3>2, <4>1, <4>3, <5>1
      <4>5. v = x
        BY <2>2, <4>3, <4>4, SeqEqual DEF Text
      <4> QED BY <4>1, <4>5
    <3> QED BY <3>4, <3>5, <3>6, <3>7
  <2> QED BY <2>1, <2>2
<1> HIDE DEF Good
<1>5. \A n \in 0 .. Len(y) : n \in Good
  BY <1>1, <1>3, <1>4, Forwards
<1>6. Len(y) \in Good
  BY <1>1, <1>5
<1> QED BY <1>6 DEF Good

-----------------------------------------------------------------------------
(* Where the occurrences in a rewritten text come from.                    *)

\* v without its first m tokens occurs in t at position i.
rest(v, m, t, i) ==
  \A k \in 1 .. Len(v) - m : i + k - 1 \in 1 .. Len(t) /\ t[i + k - 1] = v[m + k]

\* What is kept is K; all that is put in is apart from v.
Separate(t, p, K, v) ==
  \A i \in 1 .. Len(t) :
    IF i \in K THEN p[i] = kept(t, i) ELSE p[i].by # << >> /\ apart(v, p[i].by)

\* The first token of a run, where it is kept, and what follows.
LEMMA RunKept ==
  ASSUME NEW t \in Text, NEW p \in Picks(t), NEW F, IsRun(F, t, p),
         NEW i \in 1 .. Len(t), p[i] = kept(t, i)
  PROVE  /\ i + 1 \in 1 .. Len(t) + 1
         /\ \E y \in Text : /\ y = F[i + 1]
                            /\ Len(F[i]) = 1 + Len(y)
                            /\ F[i][1] = t[i]
                            /\ \A k \in 1 .. Len(y) : F[i][1 + k] = y[k]
<1>1. Len(t) \in Nat /\ t[i] \in Token
  BY TextFacts
<1>2. i + 1 \in 1 .. Len(t) + 1
  BY <1>1
<1>3. F[i] = <<t[i]>> \o F[i + 1]
  <2>1. F[i] = p[i].by \o F[i + p[i].length]
    BY DEF IsRun
  <2> QED BY <2>1, KeptPiece
<1>4. PICK x \in Text : x = <<t[i]>> /\ Len(x) = 1 /\ x[1] = t[i]
  BY <1>1, TextFacts
<1>5. PICK y \in Text : y = F[i + 1]
  BY <1>2 DEF IsRun
<1>6. F[i] = x \o y
  BY <1>3, <1>4, <1>5
<1>7. 1 \in 1 .. Len(x)
  BY <1>4
<1>8. /\ Len(F[i]) = Len(x) + Len(y) /\ F[i][1] = x[1]
      /\ \A k \in 1 .. Len(y) : F[i][Len(x) + k] = y[k]
  BY <1>6, <1>7, Concat
<1> QED BY <1>2, <1>4, <1>5, <1>8

\* What is put in at the start of a run, and what follows.
LEMMA RunPut ==
  ASSUME NEW t \in Text, NEW p \in Picks(t), NEW F, IsRun(F, t, p), NEW i \in 1 .. Len(t)
  PROVE  /\ i + p[i].length \in i + 1 .. Len(t) + 1
         /\ \E x, y \in Text : /\ x = p[i].by
                               /\ y = F[i + p[i].length]
                               /\ F[i] = x \o y
                               /\ Len(F[i]) = Len(x) + Len(y)
                               /\ \A k \in 1 .. Len(x) : F[i][k] = x[k]
                               /\ \A k \in 1 .. Len(y) : F[i][Len(x) + k] = y[k]
<1>1. Len(t) \in Nat
  BY TextFacts
<1>2. p[i].by \in Text /\ p[i].length \in Nat \ {0} /\ i + p[i].length <= Len(t) + 1
  BY DEF Picks, Piece
<1>3. i + p[i].length \in i + 1 .. Len(t) + 1 /\ i + p[i].length \in 1 .. Len(t) + 1
  BY <1>1, <1>2
<1>4. PICK x \in Text : x = p[i].by
  BY <1>2
<1>5. PICK y \in Text : y = F[i + p[i].length]
  BY <1>3 DEF IsRun
<1>6. F[i] = x \o y
  BY <1>4, <1>5 DEF IsRun
<1>7. /\ Len(F[i]) = Len(x) + Len(y)
      /\ \A k \in 1 .. Len(x) : F[i][k] = x[k]
      /\ \A k \in 1 .. Len(y) : F[i][Len(x) + k] = y[k]
  BY <1>6, Concat
<1> QED BY <1>3, <1>4, <1>5, <1>6, <1>7

\* The rest of v can only be at the start of a run where it is in the text.
LEMMA RestKept ==
  ASSUME NEW t \in Text, NEW p \in Picks(t), NEW F, IsRun(F, t, p),
         NEW K, NEW v \in Text, Separate(t, p, K, v)
  PROVE  \A i \in 1 .. Len(t) + 1, m \in 1 .. Len(v) : rest(v, m, F[i], 1) => rest(v, m, t, i)
<1> DEFINE L == Len(t)
           Good == {i \in 1 .. L + 1 :
                      \A m \in 1 .. Len(v) : rest(v, m, F[i], 1) => rest(v, m, t, i)}
<1>1. L \in Nat /\ Len(v) \in Nat
  BY TextFacts
<1>2. ASSUME NEW i \in 1 .. L + 1, \A j \in i + 1 .. L + 1 : j \in Good PROVE i \in Good
  <2> SUFFICES ASSUME NEW m \in 1 .. Len(v), rest(v, m, F[i], 1) PROVE rest(v, m, t, i)
    OBVIOUS
  <2>1. CASE m = Len(v)
    BY <1>1, <2>1 DEF rest
  <2>2. CASE m # Len(v)
    <3>1. 1 \in 1 .. Len(v) - m /\ m + 1 \in 1 .. Len(v)
      BY <1>1, <2>2
    <3>2. 1 + 1 - 1 \in 1 .. Len(F[i]) /\ F[i][1 + 1 - 1] = v[m + 1]
      BY <3>1 DEF rest
    <3>3. i \in 1 .. L
      <4>1. ASSUME i = L + 1 PROVE FALSE
        <5>1. Len(F[i]) = 0
          BY <4>1, TextFacts DEF IsRun
        <5> QED BY <3>2, <5>1
      <4> QED BY <1>1, <4>1
    <3>4. CASE i \in K
      <4>1. p[i] = kept(t, i)
        BY <3>3, <3>4 DEF Separate
      <4>2. /\ i + 1 \in 1 .. L + 1 /\ Len(F[i]) = 1 + Len(F[i + 1]) /\ F[i][1] = t[i]
            /\ \A k \in 1 .. Len(F[i + 1]) : F[i][1 + k] = F[i + 1][k]
        <5>1. i \in 1 .. Len(t)
          BY <3>3
        <5> QED BY <4>1, <5>1, RunKept
      <4>3. Len(F[i + 1]) \in Nat
        BY <4>2, TextFacts DEF IsRun
      <4>4. rest(v, m + 1, F[i + 1], 1)
        <5>1. ASSUME NEW k \in 1 .. Len(v) - (m + 1)
              PROVE  1 + k - 1 \in 1 .. Len(F[i + 1]) /\ F[i + 1][1 + k - 1] = v[m + 1 + k]
          <6>1. k + 1 \in 1 .. Len(v) - m
            BY <1>1
          <6>2. 1 + (k + 1) - 1 \in 1 .. Len(F[i]) /\ F[i][1 + (k + 1) - 1] = v[m + (k + 1)]
            BY <6>1 DEF rest
          <6>3. /\ 1 + (k + 1) - 1 = 1 + k /\ m + (k + 1) = m + 1 + k
                /\ 1 + k - 1 = k /\ k \in Nat \ {0}
            BY <1>1
          <6>4. k \in 1 .. Len(F[i + 1])
            <7>1. 1 + k \in 1 .. Len(F[i]) /\ k \in Nat \ {0}
              BY <6>2, <6>3
            <7>2. Len(F[i]) = 1 + Len(F[i + 1])
              BY <4>2
            <7> QED BY <4>3, <7>1, <7>2
          <6> QED BY <4>2, <6>2, <6>3, <6>4
        <5> QED BY <5>1 DEF rest
      <4>5. rest(v, m + 1, t, i + 1)
        <5>1. i + 1 \in i + 1 .. L + 1
          BY <4>2
        <5>2. i + 1 \in Good
          BY <1>2, <5>1
        <5> QED BY <3>1, <4>4, <5>2
      <4>6. ASSUME NEW k \in 1 .. Len(v) - m PROVE i + k - 1 \in 1 .. L /\ t[i + k - 1] = v[m + k]
        <5>1. CASE k = 1
          <6>1. i + k - 1 = i /\ 1 + 1 - 1 = 1
            BY <5>1
          <6> QED BY <3>2, <3>3, <4>2, <5>1, <6>1
        <5>2. CASE k # 1
          <6>1. PICK l \in 1 .. Len(v) - (m + 1) : l + 1 = k
            <7>1. k - 1 \in 1 .. Len(v) - (m + 1) /\ k - 1 + 1 = k
              BY <1>1, <5>2
            <7> QED BY <7>1
          <6>2. i + 1 + l - 1 = i + k - 1 /\ m + 1 + l = m + k
            BY <1>1, <6>1
          <6> QED BY <4>5, <6>1, <6>2 DEF rest
        <5> QED BY <5>1, <5>2
      <4> QED BY <4>6 DEF rest
    <3>5. CASE i \notin K
      <4>1. PICK x, y \in Text : x = p[i].by /\ \A k \in 1 .. Len(x) : F[i][k] = x[k]
        BY <3>3, RunPut
      <4>2. x # << >> /\ apart(v, x)
        BY <3>3, <3>5, <4>1 DEF Separate
      <4>3. m + 1 \in 1 .. Len(v) /\ m + 1 - m \in 1 .. Len(x) /\ m \in Int
        <5>1. Len(x) \in Nat /\ Len(x) # 0
          BY <4>2, TextFacts
        <5> QED BY <1>1, <3>1, <5>1
      <4>4. PICK q \in 1 .. Len(v) : q - m \in 1 .. Len(x) /\ v[q] # x[q - m]
        BY <4>2, <4>3, Meet
      <4>5. q - m \in 1 .. Len(v) - m /\ 1 + (q - m) - 1 = q - m /\ m + (q - m) = q
        BY <1>1, <4>4
      <4>6. F[i][q - m] = v[q]
        BY <4>5 DEF rest
      <4> QED BY <4>1, <4>4, <4>6
    <3> QED BY <3>4, <3>5
  <2> QED BY <2>1, <2>2
<1> HIDE DEF Good
<1>3. \A i \in 1 .. L + 1 : i \in Good
  BY <1>1, <1>2, Backwards
<1> QED BY <1>3 DEF Good

\* So where a token is kept, v is there afterwards only if it was there before.
LEMMA StartKept ==
  ASSUME NEW t \in Text, NEW p \in Picks(t), NEW F, IsRun(F, t, p),
         NEW K, NEW v \in Text, v # << >>, Separate(t, p, K, v),
         NEW i \in 1 .. Len(t), i \in K, startsAt(v, F[i], 1)
  PROVE  startsAt(v, t, i)
<1>1. Len(t) \in Nat /\ Len(v) \in Nat /\ Len(v) # 0
  BY TextFacts
<1>2. p[i] = kept(t, i)
  BY DEF Separate
<1>3. PICK y \in Text : /\ y = F[i + 1] /\ Len(F[i]) = 1 + Len(y) /\ F[i][1] = t[i]
                        /\ \A k \in 1 .. Len(y) : F[i][1 + k] = y[k]
  BY <1>2, RunKept
<1>4. Len(y) \in Nat
  BY TextFacts
<1>5. rest(v, 1, y, 1)
  <2>1. ASSUME NEW k \in 1 .. Len(v) - 1 PROVE 1 + k - 1 \in 1 .. Len(y) /\ y[1 + k - 1] = v[1 + k]
    <3>1. 1 + k \in 1 .. Len(v) /\ 1 + (1 + k) - 1 = 1 + k /\ 1 + k - 1 = k
      BY <1>1
    <3>2. 1 + k \in 1 .. Len(F[i]) /\ F[i][1 + k] = v[1 + k]
      BY <3>1 DEF startsAt
    <3>3. k \in 1 .. Len(y)
      BY <1>3, <1>4, <3>2
    <3> QED BY <1>3, <3>1, <3>2, <3>3
  <2> QED BY <2>1 DEF rest
<1>6. rest(v, 1, t, i + 1)
  <2>1. i + 1 \in 1 .. Len(t) + 1 /\ 1 \in 1 .. Len(v)
    BY <1>1
  <2> QED BY <1>3, <1>5, <2>1, RestKept
<1>7. ASSUME NEW m \in 1 .. Len(v) PROVE i + m - 1 \in 1 .. Len(t) /\ t[i + m - 1] = v[m]
  <2>1. CASE m = 1
    <3>1. i + m - 1 = i /\ 1 + m - 1 = 1
      BY <2>1
    <3> QED BY <1>3, <2>1, <3>1 DEF startsAt
  <2>2. CASE m # 1
    <3>1. PICK k \in 1 .. Len(v) - 1 : 1 + k = m
      <4>1. m - 1 \in 1 .. Len(v) - 1 /\ 1 + (m - 1) = m
        BY <1>1, <2>2
      <4> QED BY <4>1
    <3>2. i + 1 + k - 1 = i + m - 1
      BY <1>1, <3>1
    <3> QED BY <1>6, <3>1, <3>2 DEF rest
  <2> QED BY <2>1, <2>2
<1> QED BY <1>7 DEF startsAt

\* And every occurrence of v in what becomes of the text was there before, and starts
\* with a token that was kept.
LEMMA OccurrenceKept ==
  ASSUME NEW t \in Text, NEW p \in Picks(t), NEW F, IsRun(F, t, p),
         NEW K, NEW v \in Text, v # << >>, Separate(t, p, K, v),
         NEW n \in 1 .. Len(F[1]), startsAt(v, F[1], n)
  PROVE  \E k \in 1 .. Len(t) : k \in K /\ startsAt(v, t, k)
<1> DEFINE L == Len(t)
           Before == \E k \in 1 .. L : k \in K /\ startsAt(v, t, k)
           Good == {i \in 1 .. L + 1 : \A j \in 1 .. Len(F[i]) : startsAt(v, F[i], j) => Before}
<1>1. L \in Nat /\ Len(v) \in Nat /\ Len(v) # 0
  BY TextFacts
\* An occurrence in the end y of x \o y.
<1>2. ASSUME NEW x \in Text, NEW y \in Text, NEW u, Len(u) = Len(x) + Len(y),
             \A k \in 1 .. Len(y) : u[Len(x) + k] = y[k],
             NEW j \in 1 .. Len(u), j > Len(x), startsAt(v, u, j)
      PROVE  j - Len(x) \in 1 .. Len(y) /\ startsAt(v, y, j - Len(x))
  <2>1. Len(x) \in Nat /\ Len(y) \in Nat
    BY TextFacts
  <2>2. ASSUME NEW m \in 1 .. Len(v)
        PROVE  j - Len(x) + m - 1 \in 1 .. Len(y) /\ y[j - Len(x) + m - 1] = v[m]
    <3>1. j + m - 1 \in 1 .. Len(u) /\ u[j + m - 1] = v[m]
      BY <1>2 DEF startsAt
    <3>2. PICK k \in 1 .. Len(y) : k = j - Len(x) + m - 1 /\ Len(x) + k = j + m - 1
      <4>1. /\ j - Len(x) + m - 1 \in 1 .. Len(y)
            /\ Len(x) + (j - Len(x) + m - 1) = j + m - 1
        BY <1>1, <1>2, <2>1, <3>1
      <4> QED BY <4>1
    <3> QED BY <1>2, <3>1, <3>2
  <2>3. j - Len(x) \in 1 .. Len(y)
    BY <1>2, <2>1
  <2> QED BY <2>2, <2>3 DEF startsAt
<1>3. ASSUME NEW i \in 1 .. L + 1, \A j \in i + 1 .. L + 1 : j \in Good PROVE i \in Good
  <2> SUFFICES ASSUME NEW j \in 1 .. Len(F[i]), startsAt(v, F[i], j) PROVE Before
    OBVIOUS
  <2>1. i \in 1 .. L
    <3>1. ASSUME i = L + 1 PROVE FALSE
      <4>1. Len(F[i]) = 0
        BY <3>1, TextFacts DEF IsRun
      <4> QED BY <4>1
    <3> QED BY <1>1, <3>1
  <2>2. PICK x, y \in Text : /\ x = p[i].by /\ y = F[i + p[i].length]
                             /\ Len(F[i]) = Len(x) + Len(y)
                             /\ \A k \in 1 .. Len(x) : F[i][k] = x[k]
                             /\ \A k \in 1 .. Len(y) : F[i][Len(x) + k] = y[k]
    BY <2>1, RunPut
  <2>3. Len(x) \in Nat
    BY TextFacts
  <2>4. CASE j > Len(x)
    <3>1. j - Len(x) \in 1 .. Len(y) /\ startsAt(v, y, j - Len(x))
      BY <1>2, <2>2, <2>4
    <3>2. i + p[i].length \in Good
      BY <1>3, <2>1, RunPut
    <3> QED BY <2>2, <3>1, <3>2
  <2>5. CASE ~(j > Len(x)) /\ i \in K
    <3>1. Len(x) = 1
      <4>1. x = <<t[i]>> /\ t[i] \in Token
        BY <2>1, <2>2, <2>5, KeptPiece, TextFacts DEF Separate
      <4> QED BY <4>1, TextFacts
    <3>2. j = 1
      BY <2>5, <3>1
    <3>3. startsAt(v, t, i)
      BY <2>1, <2>5, <3>2, StartKept
    <3> QED BY <2>1, <2>5, <3>3
  <2>6. CASE ~(j > Len(x)) /\ i \notin K
    <3>1. apart(v, x)
      BY <2>1, <2>2, <2>6 DEF Separate
    <3>2. 1 - j \in Int /\ 1 \in 1 .. Len(v) /\ 1 - (1 - j) \in 1 .. Len(x)
      BY <1>1, <2>3, <2>6
    <3>3. PICK q \in 1 .. Len(v) : q - (1 - j) \in 1 .. Len(x) /\ v[q] # x[q - (1 - j)]
      BY <3>1, <3>2, Meet
    <3>4. q - (1 - j) = j + q - 1
      BY <1>1
    <3>5. F[i][j + q - 1] = v[q]
      BY DEF startsAt
    <3> QED BY <2>2, <3>3, <3>4, <3>5
  <2> QED BY <2>4, <2>5, <2>6
<1> HIDE DEF Good
<1>4. \A i \in 1 .. L + 1 : i \in Good
  BY <1>1, <1>3, Backwards
<1>5. 1 \in Good
  BY <1>1, <1>4
<1> QED BY <1>5 DEF Good

-----------------------------------------------------------------------------
(* ReplaceAll.                                                             *)

replacing(t, s, r) ==
  [i \in 1 .. Len(t) |->
    IF occursAt(s, t, i) THEN [length |-> Len(s), by |-> r] ELSE kept(t, i)]

\* What ReplaceAll does at each position.
LEMMA Replacing ==
  ASSUME NEW t \in Text, NEW s \in Text, s # << >>, NEW r \in Text
  PROVE  /\ replacing(t, s, r) \in Picks(t)
         /\ \A i \in 1 .. Len(t) :
              replacing(t, s, r)[i] = IF startsAt(s, t, i) THEN [length |-> Len(s), by |-> r]
                                      ELSE kept(t, i)
<1>1. Len(t) \in Nat /\ Len(s) \in Nat /\ Len(s) # 0
  BY TextFacts
<1>2. PICK p : p = replacing(t, s, r)
  OBVIOUS
<1>3. ASSUME NEW i \in 1 .. Len(t)
      PROVE  p[i] = IF startsAt(s, t, i) THEN [length |-> Len(s), by |-> r] ELSE kept(t, i)
  BY <1>2, OccursAt DEF replacing
<1>4. ASSUME NEW i \in 1 .. Len(t) PROVE p[i] \in Piece /\ i + p[i].length <= Len(t) + 1
  <2>1. CASE startsAt(s, t, i)
    <3>1. Len(s) \in 1 .. Len(s)
      BY <1>1
    <3>2. i + Len(s) - 1 <= Len(t)
      BY <1>1, <2>1, <3>1 DEF startsAt
    <3>3. p[i] = [length |-> Len(s), by |-> r]
      BY <1>3, <2>1
    <3> QED BY <1>1, <3>2, <3>3 DEF Piece
  <2>2. CASE ~startsAt(s, t, i)
    <3>1. PICK x \in Text : x = <<t[i]>>
      BY TextFacts
    <3>2. p[i] = [length |-> 1, by |-> x]
      BY <1>3, <2>2, <3>1 DEF kept
    <3> QED BY <1>1, <3>2 DEF Piece
  <2> QED BY <2>1, <2>2
<1>5. p = [i \in 1 .. Len(t) |-> p[i]]
  BY <1>2 DEF replacing
<1>6. p \in [1 .. Len(t) -> Piece]
  BY <1>4, <1>5
<1>7. p \in Picks(t)
  BY <1>4, <1>6 DEF Picks
<1> QED BY <1>2, <1>3, <1>7

\* ReplaceAll has a run.
LEMMA ReplaceRuns ==
  ASSUME NEW t \in Text, NEW s \in Text, s # << >>, NEW r \in Text
  PROVE  \E F : IsRun(F, t, replacing(t, s, r)) /\ ReplaceAllIn(t, s, r) = F[1]
<1>1. ReplaceAllIn(t, s, r) = rewrite(t, replacing(t, s, r))
  BY DEF ReplaceAllIn, replacing
<1>2. PICK p \in Picks(t) : p = replacing(t, s, r)
  BY Replacing
<1>3. \E F : IsRun(F, t, p) /\ rewrite(t, p) = F[1]
  BY RewriteRuns
<1> QED BY <1>1, <1>2, <1>3

\* It gives a text.
LEMMA ReplaceText ==
  ASSUME NEW t \in Text, NEW s \in Text, s # << >>, NEW r \in Text
  PROVE  ReplaceAllIn(t, s, r) \in Text
<1>1. PICK F : IsRun(F, t, replacing(t, s, r)) /\ ReplaceAllIn(t, s, r) = F[1]
  BY ReplaceRuns
<1>2. 1 \in 1 .. Len(t) + 1
  BY TextFacts
<1> QED BY <1>1, <1>2 DEF IsRun

\* A text v that is apart from the replacement is in the result only where it was in
\* t, and so not at all if it is what was replaced.
LEMMA ReplaceRemoves ==
  ASSUME NEW t \in Text, NEW s \in Text, s # << >>, NEW r \in Text, r # << >>,
         NEW v \in Text, v # << >>, apart(v, r), occursIn(v, ReplaceAllIn(t, s, r))
  PROVE  occursIn(v, t) /\ v # s
<1> DEFINE K == {i \in 1 .. Len(t) : ~startsAt(s, t, i)}
<1>1. PICK p \in Picks(t) : p = replacing(t, s, r)
  BY Replacing
<1>2. PICK F : IsRun(F, t, p) /\ ReplaceAllIn(t, s, r) = F[1]
  BY <1>1, ReplaceRuns
<1>3. Separate(t, p, K, v)
  <2>1. ASSUME NEW i \in 1 .. Len(t)
        PROVE  IF i \in K THEN p[i] = kept(t, i) ELSE p[i].by # << >> /\ apart(v, p[i].by)
    <3>1. p[i] = IF startsAt(s, t, i) THEN [length |-> Len(s), by |-> r] ELSE kept(t, i)
      BY <1>1, Replacing
    <3> QED BY <3>1
  <2> QED BY <2>1 DEF Separate
<1>4. F[1] \in Text
  BY <1>2, ReplaceText
<1>5. PICK n \in 1 .. Len(F[1]) : startsAt(v, F[1], n)
  BY <1>2, <1>4, OccursAt DEF occursIn
<1> HIDE DEF K
<1>6. PICK k \in 1 .. Len(t) : k \in K /\ startsAt(v, t, k)
  BY <1>2, <1>3, <1>5, OccurrenceKept
<1>7. occursIn(v, t)
  BY <1>6, OccursAt DEF occursIn
<1> QED BY <1>6, <1>7 DEF K

-----------------------------------------------------------------------------
(* Loops over a list of secrets.                                           *)

\* g[n] is the text after the first n secrets, each of which does step[n] to it.
IsLoop(g, N, text, step) ==
  g \in [0 .. N -> Text] /\ g[0] = text /\ \A n \in 1 .. N : g[n] = step[n][g[n - 1]]

\* There is such a g.
LEMMA LoopExists ==
  ASSUME NEW N \in Nat, NEW text \in Text, NEW step \in [1 .. N -> [Text -> Text]]
  PROVE  \E g : IsLoop(g, N, text, step)
<1> DEFINE Run(g, n) == g[0] = text /\ \A k \in 1 .. n : g[k] = step[k][g[k - 1]]
           Good == {n \in 0 .. N : \E g \in [0 .. n -> Text] : Run(g, n)}
<1>1. 0 \in Good
  <2> DEFINE g == [k \in 0 .. 0 |-> text]
  <2>1. g \in [0 .. 0 -> Text] /\ g[0] = text
    OBVIOUS
  <2>2. Run(g, 0)
    BY <2>1
  <2>3. \E f \in [0 .. 0 -> Text] : Run(f, 0)
    <3> HIDE DEF g, Run
    <3> QED BY <2>1, <2>2
  <2> QED BY <2>3
<1>2. ASSUME NEW n \in 1 .. N, n - 1 \in Good PROVE n \in Good
  <2>1. PICK g \in [0 .. n - 1 -> Text] : Run(g, n - 1)
    BY <1>2
  <2> DEFINE h == [k \in 0 .. n |-> IF k = n THEN step[n][g[n - 1]] ELSE g[k]]
  <2>2. step[n][g[n - 1]] \in Text
    <3>1. n - 1 \in 0 .. n - 1
      OBVIOUS
    <3> QED BY <3>1
  <2>3. h \in [0 .. n -> Text]
    BY <2>2
  <2>4. Run(h, n)
    <3>1. h[0] = text /\ h[n] = step[n][h[n - 1]]
      BY <2>1
    <3>2. \A k \in 1 .. n - 1 : h[k] = g[k] /\ h[k - 1] = g[k - 1]
      OBVIOUS
    <3> QED BY <2>1, <3>1, <3>2
  <2>5. \E f \in [0 .. n -> Text] : Run(f, n)
    <3> HIDE DEF h, Run
    <3> QED BY <2>3, <2>4
  <2> QED BY <2>5
<1> HIDE DEF Good
<1>3. \A n \in 0 .. N : n \in Good
  BY <1>1, <1>2, Forwards
<1>4. N \in Good
  BY <1>3
<1> QED BY <1>4 DEF Good, IsLoop

\* The function a loop is defined by is such a g.
LEMMA LoopIs ==
  ASSUME NEW N \in Nat, NEW text \in Text, NEW step \in [1 .. N -> [Text -> Text]],
         NEW h, h = [n \in 0 .. N |-> h[n]], h[0] = text,
         \A n \in 1 .. N : h[n - 1] \in Text => h[n] = step[n][h[n - 1]]
  PROVE  IsLoop(h, N, text, step)
<1> DEFINE Good == {n \in 0 .. N : h[n] \in Text}
<1>1. 0 \in Good
  OBVIOUS
<1>2. ASSUME NEW n \in 1 .. N, n - 1 \in Good PROVE n \in Good
  <2>1. h[n] = step[n][h[n - 1]] /\ h[n - 1] \in Text
    BY <1>2
  <2>2. step[n] \in [Text -> Text]
    OBVIOUS
  <2>3. h[n] \in Text
    BY <2>1, <2>2
  <2> QED BY <2>3
<1> HIDE DEF Good
<1>3. \A n \in 0 .. N : n \in Good
  BY <1>1, <1>2, Forwards
<1>4. \A n \in 0 .. N : h[n] \in Text
  BY <1>3 DEF Good
<1>5. \A n \in 1 .. N : h[n] = step[n][h[n - 1]]
  <2>1. \A n \in 1 .. N : n - 1 \in 0 .. N
    OBVIOUS
  <2> QED BY <1>4, <2>1
<1>6. h \in [0 .. N -> Text]
  BY <1>4
<1> QED BY <1>5, <1>6 DEF IsLoop

\* Each secret makes a text of a text.
LEMMA OneSecret ==
  ASSUME NEW t \in Text, NEW c \in CustomSecret
  PROVE  replaceSentinel(t, c) \in Text /\ redactSecret(t, c) \in Text
<1>1. c.Sentinel \in Text /\ c.Value \in Text
  BY DEF CustomSecret
<1> QED BY <1>1, ReplaceText, RedactedAssumption DEF replaceSentinel, redactSecret

\* The texts between the secrets, as sentinels are replaced.
LEMMA ReplaceLoop ==
  ASSUME NEW list \in Seq(CustomSecret), NEW text \in Text
  PROVE  \E g : /\ g \in [0 .. Len(list) -> Text]
                /\ g[0] = text
                /\ \A n \in 1 .. Len(list) : g[n] = replaceSentinel(g[n - 1], list[n])
                /\ ReplaceSentinels(list, text) = g[Len(list)]
<1> DEFINE N == Len(list)
           G == CHOOSE g : g = [n \in 0 .. N |-> IF n = 0 THEN text
                                                 ELSE replaceSentinel(g[n - 1], list[n])]
           step == [n \in 1 .. N |-> [t \in Text |-> replaceSentinel(t, list[n])]]
<1>1. N \in Nat /\ \A n \in 1 .. N : list[n] \in CustomSecret
  BY LenProperties, ElementOfSeq
<1>2. ReplaceSentinels(list, text) = G[N]
  BY DEF ReplaceSentinels
<1> HIDE DEF N
<1>3. step \in [1 .. N -> [Text -> Text]]
  BY <1>1, OneSecret
<1>4. \A n \in 1 .. N, t \in Text : step[n][t] = replaceSentinel(t, list[n])
  OBVIOUS
<1> HIDE DEF step
<1>5. PICK g : IsLoop(g, N, text, step)
  BY <1>1, <1>3, LoopExists
<1>6. g = [n \in 0 .. N |-> IF n = 0 THEN text ELSE replaceSentinel(g[n - 1], list[n])]
  <2>1. ASSUME NEW n \in 0 .. N
        PROVE  g[n] = IF n = 0 THEN text ELSE replaceSentinel(g[n - 1], list[n])
    <3>1. n = 0 \/ (n \in 1 .. N /\ n - 1 \in 0 .. N)
      BY <1>1
    <3> QED BY <1>4, <1>5, <3>1 DEF IsLoop
  <2> QED BY <1>5, <2>1 DEF IsLoop
<1>7. G = [n \in 0 .. N |-> IF n = 0 THEN text ELSE replaceSentinel(G[n - 1], list[n])]
  BY <1>6, Zenon
<1> HIDE DEF G
<1>8. /\ G = [n \in 0 .. N |-> G[n]] /\ G[0] = text
      /\ \A n \in 1 .. N : G[n] = replaceSentinel(G[n - 1], list[n])
  BY <1>1, <1>7
<1>9. \A n \in 1 .. N : G[n - 1] \in Text => G[n] = step[n][G[n - 1]]
  BY <1>4, <1>8
<1>10. IsLoop(G, N, text, step)
  BY <1>1, <1>3, <1>8, <1>9, LoopIs
<1> QED BY <1>2, <1>8, <1>10 DEF IsLoop, N

\* The texts between the secrets, as values are redacted.
LEMMA RedactLoop ==
  ASSUME NEW list \in Seq(CustomSecret), NEW text \in Text
  PROVE  \E g : /\ g \in [0 .. Len(list) -> Text]
                /\ g[0] = text
                /\ \A n \in 1 .. Len(list) : g[n] = redactSecret(g[n - 1], list[n])
                /\ RedactSecretsInHeader(list, text) = g[Len(list)]
<1> DEFINE N == Len(list)
           G == CHOOSE g : g = [n \in 0 .. N |-> IF n = 0 THEN text
                                                 ELSE redactSecret(g[n - 1], list[n])]
           step == [n \in 1 .. N |-> [t \in Text |-> redactSecret(t, list[n])]]
<1>1. N \in Nat /\ \A n \in 1 .. N : list[n] \in CustomSecret
  BY LenProperties, ElementOfSeq
<1>2. RedactSecretsInHeader(list, text) = G[N]
  BY DEF RedactSecretsInHeader
<1> HIDE DEF N
<1>3. step \in [1 .. N -> [Text -> Text]]
  BY <1>1, OneSecret
<1>4. \A n \in 1 .. N, t \in Text : step[n][t] = redactSecret(t, list[n])
  OBVIOUS
<1> HIDE DEF step
<1>5. PICK g : IsLoop(g, N, text, step)
  BY <1>1, <1>3, LoopExists
<1>6. g = [n \in 0 .. N |-> IF n = 0 THEN text ELSE redactSecret(g[n - 1], list[n])]
  <2>1. ASSUME NEW n \in 0 .. N
        PROVE  g[n] = IF n = 0 THEN text ELSE redactSecret(g[n - 1], list[n])
    <3>1. n = 0 \/ (n \in 1 .. N /\ n - 1 \in 0 .. N)
      BY <1>1
    <3> QED BY <1>4, <1>5, <3>1 DEF IsLoop
  <2> QED BY <1>5, <2>1 DEF IsLoop
<1>7. G = [n \in 0 .. N |-> IF n = 0 THEN text ELSE redactSecret(G[n - 1], list[n])]
  BY <1>6, Zenon
<1> HIDE DEF G
<1>8. /\ G = [n \in 0 .. N |-> G[n]] /\ G[0] = text
      /\ \A n \in 1 .. N : G[n] = redactSecret(G[n - 1], list[n])
  BY <1>1, <1>7
<1>9. \A n \in 1 .. N : G[n - 1] \in Text => G[n] = step[n][G[n - 1]]
  BY <1>4, <1>8
<1>10. IsLoop(G, N, text, step)
  BY <1>1, <1>3, <1>8, <1>9, LoopIs
<1> QED BY <1>2, <1>8, <1>10 DEF IsLoop, N

-----------------------------------------------------------------------------
(* Redaction.                                                              *)

\* For every list of secrets and every header: no value that is apart from the text
\* "[REDACTED]" is in the header after RedactSecretsInHeader, whichever values come
\* before and after it in the list and however they overlap (secrets.go:89-99).
THEOREM RedactionRemovesValues ==
  ASSUME NEW list \in Seq(CustomSecret), NEW text \in Text, NEW i \in 1 .. Len(list),
         list[i].Value \notin {<< >>, list[i].Sentinel}, apart(list[i].Value, Redacted)
  PROVE  ~occursIn(list[i].Value, RedactSecretsInHeader(list, text))
<1>1. Len(list) \in Nat /\ \A n \in 1 .. Len(list) : list[n] \in CustomSecret
  BY LenProperties, ElementOfSeq
<1>2. PICK g : /\ g \in [0 .. Len(list) -> Text]
               /\ \A n \in 1 .. Len(list) : g[n] = redactSecret(g[n - 1], list[n])
               /\ RedactSecretsInHeader(list, text) = g[Len(list)]
  BY RedactLoop
<1>3. PICK v \in Text : v = list[i].Value
  BY <1>1 DEF CustomSecret
<1>4. Redacted \in Text /\ Redacted # << >>
  BY RedactedAssumption DEF Redacted
<1>5. ASSUME NEW n \in 1 .. Len(list), occursIn(v, g[n]) PROVE occursIn(v, g[n - 1]) /\ n # i
  <2>1. g[n - 1] \in Text
    BY <1>1, <1>2
  <2>2. g[n] = redactSecret(g[n - 1], list[n])
    BY <1>2
  <2>3. CASE list[n].Value \in {<< >>, list[n].Sentinel}
    BY <1>5, <2>2, <2>3 DEF redactSecret
  <2>4. CASE list[n].Value \notin {<< >>, list[n].Sentinel}
    <3>1. PICK s \in Text : s = list[n].Value /\ s # << >>
      BY <1>1, <2>4 DEF CustomSecret
    <3>2. g[n] = ReplaceAllIn(g[n - 1], s, Redacted)
      BY <2>2, <2>4, <3>1 DEF redactSecret
    <3>3. occursIn(v, g[n - 1]) /\ v # s
      BY <1>3, <1>4, <1>5, <2>1, <3>1, <3>2, ReplaceRemoves
    <3> QED BY <1>3, <3>1, <3>3
  <2> QED BY <2>3, <2>4
<1> DEFINE Good == {n \in 0 .. Len(list) : n >= i => ~occursIn(v, g[n])}
<1>6. 0 \in Good
  BY <1>1
<1>7. ASSUME NEW n \in 1 .. Len(list), n - 1 \in Good PROVE n \in Good
  <2>1. n - 1 >= i \/ ~(n >= i) \/ n = i
    BY <1>1
  <2> QED BY <1>1, <1>5, <1>7, <2>1
<1> HIDE DEF Good
<1>8. \A n \in 0 .. Len(list) : n \in Good
  BY <1>1, <1>6, <1>7, Forwards
<1>9. Len(list) \in Good /\ Len(list) >= i
  BY <1>1, <1>8
<1> QED BY <1>2, <1>3, <1>9 DEF Good

-----------------------------------------------------------------------------
(* ReplaceAll, from the front of a text.                                   *)

\* What becomes of the end w of a text u is what becomes of w.
LEMMA ReplaceEnd ==
  ASSUME NEW u \in Text, NEW w \in Text, NEW n \in Nat, Len(u) = n + Len(w),
         \A k \in 1 .. Len(w) : u[n + k] = w[k],
         NEW s \in Text, s # << >>, NEW r \in Text,
         NEW F, IsRun(F, u, replacing(u, s, r))
  PROVE  F[n + 1] = ReplaceAllIn(w, s, r)
<1>1. Len(u) \in Nat /\ Len(w) \in Nat
  BY TextFacts
<1>2. ASSUME NEW k \in 1 .. Len(w) PROVE startsAt(s, u, n + k) <=> startsAt(s, w, k)
  <2>1. ASSUME NEW m \in 1 .. Len(s)
        PROVE  /\ n + k + m - 1 \in 1 .. Len(u) <=> k + m - 1 \in 1 .. Len(w)
               /\ k + m - 1 \in 1 .. Len(w) => u[n + k + m - 1] = w[k + m - 1]
    <3>1. /\ n + k + m - 1 = n + (k + m - 1)
          /\ n + k + m - 1 \in 1 .. Len(u) <=> k + m - 1 \in 1 .. Len(w)
      BY <1>1
    <3> QED BY <3>1
  <2> QED BY <2>1 DEF startsAt
<1>3. PICK p \in Picks(u) :
        /\ p = replacing(u, s, r)
        /\ \A i \in 1 .. Len(u) :
             p[i] = IF startsAt(s, u, i) THEN [length |-> Len(s), by |-> r] ELSE kept(u, i)
  BY Replacing
<1>4. PICK q \in Picks(w) :
        /\ q = replacing(w, s, r)
        /\ \A i \in 1 .. Len(w) :
             q[i] = IF startsAt(s, w, i) THEN [length |-> Len(s), by |-> r] ELSE kept(w, i)
  BY Replacing
<1>5. ASSUME NEW k \in 1 .. Len(w) PROVE p[n + k] = q[k]
  <2>1. n + k \in 1 .. Len(u)
    BY <1>1
  <2>2. kept(u, n + k) = kept(w, k)
    BY DEF kept
  <2> QED BY <1>2, <1>3, <1>4, <2>1, <2>2
<1>6. PICK G : IsRun(G, w, q) /\ ReplaceAllIn(w, s, r) = G[1]
  BY <1>4, ReplaceRuns
<1> QED BY <1>3, <1>5, <1>6, SameEnd

\* In a text that starts with s, s is replaced, and then what follows is rewritten.
LEMMA ReplaceHit ==
  ASSUME NEW s \in Text, s # << >>, NEW r \in Text, NEW w \in Text
  PROVE  ReplaceAllIn(s \o w, s, r) = r \o ReplaceAllIn(w, s, r)
<1>1. Len(s) \in Nat /\ Len(s) # 0 /\ Len(w) \in Nat
  BY TextFacts
<1>2. PICK u \in Text : /\ u = s \o w /\ Len(u) = Len(s) + Len(w)
                        /\ \A i \in 1 .. Len(s) : u[i] = s[i]
                        /\ \A i \in 1 .. Len(w) : u[Len(s) + i] = w[i]
  BY Concat
<1>3. PICK F : IsRun(F, u, replacing(u, s, r)) /\ ReplaceAllIn(u, s, r) = F[1]
  BY ReplaceRuns
<1>4. 1 \in 1 .. Len(u) /\ startsAt(s, u, 1)
  <2>1. ASSUME NEW m \in 1 .. Len(s) PROVE 1 + m - 1 \in 1 .. Len(u) /\ u[1 + m - 1] = s[m]
    <3>1. 1 + m - 1 = m /\ m \in 1 .. Len(u)
      BY <1>1, <1>2
    <3> QED BY <1>2, <3>1
  <2>2. 1 \in 1 .. Len(u)
    BY <1>1, <1>2
  <2> QED BY <2>1, <2>2 DEF startsAt
<1>5. PICK p : /\ p = replacing(u, s, r)
               /\ p[1] = [length |-> Len(s), by |-> r]
  BY <1>4, Replacing
<1>6. F[1] = p[1].by \o F[1 + p[1].length]
  BY <1>3, <1>4, <1>5 DEF IsRun
<1>7. p[1].by = r /\ p[1].length = Len(s) /\ 1 + Len(s) = Len(s) + 1
  BY <1>1, <1>5
<1>8. F[Len(s) + 1] = ReplaceAllIn(w, s, r)
  <2>1. PICK n \in Nat : n = Len(s)
    BY <1>1
  <2>2. Len(u) = n + Len(w) /\ \A k \in 1 .. Len(w) : u[n + k] = w[k]
    BY <1>2, <2>1
  <2>3. F[n + 1] = ReplaceAllIn(w, s, r)
    BY <1>3, <2>2, ReplaceEnd
  <2> QED BY <2>1, <2>3
<1> QED BY <1>2, <1>3, <1>6, <1>7, <1>8

\* u is y followed by w.
joins(u, y, w) ==
  /\ Len(u) = Len(y) + Len(w)
  /\ \A k \in 1 .. Len(y) : u[k] = y[k]
  /\ \A k \in 1 .. Len(w) : u[Len(y) + k] = w[k]

\* s starts at none of the first n positions of u.
free(s, u, n) == \A k \in 1 .. n : ~startsAt(s, u, k)

\* In a text that starts with y, where s does not start, y stays.
LEMMA ReplaceSkip ==
  ASSUME NEW s \in Text, s # << >>, NEW r \in Text, NEW y \in Text, NEW w \in Text,
         NEW u \in Text, joins(u, y, w), free(s, u, Len(y))
  PROVE  ReplaceAllIn(u, s, r) = y \o ReplaceAllIn(w, s, r)
<1>1. Len(y) \in Nat /\ Len(w) \in Nat
  BY TextFacts
<1>2. /\ Len(u) = Len(y) + Len(w)
      /\ \A k \in 1 .. Len(y) : u[k] = y[k]
      /\ \A k \in 1 .. Len(w) : u[Len(y) + k] = w[k]
  BY DEF joins
<1>3. PICK p \in Picks(u) :
        /\ p = replacing(u, s, r)
        /\ \A k \in 1 .. Len(u) :
             p[k] = IF startsAt(s, u, k) THEN [length |-> Len(s), by |-> r] ELSE kept(u, k)
  BY Replacing
<1>4. PICK F : IsRun(F, u, p) /\ ReplaceAllIn(u, s, r) = F[1]
  BY <1>3, ReplaceRuns
<1>5. PICK n \in Nat : n = Len(y) /\ n + 1 = 1 + Len(y)
  BY <1>1
<1>6. PICK i, j \in 1 .. Len(u) + 1 : i = 1 /\ j = n + 1 /\ j = i + Len(y)
  BY <1>1, <1>2, <1>5
<1>7. F[i] = y \o F[j]
  <2>1. j = i + Len(y)
    BY <1>6
  <2>2. IsRun(F, u, p)
    BY <1>4
  <2>3. ASSUME NEW k \in 1 .. Len(u), i <= k, k < j PROVE p[k] = kept(u, k)
    <3>1. k \in 1 .. Len(y)
      BY <1>1, <1>5, <1>6, <2>3
    <3> QED BY <1>3, <3>1 DEF free
  <2>4. ASSUME NEW k \in 1 .. Len(y) PROVE y[k] = u[i + k - 1]
    <3>1. i + k - 1 = k
      BY <1>6
    <3> QED BY <1>2, <3>1
  <2> QED BY <2>3, <2>4, <2>1, <2>2, KeptRun
<1>8. F[n + 1] = ReplaceAllIn(w, s, r)
  <2>1. Len(u) = n + Len(w) /\ \A k \in 1 .. Len(w) : u[n + k] = w[k]
    BY <1>2, <1>5
  <2>2. IsRun(F, u, replacing(u, s, r))
    BY <1>3, <1>4
  <2> QED BY <2>1, <2>2, ReplaceEnd
<1> QED BY <1>4, <1>6, <1>7, <1>8

\* Nothing is put into the empty text.
LEMMA ReplaceEmpty ==
  ASSUME NEW s \in Text, s # << >>, NEW r \in Text
  PROVE  ReplaceAllIn(<< >>, s, r) = << >>
<1>1. PICK t \in Text : t = << >> /\ Len(t) = 0
  BY TextFacts
<1>2. PICK F : IsRun(F, t, replacing(t, s, r)) /\ ReplaceAllIn(t, s, r) = F[1]
  BY ReplaceRuns
<1>3. F[Len(t) + 1] = << >> /\ Len(t) + 1 = 1
  BY <1>1, <1>2 DEF IsRun
<1> QED BY <1>1, <1>2, <1>3

-----------------------------------------------------------------------------
(* All sentinels at once.                                                  *)

\* Secrets whose sentinels can be told apart in any text.
Distinct(S) ==
  /\ S \subseteq CustomSecret
  /\ \A x \in S : x.Sentinel # << >>
  /\ \A x, y \in S : x # y => apart(x.Sentinel, y.Sentinel)

\* What is done where the sentinel of x starts.
piece(x) == [length |-> Len(x.Sentinel), by |-> x.Value]

\* At most one sentinel starts at a position.
LEMMA OneSentinel ==
  ASSUME NEW S, Distinct(S), NEW t \in Text, NEW i \in 1 .. Len(t),
         NEW x \in S, startsAt(x.Sentinel, t, i), NEW y \in S, startsAt(y.Sentinel, t, i)
  PROVE  x = y
<1> SUFFICES ASSUME x # y PROVE FALSE
  OBVIOUS
<1>1. PICK u \in Text : u = x.Sentinel /\ u # << >>
  BY DEF Distinct, CustomSecret
<1>2. PICK w \in Text : w = y.Sentinel /\ w # << >>
  BY DEF Distinct, CustomSecret
<1>3. Len(u) \in Nat /\ Len(u) # 0 /\ Len(w) \in Nat /\ Len(w) # 0
  BY <1>1, <1>2, TextFacts
<1>4. 1 \in 1 .. Len(u) /\ 1 - 0 \in 1 .. Len(w) /\ 0 \in Int
  BY <1>3
<1>5. apart(u, w)
  BY <1>1, <1>2 DEF Distinct
<1>6. PICK p \in 1 .. Len(u) : p - 0 \in 1 .. Len(w) /\ u[p] # w[p - 0]
  BY <1>4, <1>5, Meet
<1>7. p - 0 = p
  BY <1>3
<1> QED BY <1>1, <1>2, <1>6, <1>7 DEF startsAt

\* What is done at each position.
LEMMA Substitution ==
  ASSUME NEW S, Distinct(S), NEW t \in Text
  PROVE  /\ substitution(S, t) \in Picks(t)
         /\ \A i \in 1 .. Len(t) :
              /\ \A x \in S : startsAt(x.Sentinel, t, i) => substitution(S, t)[i] = piece(x)
              /\ (\A x \in S : ~startsAt(x.Sentinel, t, i)) => substitution(S, t)[i] = kept(t, i)
<1>1. Len(t) \in Nat
  BY TextFacts
<1>2. \A x \in S : x.Sentinel \in Text /\ x.Value \in Text /\ Len(x.Sentinel) \in Nat \ {0}
  BY TextFacts DEF Distinct, CustomSecret
<1>3. PICK p : p = substitution(S, t)
  OBVIOUS
<1>4. ASSUME NEW i \in 1 .. Len(t), NEW x \in S, startsAt(x.Sentinel, t, i) PROVE p[i] = piece(x)
  <2> DEFINE found == {s \in S : occursAt(s.Sentinel, t, i)}
  <2>1. found = {x}
    <3>1. x \in found
      BY <1>2, <1>4, OccursAt
    <3>2. ASSUME NEW y \in found PROVE y = x
      <4>1. startsAt(y.Sentinel, t, i)
        BY <1>2, OccursAt
      <4> QED BY <1>4, <4>1, OneSentinel
    <3> QED BY <3>1, <3>2
  <2>2. p[i] = IF found = {} THEN kept(t, i) ELSE piece(CHOOSE s \in found : TRUE)
    BY <1>3 DEF substitution, piece
  <2> HIDE DEF found
  <2>3. (CHOOSE s \in found : TRUE) = x
    BY <2>1
  <2> QED BY <2>1, <2>2, <2>3
<1>5. ASSUME NEW i \in 1 .. Len(t), \A x \in S : ~startsAt(x.Sentinel, t, i) PROVE p[i] = kept(t, i)
  <2> DEFINE found == {s \in S : occursAt(s.Sentinel, t, i)}
  <2>1. found = {}
    BY <1>2, <1>5, OccursAt
  <2>2. p[i] = IF found = {} THEN kept(t, i) ELSE piece(CHOOSE s \in found : TRUE)
    BY <1>3 DEF substitution, piece
  <2> HIDE DEF found
  <2> QED BY <2>1, <2>2
<1>6. ASSUME NEW i \in 1 .. Len(t) PROVE p[i] \in Piece /\ i + p[i].length <= Len(t) + 1
  <2>1. ASSUME NEW x \in S, startsAt(x.Sentinel, t, i)
        PROVE  p[i] \in Piece /\ i + p[i].length <= Len(t) + 1
    <3>1. PICK n \in Nat \ {0} : n = Len(x.Sentinel)
      BY <1>2
    <3>2. i + Len(x.Sentinel) - 1 <= Len(t)
      <4>1. n \in 1 .. n
        OBVIOUS
      <4>2. i + n - 1 \in 1 .. Len(t)
        BY <2>1, <3>1, <4>1 DEF startsAt
      <4> QED BY <1>1, <3>1, <4>2
    <3>3. p[i] = [length |-> Len(x.Sentinel), by |-> x.Value]
      BY <1>4, <2>1 DEF piece
    <3> QED BY <1>1, <1>2, <3>2, <3>3 DEF Piece
  <2>2. CASE \A x \in S : ~startsAt(x.Sentinel, t, i)
    <3>1. PICK y \in Text : y = <<t[i]>>
      BY TextFacts
    <3>2. p[i] = [length |-> 1, by |-> y]
      BY <1>5, <2>2, <3>1 DEF kept
    <3> QED BY <1>1, <3>2 DEF Piece
  <2> QED BY <2>1, <2>2
<1>7. p = [i \in 1 .. Len(t) |-> p[i]]
  BY <1>3 DEF substitution
<1>8. p \in [1 .. Len(t) -> Piece]
  BY <1>6, <1>7
<1>9. p \in Picks(t)
  BY <1>6, <1>8 DEF Picks
<1> QED BY <1>3, <1>4, <1>5, <1>9

\* To be apart is mutual, and something an empty text never is.
LEMMA Apart ==
  ASSUME NEW s \in Text, NEW t \in Text, t # << >>, apart(s, t)
  PROVE  s # << >> /\ apart(t, s)
<1>1. ASSUME s = << >> PROVE FALSE
  <2>1. Len(t) \in Nat /\ Len(t) # 0 /\ Len(s) = 0
    BY <1>1, TextFacts
  <2>2. 1 \in 1 .. Len(t) /\ startsAt(s, t, 1)
    BY <2>1 DEF startsAt
  <2>3. occursIn(s, t)
    BY <2>2, OccursAt DEF occursIn
  <2> QED BY <2>3 DEF apart, overlap
<1> QED BY <1>1 DEF apart

\* Replacing one more sentinel, after those of the secrets in S, is replacing all at
\* once, when it overlaps neither another sentinel nor one of the values put in.
LEMMA OneMore ==
  ASSUME NEW S, NEW c, Distinct(S \cup {c}), \A x \in S : apart(x.Value, c.Sentinel),
         NEW t \in Text
  PROVE  ReplaceAllIn(rewrite(t, substitution(S, t)), c.Sentinel, c.Value)
           = rewrite(t, substitution(S \cup {c}, t))
<1> DEFINE L == Len(t)
           K == {i \in 1 .. L : \A x \in S : ~startsAt(x.Sentinel, t, i)}
<1>1. L \in Nat
  BY TextFacts
<1>2. Distinct(S)
  BY DEF Distinct
<1>3. PICK s \in Text, r \in Text : s = c.Sentinel /\ s # << >> /\ r = c.Value
  BY DEF Distinct, CustomSecret
<1>4. Len(s) \in Nat /\ Len(s) # 0
  BY <1>3, TextFacts
<1>5. PICK p \in Picks(t) :
        /\ p = substitution(S, t)
        /\ \A i \in 1 .. L :
             /\ \A x \in S : startsAt(x.Sentinel, t, i) => p[i] = piece(x)
             /\ (\A x \in S : ~startsAt(x.Sentinel, t, i)) => p[i] = kept(t, i)
  BY <1>2, Substitution
<1>6. PICK q \in Picks(t) :
        /\ q = substitution(S \cup {c}, t)
        /\ \A i \in 1 .. L :
             /\ \A x \in S \cup {c} : startsAt(x.Sentinel, t, i) => q[i] = piece(x)
             /\ (\A x \in S \cup {c} : ~startsAt(x.Sentinel, t, i)) => q[i] = kept(t, i)
  BY Substitution
<1>7. PICK F : IsRun(F, t, p) /\ rewrite(t, p) = F[1]
  BY RewriteRuns
<1>8. PICK G : IsRun(G, t, q) /\ rewrite(t, q) = G[1]
  BY RewriteRuns
<1>9. \A x \in S : x.Value \in Text /\ x.Value # << >> /\ apart(s, x.Value)
  <2>1. ASSUME NEW x \in S PROVE x.Value \in Text /\ x.Value # << >> /\ apart(s, x.Value)
    <3>1. PICK v \in Text : v = x.Value
      BY <1>2 DEF Distinct, CustomSecret
    <3>2. apart(v, s)
      BY <1>3, <3>1
    <3> QED BY <1>3, <3>1, <3>2, Apart
  <2> QED BY <2>1
<1>10. Separate(t, p, K, s)
  <2>1. ASSUME NEW i \in 1 .. L
        PROVE  IF i \in K THEN p[i] = kept(t, i) ELSE p[i].by # << >> /\ apart(s, p[i].by)
    <3>1. CASE i \in K
      BY <1>5, <3>1
    <3>2. CASE i \notin K
      <4>1. PICK x \in S : startsAt(x.Sentinel, t, i)
        BY <3>2
      <4>2. p[i] = piece(x)
        BY <1>5, <4>1
      <4>3. p[i].by = x.Value
        BY <4>2 DEF piece
      <4> QED BY <1>9, <3>2, <4>3
    <3> QED BY <3>1, <3>2
  <2> QED BY <2>1 DEF Separate
<1> DEFINE Good == {i \in 1 .. L + 1 : ReplaceAllIn(F[i], s, r) = G[i]}
<1>11. ASSUME NEW i \in 1 .. L + 1, \A j \in i + 1 .. L + 1 : j \in Good PROVE i \in Good
  <2>1. CASE i = L + 1
    <3>1. F[i] = << >> /\ G[i] = << >>
      BY <1>7, <1>8, <2>1 DEF IsRun
    <3> QED BY <1>3, <3>1, ReplaceEmpty
  <2>2. ASSUME i \in 1 .. L, NEW x \in S, startsAt(x.Sentinel, t, i)
        PROVE  ReplaceAllIn(F[i], s, r) = G[i]
    <3>1. p[i] = piece(x) /\ q[i] = piece(x)
      BY <1>5, <1>6, <2>2
    <3>2. PICK y, w \in Text : y = x.Value /\ w = F[i + p[i].length] /\ F[i] = y \o w
      <4>1. PICK y, w \in Text : y = p[i].by /\ w = F[i + p[i].length] /\ F[i] = y \o w
        BY <1>7, <2>2, RunPut
      <4>2. y = x.Value
        BY <3>1, <4>1 DEF piece
      <4> QED BY <4>1, <4>2
    <3>3. PICK u \in Text : u = F[i] /\ joins(u, y, w)
      <4>1. joins(y \o w, y, w) /\ y \o w \in Text
        BY Concat DEF joins
      <4>2. F[i] = y \o w
        BY <3>2
      <4> QED BY <4>1, <4>2, Zenon
    <3>4. ASSUME NEW j \in 1 .. Len(y), startsAt(s, u, j) PROVE FALSE
      <4>1. 1 - j \in Int /\ 1 \in 1 .. Len(s) /\ 1 - (1 - j) \in 1 .. Len(y)
        BY <1>4
      <4>2. apart(s, y)
        BY <1>9, <3>2
      <4>3. PICK m \in 1 .. Len(s) : m - (1 - j) \in 1 .. Len(y) /\ s[m] # y[m - (1 - j)]
        BY <4>1, <4>2, Meet
      <4>4. m - (1 - j) = j + m - 1
        BY <1>4
      <4>5. u[j + m - 1] = s[m]
        BY <3>4 DEF startsAt
      <4>6. u[j + m - 1] = y[j + m - 1]
        BY <3>3, <4>3, <4>4 DEF joins
      <4> QED BY <4>3, <4>4, <4>5, <4>6
    <3>5. ReplaceAllIn(u, s, r) = y \o ReplaceAllIn(w, s, r)
      <4>1. free(s, u, Len(y))
        BY <3>4 DEF free
      <4>2. s # << >> /\ joins(u, y, w)
        BY <1>3, <3>3
      <4> QED BY <4>1, <4>2, ReplaceSkip, SMTT(30)
    <3>6. i + p[i].length \in i + 1 .. L + 1
      BY <1>7, <2>2, RunPut
    <3>7. ReplaceAllIn(w, s, r) = G[i + p[i].length]
      BY <1>11, <3>2, <3>6
    <3>8. G[i] = q[i].by \o G[i + q[i].length]
      BY <1>8, <2>2 DEF IsRun
    <3>9. q[i].by = y /\ q[i].length = p[i].length
      BY <3>1, <3>2 DEF piece
    <3> QED BY <3>5, <3>7, <3>8, <3>9, <3>3
  <2>3. ASSUME i \in K, startsAt(s, t, i) PROVE ReplaceAllIn(F[i], s, r) = G[i]
    <3>1. i \in 1 .. L /\ c \notin S
      BY <1>3, <2>3
    <3>2. Len(s) \in 1 .. Len(s) /\ i + Len(s) - 1 \in 1 .. L
      <4>1. Len(s) \in 1 .. Len(s)
        BY <1>4
      <4> QED BY <2>3, <4>1 DEF startsAt
    <3>3. ASSUME NEW m \in i .. i + Len(s) - 1 PROVE p[m] = kept(t, m)
      <4>1. m \in 1 .. L
        BY <1>1, <1>4, <3>1, <3>2
      <4>2. ASSUME NEW x \in S, startsAt(x.Sentinel, t, m) PROVE FALSE
        <5>1. PICK u \in Text : u = x.Sentinel /\ u # << >>
          BY <1>2 DEF Distinct, CustomSecret
        <5>2. Len(u) \in Nat /\ Len(u) # 0
          BY <5>1, TextFacts
        <5>3. apart(s, u)
          <6>1. x # c /\ x \in S \cup {c} /\ c \in S \cup {c}
            BY <3>1
          <6> QED BY <1>3, <5>1, <6>1 DEF Distinct
        <5>4. PICK d \in Int : d = m - i
          BY <1>1
        <5>5. d + 1 \in 1 .. Len(s) /\ d + 1 - d \in 1 .. Len(u)
          BY <1>4, <5>2, <5>4
        <5>6. PICK k \in 1 .. Len(s) : k - d \in 1 .. Len(u) /\ s[k] # u[k - d]
          BY <5>3, <5>5, Meet
        <5>7. t[i + k - 1] = s[k]
          BY <2>3 DEF startsAt
        <5>8. t[m + (k - d) - 1] = u[k - d]
          BY <4>2, <5>1, <5>6 DEF startsAt
        <5>9. m + (k - d) - 1 = i + k - 1
          BY <1>4, <5>4
        <5> QED BY <5>6, <5>7, <5>8, <5>9
      <4> QED BY <1>5, <4>1, <4>2
    <3>4. PICK j \in 1 .. L + 1 : j = i + Len(s) /\ j \in i + 1 .. L + 1
      BY <1>1, <1>4, <3>2
    <3>5. F[i] = s \o F[j]
      <4>1. ASSUME NEW m \in 1 .. L, i <= m, m < j PROVE p[m] = kept(t, m)
        <5>1. m \in i .. i + Len(s) - 1
          BY <1>4, <3>4, <4>1
        <5> QED BY <3>3, <5>1
      <4>2. \A k \in 1 .. Len(s) : s[k] = t[i + k - 1]
        BY <2>3 DEF startsAt
      <4>3. i \in 1 .. L + 1
        BY <1>1
      <4> QED BY <1>7, <3>4, <4>1, <4>2, <4>3, KeptRun
    <3>6. PICK w \in Text : w = F[j]
      BY <1>7, <3>4 DEF IsRun
    <3>7. ReplaceAllIn(s \o w, s, r) = r \o ReplaceAllIn(w, s, r)
      BY <1>3, ReplaceHit
    <3>8. ReplaceAllIn(w, s, r) = G[j]
      BY <1>11, <3>4, <3>6
    <3>9. q[i] = piece(c)
      BY <1>3, <1>6, <2>3, <3>1
    <3>10. q[i].by = r /\ i + q[i].length = j
      BY <1>3, <3>4, <3>9 DEF piece
    <3>11. G[i] = q[i].by \o G[i + q[i].length]
      BY <1>8, <3>1 DEF IsRun
    <3> QED BY <3>5, <3>6, <3>7, <3>8, <3>10, <3>11
  <2>4. ASSUME i \in K, ~startsAt(s, t, i) PROVE ReplaceAllIn(F[i], s, r) = G[i]
    <3>1. i \in 1 .. L /\ i + 1 \in i + 1 .. L + 1 /\ i + 1 \in 1 .. L + 1 /\ t[i] \in Token
      BY <1>1, <2>4, TextFacts
    <3>2. PICK y \in Text : y = <<t[i]>> /\ Len(y) = 1
      BY <3>1, TextFacts
    <3>3. PICK w \in Text : w = F[i + 1]
      BY <1>7, <3>1 DEF IsRun
    <3>4. p[i] = kept(t, i) /\ q[i] = kept(t, i)
      BY <1>3, <1>5, <1>6, <2>4
    <3>5. F[i] = y \o w
      <4>1. F[i] = p[i].by \o F[i + p[i].length]
        BY <1>7, <3>1 DEF IsRun
      <4> QED BY <3>2, <3>3, <3>4, <4>1, KeptPiece
    <3>6. G[i] = y \o G[i + 1]
      <4>1. G[i] = q[i].by \o G[i + q[i].length]
        BY <1>8, <3>1 DEF IsRun
      <4> QED BY <3>2, <3>4, <4>1, KeptPiece
    <3>7. ~startsAt(s, F[i], 1)
      BY <1>3, <1>7, <1>10, <2>4, <3>1, StartKept
    <3>8. PICK u \in Text : u = F[i] /\ joins(u, y, w)
      <4>1. joins(y \o w, y, w) /\ y \o w \in Text
        BY Concat DEF joins
      <4> QED BY <3>5, <4>1, Zenon
    <3>9. free(s, u, Len(y))
      BY <3>2, <3>7, <3>8 DEF free
    <3>10. ReplaceAllIn(u, s, r) = y \o ReplaceAllIn(w, s, r)
      <4>1. s # << >> /\ joins(u, y, w)
        BY <1>3, <3>8
      <4> QED BY <3>9, <4>1, ReplaceSkip, SMTT(30)
    <3>11. ReplaceAllIn(w, s, r) = G[i + 1]
      BY <1>11, <3>1, <3>3
    <3> QED BY <3>6, <3>10, <3>11, <3>8
  <2>5. ReplaceAllIn(F[i], s, r) = G[i]
    <3>1. i = L + 1 \/ i \in 1 .. L
      BY <1>1
    <3> QED BY <2>1, <2>2, <2>3, <2>4, <3>1
  <2> QED BY <2>5
<1> HIDE DEF Good
<1>12. \A i \in 1 .. L + 1 : i \in Good
  BY <1>1, <1>11, Backwards
<1>13. 1 \in Good
  BY <1>1, <1>12
<1>14. ReplaceAllIn(F[1], s, r) = G[1]
  BY <1>13 DEF Good
<1> QED BY <1>3, <1>5, <1>6, <1>7, <1>8, <1>14

\* No sentinel replaced is the text as it is.
LEMMA NoneReplaced ==
  ASSUME NEW t \in Text
  PROVE  rewrite(t, substitution({}, t)) = t
<1>1. Len(t) \in Nat
  BY TextFacts
<1>2. Distinct({})
  BY DEF Distinct
<1>3. PICK p \in Picks(t) : /\ p = substitution({}, t)
                            /\ \A i \in 1 .. Len(t) : p[i] = kept(t, i)
  BY <1>2, Substitution
<1>4. PICK F : IsRun(F, t, p) /\ rewrite(t, p) = F[1]
  BY RewriteRuns
<1>5. PICK i, j \in 1 .. Len(t) + 1 : i = 1 /\ j = i + Len(t)
  BY <1>1
<1>6. F[i] = t \o F[j]
  <2>1. j = i + Len(t) /\ IsRun(F, t, p)
    BY <1>4, <1>5
  <2>2. \A k \in 1 .. Len(t) : i <= k /\ k < j => p[k] = kept(t, k)
    BY <1>3
  <2>3. ASSUME NEW k \in 1 .. Len(t) PROVE t[k] = t[i + k - 1]
    <3>1. i + k - 1 = k
      BY <1>5
    <3> QED BY <3>1
  <2> QED BY <2>1, <2>2, <2>3, KeptRun
<1>7. F[j] = << >>
  <2>1. j = Len(t) + 1
    BY <1>1, <1>5
  <2> QED BY <1>4, <2>1 DEF IsRun
<1>8. F[i] = t
  BY <1>6, <1>7, TextFacts
<1> QED BY <1>3, <1>4, <1>5, <1>8

\* For every list of secrets whose sentinels stay apart from each other and from the
\* values put in before them, and for every body or header value: replacing the
\* sentinels one secret after the other, each in what the ones before it left, is
\* replacing all of them at once (secrets.go:53-85).
THEOREM ReplacementIsSimultaneous ==
  ASSUME NEW list \in Seq(CustomSecret), Unambiguous(list), NEW text \in Text
  PROVE  ReplaceSentinels(list, text) = Substituted(list, text)
<1> DEFINE N == Len(list)
           S(n) == {list[k] : k \in {k \in 1 .. n : list[k].Sentinel # << >>}}
<1>1. N \in Nat /\ \A n \in 1 .. N : list[n] \in CustomSecret
  BY LenProperties, ElementOfSeq
<1>2. PICK g : /\ g \in [0 .. N -> Text]
               /\ g[0] = text
               /\ \A n \in 1 .. N : g[n] = replaceSentinel(g[n - 1], list[n])
               /\ ReplaceSentinels(list, text) = g[N]
  BY ReplaceLoop
<1>3. sentinelsOf(list) = S(N)
  <2>1. Range(list) = {list[k] : k \in 1 .. N}
    BY LenProperties DEF Range
  <2> QED BY <2>1 DEF sentinelsOf
<1>4. ASSUME NEW n \in 0 .. N PROVE Distinct(S(n))
  <2>1. S(n) \subseteq S(N) /\ S(n) \subseteq CustomSecret /\ \A x \in S(n) : x.Sentinel # << >>
    BY <1>1
  <2> HIDE DEF S
  <2> QED BY <1>3, <2>1 DEF Unambiguous, Distinct
<1> DEFINE Good == {n \in 0 .. N : g[n] = rewrite(text, substitution(S(n), text))}
<1>5. 0 \in Good
  <2>1. S(0) = {}
    OBVIOUS
  <2> HIDE DEF S
  <2>2. g[0] = rewrite(text, substitution(S(0), text))
    BY <1>2, <2>1, NoneReplaced
  <2> QED BY <1>1, <2>2
<1>6. ASSUME NEW n \in 1 .. N, n - 1 \in Good PROVE n \in Good
  <2>1. /\ n - 1 \in 0 .. N /\ n \in 0 .. N
        /\ g[n - 1] = rewrite(text, substitution(S(n - 1), text))
        /\ g[n] = replaceSentinel(g[n - 1], list[n])
    BY <1>1, <1>2, <1>6
  <2>2. CASE list[n].Sentinel = << >>
    <3>1. S(n) = S(n - 1)
      <4>1. \A k \in 1 .. n : list[k].Sentinel # << >> => k \in 1 .. n - 1
        BY <1>1, <2>2
      <4>2. \A k \in 1 .. n - 1 : k \in 1 .. n
        BY <1>1
      <4> QED BY <4>1, <4>2
    <3> HIDE DEF S
    <3>2. g[n] = g[n - 1]
      BY <2>1, <2>2 DEF replaceSentinel
    <3>3. g[n] = rewrite(text, substitution(S(n), text))
      BY <2>1, <3>1, <3>2
    <3> QED BY <2>1, <3>3
  <2>3. CASE list[n].Sentinel # << >>
    <3>1. PICK c : c = list[n]
      OBVIOUS
    <3>2. S(n) = S(n - 1) \cup {c}
      <4>1. \A k \in 1 .. n : k = n \/ k \in 1 .. n - 1
        BY <1>1
      <4>2. n \in 1 .. n /\ \A k \in 1 .. n - 1 : k \in 1 .. n
        BY <1>1
      <4> QED BY <2>3, <3>1, <4>1, <4>2
    <3>3. ASSUME NEW x \in S(n - 1) PROVE apart(x.Value, c.Sentinel)
      <4>1. PICK k \in 1 .. n - 1 : x = list[k] /\ list[k].Sentinel # << >>
        OBVIOUS
      <4>2. k \in 1 .. N /\ k < n
        BY <1>1
      <4>3. {list[k], list[n]} \subseteq S(N)
        BY <2>3, <4>1, <4>2
      <4>4. DOMAIN list = 1 .. N
        BY LenProperties
      <4> HIDE DEF S
      <4>5. apart(list[k].Value, list[n].Sentinel)
        BY <1>3, <4>2, <4>3, <4>4 DEF Unambiguous
      <4> QED BY <3>1, <4>1, <4>5
    <3> HIDE DEF S
    <3>4. g[n] = ReplaceAllIn(g[n - 1], c.Sentinel, c.Value)
      BY <2>1, <2>3, <3>1 DEF replaceSentinel
    <3>5. PICK T : T = S(n - 1) /\ Distinct(T \cup {c}) /\ \A x \in T : apart(x.Value, c.Sentinel)
      BY <1>4, <2>1, <3>2, <3>3
    <3>6. ReplaceAllIn(rewrite(text, substitution(T, text)), c.Sentinel, c.Value)
            = rewrite(text, substitution(T \cup {c}, text))
      BY <3>5, OneMore
    <3>7. g[n] = rewrite(text, substitution(S(n), text))
      BY <2>1, <3>2, <3>4, <3>5, <3>6
    <3> QED BY <2>1, <3>7
  <2> QED BY <2>2, <2>3
<1> HIDE DEF Good
<1>7. \A n \in 0 .. N : n \in Good
  BY <1>1, <1>5, <1>6, Forwards
<1>8. N \in Good
  BY <1>1, <1>7
<1> HIDE DEF S
<1> QED BY <1>2, <1>3, <1>8 DEF Good, Substituted
=============================================================================
