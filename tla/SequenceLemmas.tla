---------------------------- MODULE SequenceLemmas ----------------------------
(***************************************************************************)
(* Induction over naturals and sequences, from the well-foundedness of the *)
(* naturals, and with it what FlattenSeq makes of sequences put together   *)
(* and taken apart, and the order of what they hold.                       *)
(***************************************************************************)
EXTENDS Integers, Sequences, SequencesExt, SequenceTheorems, WellFoundedInduction, TLAPS

(* A set of naturals has a least element. *)
LEMMA LeastNatural ==
    ASSUME NEW T \in SUBSET Nat, T # {}
    PROVE  \E x \in T : \A y \in T : x <= y
<1>. DEFINE R == {ss \in Nat \X Nat : ss[1] < ss[2]}
<1>1. IsWellFoundedOn(R, Nat)
  BY NatLessThanWellFounded DEF OpToRel
<1>. HIDE DEF R
<1>2. PICK x \in T : \A y \in T : ~(<<y, x>> \in R)
  BY <1>1, WFMin
<1>3. \A y \in T : ~(y < x)
  BY <1>2 DEF R
<1>. QED
  BY <1>3

(* A set with 0 and the successor of each of its naturals has them all: the
   induction of the library's theorems with a set in the place of a formula. *)
LEMMA NaturalInduction ==
    ASSUME NEW T, 0 \in T, \A n \in Nat : n \in T => n + 1 \in T
    PROVE  Nat \subseteq T
<1>. SUFFICES ASSUME Nat \ T # {} PROVE FALSE
  OBVIOUS
<1>1. PICK x \in Nat \ T : \A y \in Nat \ T : x <= y
  BY LeastNatural
<1>2. x - 1 \in Nat /\ x - 1 \in T
  BY <1>1
<1>. QED
  BY <1>2

(* The same of sequences that grow at their end. *)
LEMMA SequenceInduction ==
    ASSUME NEW S, NEW T, <<>> \in T,
           \A s \in Seq(S), e \in S : s \in T => Append(s, e) \in T
    PROVE  Seq(S) \subseteq T
<1>. DEFINE N == {n \in Nat : \A s \in Seq(S) : Len(s) = n => s \in T}
<1>1. 0 \in N
  OBVIOUS
<1>2. ASSUME NEW n \in Nat, n \in N PROVE n + 1 \in N
  <2>1. ASSUME NEW s \in Seq(S), Len(s) = n + 1 PROVE s \in T
    <3>. DEFINE front == SubSeq(s, 1, n)
    <3>1. front \in Seq(S) /\ Len(front) = n /\ s[n + 1] \in S
      BY <2>1
    <3>2. s = Append(front, s[n + 1])
      BY <2>1, <3>1
    <3>. QED
      BY <1>2, <3>1, <3>2
  <2>. QED
    BY <2>1
<1>. HIDE DEF N
<1>3. Nat \subseteq N
  BY <1>1, <1>2, NaturalInduction
<1>. QED
  BY <1>3 DEF N

(* Concatenation is associative, as a fact of all the sequences over a set. *)
LEMMA Associative ==
    ASSUME NEW S
    PROVE  \A s, t, u \in Seq(S) : (s \o t) \o u = s \o (t \o u)
BY ConcatAssociative

-----------------------------------------------------------------------------
(* FlattenSeq: its partial results, then its equations. *)

Accumulates(f, ss, n) ==
    f = [i \in 1 .. n |-> IF i = 1 THEN ss[i] ELSE f[i - 1] \o ss[i]]

(* Each is the one before with one sequence more. *)
LEMMA PartialResult ==
    ASSUME NEW ss, NEW n \in Nat, NEW f, Accumulates(f, ss, n), NEW i \in 1 .. n
    PROVE  f[i] = IF i = 1 THEN ss[i] ELSE f[i - 1] \o ss[i]
<1>. DEFINE F == [j \in 1 .. n |-> IF j = 1 THEN ss[j] ELSE f[j - 1] \o ss[j]]
<1>1. f = F
  BY DEF Accumulates
<1>2. F[i] = IF i = 1 THEN ss[i] ELSE f[i - 1] \o ss[i]
  OBVIOUS
<1>. HIDE DEF F
<1>. QED
  BY <1>1, <1>2

(* There are partial results for each prefix. *)
LEMMA Accumulated ==
    ASSUME NEW S, NEW ss \in Seq(Seq(S))
    PROVE  \A n \in 0 .. Len(ss) : \E f \in [1 .. n -> Seq(S)] : Accumulates(f, ss, n)
<1>. DEFINE N == {n \in Nat : n <= Len(ss) =>
                    \E f \in [1 .. n -> Seq(S)] : Accumulates(f, ss, n)}
<1>1. 0 \in N
  <2>. DEFINE f == [i \in 1 .. 0 |-> <<>>]
  <2>1. f \in [1 .. 0 -> Seq(S)] /\ Accumulates(f, ss, 0)
    BY DEF Accumulates
  <2>. QED
    BY <2>1
<1>2. ASSUME NEW n \in Nat, n \in N PROVE n + 1 \in N
  <2>. SUFFICES ASSUME n + 1 <= Len(ss)
                PROVE  \E f \in [1 .. n + 1 -> Seq(S)] : Accumulates(f, ss, n + 1)
    OBVIOUS
  <2>1. PICK g \in [1 .. n -> Seq(S)] : Accumulates(g, ss, n)
    BY <1>2
  <2>. DEFINE f == [i \in 1 .. n + 1 |-> IF i <= n THEN g[i]
                                         ELSE IF i = 1 THEN ss[i] ELSE g[n] \o ss[i]]
  <2>2. \A i \in 1 .. n + 1 : ss[i] \in Seq(S)
    OBVIOUS
  <2>3. f \in [1 .. n + 1 -> Seq(S)]
    BY <2>1, <2>2
  <2>4. ASSUME NEW i \in 1 .. n + 1
        PROVE  f[i] = IF i = 1 THEN ss[i] ELSE f[i - 1] \o ss[i]
    <3>1. CASE i <= n
      <4>1. f[i] = g[i] /\ (i # 1 => f[i - 1] = g[i - 1]) /\ i \in 1 .. n
        BY <3>1
      <4>. HIDE DEF f
      <4>2. g[i] = IF i = 1 THEN ss[i] ELSE g[i - 1] \o ss[i]
        BY <2>1, <4>1, PartialResult
      <4>. QED
        BY <4>1, <4>2
    <3>2. CASE i = n + 1
      BY <3>2
    <3>. QED
      BY <3>1, <3>2
  <2>5. Accumulates(f, ss, n + 1)
    BY <2>4 DEF Accumulates
  <2>. QED
    BY <2>3, <2>5
<1>. HIDE DEF N
<1>3. Nat \subseteq N
  BY <1>1, <1>2, NaturalInduction
<1>. QED
  BY <1>3 DEF N

Alike(s, t, m, n) == \A i \in 1 .. m : i <= n => s[i] = t[i]

(* They are the same for sequences that begin alike. *)
LEMMA AccumulatesAlike ==
    ASSUME NEW ss, NEW tt, NEW m \in Nat, NEW n \in Nat, NEW f, NEW g,
           Accumulates(f, ss, m), Accumulates(g, tt, n), Alike(ss, tt, m, n)
    PROVE  Alike(f, g, m, n)
<1>. DEFINE N == {i \in Nat : 1 <= i /\ i <= m /\ i <= n => f[i] = g[i]}
<1>1. 0 \in N
  OBVIOUS
<1>2. ASSUME NEW i \in Nat, i \in N PROVE i + 1 \in N
  <2>. SUFFICES ASSUME i + 1 <= m, i + 1 <= n PROVE f[i + 1] = g[i + 1]
    OBVIOUS
  <2>1. /\ f[i + 1] = IF i + 1 = 1 THEN ss[i + 1] ELSE f[i] \o ss[i + 1]
        /\ g[i + 1] = IF i + 1 = 1 THEN tt[i + 1] ELSE g[i] \o tt[i + 1]
    <3>1. i + 1 \in 1 .. m /\ i + 1 \in 1 .. n /\ (i + 1) - 1 = i
      OBVIOUS
    <3>. QED
      BY <3>1, PartialResult
  <2>. QED
    BY <1>2, <2>1 DEF Alike
<1>. HIDE DEF N
<1>3. Nat \subseteq N
  BY <1>1, <1>2, NaturalInduction
<1>. QED
  BY <1>3 DEF N, Alike

(* FlattenSeq is the last of them. *)
LEMMA FlattenIsLast ==
    ASSUME NEW S, NEW ss \in Seq(Seq(S)), Len(ss) # 0
    PROVE  \E f \in [1 .. Len(ss) -> Seq(S)] :
              Accumulates(f, ss, Len(ss)) /\ FlattenSeq(ss) = f[Len(ss)]
<1>. DEFINE f == CHOOSE f : Accumulates(f, ss, Len(ss))
<1>1. PICK g \in [1 .. Len(ss) -> Seq(S)] : Accumulates(g, ss, Len(ss))
  BY Accumulated
<1>2. Accumulates(f, ss, Len(ss))
  BY <1>1
<1>3. FlattenSeq(ss) = f[Len(ss)]
  BY DEF FlattenSeq, Accumulates
<1>. HIDE DEF f
<1>4. \A i \in 1 .. Len(ss) : f[i] = g[i]
  <2>1. Alike(ss, ss, Len(ss), Len(ss))
    BY DEF Alike
  <2>2. Alike(f, g, Len(ss), Len(ss))
    BY <1>1, <1>2, <2>1, AccumulatesAlike
  <2>. QED
    BY <2>2 DEF Alike
<1>5. f = [i \in 1 .. Len(ss) |-> f[i]]
  BY <1>2 DEF Accumulates
<1>6. f \in [1 .. Len(ss) -> Seq(S)]
  BY <1>4, <1>5
<1>. QED
  BY <1>2, <1>3, <1>6

(* What is appended comes last. *)
LEMMA FlattenAppend ==
    ASSUME NEW S, NEW ss \in Seq(Seq(S)), NEW s \in Seq(S)
    PROVE  /\ FlattenSeq(ss) \in Seq(S)
           /\ FlattenSeq(Append(ss, s)) = FlattenSeq(ss) \o s
<1>. DEFINE n == Len(ss)
            tt == Append(ss, s)
<1>1. n \in Nat
  BY LenProperties
<1>2. /\ tt \in Seq(Seq(S)) /\ Len(tt) = n + 1 /\ tt[n + 1] = s
      /\ \A i \in 1 .. n : tt[i] = ss[i]
  BY AppendProperties
<1>. HIDE DEF tt
<1>3. PICK g \in [1 .. Len(tt) -> Seq(S)] :
         Accumulates(g, tt, Len(tt)) /\ FlattenSeq(tt) = g[Len(tt)]
  <2>1. Len(tt) # 0
    BY <1>1, <1>2
  <2>. QED
    BY <1>2, <2>1, FlattenIsLast
<1>4. g[n + 1] = IF n + 1 = 1 THEN tt[n + 1] ELSE g[(n + 1) - 1] \o tt[n + 1]
  <2>1. PICK m \in Nat : m = n + 1
    BY <1>1
  <2>2. Accumulates(g, tt, m) /\ m \in 1 .. m
    BY <1>1, <1>2, <1>3, <2>1
  <2>3. g[m] = IF m = 1 THEN tt[m] ELSE g[m - 1] \o tt[m]
    BY <2>2, PartialResult
  <2>. QED
    BY <2>1, <2>3
<1>5. CASE n = 0
  <2>1. ss = <<>>
    BY <1>5, EmptySeq
  <2>2. FlattenSeq(ss) = <<>> /\ <<>> \o s = s /\ <<>> \in Seq(S)
    BY <2>1 DEF FlattenSeq
  <2>3. FlattenSeq(tt) = s
    BY <1>2, <1>3, <1>4, <1>5
  <2>. QED
    BY <2>2, <2>3 DEF tt
<1>6. CASE n # 0
  <2>1. PICK f \in [1 .. n -> Seq(S)] : Accumulates(f, ss, n) /\ FlattenSeq(ss) = f[n]
    BY <1>6, FlattenIsLast
  <2>2. n \in 1 .. n /\ (n + 1) - 1 = n /\ n + 1 # 1 /\ n <= n + 1 /\ n + 1 \in Nat
    BY <1>1, <1>6
  <2>3. g[n] = f[n]
    <3>. HIDE DEF n
    <3>1. PICK m \in Nat : m = n + 1
      BY <1>1
    <3>2. Accumulates(g, tt, m) /\ Alike(ss, tt, n, m)
      BY <1>2, <1>3, <3>1 DEF Alike
    <3>3. Alike(f, g, n, m)
      BY <1>1, <2>1, <3>2, AccumulatesAlike
    <3>. QED
      BY <2>2, <3>1, <3>3 DEF Alike
  <2>4. f[n] \in Seq(S)
    BY <2>1, <2>2
  <2>5. FlattenSeq(tt) = f[n] \o s
    BY <1>2, <1>3, <1>4, <2>2, <2>3
  <2>. QED
    BY <2>1, <2>4, <2>5 DEF tt
<1>. QED
  BY <1>5, <1>6

(* Nothing. *)
LEMMA FlattenNone == FlattenSeq(<<>>) = <<>>
BY DEF FlattenSeq

(* One sequence. *)
LEMMA FlattenOne ==
    ASSUME NEW S, NEW s \in Seq(S)
    PROVE  FlattenSeq(<<s>>) = s
<1>1. <<>> \in Seq(Seq(S)) /\ <<s>> = Append(<<>>, s) /\ <<>> \o s = s
  OBVIOUS
<1>. QED
  BY <1>1, FlattenNone, FlattenAppend

(* What is flattened is a sequence of the same elements. *)
LEMMA FlattenType ==
    ASSUME NEW S, NEW ss \in Seq(Seq(S))
    PROVE  FlattenSeq(ss) \in Seq(S)
BY FlattenAppend, <<>> \in Seq(S)

(* It distributes over concatenation. *)
LEMMA FlattenConcat ==
    ASSUME NEW S, NEW ss \in Seq(Seq(S)), NEW tt \in Seq(Seq(S))
    PROVE  FlattenSeq(ss \o tt) = FlattenSeq(ss) \o FlattenSeq(tt)
<1>. DEFINE T == {t \in Seq(Seq(S)) : FlattenSeq(ss \o t) = FlattenSeq(ss) \o FlattenSeq(t)}
<1>0. FlattenSeq(ss) \in Seq(S)
  BY FlattenAppend, <<>> \in Seq(S)
<1>1. <<>> \in T
  <2>1. ss \o <<>> = ss /\ FlattenSeq(ss) \o <<>> = FlattenSeq(ss)
    BY <1>0, ConcatEmptySeq
  <2>2. FlattenSeq(<<>>) = <<>> /\ <<>> \in Seq(Seq(S))
    BY FlattenNone
  <2>. QED
    BY <2>1, <2>2
<1>2. ASSUME NEW t \in Seq(Seq(S)), NEW s \in Seq(S), t \in T PROVE Append(t, s) \in T
  <2>1. ss \o Append(t, s) = Append(ss \o t, s) /\ ss \o t \in Seq(Seq(S))
        /\ Append(t, s) \in Seq(Seq(S))
    OBVIOUS
  <2>2. /\ FlattenSeq(Append(ss \o t, s)) = FlattenSeq(ss \o t) \o s
        /\ FlattenSeq(Append(t, s)) = FlattenSeq(t) \o s
        /\ FlattenSeq(t) \in Seq(S)
    BY <2>1, FlattenAppend
  <2>3. (FlattenSeq(ss) \o FlattenSeq(t)) \o s = FlattenSeq(ss) \o (FlattenSeq(t) \o s)
    <3>1. \A u, v, w \in Seq(S) : (u \o v) \o w = u \o (v \o w)
      BY Associative, SMTT(30)
    <3>. QED
      BY <1>0, <2>2, <3>1, Zenon
  <2>. QED
    BY <1>2, <2>1, <2>2, <2>3
<1>. HIDE DEF T
<1>3. Seq(Seq(S)) \subseteq T
  BY <1>1, <1>2, SequenceInduction
<1>. QED
  BY <1>3 DEF T

(* The first of several. *)
LEMMA FlattenFirst ==
    ASSUME NEW S, NEW s \in Seq(S), NEW ss \in Seq(Seq(S))
    PROVE  FlattenSeq(<<s>> \o ss) = s \o FlattenSeq(ss)
<1>1. <<s>> \in Seq(Seq(S)) /\ FlattenSeq(<<s>>) = s
  BY FlattenOne
<1>. QED
  BY <1>1, FlattenConcat

(* Empty sequences add nothing. *)
LEMMA FlattenEmpties ==
    ASSUME NEW n \in Nat
    PROVE  FlattenSeq([i \in 1 .. n |-> <<>>]) = <<>>
<1>. DEFINE E(k) == [i \in 1 .. k |-> <<>>]
            N == {k \in Nat : FlattenSeq(E(k)) = <<>>}
<1>1. 0 \in N
  <2>1. E(0) = <<>>
    OBVIOUS
  <2>. QED
    BY <2>1, FlattenNone
<1>2. ASSUME NEW k \in Nat, k \in N PROVE k + 1 \in N
  <2>1. <<>> \in Seq({}) /\ E(k) \in Seq(Seq({})) /\ E(k + 1) = Append(E(k), <<>>)
    OBVIOUS
  <2>2. FlattenSeq(E(k)) = <<>>
    BY <1>2
  <2>. HIDE DEF E
  <2>3. FlattenSeq(E(k + 1)) = <<>> \o <<>>
    BY <2>1, <2>2, FlattenAppend
  <2>. QED
    BY <2>3
<1>. HIDE DEF N, E
<1>3. Nat \subseteq N
  BY <1>1, <1>2, NaturalInduction
<1>. QED
  BY <1>3 DEF N, E

-----------------------------------------------------------------------------
(* Consecutive numbers. *)

\* The numbers after a, up to b.
Between(a, b) == [j \in 1 .. b - a |-> a + j]

(* There are b - a of them. *)
LEMMA BetweenType ==
    ASSUME NEW a \in Nat, NEW b \in Nat, a <= b
    PROVE  /\ Between(a, b) \in Seq(Nat) /\ Len(Between(a, b)) = b - a
           /\ a = b => Between(a, b) = <<>>
BY DEF Between

(* A run that begins where another ends. *)
LEMMA BetweenConcat ==
    ASSUME NEW a \in Nat, NEW b \in Nat, NEW c \in Nat, a <= b, b <= c
    PROVE  Between(a, b) \o Between(b, c) = Between(a, c)
<1>1. /\ Between(a, b) \in Seq(Nat) /\ Between(b, c) \in Seq(Nat) /\ Between(a, c) \in Seq(Nat)
      /\ Len(Between(a, b)) = b - a /\ Len(Between(b, c)) = c - b /\ Len(Between(a, c)) = c - a
  BY DEF Between
<1>2. PICK s \in Seq(Nat), t \in Seq(Nat) : /\ s = Between(a, b) /\ Len(s) = b - a
                                            /\ t = Between(b, c) /\ Len(t) = c - b
  BY <1>1
<1>3. s \o t \in Seq(Nat) /\ Len(s \o t) = c - a
  BY <1>2
<1>4. ASSUME NEW i \in 1 .. c - a PROVE (s \o t)[i] = Between(a, c)[i]
  <2>1. (s \o t)[i] = IF i <= b - a THEN s[i] ELSE t[i - (b - a)]
    BY <1>2
  <2>2. (IF i <= b - a THEN Between(a, b)[i] ELSE Between(b, c)[i - (b - a)])
           = Between(a, c)[i]
    BY DEF Between
  <2>. QED
    BY <1>2, <2>1, <2>2
<1>. QED
  BY <1>1, <1>2, <1>3, <1>4, SeqEqual

(* Runs that follow each other make one run. *)
LEMMA FlattenBetween ==
    ASSUME NEW n \in Nat, NEW o \in [0 .. n -> Nat], \A i \in 1 .. n : o[i - 1] <= o[i]
    PROVE  /\ o[0] <= o[n]
           /\ FlattenSeq([i \in 1 .. n |-> Between(o[i - 1], o[i])]) = Between(o[0], o[n])
<1>. DEFINE R(k) == [i \in 1 .. k |-> Between(o[i - 1], o[i])]
            N == {k \in Nat : k <= n => o[0] <= o[k] /\ FlattenSeq(R(k)) = Between(o[0], o[k])}
<1>1. 0 \in N
  <2>1. R(0) = <<>> /\ o[0] \in Nat /\ o[0] <= o[0]
    OBVIOUS
  <2>2. Between(o[0], o[0]) = <<>>
    BY <2>1, BetweenType
  <2>. QED
    BY <2>1, <2>2, FlattenNone
<1>2. ASSUME NEW k \in Nat, k \in N PROVE k + 1 \in N
  <2>. SUFFICES ASSUME k + 1 <= n
                PROVE  o[0] <= o[k + 1] /\ FlattenSeq(R(k + 1)) = Between(o[0], o[k + 1])
    OBVIOUS
  <2>1. /\ k \in 0 .. n /\ k + 1 \in 1 .. n /\ (k + 1) - 1 = k
        /\ o[0] \in Nat /\ o[k] \in Nat /\ o[k + 1] \in Nat /\ o[0] <= o[k] /\ o[k] <= o[k + 1]
        /\ FlattenSeq(R(k)) = Between(o[0], o[k])
    BY <1>2
  <2>2. \A i \in 1 .. k + 1 : Between(o[i - 1], o[i]) \in Seq(Nat)
    <3>1. ASSUME NEW i \in 1 .. k + 1 PROVE Between(o[i - 1], o[i]) \in Seq(Nat)
      <4>1. o[i - 1] \in Nat /\ o[i] \in Nat /\ o[i - 1] <= o[i]
        OBVIOUS
      <4>. QED
        BY <4>1, BetweenType
    <3>. QED
      BY <3>1
  <2>3. /\ R(k) \in Seq(Seq(Nat)) /\ Between(o[k], o[k + 1]) \in Seq(Nat)
        /\ R(k + 1) = Append(R(k), Between(o[k], o[k + 1]))
    <3>1. R(k) \in Seq(Seq(Nat)) /\ Len(R(k)) = k
      BY <2>2
    <3>2. Between(o[k], o[k + 1]) \in Seq(Nat)
      BY <2>1, BetweenType
    <3>3. R(k + 1) \in Seq(Seq(Nat)) /\ Len(R(k + 1)) = k + 1
      BY <2>2
    <3>4. \A i \in 1 .. k : R(k + 1)[i] = R(k)[i]
      OBVIOUS
    <3>5. R(k + 1)[k + 1] = Between(o[k], o[k + 1])
      BY <2>1
    <3>. HIDE DEF R
    <3>6. PICK s \in Seq(Seq(Nat)), e \in Seq(Nat) :
             s = R(k) /\ Len(s) = k /\ e = Between(o[k], o[k + 1])
      BY <3>1, <3>2
    <3>7. Append(s, e) \in Seq(Seq(Nat)) /\ Len(Append(s, e)) = k + 1
      BY <3>6
    <3>8. \A i \in 1 .. k + 1 : Append(s, e)[i] = R(k + 1)[i]
      <4>1. /\ \A i \in 1 .. Len(s) : Append(s, e)[i] = s[i]
            /\ Append(s, e)[Len(s) + 1] = e
        BY AppendProperties
      <4>2. (\A i \in 1 .. k : Append(s, e)[i] = s[i]) /\ Append(s, e)[k + 1] = e
        BY <3>6, <4>1
      <4>3. \A i \in 1 .. k + 1 : i \in 1 .. k \/ i = k + 1
        OBVIOUS
      <4>. QED
        BY <3>4, <3>5, <3>6, <4>1, <4>2, <4>3
    <3>9. Append(s, e) = R(k + 1)
      BY <3>3, <3>7, <3>8, SeqEqual
    <3>. QED
      BY <3>1, <3>2, <3>6, <3>9
  <2>. HIDE DEF R
  <2>4. FlattenSeq(R(k + 1)) = Between(o[0], o[k]) \o Between(o[k], o[k + 1])
    BY <2>1, <2>3, FlattenAppend
  <2>5. Between(o[0], o[k]) \o Between(o[k], o[k + 1]) = Between(o[0], o[k + 1])
    BY <2>1, BetweenConcat
  <2>. QED
    BY <2>1, <2>4, <2>5
<1>. HIDE DEF N, R
<1>3. Nat \subseteq N
  BY <1>1, <1>2, NaturalInduction
<1>. QED
  BY <1>3 DEF N, R

-----------------------------------------------------------------------------
(* What a sequence holds. *)

(* Both, of two together ... *)
LEMMA SetOfConcat ==
  ASSUME NEW S, NEW s \in Seq(S), NEW t \in Seq(S)
  PROVE  /\ s \o t \in Seq(S) /\ Len(s \o t) = Len(s) + Len(t)
         /\ ToSet(s \o t) = ToSet(s) \cup ToSet(t)
  <1>1. /\ s \o t \in Seq(S) /\ Len(s \o t) = Len(s) + Len(t)
        /\ Len(s) \in Nat /\ Len(t) \in Nat
        /\ DOMAIN s = 1 .. Len(s) /\ DOMAIN t = 1 .. Len(t)
        /\ DOMAIN (s \o t) = 1 .. Len(s) + Len(t)
    OBVIOUS
  <1>2. \A i \in 1 .. Len(s) : (s \o t)[i] = s[i] OBVIOUS
  <1>3. \A i \in 1 .. Len(t) : (s \o t)[Len(s) + i] = t[i] OBVIOUS
  <1>4. ToSet(s) \subseteq ToSet(s \o t) BY <1>1, <1>2 DEF ToSet
  <1>5. ToSet(t) \subseteq ToSet(s \o t)
    <2> SUFFICES ASSUME NEW i \in 1 .. Len(t) PROVE t[i] \in ToSet(s \o t)
      BY <1>1 DEF ToSet
    <2>1. Len(s) + i \in 1 .. Len(s) + Len(t) BY <1>1
    <2> QED BY <1>1, <1>3, <2>1 DEF ToSet
  <1>6. ToSet(s \o t) \subseteq ToSet(s) \cup ToSet(t)
    <2> SUFFICES ASSUME NEW i \in 1 .. Len(s) + Len(t)
                 PROVE  (s \o t)[i] \in ToSet(s) \cup ToSet(t)
      BY <1>1 DEF ToSet
    <2>1. CASE i <= Len(s) BY <1>1, <1>2, <2>1 DEF ToSet
    <2>2. CASE i > Len(s)
      <3>1. i - Len(s) \in 1 .. Len(t) BY <1>1, <2>2
      <3>2. (s \o t)[Len(s) + (i - Len(s))] = t[i - Len(s)] BY <1>3, <3>1
      <3>3. (s \o t)[i] = t[i - Len(s)] BY <1>1, <3>2
      <3> QED BY <1>1, <3>1, <3>3 DEF ToSet
    <2> QED BY <1>1, <2>1, <2>2
  <1> QED BY <1>1, <1>4, <1>5, <1>6

(* ... some, of a prefix ... *)
LEMMA SetOfPrefix ==
  ASSUME NEW S, NEW s \in Seq(S), NEW n \in 0 .. Len(s)
  PROVE  /\ SubSeq(s, 1, n) \in Seq(S) /\ Len(SubSeq(s, 1, n)) = n
         /\ ToSet(SubSeq(s, 1, n)) \subseteq ToSet(s) /\ ToSet(s) \subseteq S
         /\ n = Len(s) => ToSet(SubSeq(s, 1, n)) = ToSet(s)
  <1>1. /\ SubSeq(s, 1, n) \in Seq(S) /\ Len(SubSeq(s, 1, n)) = n
        /\ DOMAIN s = 1 .. Len(s) /\ DOMAIN SubSeq(s, 1, n) = 1 .. n
        /\ \A i \in 1 .. n : SubSeq(s, 1, n)[i] = s[i]
    OBVIOUS
  <1>2. \A i \in 1 .. Len(s) : s[i] \in S OBVIOUS
  <1>3. ToSet(s) \subseteq S BY <1>1, <1>2 DEF ToSet
  <1>4. n \in Nat /\ 1 .. n \subseteq 1 .. Len(s) OBVIOUS
  <1>5. ToSet(SubSeq(s, 1, n)) = {s[i] : i \in 1 .. n} BY <1>1 DEF ToSet
  <1>6. ToSet(s) = {s[i] : i \in 1 .. Len(s)} BY <1>1 DEF ToSet
  <1>7. ToSet(SubSeq(s, 1, n)) \subseteq ToSet(s) BY <1>4, <1>5, <1>6
  <1>8. n = Len(s) => ToSet(SubSeq(s, 1, n)) = ToSet(s) BY <1>5, <1>6
  <1> QED BY <1>1, <1>3, <1>7, <1>8

(* ... all but the first, of the tail ... *)
LEMMA SetOfTail ==
  ASSUME NEW S, NEW s \in Seq(S), s # <<>>
  PROVE  /\ Tail(s) \in Seq(S) /\ Head(s) \in S /\ Len(Tail(s)) = Len(s) - 1
         /\ ToSet(s) = {Head(s)} \cup ToSet(Tail(s))
  <1>1. /\ Tail(s) \in Seq(S) /\ Head(s) \in S /\ Len(Tail(s)) = Len(s) - 1
        /\ Len(s) \in Nat \ {0} /\ Head(s) = s[1]
        /\ DOMAIN s = 1 .. Len(s) /\ DOMAIN Tail(s) = 1 .. Len(s) - 1
        /\ \A i \in 1 .. Len(s) - 1 : Tail(s)[i] = s[i + 1]
    OBVIOUS
  <1>2. ToSet(Tail(s)) \subseteq ToSet(s) /\ Head(s) \in ToSet(s) BY <1>1 DEF ToSet
  <1>3. ToSet(s) \subseteq {Head(s)} \cup ToSet(Tail(s))
    <2> SUFFICES ASSUME NEW i \in 1 .. Len(s) PROVE s[i] \in {Head(s)} \cup ToSet(Tail(s))
      BY <1>1 DEF ToSet
    <2>1. CASE i = 1 BY <1>1, <2>1
    <2>2. CASE i # 1
      <3>1. i - 1 \in 1 .. Len(s) - 1 /\ (i - 1) + 1 = i BY <1>1, <2>2
      <3>2. Tail(s)[i - 1] = s[i] BY <1>1, <3>1
      <3> QED BY <1>1, <3>1, <3>2 DEF ToSet
    <2> QED BY <2>1, <2>2
  <1> QED BY <1>1, <1>2, <1>3

(* ... and nothing. *)
LEMMA SetOfEmpty == ToSet(<<>>) = {}
  BY DEF ToSet

(* What several sequences hold together. *)
LEMMA SetOfFlattened ==
    ASSUME NEW S, NEW ss \in Seq(Seq(S))
    PROVE  ToSet(FlattenSeq(ss)) = UNION {ToSet(ss[i]) : i \in 1 .. Len(ss)}
<1>. DEFINE U(s) == UNION {ToSet(s[i]) : i \in 1 .. Len(s)}
            T == {s \in Seq(Seq(S)) : ToSet(FlattenSeq(s)) = U(s)}
<1>1. <<>> \in T
  BY FlattenNone, SetOfEmpty
<1>2. ASSUME NEW s \in Seq(Seq(S)), NEW e \in Seq(S), s \in T PROVE Append(s, e) \in T
  <2>1. /\ Append(s, e) \in Seq(Seq(S)) /\ Len(Append(s, e)) = Len(s) + 1 /\ Len(s) \in Nat
        /\ \A i \in 1 .. Len(s) : Append(s, e)[i] = s[i]
        /\ Append(s, e)[Len(s) + 1] = e
    BY AppendProperties, LenProperties
  <2>2. U(Append(s, e)) = U(s) \cup ToSet(e)
    <3>1. \A i \in 1 .. Len(s) + 1 : i \in 1 .. Len(s) \/ i = Len(s) + 1
      BY <2>1
    <3>2. \A i \in 1 .. Len(s) : i \in 1 .. Len(s) + 1
      BY <2>1
    <3>3. Len(s) + 1 \in 1 .. Len(s) + 1
      BY <2>1
    <3>. QED
      BY <2>1, <3>1, <3>2, <3>3
  <2>3. FlattenSeq(Append(s, e)) = FlattenSeq(s) \o e /\ FlattenSeq(s) \in Seq(S)
    BY FlattenAppend
  <2>4. ToSet(FlattenSeq(Append(s, e))) = ToSet(FlattenSeq(s)) \cup ToSet(e)
    BY <2>3, SetOfConcat
  <2>. QED
    BY <1>2, <2>1, <2>2, <2>4
<1>. HIDE DEF T
<1>3. Seq(Seq(S)) \subseteq T
  BY <1>1, <1>2, SequenceInduction
<1>. QED
  BY <1>3 DEF T

(* The first that is not empty comes first. *)
LEMMA FlattenAt ==
    ASSUME NEW S, NEW ss \in Seq(Seq(S)), NEW i \in 1 .. Len(ss),
           \A j \in 1 .. i - 1 : ss[j] = <<>>,
           NEW tt, tt = [ss EXCEPT ![i] = <<>>]
    PROVE  FlattenSeq(ss) = ss[i] \o FlattenSeq(tt)
<1>. DEFINE e == [j \in 1 .. i - 1 |-> <<>>]
            rest == SubSeq(ss, i + 1, Len(ss))
<1>1. /\ Len(ss) \in Nat /\ ss[i] \in Seq(S) /\ <<>> \in Seq(S)
      /\ e \in Seq(Seq(S)) /\ rest \in Seq(Seq(S))
  OBVIOUS
<1>2. ss = e \o (<<ss[i]>> \o rest)
  OBVIOUS
<1>3. tt = e \o (<< <<>> >> \o rest)
  OBVIOUS
<1>4. FlattenSeq(e) = <<>>
  <2>1. PICK k \in Nat : k = i - 1
    BY <1>1
  <2>. QED
    BY <2>1, FlattenEmpties
<1>. HIDE DEF e, rest
<1>5. ASSUME NEW s \in Seq(S)
      PROVE  FlattenSeq(e \o (<<s>> \o rest)) = s \o FlattenSeq(rest)
  <2>1. <<s>> \o rest \in Seq(Seq(S)) /\ FlattenSeq(<<s>> \o rest) = s \o FlattenSeq(rest)
    <3>1. <<s>> \in Seq(Seq(S))
      OBVIOUS
    <3>2. <<s>> \o rest \in Seq(Seq(S))
      BY <1>1, <3>1, ConcatProperties
    <3>3. FlattenSeq(<<s>> \o rest) = s \o FlattenSeq(rest)
      BY <1>1, FlattenFirst
    <3>. QED
      BY <3>2, <3>3
  <2>2. FlattenSeq(e \o (<<s>> \o rest)) = <<>> \o FlattenSeq(<<s>> \o rest)
    BY <1>1, <1>4, <2>1, FlattenConcat
  <2>3. FlattenSeq(<<s>> \o rest) \in Seq(S)
    BY <2>1, FlattenType
  <2>. QED
    BY <2>1, <2>2, <2>3, ConcatEmptySeq
<1>6. FlattenSeq(tt) = <<>> \o FlattenSeq(rest) /\ FlattenSeq(rest) \in Seq(S)
  BY <1>1, <1>3, <1>5, FlattenType
<1>7. FlattenSeq(tt) = FlattenSeq(rest)
  BY <1>6, ConcatEmptySeq
<1>. QED
  BY <1>1, <1>2, <1>5, <1>7

-----------------------------------------------------------------------------
(* Order. *)

Increasing(s) == \A i, j \in 1 .. Len(s) : i < j => s[i] < s[j]

(* Two sequences are in order together if each is and the first is below the second. *)
LEMMA IncreasingConcat ==
    ASSUME NEW s \in Seq(Int), NEW t \in Seq(Int)
    PROVE  Increasing(s \o t) <=> /\ Increasing(s) /\ Increasing(t)
                                  /\ \A x \in ToSet(s), y \in ToSet(t) : x < y
<1>. DEFINE m == Len(s)
            n == Len(t)
            st == s \o t
<1>1. /\ m \in Nat /\ n \in Nat /\ Len(st) = m + n
      /\ DOMAIN s = 1 .. m /\ DOMAIN t = 1 .. n
      /\ \A i \in 1 .. m : st[i] = s[i] /\ i \in 1 .. m + n
      /\ \A i \in 1 .. n : st[m + i] = t[i] /\ m + i \in 1 .. m + n
  OBVIOUS
<1>. HIDE DEF m, n, st
<1>2. ASSUME Increasing(st)
      PROVE  /\ Increasing(s) /\ Increasing(t)
             /\ \A x \in ToSet(s), y \in ToSet(t) : x < y
  <2>1. \A i, j \in 1 .. m + n : i < j => st[i] < st[j]
    BY <1>1, <1>2 DEF Increasing
  <2>2. \A i, j \in 1 .. m : i < j => s[i] < s[j]
    BY <1>1, <2>1
  <2>3. ASSUME NEW i \in 1 .. n, NEW j \in 1 .. n, i < j PROVE t[i] < t[j]
    <3>1. m + i \in 1 .. m + n /\ m + j \in 1 .. m + n /\ m + i < m + j
      BY <1>1, <2>3
    <3>2. st[m + i] < st[m + j]
      BY <2>1, <3>1
    <3>. QED
      BY <1>1, <3>2
  <2>4. ASSUME NEW i \in 1 .. m, NEW j \in 1 .. n PROVE s[i] < t[j]
    <3>1. i \in 1 .. m + n /\ m + j \in 1 .. m + n /\ i < m + j
      BY <1>1
    <3>2. st[i] < st[m + j]
      BY <2>1, <3>1
    <3>. QED
      BY <1>1, <3>2
  <2>. QED
    BY <1>1, <2>2, <2>3, <2>4 DEF Increasing, ToSet, m, n
<1>3. ASSUME Increasing(s), Increasing(t), \A x \in ToSet(s), y \in ToSet(t) : x < y
      PROVE  Increasing(st)
  <2>1. /\ \A i, j \in 1 .. m : i < j => s[i] < s[j]
        /\ \A i, j \in 1 .. n : i < j => t[i] < t[j]
        /\ \A i \in 1 .. m, j \in 1 .. n : s[i] < t[j]
    BY <1>1, <1>3 DEF Increasing, ToSet, m, n
  <2>2. ASSUME NEW i \in 1 .. m + n, NEW j \in 1 .. m + n, i < j PROVE st[i] < st[j]
    <3>1. CASE j <= m
      BY <1>1, <2>1, <2>2, <3>1
    <3>2. CASE j > m
      <4>1. PICK l \in 1 .. n : j = m + l
        <5>1. j - m \in 1 .. n /\ j = m + (j - m)
          BY <1>1, <3>2
        <5>. QED
          BY <5>1
      <4>2. CASE i <= m
        <5>1. i \in 1 .. m /\ st[i] = s[i] /\ st[j] = t[l]
          BY <1>1, <4>1, <4>2
        <5>. QED
          BY <2>1, <5>1
      <4>3. CASE i > m
        <5>1. PICK k \in 1 .. n : i = m + k
          <6>1. i - m \in 1 .. n /\ i = m + (i - m)
            BY <1>1, <4>3
          <6>. QED
            BY <6>1
        <5>2. k < l
          BY <1>1, <2>2, <4>1, <5>1
        <5>. QED
          BY <1>1, <2>1, <4>1, <5>1, <5>2
      <4>. QED
        BY <1>1, <4>2, <4>3
    <3>. QED
      BY <1>1, <3>1, <3>2
  <2>. QED
    BY <1>1, <2>2 DEF Increasing
<1>. QED
  BY <1>2, <1>3 DEF st

(* Without the part c, what is in order stays in order, and holds all but c. *)
LEMMA CutIncreasing ==
    ASSUME NEW a \in Seq(Int), NEW b \in Seq(Int), NEW c \in Seq(Int), NEW d \in Seq(Int),
           Increasing(a \o (b \o (c \o d)))
    PROVE  /\ Increasing(a \o (b \o d)) /\ ToSet(b) \cap ToSet(c) = {}
           /\ ToSet(a \o (b \o d)) = ToSet(a \o (b \o (c \o d))) \ ToSet(c)
<1>1. /\ c \o d \in Seq(Int) /\ b \o (c \o d) \in Seq(Int) /\ b \o d \in Seq(Int)
      /\ ToSet(c \o d) = ToSet(c) \cup ToSet(d)
      /\ ToSet(b \o d) = ToSet(b) \cup ToSet(d)
      /\ ToSet(b \o (c \o d)) = ToSet(b) \cup ToSet(c \o d)
      /\ ToSet(a \o (b \o d)) = ToSet(a) \cup ToSet(b \o d)
      /\ ToSet(a \o (b \o (c \o d))) = ToSet(a) \cup ToSet(b \o (c \o d))
  <2>1. /\ c \o d \in Seq(Int) /\ ToSet(c \o d) = ToSet(c) \cup ToSet(d)
        /\ b \o d \in Seq(Int) /\ ToSet(b \o d) = ToSet(b) \cup ToSet(d)
    BY SetOfConcat
  <2>2. PICK cd \in Seq(Int), bd \in Seq(Int) : cd = c \o d /\ bd = b \o d
    BY <2>1
  <2>3. PICK bcd \in Seq(Int) : bcd = b \o cd /\ ToSet(bcd) = ToSet(b) \cup ToSet(cd)
    <3>1. b \o cd \in Seq(Int) /\ ToSet(b \o cd) = ToSet(b) \cup ToSet(cd)
      BY SetOfConcat
    <3>. QED
      BY <3>1
  <2>4. ToSet(a \o bd) = ToSet(a) \cup ToSet(bd) /\ ToSet(a \o bcd) = ToSet(a) \cup ToSet(bcd)
    BY SetOfConcat
  <2>. QED
    BY <2>1, <2>2, <2>3, <2>4
<1>2. /\ Increasing(a) /\ Increasing(b \o (c \o d))
      /\ \A x \in ToSet(a), y \in ToSet(b \o (c \o d)) : x < y
  BY <1>1, IncreasingConcat
<1>3. /\ Increasing(b) /\ Increasing(c \o d)
      /\ \A x \in ToSet(b), y \in ToSet(c \o d) : x < y
  BY <1>1, <1>2, IncreasingConcat
<1>4. /\ Increasing(c) /\ Increasing(d)
      /\ \A x \in ToSet(c), y \in ToSet(d) : x < y
  BY <1>3, IncreasingConcat
<1>5. Increasing(b \o d)
  BY <1>1, <1>3, <1>4, IncreasingConcat
<1>6. Increasing(a \o (b \o d))
  BY <1>1, <1>2, <1>5, IncreasingConcat
<1>7. \A x \in ToSet(c) : x \in Int
  BY DEF ToSet
<1>8. \A x \in ToSet(c) : x \notin ToSet(a) /\ x \notin ToSet(b) /\ x \notin ToSet(d)
  BY <1>1, <1>2, <1>3, <1>4, <1>7
<1>. QED
  BY <1>1, <1>6, <1>8

=============================================================================
