---------------------------- MODULE HelpersProofs ----------------------------
(***************************************************************************)
(* Arena, Arguments and Frames, for all values of their constants: blocks  *)
(* of the arena and its canaries, command lines of any length, and streams *)
(* of any frames.  The three share nothing but the lemmas that come first. *)
(***************************************************************************)
EXTENDS Arena, Arguments, Frames, TLAPS, FiniteSets, FiniteSetTheorems,
        SequenceTheorems, WellFoundedInduction

(* Induction and recursion over data, and sequences                        *)

\* Induction: a set that has 0 and with every number the next one has them all.  The
\* numbers below a least one that is missing would be a least such segment.
LEMMA NatSetInduction ==
  ASSUME NEW S, 0 \in S, \A n \in Nat : n \in S => n + 1 \in S
  PROVE  \A n \in Nat : n \in S
<1> DEFINE T == {0 .. (n - 1) : n \in Nat \ S}
<1>1. SUFFICES ASSUME T # {} PROVE FALSE
  OBVIOUS
<1>2. T \subseteq FiniteSubsetsOf(Nat)
  <2>1. ASSUME NEW n \in Nat PROVE 0 .. (n-1) \in FiniteSubsetsOf(Nat)
    <3>1. IsFiniteSet(0 .. (n-1))
      BY FS_Interval
    <3>2. QED BY <3>1 DEF FiniteSubsetsOf
  <2>2. QED BY <2>1
<1>3. PICK x \in T : \A y \in T : ~(<<y, x>> \in StrictSubsetOrdering(Nat))
  <2>1. IsWellFoundedOn(StrictSubsetOrdering(Nat), FiniteSubsetsOf(Nat))
    BY FS_StrictSubsetOrderingWellFounded
  <2> HIDE DEF T
  <2> QED BY <1>1, <1>2, <2>1, WFMin
<1>4. PICK n \in Nat \ S : x = 0 .. (n - 1)
  OBVIOUS
<1>5. n # 0 /\ n - 1 \in Nat
  BY <1>4
<1>6. n - 1 \notin S
  BY <1>4, <1>5
<1>7. 0 .. (n - 2) \in T
  <2>1. (n - 1) - 1 = n - 2
    BY <1>5
  <2>2. n - 1 \in Nat \ S
    BY <1>5, <1>6
  <2>3. QED BY <2>1, <2>2
<1>8. <<0 .. (n - 2), x>> \in StrictSubsetOrdering(Nat)
  <2>1. n - 1 \in x /\ n - 1 \notin 0 .. (n - 2) /\ 0 .. (n-2) \subseteq x /\ x \in SUBSET Nat
    BY <1>4, <1>5
  <2>2. QED BY <2>1 DEF StrictSubsetOrdering
<1>9. QED
  BY <1>3, <1>7, <1>8

\* f starts with b and goes on by step.
Iterates(f, V, b, step) ==
  f \in [Nat -> V] /\ f[0] = b /\ \A n \in Nat : f[n + 1] = step[<<n, f[n]>>]
IteratesTo(N, f, V, b, step) ==
  /\ f \in [0 .. N -> V] /\ f[0] = b
  /\ \A n \in 0 .. (N - 1) : f[n + 1] = step[<<n, f[n]>>]

Steps(V) == [Nat \X V -> V]
StepsTo(N, V) == [(0 .. (N - 1)) \X V -> V]

\* Recursion on the natural numbers defines a function.
LEMMA NatRecursion ==
  ASSUME NEW V, NEW b \in V, NEW step \in Steps(V)
  PROVE  \E f : Iterates(f, V, b, step)
<1> USE DEF Steps
<1> DEFINE G(n, g) == /\ g \in [0 .. n -> V] /\ g[0] = b
                      /\ \A m \in 0 .. (n - 1) : g[m + 1] = step[<<m, g[m]>>]
<1>1. \A n \in Nat : \E g : G(n, g)
  <2> DEFINE S == {n \in Nat : \E g : G(n, g)}
  <2>1. 0 \in S
    <3>1. G(0, [m \in 0 .. 0 |-> b])
      OBVIOUS
    <3> HIDE DEF G
    <3>2. QED
      BY <3>1
  <2>2. ASSUME NEW n \in Nat, n \in S PROVE n + 1 \in S
    <3>1. PICK g : G(n, g)
      BY <2>2
    <3> DEFINE h == [m \in 0 .. (n + 1) |-> IF m = n + 1 THEN step[<<n, g[n]>>] ELSE g[m]]
    <3>2. G(n + 1, h)
      <4>1. g[n] \in V
        BY <3>1
      <4>2. h \in [0 .. (n + 1) -> V] /\ h[0] = b
        BY <3>1, <4>1
      <4>3. ASSUME NEW m \in 0 .. ((n + 1) - 1) PROVE h[m + 1] = step[<<m, h[m]>>]
        <5>1. h[m] = g[m] /\ m + 1 \in 0 .. (n + 1)
          OBVIOUS
        <5>2. CASE m = n
          BY <5>1, <5>2
        <5>3. CASE m # n
          BY <3>1, <5>1, <5>3
        <5>4. QED
          BY <5>2, <5>3
      <4>4. QED
        BY <4>2, <4>3
    <3> HIDE DEF G
    <3>3. QED
      BY <3>2
  <2>3. \A n \in Nat : n \in S
    <3> HIDE DEF S
    <3> QED
      BY <2>1, <2>2, NatSetInduction
  <2> HIDE DEF G
  <2>4. QED
    BY <2>3
<1>2. ASSUME NEW n \in Nat, NEW g, NEW h, G(n, g), G(n + 1, h)
      PROVE  g[n] = h[n]
  <2> DEFINE S == {m \in Nat : m <= n => g[m] = h[m]}
  <2>1. 0 \in S
    BY <1>2
  <2>2. ASSUME NEW m \in Nat, m \in S PROVE m + 1 \in S
    <3>1. SUFFICES ASSUME m + 1 <= n PROVE g[m + 1] = h[m + 1]
      OBVIOUS
    <3>2. g[m] = h[m]
      BY <2>2, <3>1
    <3>3. m \in 0 .. (n - 1) /\ m \in 0 .. ((n + 1) - 1)
      BY <3>1
    <3>4. g[m + 1] = step[<<m, g[m]>>] /\ h[m + 1] = step[<<m, h[m]>>]
      BY <1>2, <3>3
    <3>5. QED
      BY <3>2, <3>4
  <2>3. \A m \in Nat : m \in S
    <3> HIDE DEF S
    <3> QED
      BY <2>1, <2>2, NatSetInduction
  <2>4. QED
    BY <2>3
<1> DEFINE At(n) == CHOOSE g : G(n, g)
<1>3. \A n \in Nat : G(n, At(n))
  <2> HIDE DEF G
  <2> QED
    BY <1>1
<1> DEFINE f == [n \in Nat |-> At(n)[n]]
<1>4. f \in [Nat -> V] /\ f[0] = b
  <2>1. \A n \in Nat : At(n)[n] \in V
    <3>1. ASSUME NEW n \in Nat PROVE At(n)[n] \in V
      <4> HIDE DEF At
      <4> QED
        BY <1>3
    <3>2. QED
      BY <3>1
  <2>2. At(0)[0] = b
    <3> HIDE DEF At
    <3> QED
      BY <1>3
  <2> HIDE DEF At, G
  <2>3. QED
    BY <2>1, <2>2
<1>5. ASSUME NEW n \in Nat PROVE f[n + 1] = step[<<n, f[n]>>]
  <2>1. G(n, At(n)) /\ G(n + 1, At(n + 1))
    <3> HIDE DEF At, G
    <3> QED
      BY <1>3
  <2>2. At(n)[n] = At(n + 1)[n]
    <3> HIDE DEF At, G
    <3> QED
      BY <1>2, <2>1
  <2>3. At(n + 1)[n + 1] = step[<<n, At(n + 1)[n]>>]
    <3> HIDE DEF At
    <3> QED
      BY <2>1
  <2> HIDE DEF At, G
  <2>4. QED
    BY <2>2, <2>3
<1> HIDE DEF f
<1>6. QED
  BY <1>4, <1>5 DEF Iterates

\* The same up to a bound.
LEMMA FiniteRecursion ==
  ASSUME NEW N \in Nat, NEW V, NEW b \in V, NEW step \in StepsTo(N, V)
  PROVE  \E f : IteratesTo(N, f, V, b, step)
<1> DEFINE go == [p \in Nat \X V |-> IF p[1] < N THEN step[p] ELSE p[2]]
<1>1. go \in Steps(V)
  BY DEF Steps, StepsTo
<1>2. \A n \in 0 .. (N - 1), v \in V : go[<<n, v>>] = step[<<n, v>>]
  OBVIOUS
<1> HIDE DEF go
<1>3. PICK f : Iterates(f, V, b, go)
  BY <1>1, NatRecursion
<1> DEFINE g == [n \in 0 .. N |-> f[n]]
<1>4. g \in [0 .. N -> V] /\ g[0] = b
  BY <1>3 DEF Iterates
<1>5. ASSUME NEW n \in 0 .. (N - 1) PROVE g[n + 1] = step[<<n, g[n]>>]
  BY <1>2, <1>3 DEF Iterates
<1>6. QED
  BY <1>4, <1>5 DEF IteratesTo

\* Division, for a divisor that is not a literal.
LEMMA DivMod ==
  ASSUME NEW n \in Nat, NEW b \in Nat \ {0}
  PROVE  n = b * (n \div b) + (n % b) /\ n % b \in 0 .. (b - 1) /\ n \div b \in Nat
OBVIOUS

\* Two digits in base b.
LEMMA Digits ==
  ASSUME NEW n \in Nat, NEW b \in Nat \ {0}, n < b * b
  PROVE  /\ (n \div b) % b \in 0 .. (b - 1) /\ n % b \in 0 .. (b - 1)
         /\ ((n \div b) % b) * b + (n % b) = n
<1>1. n = b * (n \div b) + (n % b) /\ n % b \in 0 .. (b - 1) /\ n \div b \in Nat
  BY DivMod
<1> DEFINE q == n \div b
           r == n % b
<1>2. q \in Nat /\ r \in 0 .. (b - 1) /\ n = b * q + r
  BY <1>1
<1> HIDE DEF q, r
<1>3. q < b
  <2>1. SUFFICES ASSUME q >= b PROVE FALSE
    BY <1>2
  <2>2. b * q >= b * b
    BY <1>2, <2>1
  <2>3. b * q \in Nat /\ b * b \in Nat
    BY <1>2
  <2>4. QED
    BY <1>2, <2>2, <2>3
<1>4. q % b = q
  BY <1>2, <1>3
<1>5. q * b = b * q
  BY <1>2
<1>6. QED
  BY <1>2, <1>3, <1>4, <1>5 DEF q, r

\* Part of a sequence that is known byte by byte.
LEMMA SubSeqIs ==
  ASSUME NEW V, NEW s \in Seq(V), NEW t \in Seq(V), NEW first \in Nat, NEW last \in Nat,
         last = first + Len(t), last <= Len(s),
         \A k \in 1 .. Len(t) : s[first + k] = t[k]
  PROVE  SubSeq(s, first + 1, last) = t
<1> DEFINE u == SubSeq(s, first + 1, last)
<1>1. Len(s) \in Nat /\ Len(t) \in Nat /\ \A i \in (first + 1) .. last : s[i] \in V
  OBVIOUS
<1>2. /\ u \in Seq(V)
      /\ Len(u) = IF first + 1 <= last THEN last - (first + 1) + 1 ELSE 0
      /\ \A i \in 1 .. (last - (first + 1) + 1) : u[i] = s[(first + 1) + i - 1]
  <2>1. first + 1 \in Int /\ last \in Int
    OBVIOUS
  <2>2. QED
    BY <1>1, <2>1, SubSeqProperties
<1> HIDE DEF u
<1>3. Len(u) = Len(t)
  BY <1>1, <1>2
<1>4. ASSUME NEW i \in 1 .. Len(u) PROVE u[i] = t[i]
  <2>1. i \in 1 .. (last - (first + 1) + 1) /\ (first + 1) + i - 1 = first + i /\ i \in 1 .. Len(t)
    BY <1>1, <1>3
  <2>2. QED
    BY <1>2, <2>1
<1>5. u = t
  BY <1>2, <1>3, <1>4, SeqEqual
<1>6. QED
  BY <1>5 DEF u

\* Any part of a sequence is one.
LEMMA SubSeqOfBytes ==
  ASSUME NEW V, NEW s \in Seq(V), NEW first \in Nat, NEW last \in Nat, last <= Len(s),
         first <= last
  PROVE  SubSeq(s, first + 1, last) \in Seq(V) /\ Len(SubSeq(s, first + 1, last)) = last - first
<1>1. \A i \in (first + 1) .. last : s[i] \in V
  OBVIOUS
<1>2. first + 1 \in Int /\ last \in Int
  OBVIOUS
<1>3. /\ SubSeq(s, first + 1, last) \in Seq(V)
      /\ Len(SubSeq(s, first + 1, last)) = IF first + 1 <= last THEN last - (first + 1) + 1 ELSE 0
  BY <1>1, <1>2, SubSeqProperties
<1>4. QED
  BY <1>3

\* What FlattenSeq has put together after each of the sequences.
PutTogether(seqs, V, e) ==
  /\ e \in [0 .. Len(seqs) -> Seq(V)] /\ e[0] = <<>>
  /\ \A k \in 0 .. (Len(seqs) - 1) : e[k + 1] = e[k] \o seqs[k + 1]
  /\ FlattenSeq(seqs) = e[Len(seqs)]

\* FlattenSeq puts them together one by one.
LEMMA FlattenSteps ==
  ASSUME NEW V, NEW seqs \in Seq(Seq(V))
  PROVE  \E e : PutTogether(seqs, V, e)
<1> DEFINE N == Len(seqs)
           W == Seq(V)
           Flat(g) == g = [i \in 1 .. N |-> IF i = 1 THEN seqs[i] ELSE g[i - 1] \o seqs[i]]
<1>1. N \in Nat /\ \A i \in 1 .. N : seqs[i] \in W
  OBVIOUS
<1>2. \A s, t \in W : s \o t \in W
  BY ConcatProperties
<1>3. <<>> \in W /\ \A t \in W : <<>> \o t = t
  BY ConcatEmptySeq
<1> DEFINE step == [p \in (0 .. (N - 1)) \X W |-> p[2] \o seqs[p[1] + 1]]
<1> HIDE DEF N, W
<1>4. step \in StepsTo(N, W)
  <2>1. ASSUME NEW n \in 0 .. (N - 1), NEW s \in W PROVE s \o seqs[n + 1] \in W
    <3>1. n + 1 \in 1 .. N
      BY <1>1
    <3>2. QED
      BY <1>1, <1>2, <3>1
  <2>2. QED
    BY <2>1 DEF StepsTo
<1>5. \A n \in 0 .. (N - 1), s \in W : step[<<n, s>>] = s \o seqs[n + 1]
  OBVIOUS
<1> HIDE DEF step
<1>6. PICK e : IteratesTo(N, e, W, <<>>, step)
  BY <1>1, <1>3, <1>4, FiniteRecursion
<1>7. /\ e \in [0 .. N -> W] /\ e[0] = <<>>
      /\ \A k \in 0 .. (N - 1) : e[k + 1] = e[k] \o seqs[k + 1]
  <2>1. e \in [0 .. N -> W] /\ e[0] = <<>>
    BY <1>6 DEF IteratesTo
  <2>2. ASSUME NEW k \in 0 .. (N - 1) PROVE e[k + 1] = e[k] \o seqs[k + 1]
    <3>1. e[k] \in W
      BY <1>1, <2>1
    <3>2. e[k + 1] = step[<<k, e[k]>>]
      BY <1>6 DEF IteratesTo
    <3>3. QED
      BY <1>5, <3>1, <3>2
  <2>3. QED
    BY <2>1, <2>2
<1>8. CASE N = 0
  <2>1. FlattenSeq(seqs) = seqs /\ seqs = <<>>
    BY <1>8 DEF FlattenSeq, N
  <2>2. QED
    BY <1>7, <1>8, <2>1 DEF PutTogether, N, W
<1>9. CASE N # 0
  <2> DEFINE g == CHOOSE h : Flat(h)
             h == [i \in 1 .. N |-> e[i]]
  <2>1. \A i \in 1 .. N : e[i] = IF i = 1 THEN seqs[i] ELSE e[i - 1] \o seqs[i]
    <3>1. ASSUME NEW i \in 1 .. N PROVE e[i] = IF i = 1 THEN seqs[i] ELSE e[i - 1] \o seqs[i]
      <4>1. i - 1 \in 0 .. (N - 1) /\ (i - 1) + 1 = i /\ i - 1 \in 0 .. N
        BY <1>1
      <4>2. e[i] = e[i - 1] \o seqs[i]
        BY <1>7, <4>1
      <4>3. CASE i = 1
        <5>1. e[i] = <<>> \o seqs[i]
          <6>1. i - 1 = 0
            BY <4>3
          <6>2. e[i - 1] = <<>>
            BY <1>7, <6>1
          <6>3. QED
            BY <4>2, <6>2
        <5>2. QED
          BY <1>1, <1>3, <4>3, <5>1
      <4>4. QED
        BY <4>2, <4>3
    <3>2. QED
      BY <3>1
  <2>2. Flat(h)
    <3>1. \A i \in 1 .. N : i # 1 => i - 1 \in 1 .. N
      BY <1>1
    <3>2. QED
      BY <2>1, <3>1
  <2>3. Flat(g)
    <3>1. \E x : Flat(x)
      <4> HIDE DEF h, Flat
      <4>1. QED
        BY <2>2
    <3> HIDE DEF Flat
    <3>2. QED
      BY <3>1
  <2>4. FlattenSeq(seqs) = g[N]
    BY <1>9 DEF FlattenSeq, N
  <2> HIDE DEF g, h
  <2>5. \A i \in 1 .. N : g[i] = IF i = 1 THEN seqs[i] ELSE g[i - 1] \o seqs[i]
    BY <2>3
  <2> DEFINE S == {n \in Nat : n + 1 <= N => g[n + 1] = e[n + 1]}
  <2>6. 0 \in S
    <3>1. 1 \in 1 .. N
      BY <1>1, <1>9
    <3>2. g[1] = e[1]
      BY <2>1, <2>5, <3>1
    <3>3. QED
      BY <3>2
  <2>7. ASSUME NEW n \in Nat, n \in S PROVE n + 1 \in S
    <3>1. SUFFICES ASSUME (n + 1) + 1 <= N PROVE g[(n + 1) + 1] = e[(n + 1) + 1]
      OBVIOUS
    <3>2. /\ (n + 1) + 1 \in 1 .. N /\ (n + 1) + 1 # 1 /\ ((n + 1) + 1) - 1 = n + 1
          /\ n + 1 <= N
      BY <1>1, <3>1
    <3>3. g[n + 1] = e[n + 1]
      BY <2>7, <3>2
    <3>4. QED
      BY <2>1, <2>5, <3>2, <3>3
  <2> HIDE DEF S
  <2>8. \A n \in Nat : n \in S
    BY <2>6, <2>7, NatSetInduction
  <2>9. N - 1 \in Nat /\ (N - 1) + 1 = N /\ N <= N
    BY <1>1, <1>9
  <2>10. N - 1 \in S
    BY <2>8, <2>9
  <2>11. g[N] = e[N]
    BY <2>9, <2>10 DEF S
  <2>12. QED
    BY <1>7, <2>4, <2>11 DEF PutTogether, N, W
<1>10. QED
  BY <1>8, <1>9

\* part is the first k of them.
Begins(part, seqs, k) ==
  k \in 0 .. Len(seqs) /\ Len(part) = k /\ \A i \in 1 .. k : part[i] = seqs[i]

\* FlattenSeq makes of it what has been put together by then.
LEMMA FlattenAgrees ==
  ASSUME NEW V, NEW seqs \in Seq(Seq(V)), NEW e, PutTogether(seqs, V, e),
         NEW part \in Seq(Seq(V)), NEW k, Begins(part, seqs, k)
  PROVE  FlattenSeq(part) = e[k]
<1>0. k \in 0 .. Len(seqs) /\ Len(part) = k /\ \A i \in 1 .. k : part[i] = seqs[i]
  BY DEF Begins
<1>1. PICK d : PutTogether(part, V, d)
  BY FlattenSteps
<1> DEFINE N == Len(seqs)
<1>2. N \in Nat /\ k \in Nat /\ k <= N
  BY <1>0
<1>3. d[0] = <<>> /\ e[0] = <<>> /\ FlattenSeq(part) = d[k]
  BY <1>0, <1>1 DEF PutTogether
<1>4. /\ \A i \in 0 .. (k - 1) : d[i + 1] = d[i] \o part[i + 1]
      /\ \A i \in 0 .. (N - 1) : e[i + 1] = e[i] \o seqs[i + 1]
  BY <1>0, <1>1 DEF PutTogether
<1> HIDE DEF N
<1> DEFINE S == {n \in Nat : n <= k => d[n] = e[n]}
<1>5. 0 \in S
  BY <1>3
<1>6. ASSUME NEW n \in Nat, n \in S PROVE n + 1 \in S
  <2>1. SUFFICES ASSUME n + 1 <= k PROVE d[n + 1] = e[n + 1]
    OBVIOUS
  <2>2. n <= k /\ n \in 0 .. (k - 1) /\ n \in 0 .. (N - 1) /\ n + 1 \in 1 .. k
    BY <1>2, <2>1
  <2>3. d[n] = e[n] /\ part[n + 1] = seqs[n + 1]
    BY <1>0, <1>6, <2>2
  <2>4. QED
    BY <1>4, <2>2, <2>3
<1> HIDE DEF S
<1>7. \A n \in Nat : n \in S
  BY <1>5, <1>6, NatSetInduction
<1>8. k \in S /\ k <= k
  BY <1>2, <1>7
<1>9. QED
  BY <1>3, <1>8 DEF S

\* The whole starts with what has been put together after each of them.
StartsWith(seqs, V, e, k) ==
  /\ e[k] \in Seq(V) /\ Len(e[k]) \in Nat
  /\ Len(e[k]) <= Len(FlattenSeq(seqs))
  /\ \A j \in 1 .. Len(e[k]) : FlattenSeq(seqs)[j] = e[k][j]
  /\ k < Len(seqs) =>
        /\ Len(e[k + 1]) = Len(e[k]) + Len(seqs[k + 1]) /\ Len(seqs[k + 1]) \in Nat
        /\ \A j \in 1 .. Len(seqs[k + 1]) : e[k + 1][Len(e[k]) + j] = seqs[k + 1][j]

LEMMA FlattenGrows ==
  ASSUME NEW V, NEW seqs \in Seq(Seq(V)), NEW e, PutTogether(seqs, V, e), NEW k \in 0 .. Len(seqs)
  PROVE  StartsWith(seqs, V, e, k)
<1> DEFINE N == Len(seqs)
<1>1. N \in Nat /\ \A i \in 1 .. N : seqs[i] \in Seq(V)
  OBVIOUS
<1>2. \A i \in 0 .. N : e[i] \in Seq(V) /\ Len(e[i]) \in Nat
  <2>1. ASSUME NEW i \in 0 .. N PROVE e[i] \in Seq(V)
    BY DEF PutTogether
  <2>2. QED
    BY <2>1
<1>3. /\ \A i \in 0 .. (N - 1) : e[i + 1] = e[i] \o seqs[i + 1]
      /\ FlattenSeq(seqs) = e[N]
  BY DEF PutTogether
<1>4. k \in 0 .. N
  OBVIOUS
<1> HIDE DEF N
<1>5. ASSUME NEW i \in 0 .. (N - 1)
      PROVE  /\ Len(e[i + 1]) = Len(e[i]) + Len(seqs[i + 1]) /\ Len(seqs[i + 1]) \in Nat
             /\ \A j \in 1 .. Len(e[i]) : e[i + 1][j] = e[i][j]
             /\ \A j \in 1 .. Len(seqs[i + 1]) : e[i + 1][Len(e[i]) + j] = seqs[i + 1][j]
  <2> DEFINE s == e[i]
             t == seqs[i + 1]
             u == s \o t
  <2>1. s \in Seq(V) /\ t \in Seq(V)
    <3>1. i \in 0 .. N /\ i + 1 \in 1 .. N
      BY <1>1
    <3>2. QED
      BY <1>1, <1>2, <3>1
  <2>2. e[i + 1] = u
    BY <1>3
  <2> HIDE DEF s, t
  <2>3. /\ Len(u) = Len(s) + Len(t)
        /\ \A j \in 1 .. Len(s) + Len(t) : u[j] = IF j <= Len(s) THEN s[j] ELSE t[j - Len(s)]
    BY <2>1, ConcatProperties
  <2>4. PICK x \in Nat, y \in Nat : x = Len(s) /\ y = Len(t)
    BY <2>1
  <2> HIDE DEF u
  <2>5. \A j \in 1 .. (x + y) : u[j] = IF j <= x THEN s[j] ELSE t[j - x]
    BY <2>3, <2>4
  <2>6. ASSUME NEW j \in 1 .. x PROVE u[j] = s[j]
    BY <2>5
  <2>7. ASSUME NEW j \in 1 .. y PROVE u[x + j] = t[j]
    <3>1. x + j \in 1 .. (x + y) /\ ~ (x + j <= x) /\ (x + j) - x = j
      OBVIOUS
    <3>2. QED
      BY <2>5, <3>1
  <2>8. QED
    BY <2>2, <2>3, <2>4, <2>6, <2>7 DEF s, t
<1> DEFINE M == N - k
           S == {n \in Nat : k + n <= N =>
                   /\ Len(e[k]) <= Len(e[k + n])
                   /\ \A j \in 1 .. Len(e[k]) : e[k + n][j] = e[k][j]}
<1>6. 0 \in S
  <2>1. Len(e[k]) \in Nat /\ k + 0 = k
    BY <1>2, <1>4
  <2>2. QED
    BY <2>1
<1>7. ASSUME NEW n \in Nat, n \in S PROVE n + 1 \in S
  <2>1. SUFFICES ASSUME k + (n + 1) <= N
                 PROVE  /\ Len(e[k]) <= Len(e[k + (n + 1)])
                        /\ \A j \in 1 .. Len(e[k]) : e[k + (n + 1)][j] = e[k][j]
    OBVIOUS
  <2>2. /\ k + n \in 0 .. (N - 1) /\ (k + n) + 1 = k + (n + 1) /\ k + n <= N
        /\ k + n \in 0 .. N /\ k + (n + 1) \in 0 .. N
    BY <1>1, <1>4, <2>1
  <2>3. /\ Len(e[k]) <= Len(e[k + n])
        /\ \A j \in 1 .. Len(e[k]) : e[k + n][j] = e[k][j]
    BY <1>7, <2>2
  <2>4. /\ Len(e[k + (n + 1)]) = Len(e[k + n]) + Len(seqs[k + (n + 1)])
        /\ Len(seqs[k + (n + 1)]) \in Nat
        /\ \A j \in 1 .. Len(e[k + n]) : e[k + (n + 1)][j] = e[k + n][j]
    BY <1>5, <2>2
  <2>5. PICK x \in Nat, y \in Nat : x = Len(e[k]) /\ y = Len(e[k + n])
    BY <1>2, <1>4, <2>2
  <2>6. x <= y /\ \A j \in 1 .. x : j \in 1 .. y
    BY <2>3, <2>5
  <2>7. Len(e[k]) <= Len(e[k + (n + 1)])
    <3>1. PICK z \in Nat, w \in Nat : z = Len(e[k + (n + 1)]) /\ w = Len(seqs[k + (n + 1)])
      BY <1>2, <2>2, <2>4
    <3>2. z = y + w
      BY <2>4, <2>5, <3>1
    <3>3. x <= z
      BY <2>6, <3>2
    <3>4. QED
      BY <2>5, <3>1, <3>3
  <2>8. ASSUME NEW j \in 1 .. Len(e[k]) PROVE e[k + (n + 1)][j] = e[k][j]
    BY <2>3, <2>4, <2>5, <2>6
  <2>9. QED
    BY <2>7, <2>8
<1>8. \A n \in Nat : n \in S
  <2> HIDE DEF S
  <2>1. QED
    BY <1>6, <1>7, NatSetInduction
<1>9. M \in Nat /\ k + M = N /\ N <= N
  BY <1>1, <1>4
<1> HIDE DEF M
<1>10. Len(e[k]) <= Len(e[N]) /\ \A j \in 1 .. Len(e[k]) : e[N][j] = e[k][j]
  BY <1>8, <1>9
<1> HIDE DEF S
<1>11. ASSUME k < N
       PROVE  /\ Len(e[k + 1]) = Len(e[k]) + Len(seqs[k + 1]) /\ Len(seqs[k + 1]) \in Nat
              /\ \A j \in 1 .. Len(seqs[k + 1]) : e[k + 1][Len(e[k]) + j] = seqs[k + 1][j]
  <2>1. k \in 0 .. (N - 1)
    BY <1>1, <1>4, <1>11
  <2>2. QED
    BY <1>5, <2>1
<1>12. QED
  BY <1>2, <1>3, <1>4, <1>10, <1>11 DEF N, StartsWith

\* Where each of the sequences lies in the whole.
LiesAfter(seqs, e, k) ==
  /\ Len(e[k]) \in Nat /\ Len(seqs[k + 1]) \in Nat
  /\ Len(e[k + 1]) = Len(e[k]) + Len(seqs[k + 1])
  /\ Len(e[k + 1]) <= Len(FlattenSeq(seqs))
  /\ \A j \in 1 .. Len(seqs[k + 1]) : FlattenSeq(seqs)[Len(e[k]) + j] = seqs[k + 1][j]

\* It is there that they lie.
LEMMA FlattenLies ==
  ASSUME NEW V, NEW seqs \in Seq(Seq(V)), NEW e, PutTogether(seqs, V, e),
         NEW k \in Nat, k < Len(seqs)
  PROVE  LiesAfter(seqs, e, k)
<1>1. k \in 0 .. Len(seqs) /\ k + 1 \in 0 .. Len(seqs)
  <2>1. Len(seqs) \in Nat
    OBVIOUS
  <2>2. QED
    BY <2>1
<1>s. StartsWith(seqs, V, e, k) /\ StartsWith(seqs, V, e, k + 1)
  BY <1>1, FlattenGrows
<1>2. /\ Len(e[k]) \in Nat
      /\ Len(e[k + 1]) = Len(e[k]) + Len(seqs[k + 1]) /\ Len(seqs[k + 1]) \in Nat
      /\ \A j \in 1 .. Len(seqs[k + 1]) : e[k + 1][Len(e[k]) + j] = seqs[k + 1][j]
  BY <1>s DEF StartsWith
<1>3. /\ Len(e[k + 1]) <= Len(FlattenSeq(seqs))
      /\ \A j \in 1 .. Len(e[k + 1]) : FlattenSeq(seqs)[j] = e[k + 1][j]
  BY <1>s DEF StartsWith
<1>4. PICK x \in Nat, y \in Nat : x = Len(e[k]) /\ y = Len(seqs[k + 1])
  BY <1>2
<1>5. Len(e[k + 1]) = x + y
  BY <1>2, <1>4
<1>6. ASSUME NEW j \in 1 .. y PROVE FlattenSeq(seqs)[x + j] = seqs[k + 1][j]
  <2>1. x + j \in 1 .. (x + y)
    OBVIOUS
  <2>2. QED
    BY <1>2, <1>3, <1>4, <1>5, <2>1
<1>7. QED
  BY <1>2, <1>3, <1>4, <1>6 DEF LiesAfter

-----------------------------------------------------------------------------
(* Arena.  BlocksApart is inductive with the types; it is what keeps a     *)
(* write into one block out of the canaries of the others.                 *)

(* Arena for every capacity, every address of the buffer, all sizes and    *)
(* all positions of writes.  BlocksApart is inductive with the types; it   *)
(* is what keeps a write into one block out of the canaries of the others. *)
(***************************************************************************)

Layout == ArenaTypeOK /\ BlocksApart

\* The blocks there are.
LEMMA Blocks ==
  ASSUME ArenaTypeOK, NEW i \in DOMAIN m_allocs
  PROVE  i \in Nat /\ m_allocs[i].offset \in Nat /\ m_allocs[i].size \in Nat
<1> DEFINE R == [offset : Nat, size : Nat]
<1>1. m_allocs \in Seq(R)
  BY DEF ArenaTypeOK
<1>2. \A r \in R : r.offset \in Nat /\ r.size \in Nat
  OBVIOUS
<1> HIDE DEF R
<1>3. m_allocs[i] \in R /\ i \in Nat
  BY <1>1
<1>4. QED
  BY <1>2, <1>3

\* The block that Allocate appends: past what is used, and aligned.
LEMMA NewBlock ==
  ASSUME Layout, NEW size \in Sizes
  PROVE  /\ Padding \in 0 .. 63
         /\ (Base + m_used + Padding) % 64 = 0
         /\ (Base + (m_used + Padding + 64)) % 64 = 0
<1>1. Base \in Nat /\ m_used \in Nat
  BY ArenaAssumption DEF Layout, ArenaTypeOK
<1>2. QED
  BY <1>1, SMTT(30) DEF Padding

\* Every step keeps the layout.
LEMMA LayoutStep ==
  ASSUME Layout, [ArenaNext]_arenaVars
  PROVE  Layout'
<1> USE ArenaAssumption DEF Layout
<1>1. CASE \E size \in Sizes : Allocate(size)
  <2>1. PICK size \in Sizes : Allocate(size)
    BY <1>1
  <2> DEFINE b == [offset |-> m_used + Padding + 64, size |-> size]
  <2>2. /\ Padding \in 0 .. 63
        /\ (Base + b.offset) % 64 = 0
        /\ size \in Nat /\ m_used \in Nat
    BY NewBlock DEF ArenaTypeOK
  <2>3. /\ m_allocs' = Append(m_allocs, b)
        /\ b \in [offset : Nat, size : Nat]
        /\ m_used' = b.offset + b.size + 64
        /\ m_used' \in Nat /\ m_used <= b.offset - 64 /\ m_used' <= m_capacity
    BY <2>1, <2>2 DEF Allocate, Consumption
  <2> HIDE DEF b
  <2>4. ArenaTypeOK'
    <3>1. Header(b) \cup Footer(b) \subseteq Int
      BY DEF Header, Footer
    <3>2. marked' \subseteq Int
      BY <2>1, <3>1 DEF ArenaTypeOK, Allocate, b
    <3>3. QED
      BY <2>1, <2>3, <3>2 DEF ArenaTypeOK, Allocate
  <2>5. /\ DOMAIN m_allocs = 1 .. Len(m_allocs) /\ Len(m_allocs) \in Nat
        /\ DOMAIN m_allocs' = 1 .. (Len(m_allocs) + 1)
        /\ m_allocs'[Len(m_allocs) + 1] = b
        /\ \A i \in 1 .. Len(m_allocs) : m_allocs'[i] = m_allocs[i]
        /\ \A i \in 1 .. Len(m_allocs) : m_allocs[i] \in [offset : Nat, size : Nat]
    <3> DEFINE R == [offset : Nat, size : Nat]
    <3>1. m_allocs \in Seq(R)
      BY DEF ArenaTypeOK
    <3>2. b \in R
      BY <2>3
    <3> HIDE DEF R
    <3>3. /\ Append(m_allocs, b) \in Seq(R)
          /\ Len(Append(m_allocs, b)) = Len(m_allocs) + 1
          /\ \A i \in 1 .. Len(m_allocs) : Append(m_allocs, b)[i] = m_allocs[i]
          /\ Append(m_allocs, b)[Len(m_allocs) + 1] = b
      BY <3>1, <3>2, AppendProperties
    <3>4. /\ DOMAIN m_allocs = 1 .. Len(m_allocs) /\ Len(m_allocs) \in Nat
          /\ \A i \in 1 .. Len(m_allocs) : m_allocs[i] \in R
      BY <3>1
    <3>5. DOMAIN Append(m_allocs, b) = 1 .. Len(Append(m_allocs, b))
      BY <3>3
    <3>6. QED
      BY <2>3, <3>3, <3>4, <3>5 DEF R
  <2>6. ASSUME NEW i \in 1 .. Len(m_allocs)
        PROVE  /\ m_allocs[i].offset \in Nat /\ m_allocs[i].size \in Nat
               /\ m_allocs[i].offset + m_allocs[i].size + 64 <= b.offset - 64
    <3>1. m_allocs[i] \in [offset : Nat, size : Nat] /\ i \in DOMAIN m_allocs
      BY <2>5
    <3>2. m_allocs[i].offset \in Nat /\ m_allocs[i].size \in Nat
      BY <3>1
    <3>3. m_allocs[i].offset + m_allocs[i].size + 64 <= m_used
      BY <3>1 DEF BlocksApart
    <3>4. b.offset \in Nat /\ m_used \in Nat /\ m_used <= b.offset - 64
      BY <2>2, <2>3
    <3>5. QED
      BY <3>2, <3>3, <3>4
  <2>7. BlocksApart'
    <3>1. ASSUME NEW i \in DOMAIN m_allocs'
          PROVE  /\ m_allocs'[i].offset >= 64
                 /\ m_allocs'[i].offset + m_allocs'[i].size + 64 <= m_used'
                 /\ (Base + m_allocs'[i].offset) % 64 = 0
                 /\ Accessible(m_allocs'[i].offset, m_allocs'[i].size)
                 /\ \A j \in DOMAIN m_allocs' : j < i =>
                       m_allocs'[j].offset + m_allocs'[j].size + 64 <= m_allocs'[i].offset - 64
      <4>1. CASE i \in 1 .. Len(m_allocs)
        <5>1. m_allocs'[i] = m_allocs[i] /\ i \in DOMAIN m_allocs
          BY <4>1, <2>5
        <5>2. m_allocs[i].offset \in Nat /\ m_allocs[i].size \in Nat
              /\ m_used \in Nat /\ m_used' \in Nat /\ m_used <= m_used'
          <6>1. b.size \in Nat /\ b.offset \in Nat
            BY <2>3
          <6>2. m_used \in Nat /\ m_used <= b.offset - 64 /\ m_used' = b.offset + b.size + 64
            BY <2>2, <2>3
          <6>3. m_allocs[i].offset \in Nat /\ m_allocs[i].size \in Nat
            BY <4>1, <2>6
          <6>4. QED
            BY <6>1, <6>2, <6>3
        <5>3. /\ m_allocs[i].offset >= 64
              /\ m_allocs[i].offset + m_allocs[i].size + 64 <= m_used
              /\ (Base + m_allocs[i].offset) % 64 = 0
              /\ Accessible(m_allocs[i].offset, m_allocs[i].size)
              /\ \A j \in DOMAIN m_allocs : j < i =>
                    m_allocs[j].offset + m_allocs[j].size + 64 <= m_allocs[i].offset - 64
          BY <5>1 DEF BlocksApart
        <5>4. ASSUME NEW j \in DOMAIN m_allocs', j < i
              PROVE  j \in DOMAIN m_allocs /\ m_allocs'[j] = m_allocs[j]
          BY <4>1, <5>4, <2>5
        <5>5. m_allocs[i].offset + m_allocs[i].size + 64 <= m_used'
          BY <5>2, <5>3
        <5>6. QED
          BY <5>1, <5>3, <5>4, <5>5
      <4>2. CASE i = Len(m_allocs) + 1
        <5>1. m_allocs'[i] = b
          BY <4>2, <2>5
        <5>2. /\ b.offset \in Nat /\ b.size \in Nat /\ m_used' \in Nat
              /\ b.offset >= 64 /\ b.offset + b.size + 64 <= m_used'
              /\ (Base + b.offset) % 64 = 0
          BY <2>2, <2>3
        <5>3. Accessible(b.offset, b.size)
          BY <5>2, <2>3, ArenaAssumption DEF Accessible
        <5>4. ASSUME NEW j \in DOMAIN m_allocs', j < i
              PROVE  m_allocs'[j].offset + m_allocs'[j].size + 64 <= b.offset - 64
          <6>1. j \in 1 .. Len(m_allocs)
            BY <4>2, <5>4, <2>5
          <6>2. QED
            BY <6>1, <2>5, <2>6
        <5>5. QED
          BY <5>1, <5>2, <5>3, <5>4
      <4>3. QED
        BY <4>1, <4>2, <2>5
    <3>2. QED
      BY <3>1, <2>3 DEF BlocksApart, Accessible
  <2>8. QED
    BY <2>4, <2>7
<1>2. CASE Reset
  <2>1. m_allocs' \in Seq([offset : Nat, size : Nat]) /\ DOMAIN m_allocs' = {}
    BY <1>2, EmptySeq DEF Reset
  <2>2. m_used' = 0 /\ UNCHANGED <<marked, alarm>> /\ overrun' = FALSE
    BY <1>2 DEF Reset
  <2>3. ArenaTypeOK'
    BY <2>1, <2>2 DEF ArenaTypeOK
  <2>4. BlocksApart'
    BY <2>1, <2>2 DEF BlocksApart
  <2>5. QED
    BY <2>3, <2>4
<1>3. CASE \E i \in DOMAIN m_allocs, k \in Probes : Write(i, k)
  BY <1>3 DEF Write, ArenaTypeOK, BlocksApart, Accessible
<1>4. CASE Verify
  BY <1>4 DEF Verify, verify, ArenaTypeOK, BlocksApart, Accessible
<1>5. CASE \E i \in DOMAIN m_allocs, k \in Probes :
             CheckAccess(m_allocs[i].offset + k, m_allocs[i].size)
  BY <1>5 DEF CheckAccess, ArenaTypeOK, BlocksApart, Accessible
<1>6. CASE UNCHANGED arenaVars
  BY <1>6 DEF arenaVars, ArenaTypeOK, BlocksApart, Accessible
<1>7. QED
  BY <1>1, <1>2, <1>3, <1>4, <1>5, <1>6 DEF ArenaNext

\* The layout holds at first.
LEMMA LayoutInit == ArenaInit => Layout
<1> SUFFICES ASSUME ArenaInit PROVE Layout
  OBVIOUS
<1>1. m_allocs \in Seq([offset : Nat, size : Nat]) /\ DOMAIN m_allocs = {}
  BY EmptySeq DEF ArenaInit
<1>2. ArenaTypeOK
  BY <1>1 DEF ArenaInit, ArenaTypeOK
<1>3. BlocksApart
  BY <1>1, ArenaAssumption DEF ArenaInit, BlocksApart
<1>4. QED
  BY <1>2, <1>3 DEF Layout

\* The layout holds.
LEMMA LayoutHolds == ArenaSpec => []Layout
<1>1. QED
  BY LayoutInit, LayoutStep, PTL DEF ArenaSpec

\* allocate and reset only ever leave values of the declared types.
THEOREM ArenaTypes == ArenaSpec => []ArenaTypeOK
<1>1. Layout => ArenaTypeOK
  BY DEF Layout
<1>2. QED
  BY LayoutHolds, <1>1, PTL

\* Blocks with their canaries are aligned, inside the capacity and disjoint, for
\* every capacity and wherever the buffer starts.
THEOREM ArenaBlocksApart == ArenaSpec => []BlocksApart
<1>1. Layout => BlocksApart
  BY DEF Layout
<1>2. QED
  BY LayoutHolds, <1>1, PTL

-----------------------------------------------------------------------------

Canaries(b) == Header(b) \cup Footer(b)

\* What a block's holder may reach lies in no canary of another block.
LEMMA Separate ==
  ASSUME Layout, NEW i \in DOMAIN m_allocs, NEW j \in DOMAIN m_allocs, i # j,
         NEW k \in -64 .. (m_allocs[i].size + 63)
  PROVE  m_allocs[i].offset + k \notin Canaries(m_allocs[j])
<1>1. /\ m_allocs[i].offset \in Nat /\ m_allocs[i].size \in Nat
      /\ m_allocs[j].offset \in Nat /\ m_allocs[j].size \in Nat
      /\ i \in Nat /\ j \in Nat /\ k \in Int
      /\ -64 <= k /\ k <= m_allocs[i].size + 63
  BY Blocks DEF Layout
<1>2. CASE j < i
  <2>1. m_allocs[j].offset + m_allocs[j].size + 64 <= m_allocs[i].offset - 64
    BY <1>2 DEF Layout, BlocksApart
  <2>2. QED
    BY <1>1, <2>1 DEF Canaries, Header, Footer
<1>3. CASE i < j
  <2>1. m_allocs[i].offset + m_allocs[i].size + 64 <= m_allocs[j].offset - 64
    BY <1>3 DEF Layout, BlocksApart
  <2>2. QED
    BY <1>1, <2>1 DEF Canaries, Header, Footer
<1>4. QED
  BY <1>1, <1>2, <1>3

\* The bytes that allocate sets lie in no canary of a block there is.
LEMMA Fresh ==
  ASSUME Layout, NEW size \in Sizes, NEW i \in DOMAIN m_allocs,
         NEW y \in Canaries([offset |-> m_used + Padding + 64, size |-> size])
  PROVE  y \notin Canaries(m_allocs[i])
<1>1. /\ m_allocs[i].offset \in Nat /\ m_allocs[i].size \in Nat
      /\ m_used \in Nat /\ Padding \in 0 .. 63 /\ size \in Nat
  BY Blocks, NewBlock, ArenaAssumption DEF Layout, ArenaTypeOK
<1>2. m_allocs[i].offset + m_allocs[i].size + 64 <= m_used
  BY DEF Layout, BlocksApart
<1>3. y \in Int /\ y >= m_used + Padding
  BY <1>1 DEF Canaries, Header, Footer
<1>4. QED
  BY <1>1, <1>2, <1>3 DEF Canaries, Header, Footer

\* Every step keeps the verdict.
LEMMA VerdictStep ==
  ASSUME Layout, AlarmIffOverrun, [ArenaNext]_arenaVars
  PROVE  AlarmIffOverrun'
<1>1. CASE \E size \in Sizes : Allocate(size)
  <2>1. PICK size \in Sizes : Allocate(size)
    BY <1>1
  <2> DEFINE b == [offset |-> m_used + Padding + 64, size |-> size]
             n == Len(m_allocs) + 1
  <2>2. /\ m_allocs' = Append(m_allocs, b)
        /\ marked' = marked \cup Canaries(b) /\ overrun' = overrun
    BY <2>1 DEF Allocate, Canaries
  <2>3. b \in [offset : Nat, size : Nat]
    <3>1. Padding \in 0 .. 63 /\ m_used \in Nat /\ size \in Nat
      BY NewBlock, ArenaAssumption DEF Layout, ArenaTypeOK
    <3>2. QED
      BY <3>1
  <2>4. \A i \in DOMAIN m_allocs : Canaries(m_allocs[i]) \cap Canaries(b) = {}
    BY Fresh
  <2> HIDE DEF b
  <2>5. /\ DOMAIN m_allocs' = DOMAIN m_allocs \cup {n} /\ m_allocs'[n] = b
        /\ \A i \in DOMAIN m_allocs : m_allocs'[i] = m_allocs[i]
    <3> DEFINE R == [offset : Nat, size : Nat]
    <3>1. m_allocs \in Seq(R) /\ b \in R
      BY <2>3 DEF Layout, ArenaTypeOK
    <3> HIDE DEF R
    <3>2. QED
      BY <2>2, <3>1, AppendProperties
  <2>6. verify' <=> verify
    <3>1. verify <=> \A i \in DOMAIN m_allocs : Canaries(m_allocs[i]) \subseteq marked
      BY DEF verify, Intact, Canaries
    <3>2. verify' <=> \A i \in DOMAIN m_allocs' : Canaries(m_allocs'[i]) \subseteq marked'
      BY DEF verify, Intact, Canaries, Header, Footer
    <3>3. Canaries(m_allocs'[n]) \subseteq marked'
      BY <2>2, <2>5
    <3>4. ASSUME NEW i \in DOMAIN m_allocs
          PROVE  Canaries(m_allocs'[i]) \subseteq marked' <=> Canaries(m_allocs[i]) \subseteq marked
      BY <2>2, <2>4, <2>5
    <3>5. QED
      BY <2>5, <3>1, <3>2, <3>3, <3>4
  <2>7. QED
    BY <2>2, <2>6 DEF AlarmIffOverrun
<1>2. CASE Reset
  BY <1>2, EmptySeq DEF Reset, AlarmIffOverrun, verify
<1>3. CASE \E i \in DOMAIN m_allocs, k \in Probes : Write(i, k)
  <2>1. PICK i \in DOMAIN m_allocs, k \in Probes : Write(i, k)
    BY <1>3
  <2> DEFINE byte == m_allocs[i].offset + k
  <2>2. /\ k \in -64 .. (m_allocs[i].size + 63) /\ k \in Int
        /\ m_allocs[i].offset \in Nat /\ m_allocs[i].size \in Nat
        /\ m_allocs' = m_allocs /\ marked' = marked \ {byte}
        /\ overrun' = (overrun \/ k \notin 0 .. (m_allocs[i].size - 1))
    BY <2>1, Blocks, ArenaAssumption DEF Write, Layout
  <2>3. CASE k \in 0 .. (m_allocs[i].size - 1)
    <3>1. byte \notin Canaries(m_allocs[i])
      BY <2>2, <2>3 DEF Canaries, Header, Footer
    <3>2. \A j \in DOMAIN m_allocs : byte \notin Canaries(m_allocs[j])
      BY <2>2, <3>1, Separate
    <3> HIDE DEF byte
    <3>3. verify' <=> verify
      BY <2>2, <3>2 DEF verify, Intact, Canaries, Header, Footer
    <3>4. QED
      BY <2>2, <2>3, <3>3 DEF AlarmIffOverrun
  <2>4. CASE k \notin 0 .. (m_allocs[i].size - 1)
    <3>1. byte \in Canaries(m_allocs[i])
      BY <2>2, <2>4 DEF Canaries, Header, Footer
    <3> HIDE DEF byte
    <3>2. ~ Intact(m_allocs[i])'
      BY <2>2, <3>1 DEF Intact, Canaries, Header, Footer
    <3>3. QED
      BY <2>2, <2>4, <3>2 DEF AlarmIffOverrun, verify
  <2>5. QED
    BY <2>3, <2>4
<1>4. CASE Verify
  BY <1>4 DEF Verify, AlarmIffOverrun, verify, Intact, Header, Footer
<1>5. CASE \E i \in DOMAIN m_allocs, k \in Probes :
             CheckAccess(m_allocs[i].offset + k, m_allocs[i].size)
  BY <1>5 DEF CheckAccess, AlarmIffOverrun, verify, Intact, Header, Footer
<1>6. CASE UNCHANGED arenaVars
  BY <1>6 DEF arenaVars, AlarmIffOverrun, verify, Intact, Header, Footer
<1>7. QED
  BY <1>1, <1>2, <1>3, <1>4, <1>5, <1>6 DEF ArenaNext

\* verify raises the alarm exactly when a holder has written past an end of its
\* block since the last reset, whatever was allocated and written in between.
THEOREM ArenaAlarmIffOverrun == ArenaSpec => []AlarmIffOverrun
<1>1. ArenaInit => AlarmIffOverrun
  BY EmptySeq DEF ArenaInit, AlarmIffOverrun, verify
<1>2. Layout /\ AlarmIffOverrun /\ [ArenaNext]_arenaVars => AlarmIffOverrun'
  BY VerdictStep
<1>3. QED
  BY LayoutHolds, <1>1, <1>2, PTL DEF ArenaSpec

-----------------------------------------------------------------------------
(* Arguments.  While a loop goes over the options before pos, everything   *)
(* that has been read is what those options say.                           *)

ArgsTypeOK ==
  /\ argv \in Seq(Words)
  /\ at \in {"parse", "apply", "help", "port", "serve", "0", "1"}
  /\ pos \in 1 .. Len(argv) + 1

Paired(n) ==
  \A k \in Options : k < n => argv[k] \in Flags \/ (argv[k] \in TakesArg /\ k < Len(argv))

Valued(n) == \A k \in Options : k < n /\ argv[k] = "-c" => argv[k + 1] \in Numbers

GivenShards(n) == {k \in Options : k < n /\ argv[k] = "-c" /\ argv[k + 1] \in Numbers}
GivenPorts(n) ==
  {k \in DOMAIN argv : /\ k < n /\ argv[k] \in {"-p", "--port"}
                       /\ k < Len(argv) /\ argv[k + 1] \in Numbers}
NoImportBefore(n) == \E k \in Options : k < n /\ argv[k] = "--no-import"
HelpThere == \E k \in DOMAIN argv : argv[k] = "--help"

IsLast(value, given, default) ==
  \/ given = {} /\ value = default
  \/ \E k \in given : value = argv[k + 1] /\ \A l \in given : l <= k

AllRead == Len(argv) + 1

ArgsInv ==
  /\ ArgsTypeOK
  /\ at = "parse" =>
        /\ m_debug = FALSE /\ showHelp = FALSE /\ noImport = FALSE
        /\ numDatabases = "1" /\ port = "2409"
        /\ parsed_args \in Seq(Words) /\ Len(parsed_args) = pos - 1
        /\ \A k \in 1 .. (pos - 1) : parsed_args[k] = argv[k]
        /\ IsOption[pos] /\ Paired(pos)
  /\ at = "apply" =>
        /\ parsed_args = argv /\ IsOption[pos] /\ Paired(AllRead) /\ Valued(pos)
        /\ showHelp => HelpThere
        /\ noImport <=> NoImportBefore(pos)
        /\ IsLast(numDatabases, GivenShards(pos), "1")
        /\ port = "2409"
  /\ at \in {"help", "port", "serve"} =>
        /\ Paired(AllRead) /\ Valued(AllRead)
        /\ noImport <=> NoImportBefore(AllRead)
        /\ IsLast(numDatabases, GivenShards(AllRead), "1")
  /\ at = "help" => port = "2409" /\ pos = 1
  /\ at = "port" => IsLast(port, GivenPorts(pos), "2409")
  /\ at = "serve" => IsLast(port, GivenPorts(AllRead), "2409")
  /\ at = "1" => ~ WellFormed
  /\ at = "0" => HelpThere

\* IsOption is the function that its definition says.
LEMMA IsOptionDef ==
  IsOption = [k \in Nat |-> k = 1 \/ (k > 1 /\ ~ (argv[k - 1] \in TakesArg /\ IsOption[k - 1]))]
<1> DEFINE Fixed(f) ==
             f = [k \in Nat |-> k = 1 \/ (k > 1 /\ ~ (argv[k - 1] \in TakesArg /\ f[k - 1]))]
<1>1. \E f : Fixed(f)
  <2> DEFINE step == [p \in Nat \X BOOLEAN |->
                        p[1] = 0 \/ ~ (argv[p[1]] \in TakesArg /\ p[2])]
  <2>1. step \in Steps(BOOLEAN)
    BY DEF Steps
  <2>2. \A n \in Nat, b \in BOOLEAN : step[<<n, b>>] = (n = 0 \/ ~ (argv[n] \in TakesArg /\ b))
    OBVIOUS
  <2> DEFINE B == BOOLEAN
             F == FALSE
  <2>0. F \in B /\ step \in Steps(B)
    BY <2>1
  <2> HIDE DEF step, B, F, Fixed
  <2>9. PICK f : Iterates(f, B, F, step)
    BY <2>0, NatRecursion
  <2> USE DEF B, F, Fixed
  <2>3. f \in [Nat -> BOOLEAN] /\ f[0] = FALSE /\ \A n \in Nat : f[n + 1] = step[<<n, f[n]>>]
    BY <2>9 DEF Iterates
  <2>4. ASSUME NEW k \in Nat
        PROVE  f[k] = (k = 1 \/ (k > 1 /\ ~ (argv[k - 1] \in TakesArg /\ f[k - 1])))
    <3>1. CASE k = 0
      BY <3>1, <2>3
    <3>2. CASE k # 0
      <4>1. k - 1 \in Nat /\ (k - 1) + 1 = k
        BY <3>2
      <4>2. f[k] = step[<<k - 1, f[k - 1]>>] /\ f[k - 1] \in BOOLEAN
        BY <4>1, <2>3
      <4>3. f[k] = (k - 1 = 0 \/ ~ (argv[k - 1] \in TakesArg /\ f[k - 1]))
        BY <4>1, <4>2, <2>2
      <4>4. k = 1 <=> k - 1 = 0
        BY <3>2
      <4>5. k # 1 <=> k > 1
        BY <3>2
      <4>6. QED
        BY <4>3, <4>4, <4>5
    <3>3. QED
      BY <3>1, <3>2
  <2>5. f = [k \in Nat |-> k = 1 \/ (k > 1 /\ ~ (argv[k - 1] \in TakesArg /\ f[k - 1]))]
    BY <2>3, <2>4
  <2>6. QED
    BY <2>5
<1>2. IsOption = CHOOSE f : Fixed(f)
  BY DEF IsOption
<1>3. Fixed(IsOption)
  <2> HIDE DEF Fixed
  <2> QED
    BY <1>1, <1>2
<1>4. QED
  BY <1>3

\* What IsOption says of every argument.
LEMMA OptionAfter ==
  /\ IsOption[1]
  /\ \A k \in Nat \ {0} : IsOption[k + 1] <=> ~ (argv[k] \in TakesArg /\ IsOption[k])
<1>1. ASSUME NEW n \in Nat
      PROVE  IsOption[n] = (n = 1 \/ (n > 1 /\ ~ (argv[n - 1] \in TakesArg /\ IsOption[n - 1])))
  BY IsOptionDef
<1>2. IsOption[1]
  BY <1>1
<1>3. ASSUME NEW k \in Nat \ {0}
      PROVE  IsOption[k + 1] <=> ~ (argv[k] \in TakesArg /\ IsOption[k])
  <2>1. k + 1 \in Nat /\ k + 1 > 1 /\ k + 1 # 1 /\ (k + 1) - 1 = k
    OBVIOUS
  <2>2. QED
    BY <1>1, <2>1
<1>4. QED
  BY <1>2, <1>3

\* It depends on argv alone.
LEMMA OptionsSame ==
  ASSUME argv' = argv
  PROVE  /\ Options' = Options /\ AllRead' = AllRead
         /\ IsOption' = IsOption
<1>1. IsOption' = IsOption
  BY DEF IsOption
<1>2. QED
  BY <1>1 DEF Options, AllRead

\* What is known of the options before n is a fact about argv alone.
LEMMA ReadSame ==
  ASSUME argv' = argv, NEW n
  PROVE  /\ Paired(n)' <=> Paired(n)
         /\ Valued(n)' <=> Valued(n)
         /\ NoImportBefore(n)' <=> NoImportBefore(n)
         /\ GivenShards(n)' = GivenShards(n)
         /\ GivenPorts(n)' = GivenPorts(n)
         /\ WellFormed' <=> WellFormed
         /\ HelpThere' <=> HelpThere
BY OptionsSame DEF Paired, Valued, NoImportBefore, GivenShards, GivenPorts, WellFormed, Complete,
                       Unregistered, HelpThere

\* A turn of parse's or of run's loop goes from an option to the next one.
LEMMA NextOption ==
  ASSUME ArgsTypeOK, NEW n \in 1 .. Len(argv), IsOption[n],
         NEW m, m = IF argv[n] \in TakesArg THEN n + 2 ELSE n + 1
  PROVE  n \in Options /\ IsOption[m] /\ \A k \in Options : k < m <=> (k < n \/ k = n)
<1>1. Len(argv) \in Nat /\ DOMAIN argv = 1 .. Len(argv)
  BY DEF ArgsTypeOK
<1>2. n \in Options /\ n \in Nat \ {0} /\ n + 1 \in Nat \ {0} /\ (n + 1) + 1 = n + 2
  BY <1>1 DEF Options
<1>3. CASE argv[n] \in TakesArg
  <2>1. ~ IsOption[n + 1]
    BY <1>2, <1>3, OptionAfter
  <2>2. IsOption[(n + 1) + 1] /\ (n + 1) + 1 = m
    BY <1>2, <1>3, <2>1, OptionAfter
  <2>3. ASSUME NEW k \in Options PROVE k # n + 1 /\ k \in Int
    BY <2>1, <1>1 DEF Options
  <2>4. QED
    BY <1>2, <1>3, <2>2, <2>3
<1>4. CASE argv[n] \notin TakesArg
  <2>1. IsOption[n + 1]
    BY <1>2, <1>4, OptionAfter
  <2>2. QED
    BY <1>1, <1>2, <1>4, <2>1 DEF Options
<1>5. QED
  BY <1>3, <1>4

\* One more place whose value may have been given.
LEMMA LastAdded ==
  ASSUME NEW n \in Nat, NEW given \in SUBSET Nat, \A k \in given : k < n,
         NEW v, NEW default, IsLast(v, given, default),
         NEW given2, NEW v2,
         \/ given2 = given /\ v2 = v
         \/ given2 = given \cup {n} /\ v2 = argv[n + 1]
  PROVE  IsLast(v2, given2, default)
<1>1. CASE given2 = given \cup {n} /\ v2 = argv[n + 1]
  <2>1. n \in given2 /\ v2 = argv[n + 1] /\ \A l \in given2 : l <= n
    BY <1>1
  <2>2. QED
    BY <2>1 DEF IsLast
<1>2. QED
  BY <1>1

\* The value of the last place is what was asked for.
LEMMA AskedIsLast ==
  ASSUME NEW names, NEW v, NEW default, Given(names) \subseteq Nat,
         IsLast(v, Given(names), default)
  PROVE  v = Asked(names, default)
<1>1. CASE Given(names) = {}
  BY <1>1 DEF Asked, IsLast
<1>2. CASE Given(names) # {}
  <2>1. PICK k \in Given(names) : v = argv[k + 1] /\ \A l \in Given(names) : l <= k
    BY <1>2 DEF IsLast
  <2> DEFINE c == CHOOSE n \in Given(names) : \A l \in Given(names) : l <= n
  <2>2. c \in Given(names) /\ \A l \in Given(names) : l <= c
    BY <2>1
  <2>3. c = k
    BY <2>1, <2>2
  <2>4. 1 + c = k + 1
    BY <2>1, <2>3
  <2>5. Asked(names, default) = argv[1 + c]
    BY <1>2 DEF Asked
  <2>6. QED
    BY <2>1, <2>4, <2>5
<1>3. QED
  BY <1>1, <1>2

\* The words that the loops tell apart.
LEMMA Kinds ==
  /\ Flags \cap TakesArg = {} /\ "-c" \in TakesArg /\ "--help" \in Flags /\ "--no-import" \in Flags
  /\ {"-p", "--port"} \subseteq TakesArg /\ "-c" \notin {"-p", "--port"}
  /\ Numbers \cap (Flags \cup TakesArg) = {}
BY ArgumentsAssumption DEF Flags, TakesArg

\* A port among the arguments of a well-formed line is that of an option: the
\* value after one that is no option would be an argument of its own.
LEMMA PortsAreOptions ==
  ASSUME ArgsTypeOK, Paired(AllRead)
  PROVE  GivenPorts(AllRead) = Given({"-p", "--port"})
<1>1. Len(argv) \in Nat /\ DOMAIN argv = 1 .. Len(argv) /\ Options \subseteq DOMAIN argv
  BY DEF ArgsTypeOK, Options
<1>2. ASSUME NEW k \in GivenPorts(AllRead) PROVE k \in Given({"-p", "--port"})
  <2>1. /\ k \in DOMAIN argv /\ argv[k] \in {"-p", "--port"} /\ k < Len(argv)
        /\ argv[k + 1] \in Numbers
    BY DEF GivenPorts
  <2>2. k + 1 \in DOMAIN argv /\ argv[k + 1] \notin Flags \cup TakesArg
    BY <1>1, <2>1, Kinds
  <2>3. k + 1 \notin Options
    BY <1>1, <2>2 DEF Paired, AllRead
  <2>4. ~ IsOption[k + 1]
    BY <2>2, <2>3 DEF Options
  <2>5. IsOption[k]
    <3>1. k \in Nat \ {0}
      BY <1>1, <2>1
    <3>2. QED
      BY <2>4, <3>1, OptionAfter
  <2>6. QED
    BY <2>1, <2>5 DEF Options, Given
<1>3. ASSUME NEW k \in Given({"-p", "--port"}) PROVE k \in GivenPorts(AllRead)
  <2>1. k \in Options /\ argv[k] \in {"-p", "--port"} /\ argv[k + 1] \in Numbers
    BY DEF Given
  <2>2. k \in DOMAIN argv /\ k < AllRead
    BY <1>1, <2>1 DEF AllRead
  <2>3. k < Len(argv)
    BY <2>1, <2>2, Kinds DEF Paired
  <2>4. QED
    BY <2>1, <2>2, <2>3 DEF GivenPorts
<1>4. QED
  BY <1>2, <1>3

\* What is read of a line without errors is what it asks for.
LEMMA ReadAll ==
  ASSUME ArgsTypeOK
  PROVE  /\ GivenShards(AllRead) = Given({"-c"})
         /\ WellFormed <=> Paired(AllRead) /\ Valued(AllRead)
         /\ NoImportBefore(AllRead) <=> \E k \in Options : argv[k] = "--no-import"
<1>1. \A k \in Options : k < AllRead /\ k \in Nat
  BY DEF ArgsTypeOK, Options, AllRead
<1>2. GivenShards(AllRead) = Given({"-c"})
  BY <1>1 DEF GivenShards, Given
<1>3. NoImportBefore(AllRead) <=> \E k \in Options : argv[k] = "--no-import"
  BY <1>1 DEF NoImportBefore
<1>4. WellFormed <=> Paired(AllRead) /\ Valued(AllRead)
  BY <1>1, Kinds DEF WellFormed, Complete, Unregistered, Paired, Valued
<1>5. QED
  BY <1>2, <1>3, <1>4

\* The invariant gives the property.
LEMMA ArgsInvServes ==
  ASSUME ArgsInv
  PROVE  ServesAsAsked
<1>1. ArgsTypeOK
  BY DEF ArgsInv
<1>2. ASSUME at = "serve"
      PROVE  /\ WellFormed
             /\ port = Asked({"-p", "--port"}, "2409")
             /\ numDatabases = Asked({"-c"}, "1")
             /\ noImport <=> \E k \in Options : argv[k] = "--no-import"
  <2>1. \A names : Given(names) \subseteq Nat
    BY <1>1 DEF Given, Options, ArgsTypeOK
  <2>2. /\ Paired(AllRead) /\ Valued(AllRead)
        /\ noImport <=> NoImportBefore(AllRead)
        /\ IsLast(numDatabases, GivenShards(AllRead), "1")
        /\ IsLast(port, GivenPorts(AllRead), "2409")
    BY <1>2 DEF ArgsInv
  <2>3. port = Asked({"-p", "--port"}, "2409")
    BY <1>1, <2>1, <2>2, PortsAreOptions, AskedIsLast
  <2>4. numDatabases = Asked({"-c"}, "1")
    BY <1>1, <2>1, <2>2, ReadAll, AskedIsLast
  <2>5. QED
    BY <1>1, <2>2, <2>3, <2>4, ReadAll DEF PortsValid
<1>3. /\ at = "1" => ~ WellFormed
      /\ at = "0" => \E k \in DOMAIN argv : argv[k] = "--help"
  BY DEF ArgsInv, HelpThere
<1>4. QED
  BY <1>2, <1>3 DEF ServesAsAsked, WellFormed

\* A copy of the first words of a sequence, and two more of them.
LEMMA TwoMore ==
  ASSUME NEW S, NEW s \in Seq(S), NEW w \in Seq(S), NEW n \in Nat, Len(s) = n,
         n + 2 <= Len(w), \A k \in 1 .. n : s[k] = w[k]
  PROVE  LET t == s \o <<w[n + 1], w[n + 2]>>
         IN  t \in Seq(S) /\ Len(t) = n + 2 /\ \A k \in 1 .. (n + 2) : t[k] = w[k]
<1> DEFINE two == <<w[n + 1], w[n + 2]>>
           t == s \o two
<1>1. w[n + 1] \in S /\ w[n + 2] \in S
  OBVIOUS
<1>2. two \in Seq(S) /\ Len(two) = 2 /\ two[1] = w[n + 1] /\ two[2] = w[n + 2]
  BY <1>1
<1> HIDE DEF two
<1>3. /\ t \in Seq(S) /\ Len(t) = n + 2
      /\ \A k \in 1 .. n : t[k] = s[k]
      /\ t[n + 1] = two[1] /\ t[n + 2] = two[2]
  <2>0. two \in Seq(S)
    BY <1>2
  <2>4. /\ t \in Seq(S) /\ Len(t) = Len(s) + Len(two)
         /\ \A k \in 1 .. Len(s) + Len(two) : t[k] = IF k <= Len(s) THEN s[k] ELSE two[k - Len(s)]
    BY <2>0, ConcatProperties
  <2> HIDE DEF t
  <2>1. \A k \in 1 .. (n + 2) : t[k] = IF k <= n THEN s[k] ELSE two[k - n]
    BY <1>2, <2>4
  <2>2. (n + 1) - n = 1 /\ (n + 2) - n = 2
    OBVIOUS
  <2>3. t \in Seq(S) /\ Len(t) = n + 2
    BY <1>2, <2>4
  <2>5. QED
    BY <2>1, <2>2, <2>3
<1>4. \A k \in 1 .. (n + 2) : k \in 1 .. n \/ k = n + 1 \/ k = n + 2
  OBVIOUS
<1> HIDE DEF t
<1>5. QED
  BY <1>2, <1>3, <1>4 DEF t, two

\* Parse: the words before pos are paired, and copied.
LEMMA ParseStep ==
  ASSUME ArgsInv, Parse
  PROVE  ArgsInv'
<1>1. /\ ArgsTypeOK /\ at = "parse" /\ pos <= Len(argv) /\ argv' = argv
      /\ m_debug = FALSE /\ showHelp = FALSE /\ noImport = FALSE
      /\ numDatabases = "1" /\ port = "2409"
      /\ m_debug' = m_debug /\ showHelp' = showHelp /\ noImport' = noImport
      /\ numDatabases' = numDatabases /\ port' = port
      /\ parsed_args \in Seq(Words) /\ Len(parsed_args) = pos - 1
      /\ \A k \in 1 .. (pos - 1) : parsed_args[k] = argv[k]
      /\ IsOption[pos] /\ Paired(pos)
  BY DEF ArgsInv, Parse
<1>2. PICK p : p = pos
  OBVIOUS
<1>3. p \in 1 .. Len(argv) /\ Len(argv) \in Nat /\ argv[p] \in Words /\ argv \in Seq(Words)
  BY <1>1, <1>2 DEF ArgsTypeOK
<1>4. CASE argv[pos] \in Flags
  <2>1. PICK q : q = p + 1
    OBVIOUS
  <2>2. parsed_args' = Append(parsed_args, argv[p]) /\ pos' = q /\ at' = at
    BY <1>1, <1>2, <1>4, <2>1, Kinds DEF Parse
  <2>3. IsOption[q] /\ \A k \in Options : k < q <=> (k < p \/ k = p)
    BY <1>1, <1>2, <1>3, <1>4, <2>1, Kinds, NextOption
  <2>4. Paired(q)
    BY <1>1, <1>2, <1>4, <2>3 DEF Paired
  <2>5. /\ parsed_args' \in Seq(Words) /\ Len(parsed_args') = q - 1
        /\ \A k \in 1 .. (q - 1) : parsed_args'[k] = argv[k]
    BY <1>1, <1>2, <1>3, <2>1, <2>2, AppendProperties
  <2>6. ArgsTypeOK'
    BY <1>1, <1>3, <2>1, <2>2 DEF ArgsTypeOK
  <2>7. (IsOption[pos])' /\ Paired(pos)'
    <3>1. Paired(q)'
      BY <1>1, <2>4, ReadSame
    <3>2. QED
      BY <1>1, <2>2, <2>3, <3>1, OptionsSame
  <2>8. QED
    BY <1>1, <2>2, <2>5, <2>6, <2>7 DEF ArgsInv
<1>5. CASE argv[pos] \in TakesArg /\ pos < Len(argv)
  <2>1. PICK q : q = p + 2
    OBVIOUS
  <2>2. parsed_args' = parsed_args \o <<argv[p], argv[p + 1]>> /\ pos' = q /\ at' = at
    <3>1. argv[pos] \notin Flags /\ pos # Len(argv)
      BY <1>2, <1>3, <1>5, Kinds
    <3>2. QED
      BY <1>2, <1>5, <2>1, <3>1 DEF Parse
  <2>3. IsOption[q] /\ \A k \in Options : k < q <=> (k < p \/ k = p)
    BY <1>1, <1>2, <1>3, <1>5, <2>1, NextOption
  <2>4. Paired(q)
    BY <1>1, <1>2, <1>5, <2>3 DEF Paired
  <2>5. /\ parsed_args' \in Seq(Words) /\ Len(parsed_args') = q - 1
        /\ \A k \in 1 .. (q - 1) : parsed_args'[k] = argv[k]
    <3>1. /\ p - 1 \in Nat /\ (p - 1) + 2 <= Len(argv) /\ (p - 1) + 1 = p
          /\ (p - 1) + 2 = p + 1 /\ q - 1 = p + 1 /\ Len(parsed_args) = p - 1
      BY <1>1, <1>2, <1>3, <1>5, <2>1
    <3>2. \A k \in 1 .. (p - 1) : parsed_args[k] = argv[k]
      BY <1>1, <1>2
    <3> DEFINE n == p - 1
    <3>3. n \in Nat /\ Len(parsed_args) = n /\ n + 2 <= Len(argv)
          /\ \A k \in 1 .. n : parsed_args[k] = argv[k]
          /\ n + 1 = p /\ n + 2 = p + 1
      BY <3>1, <3>2
    <3> HIDE DEF n
    <3>4. QED
      BY <1>1, <1>3, <2>2, <3>1, <3>3, TwoMore
  <2>6. ArgsTypeOK'
    BY <1>1, <1>2, <1>3, <1>5, <2>1, <2>2 DEF ArgsTypeOK
  <2>7. (IsOption[pos])' /\ Paired(pos)'
    <3>1. Paired(q)'
      BY <1>1, <2>4, ReadSame
    <3>2. QED
      BY <1>1, <2>2, <2>3, <3>1, OptionsSame
  <2>8. QED
    BY <1>1, <2>2, <2>5, <2>6, <2>7 DEF ArgsInv
<1>6. CASE argv[pos] \notin Flags /\ ~ (argv[pos] \in TakesArg /\ pos < Len(argv))
  <2>1. at' = "1" /\ pos' = pos
    BY <1>1, <1>2, <1>3, <1>6 DEF Parse
  <2>2. pos \in Options
    BY <1>1, <1>2, <1>3 DEF Options
  <2>3. ~ WellFormed
    BY <1>6, <2>2 DEF WellFormed, Complete, Unregistered
  <2>4. (~ WellFormed)'
    BY <1>1, <2>3, ReadSame
  <2>5. ArgsTypeOK'
    BY <1>1, <2>1 DEF ArgsTypeOK
  <2>6. QED
    BY <2>1, <2>4, <2>5 DEF ArgsInv
<1>7. QED
  BY <1>4, <1>5, <1>6

\* Apply: run's loop goes over the same options, and takes their values.
LEMMA ApplyStep ==
  ASSUME ArgsInv, Apply
  PROVE  ArgsInv'
<1>1. /\ ArgsTypeOK /\ at = "apply" /\ argv' = argv /\ pos <= Len(argv)
      /\ parsed_args = argv /\ parsed_args' = argv
      /\ IsOption[pos] /\ Paired(AllRead) /\ Valued(pos)
      /\ showHelp => HelpThere
      /\ noImport <=> NoImportBefore(pos)
      /\ IsLast(numDatabases, GivenShards(pos), "1")
      /\ port = "2409" /\ port' = port
  BY DEF ArgsInv, Apply
<1>2. PICK p : p = pos
  OBVIOUS
<1>3. p \in 1 .. Len(argv) /\ Len(argv) \in Nat /\ argv[p] \in Words /\ argv \in Seq(Words)
      /\ DOMAIN argv = 1 .. Len(argv)
  BY <1>1, <1>2 DEF ArgsTypeOK
<1>4. PICK q : q = IF argv[p] \in TakesArg THEN p + 2 ELSE p + 1
  OBVIOUS
<1>5. /\ pos' = q
      /\ showHelp' <=> (showHelp \/ argv[p] = "--help")
      /\ noImport' <=> (noImport \/ argv[p] = "--no-import")
      /\ IF argv[p] # "-c" THEN numDatabases' = numDatabases /\ at' = at
         ELSE IF argv[p + 1] \in Numbers
         THEN numDatabases' = argv[p + 1] /\ at' = at
         ELSE at' = "1" /\ numDatabases' = numDatabases
  BY <1>1, <1>2, <1>4 DEF Apply
<1>6. p \in Options /\ IsOption[q] /\ \A k \in Options : k < q <=> (k < p \/ k = p)
  BY <1>1, <1>2, <1>3, <1>4, NextOption
<1>7. argv[p] \in Flags \/ (argv[p] \in TakesArg /\ p < Len(argv))
  BY <1>1, <1>3, <1>6 DEF Paired, AllRead
<1>8. ArgsTypeOK'
  <2>1. q \in 1 .. Len(argv) + 1
    BY <1>3, <1>4, <1>7, Kinds
  <2>2. QED
    BY <1>1, <1>5, <2>1 DEF ArgsTypeOK
<1>9. CASE argv[p] = "-c" /\ argv[p + 1] \notin Numbers
  <2>1. ~ WellFormed
    BY <1>6, <1>9, Kinds DEF WellFormed, Complete, Unregistered
  <2>2. (~ WellFormed)' /\ at' = "1"
    BY <1>1, <1>5, <1>9, <2>1, ReadSame
  <2>3. QED
    BY <1>8, <2>2 DEF ArgsInv
<1>10. CASE ~ (argv[p] = "-c" /\ argv[p + 1] \notin Numbers)
  <2>1. Valued(q)
    BY <1>1, <1>2, <1>6, <1>10 DEF Valued
  <2>2. showHelp' => HelpThere
    BY <1>1, <1>3, <1>5 DEF HelpThere
  <2>3. noImport' <=> NoImportBefore(q)
    BY <1>1, <1>2, <1>5, <1>6 DEF NoImportBefore
  <2>4. IsLast(numDatabases', GivenShards(q), "1")
    <3>1. GivenShards(p) \in SUBSET Nat /\ \A k \in GivenShards(p) : k < p
      BY <1>3 DEF GivenShards, Options
    <3>2. CASE argv[p] = "-c"
      <4>1. GivenShards(q) = GivenShards(p) \cup {p}
        BY <1>6, <1>10, <3>2 DEF GivenShards
      <4>2. QED
        BY <1>1, <1>2, <1>3, <1>5, <1>10, <3>1, <3>2, <4>1, LastAdded
    <3>3. CASE argv[p] # "-c"
      <4>1. GivenShards(q) = GivenShards(p)
        BY <1>6, <3>3 DEF GivenShards
      <4>2. QED
        BY <1>1, <1>2, <1>5, <3>3, <4>1
    <3>4. QED
      BY <3>2, <3>3
  <2>5. at' = "apply"
    BY <1>1, <1>5, <1>10
  <2>6. /\ (IsOption[pos])' /\ Paired(AllRead)' /\ Valued(pos)'
        /\ (showHelp => HelpThere)'
        /\ (noImport <=> NoImportBefore(pos))'
        /\ IsLast(numDatabases, GivenShards(pos), "1")'
    <3>1. (IsOption[pos])' /\ Paired(AllRead)'
      BY <1>1, <1>5, <1>6, OptionsSame DEF Paired
    <3>2. Valued(q)' /\ (HelpThere' <=> HelpThere) /\ (NoImportBefore(q)' <=> NoImportBefore(q))
          /\ GivenShards(q)' = GivenShards(q)
      BY <1>1, <2>1, ReadSame
    <3>3. IsLast(numDatabases, GivenShards(pos), "1")'
      BY <1>1, <1>5, <2>4, <3>2 DEF IsLast
    <3>4. QED
      BY <1>5, <2>2, <2>3, <3>1, <3>2, <3>3
  <2>7. QED
    BY <1>1, <1>8, <2>5, <2>6 DEF ArgsInv
<1>11. QED
  BY <1>9, <1>10

\* What is known once all is read is a fact about argv alone.
LEMMA AllReadSame ==
  ASSUME argv' = argv
  PROVE  /\ Paired(AllRead)' <=> Paired(AllRead)
         /\ Valued(AllRead)' <=> Valued(AllRead)
         /\ NoImportBefore(AllRead)' <=> NoImportBefore(AllRead)
         /\ GivenShards(AllRead)' = GivenShards(AllRead)
         /\ GivenPorts(AllRead)' = GivenPorts(AllRead)
BY OptionsSame DEF Paired, Valued, NoImportBefore, GivenShards, GivenPorts

\* What holds once all options are read stays.
LEMMA KeepsRead ==
  ASSUME argv' = argv, noImport' = noImport, numDatabases' = numDatabases,
         Paired(AllRead), Valued(AllRead), noImport <=> NoImportBefore(AllRead),
         IsLast(numDatabases, GivenShards(AllRead), "1")
  PROVE  /\ (Paired(AllRead) /\ Valued(AllRead))'
         /\ (noImport <=> NoImportBefore(AllRead))'
         /\ IsLast(numDatabases, GivenShards(AllRead), "1")'
<1>1. (Paired(AllRead) /\ Valued(AllRead))'
  BY AllReadSame
<1>2. (noImport <=> NoImportBefore(AllRead))'
  BY AllReadSame
<1>3. IsLast(numDatabases, GivenShards(AllRead), "1")'
  BY AllReadSame DEF IsLast
<1>4. QED
  BY <1>1, <1>2, <1>3

\* FindPort: main's loop goes over all arguments.
LEMMA FindPortStep ==
  ASSUME ArgsInv, FindPort
  PROVE  ArgsInv'
<1>1. /\ ArgsTypeOK /\ at = "port" /\ at' = at /\ argv' = argv /\ pos <= Len(argv)
      /\ pos' = pos + 1 /\ noImport' = noImport /\ numDatabases' = numDatabases
      /\ Paired(AllRead) /\ Valued(AllRead)
      /\ noImport <=> NoImportBefore(AllRead)
      /\ IsLast(numDatabases, GivenShards(AllRead), "1")
      /\ IsLast(port, GivenPorts(pos), "2409")
  BY DEF ArgsInv, FindPort
<1>2. PICK p : p = pos
  OBVIOUS
<1>3. p \in 1 .. Len(argv) /\ Len(argv) \in Nat /\ DOMAIN argv = 1 .. Len(argv)
  BY <1>1, <1>2 DEF ArgsTypeOK
<1>4. PICK q : q = p + 1
  OBVIOUS
<1>5. IsLast(port', GivenPorts(q), "2409")
  <2>1. GivenPorts(p) \in SUBSET Nat /\ \A k \in GivenPorts(p) : k < p
    BY <1>3 DEF GivenPorts
  <2>2. \A k \in DOMAIN argv : k < q <=> (k < p \/ k = p)
    BY <1>3, <1>4
  <2>3. CASE argv[p] \in {"-p", "--port"} /\ p < Len(argv) /\ argv[p + 1] \in Numbers
    <3>1. GivenPorts(q) = GivenPorts(p) \cup {p}
      BY <1>3, <2>2, <2>3 DEF GivenPorts
    <3>2. port' = argv[p + 1]
      BY <1>2, <2>3 DEF FindPort
    <3>3. QED
      BY <1>1, <1>2, <1>3, <2>1, <3>1, <3>2, LastAdded
  <2>4. CASE ~ (argv[p] \in {"-p", "--port"} /\ p < Len(argv) /\ argv[p + 1] \in Numbers)
    <3>1. GivenPorts(q) = GivenPorts(p)
      BY <1>3, <2>2, <2>4 DEF GivenPorts
    <3>2. port' = port
      BY <1>2, <2>4 DEF FindPort
    <3>3. QED
      BY <1>1, <1>2, <3>1, <3>2
  <2>5. QED
    BY <2>3, <2>4
<1>6. IsLast(port, GivenPorts(pos), "2409")'
  BY <1>1, <1>2, <1>4, <1>5, ReadSame DEF IsLast
<1>7. ArgsTypeOK'
  BY <1>1, <1>2, <1>3 DEF ArgsTypeOK
<1>8. /\ (Paired(AllRead) /\ Valued(AllRead))'
      /\ (noImport <=> NoImportBefore(AllRead))'
      /\ IsLast(numDatabases, GivenShards(AllRead), "1")'
  BY <1>1, KeepsRead
<1>9. QED
  BY <1>1, <1>6, <1>7, <1>8 DEF ArgsInv

\* Every step keeps the invariant.
LEMMA ArgsInvStep ==
  ASSUME ArgsInv, [ArgsNext]_argsVars
  PROVE  ArgsInv'
<1>1. ArgsTypeOK /\ Len(argv) \in Nat
  BY DEF ArgsInv, ArgsTypeOK
<1>2. CASE ParseDone
  <2>1. /\ at = "parse" /\ pos > Len(argv) /\ at' = "apply" /\ pos' = 1 /\ argv' = argv
        /\ parsed_args' = parsed_args /\ showHelp' = FALSE /\ noImport' = FALSE
        /\ numDatabases' = "1" /\ port' = "2409"
        /\ parsed_args \in Seq(Words) /\ Len(parsed_args) = pos - 1
        /\ \A k \in 1 .. (pos - 1) : parsed_args[k] = argv[k]
        /\ Paired(pos)
    BY <1>2 DEF ArgsInv, ParseDone
  <2>2. pos = AllRead /\ pos - 1 = Len(argv)
    BY <1>1, <2>1 DEF ArgsTypeOK, AllRead
  <2>3. parsed_args' = argv
    <3>1. argv \in Seq(Words)
      BY <1>1 DEF ArgsTypeOK
    <3>2. QED
      BY <2>1, <2>2, <3>1, SeqEqual
  <2>4. \A k \in Options : ~ (k < 1)
    BY <1>1 DEF Options, ArgsTypeOK
  <2>5. Valued(1) /\ ~ NoImportBefore(1) /\ GivenShards(1) = {}
    BY <2>4 DEF Valued, NoImportBefore, GivenShards
  <2>6. /\ Valued(pos)' /\ Paired(AllRead)' /\ (~ NoImportBefore(pos))' /\ (GivenShards(pos) = {})'
        /\ (IsOption[pos])'
    BY <2>1, <2>2, <2>5, ReadSame, OptionsSame, OptionAfter, AllReadSame
  <2>7. IsLast(numDatabases, GivenShards(pos), "1")'
    BY <2>1, <2>6 DEF IsLast
  <2>8. ArgsTypeOK'
    BY <1>1, <2>1 DEF ArgsTypeOK
  <2>9. QED
    BY <2>1, <2>3, <2>6, <2>7, <2>8 DEF ArgsInv
<1>3. CASE ApplyDone
  <2>1. /\ at = "apply" /\ pos > Len(argv) /\ argv' = argv /\ pos' = 1
        /\ at' = IF showHelp THEN "0" ELSE "help"
        /\ noImport' = noImport /\ numDatabases' = numDatabases /\ port' = "2409"
        /\ Paired(AllRead) /\ Valued(pos)
        /\ showHelp => HelpThere
        /\ noImport <=> NoImportBefore(pos)
        /\ IsLast(numDatabases, GivenShards(pos), "1")
    BY <1>3 DEF ArgsInv, ApplyDone
  <2>2. pos = AllRead
    BY <1>1, <2>1 DEF ArgsTypeOK, AllRead
  <2>3. /\ (Paired(AllRead) /\ Valued(AllRead))'
        /\ (noImport <=> NoImportBefore(AllRead))'
        /\ IsLast(numDatabases, GivenShards(AllRead), "1")'
        /\ HelpThere' <=> HelpThere
    BY <2>1, <2>2, KeepsRead, ReadSame
  <2>4. ArgsTypeOK'
    BY <1>1, <2>1 DEF ArgsTypeOK
  <2>5. QED
    BY <2>1, <2>3, <2>4 DEF ArgsInv
<1>4. CASE FindHelp
  <2>1. /\ at = "help" /\ argv' = argv /\ pos' = 1 /\ port' = "2409"
        /\ at' = IF HelpThere THEN "0" ELSE "port"
        /\ noImport' = noImport /\ numDatabases' = numDatabases
        /\ Paired(AllRead) /\ Valued(AllRead)
        /\ noImport <=> NoImportBefore(AllRead)
        /\ IsLast(numDatabases, GivenShards(AllRead), "1")
    BY <1>4 DEF ArgsInv, FindHelp, HelpThere
  <2>2. GivenPorts(1) = {}
    BY <1>1 DEF GivenPorts, ArgsTypeOK
  <2>3. IsLast(port, GivenPorts(pos), "2409")'
    BY <2>1, <2>2, ReadSame DEF IsLast
  <2>4. /\ (Paired(AllRead) /\ Valued(AllRead))'
        /\ (noImport <=> NoImportBefore(AllRead))'
        /\ IsLast(numDatabases, GivenShards(AllRead), "1")'
        /\ HelpThere' <=> HelpThere
    BY <2>1, KeepsRead, ReadSame
  <2>5. ArgsTypeOK'
    BY <1>1, <2>1 DEF ArgsTypeOK
  <2>6. QED
    BY <2>1, <2>3, <2>4, <2>5 DEF ArgsInv
<1>5. CASE Listen
  <2>1. /\ at = "port" /\ pos > Len(argv) /\ at' = "serve" /\ argv' = argv /\ pos' = pos
        /\ noImport' = noImport /\ numDatabases' = numDatabases /\ port' = port
        /\ Paired(AllRead) /\ Valued(AllRead)
        /\ noImport <=> NoImportBefore(AllRead)
        /\ IsLast(numDatabases, GivenShards(AllRead), "1")
        /\ IsLast(port, GivenPorts(pos), "2409")
    BY <1>5 DEF ArgsInv, Listen
  <2>2. pos = AllRead
    BY <1>1, <2>1 DEF ArgsTypeOK, AllRead
  <2>3. /\ (Paired(AllRead) /\ Valued(AllRead))'
        /\ (noImport <=> NoImportBefore(AllRead))'
        /\ IsLast(numDatabases, GivenShards(AllRead), "1")'
    BY <2>1, KeepsRead
  <2>6. IsLast(port, GivenPorts(AllRead), "2409")'
    BY <2>1, <2>2, AllReadSame DEF IsLast
  <2>4. ArgsTypeOK'
    BY <1>1, <2>1 DEF ArgsTypeOK
  <2>5. QED
    BY <2>1, <2>3, <2>4, <2>6 DEF ArgsInv
<1>6. CASE UNCHANGED argsVars
  <2>1. argv' = argv /\ at' = at /\ pos' = pos /\ parsed_args' = parsed_args /\ m_debug' = m_debug
        /\ numDatabases' = numDatabases /\ noImport' = noImport
        /\ showHelp' = showHelp /\ port' = port
    BY <1>6 DEF argsVars
  <2>2. IsOption' = IsOption
    BY <2>1, OptionsSame
  <2>3. PICK p : p = pos
    OBVIOUS
  <2>4. /\ Paired(pos)' <=> Paired(pos)
        /\ Valued(pos)' <=> Valued(pos)
        /\ NoImportBefore(pos)' <=> NoImportBefore(pos)
        /\ GivenShards(pos)' = GivenShards(pos)
        /\ GivenPorts(pos)' = GivenPorts(pos)
        /\ WellFormed' <=> WellFormed
        /\ HelpThere' <=> HelpThere
    BY <2>1, <2>3, ReadSame
  <2>5. /\ Paired(AllRead)' <=> Paired(AllRead)
        /\ Valued(AllRead)' <=> Valued(AllRead)
        /\ NoImportBefore(AllRead)' <=> NoImportBefore(AllRead)
        /\ GivenShards(AllRead)' = GivenShards(AllRead)
        /\ GivenPorts(AllRead)' = GivenPorts(AllRead)
    BY <2>1, AllReadSame
  <2>6. /\ IsLast(numDatabases, GivenShards(pos), "1")'
           <=> IsLast(numDatabases, GivenShards(pos), "1")
        /\ IsLast(numDatabases, GivenShards(AllRead), "1")'
           <=> IsLast(numDatabases, GivenShards(AllRead), "1")
        /\ IsLast(port, GivenPorts(pos), "2409")' <=> IsLast(port, GivenPorts(pos), "2409")
        /\ IsLast(port, GivenPorts(AllRead), "2409")' <=> IsLast(port, GivenPorts(AllRead), "2409")
    BY <2>1, <2>4, <2>5 DEF IsLast
  <2>7. ArgsTypeOK'
    BY <1>1, <2>1 DEF ArgsTypeOK
  <2>8. QED
    BY <2>1, <2>2, <2>4, <2>5, <2>6, <2>7 DEF ArgsInv
<1>7. QED
  BY <1>2, <1>3, <1>4, <1>5, <1>6, ParseStep, ApplyStep, FindPortStep DEF ArgsNext

\* The invariant holds at first.
LEMMA ArgsInvInit == ArgsInit => ArgsInv
<1> SUFFICES ASSUME ArgsInit PROVE ArgsInv
  OBVIOUS
<1>1. PICK n \in 0 .. MaxArgs : argv \in [1 .. n -> Words]
  BY DEF ArgsInit
<1>2. n \in Nat /\ argv \in Seq(Words) /\ Len(argv) = n
  <2>1. n \in Nat
    BY ArgumentsAssumption
  <2>2. QED
    BY <1>1, <2>1
<1>3. \A k \in Options : ~ (k < 1)
  BY <1>2 DEF Options
<1>4. IsOption[1] /\ Paired(1)
  BY <1>3, OptionAfter DEF Paired
<1>5. <<>> \in Seq(Words) /\ Len(<<>>) = 0
  OBVIOUS
<1>6. QED
  BY <1>2, <1>4, <1>5 DEF ArgsInit, ArgsInv, ArgsTypeOK

\* The server starts with the number of shards, the import and, if its values are
\* ports, the port that the command line asks for, wherever the options stand and
\* however often one is given, never on a line that lacks a value or, without
\* --debug, has an unregistered argument, and only lines that are not well-formed
\* are refused: parse, run and main, for lines of any length and any words.
THEOREM ServesAsAskedAlways == ArgsInit /\ [][ArgsNext]_argsVars => []ServesAsAsked
<1>1. ArgsInv /\ [ArgsNext]_argsVars => ArgsInv'
  BY ArgsInvStep
<1>2. ArgsInv => ServesAsAsked
  BY ArgsInvServes
<1>3. QED
  BY <1>1, <1>2, ArgsInvInit, PTL

-----------------------------------------------------------------------------
(* Frames.  What a frame's parts are in its bytes, what one turn of the    *)
(* loop makes of them, and the loop over a chunk of the stream.            *)

\* The numbers of a byte.
LEMMA ByteFacts ==
  /\ Top \in Nat /\ Top > 2 /\ Byte \in Nat /\ Byte = Top + Top
  /\ Code16 \in Nat /\ Code64 \in Nat /\ Code16 < Code64 /\ Code64 < Top /\ Code16 > 0
  /\ ByteValues \subseteq Nat /\ ByteValues = 0 .. (Byte - 1)
BY FramesAssumption DEF Byte, Code16, Code64, ByteValues

\* BigEndian is Horner's rule.
LEMMA BigEndianHorner ==
  ASSUME NEW bytes \in Seq(ByteValues)
  PROVE  \E v \in [0 .. Len(bytes) -> Nat] :
            /\ v[0] = 0 /\ \A k \in 1 .. Len(bytes) : v[k] = v[k - 1] * Byte + bytes[k]
            /\ BigEndian(bytes) = v[Len(bytes)]
<1> DEFINE N == Len(bytes)
           Horner(v) == v = [k \in 0 .. N |-> IF k = 0 THEN 0 ELSE v[k - 1] * Byte + bytes[k]]
<1>1. N \in Nat /\ \A k \in 1 .. N : bytes[k] \in Nat
  BY ByteFacts
<1>2. \E v : Horner(v)
  <2> DEFINE step == [p \in (0 .. (N - 1)) \X Nat |-> p[2] * Byte + bytes[p[1] + 1]]
  <2>1. step \in StepsTo(N, Nat)
    <3>1. ASSUME NEW n \in 0 .. (N - 1), NEW m \in Nat PROVE m * Byte + bytes[n + 1] \in Nat
      <4>1. n + 1 \in 1 .. N /\ Byte \in Nat
        BY <1>1, ByteFacts
      <4>2. bytes[n + 1] \in Nat
        BY <1>1, <4>1
      <4>3. QED
        BY <4>1, <4>2
    <3>2. QED
      BY <3>1 DEF StepsTo
  <2>2. \A n \in 0 .. (N - 1), m \in Nat : step[<<n, m>>] = m * Byte + bytes[n + 1]
    OBVIOUS
  <2> HIDE DEF step, Horner, N
  <2>3. PICK v : IteratesTo(N, v, Nat, 0, step)
    BY <1>1, <2>1, FiniteRecursion
  <2>4. ASSUME NEW k \in 0 .. N, k # 0 PROVE v[k] = v[k - 1] * Byte + bytes[k]
    <3>1. k - 1 \in 0 .. (N - 1) /\ (k - 1) + 1 = k
      BY <1>1, <2>4
    <3>2. v[k - 1] \in Nat /\ v[k] = step[<<k - 1, v[k - 1]>>]
      BY <2>3, <3>1, <1>1 DEF IteratesTo
    <3>3. QED
      BY <2>2, <3>1, <3>2
  <2>5. v = [k \in 0 .. N |-> IF k = 0 THEN 0 ELSE v[k - 1] * Byte + bytes[k]]
    BY <2>3, <2>4 DEF IteratesTo
  <2>6. QED
    BY <2>5 DEF Horner
<1> DEFINE w == CHOOSE v : Horner(v)
<1>3. Horner(w)
  <2> HIDE DEF Horner
  <2> QED
    BY <1>2
<1>4. BigEndian(bytes) = w[N]
  BY DEF BigEndian
<1> HIDE DEF w, N
<1>5. w[0] = 0 /\ \A k \in 1 .. N : w[k] = w[k - 1] * Byte + bytes[k]
  BY <1>1, <1>3
<1>6. \A k \in Nat : k \in {n \in Nat : n \in 0 .. N => w[n] \in Nat}
  <2> DEFINE S == {n \in Nat : n \in 0 .. N => w[n] \in Nat}
  <2>1. 0 \in S
    BY <1>5
  <2>2. ASSUME NEW n \in Nat, n \in S PROVE n + 1 \in S
    <3>1. SUFFICES ASSUME n + 1 \in 0 .. N PROVE w[n + 1] \in Nat
      OBVIOUS
    <3>2. w[n] \in Nat /\ n + 1 \in 1 .. N /\ (n + 1) - 1 = n
      BY <1>1, <2>2, <3>1
    <3>3. w[n + 1] = w[n] * Byte + bytes[n + 1]
      BY <1>5, <3>2
    <3>4. QED
      BY <1>1, <3>2, <3>3, ByteFacts
  <2> HIDE DEF S
  <2>3. \A k \in Nat : k \in S
    BY <2>1, <2>2, NatSetInduction
  <2>4. QED
    BY <2>3 DEF S
<1>7. w \in [0 .. N -> Nat]
  <2>1. w = [k \in 0 .. N |-> IF k = 0 THEN 0 ELSE w[k - 1] * Byte + bytes[k]]
    BY <1>3
  <2>2. \A k \in 0 .. N : w[k] \in Nat
    BY <1>1, <1>6
  <2>3. QED
    BY <2>1, <2>2
<1>8. QED
  BY <1>4, <1>5, <1>7 DEF N

\* Its value is a number.
LEMMA BigEndianType ==
  ASSUME NEW bytes \in Seq(ByteValues)
  PROVE  BigEndian(bytes) \in Nat
BY BigEndianHorner

\* Two digits.
LEMMA BigEndianTwo ==
  ASSUME NEW high \in ByteValues, NEW low \in ByteValues
  PROVE  BigEndian(<<high, low>>) = high * Byte + low
<1> DEFINE bytes == <<high, low>>
<1>1. bytes \in Seq(ByteValues) /\ Len(bytes) = 2 /\ bytes[1] = high /\ bytes[2] = low
  OBVIOUS
<1> HIDE DEF bytes
<1>2. PICK v \in [0 .. 2 -> Nat] :
         /\ v[0] = 0 /\ \A k \in 1 .. 2 : v[k] = v[k - 1] * Byte + bytes[k]
         /\ BigEndian(bytes) = v[2]
  BY <1>1, BigEndianHorner
<1>3. 1 \in 1 .. 2 /\ 2 \in 1 .. 2 /\ 1 - 1 = 0 /\ 2 - 1 = 1
  OBVIOUS
<1>4. v[1] = 0 * Byte + high /\ v[2] = v[1] * Byte + low
  BY <1>1, <1>2, <1>3
<1>5. v[1] = high
  BY <1>4, ByteFacts
<1>6. QED
  BY <1>2, <1>4, <1>5 DEF bytes

\* Unmasking is its own inverse.
LEMMA UnmaskProperties ==
  ASSUME NEW bytes \in Seq(ByteValues), NEW mask \in Seq(ByteValues), Len(mask) \in {0, 4}
  PROVE  /\ Unmask(bytes, mask) \in Seq(ByteValues) /\ Len(Unmask(bytes, mask)) = Len(bytes)
         /\ Unmask(Unmask(bytes, mask), mask) = bytes
<1>1. CASE mask = <<>>
  BY <1>1 DEF Unmask
<1>2. CASE mask # <<>>
  <2>1. Len(mask) = 4 /\ Len(bytes) \in Nat
    BY <1>2
  <2> DEFINE M(k) == mask[((k - 1) % 4) + 1]
             once == [k \in 1 .. Len(bytes) |-> XorBytes(bytes[k], M(k))]
             twice == [k \in 1 .. Len(bytes) |-> XorBytes(once[k], M(k))]
  <2>2. ASSUME NEW k \in 1 .. Len(bytes)
        PROVE  bytes[k] \in ByteValues /\ M(k) \in ByteValues
    <3>1. ((k - 1) % 4) + 1 \in 1 .. 4
      BY <2>1
    <3>2. \A j \in 1 .. 4 : mask[j] \in ByteValues
      <4> HIDE DEF M
      <4>1. \A j \in 1 .. Len(mask) : mask[j] \in ByteValues
        OBVIOUS
      <4>2. QED
        BY <2>1, <4>1
    <3>3. bytes[k] \in ByteValues
      OBVIOUS
    <3>4. QED
      BY <3>1, <3>2, <3>3
  <2> HIDE DEF M
  <2>3. ASSUME NEW k \in 1 .. Len(bytes)
        PROVE  XorBytes(bytes[k], M(k)) \in ByteValues
               /\ XorBytes(XorBytes(bytes[k], M(k)), M(k)) = bytes[k]
    BY <2>2, FramesAssumption
  <2>4. once \in Seq(ByteValues) /\ Len(once) = Len(bytes) /\ DOMAIN once = 1 .. Len(bytes)
    <3>1. once \in [1 .. Len(bytes) -> ByteValues]
      BY <2>3
    <3> HIDE DEF once
    <3>2. QED
      BY <3>1, <2>1
  <2>5. twice = bytes
    <3>1. \A k \in 1 .. Len(bytes) : once[k] = XorBytes(bytes[k], M(k))
      OBVIOUS
    <3> HIDE DEF once
    <3>2. twice = [k \in 1 .. Len(bytes) |-> bytes[k]]
      BY <2>3, <3>1
    <3>3. bytes = [k \in 1 .. Len(bytes) |-> bytes[k]]
      OBVIOUS
    <3>4. QED
      BY <3>2, <3>3
  <2>6. Unmask(bytes, mask) = once
    BY <1>2 DEF Unmask, M
  <2>7. Unmask(once, mask) = twice
    <3> HIDE DEF once
    <3>1. QED
      BY <1>2, <2>4 DEF Unmask, M
  <2> HIDE DEF once, twice
  <2>8. QED
    BY <2>4, <2>5, <2>6, <2>7
<1>3. QED
  BY <1>1, <1>2

\* Two bits of a byte: whether it is Top or more, and the rest.
LEMMA SevenBits ==
  ASSUME NEW c \in 0 .. Code64
  PROVE  /\ c \in ByteValues /\ Top + c \in ByteValues
         /\ c % Top = c /\ (Top + c) % Top = c
         /\ ~ (c >= Top) /\ Top + c >= Top
<1>1. c \in Nat /\ c < Top /\ Top \in Nat /\ Top # 0
  BY ByteFacts
<1>2. c % Top = c
  BY <1>1
<1>3. (Top + c) % Top = c
  BY <1>1, <1>2
<1>4. QED
  BY <1>1, <1>2, <1>3, ByteFacts

\* The second byte tells the sizes of a length and of a mask, and a short length.
LEMMA SecondByteFacts ==
  ASSUME NEW f, IsFrame(f)
  PROVE  LET second == SecondByte(f)
         IN  /\ second \in ByteValues
             /\ LengthBytes(second) = Len(f.length) /\ MaskBytes(second) = Len(f.mask)
             /\ f.length = <<>> => second % Top = Len(f.payload)
<1> DEFINE c == IF f.length = <<>> THEN Len(f.payload)
                ELSE IF Len(f.length) = 2 THEN Code16 ELSE Code64
<1>1. /\ f.payload \in Seq(ByteValues) /\ f.mask \in Seq(ByteValues) /\ Len(f.mask) \in {0, 4}
      /\ f.length \in Seq(ByteValues)
      /\ IF Len(f.payload) < Code16 THEN f.length = <<>> ELSE Len(f.length) \in {2, 8}
  BY DEF IsFrame
<1>2. Len(f.payload) \in Nat /\ (f.length = <<>> <=> Len(f.length) = 0)
      /\ (f.mask = <<>> <=> Len(f.mask) = 0)
  BY <1>1
<1>3. Len(f.length) \in {0, 2, 8} /\ (Len(f.length) = 0 <=> Len(f.payload) < Code16)
  <2>1. CASE Len(f.payload) < Code16
    BY <1>1, <1>2, <2>1
  <2>2. CASE ~ (Len(f.payload) < Code16)
    <3>1. Len(f.length) \in {2, 8}
      BY <1>1, <2>2
    <3>2. Len(f.length) \in {0, 2, 8}
      BY <3>1
    <3>3. Len(f.length) # 0
      <4>1. \A n \in {2, 8} : n # 0
        OBVIOUS
      <4>2. QED
        BY <3>1, <4>1
    <3>4. QED
      BY <2>2, <3>2, <3>3
  <2>3. QED
    BY <2>1, <2>2
<1>4. /\ c \in 0 .. Code64
      /\ c = Code16 <=> Len(f.length) = 2
      /\ c = Code64 <=> Len(f.length) = 8
      /\ Len(f.length) = 0 => c = Len(f.payload)
  <2>1. CASE Len(f.length) = 0
    BY <1>2, <1>3, <2>1, ByteFacts
  <2>2. CASE Len(f.length) = 2
    BY <1>2, <1>3, <2>2, ByteFacts
  <2>3. CASE Len(f.length) = 8
    BY <1>2, <1>3, <2>3, ByteFacts
  <2>4. QED
    BY <1>3, <2>1, <2>2, <2>3
<1>5. SecondByte(f) = (IF f.mask = <<>> THEN 0 ELSE Top) + c
  BY DEF SecondByte
<1> HIDE DEF c
<1>6. c \in Nat
  BY <1>4, ByteFacts
<1>7. /\ SecondByte(f) \in ByteValues /\ SecondByte(f) % Top = c
      /\ SecondByte(f) >= Top <=> f.mask # <<>>
  <2>1. CASE f.mask = <<>>
    <3>1. SecondByte(f) = c
      BY <1>5, <1>6, <2>1
    <3>2. QED
      BY <1>4, <2>1, <3>1, SevenBits
  <2>2. CASE f.mask # <<>>
    <3>1. SecondByte(f) = Top + c
      BY <1>5, <2>2
    <3>2. QED
      BY <1>4, <2>2, <3>1, SevenBits
  <2>3. QED
    BY <2>1, <2>2
<1>8. LengthBytes(SecondByte(f)) = Len(f.length)
  <2>1. CASE Len(f.length) = 0
    BY <1>4, <1>7, <2>1 DEF LengthBytes
  <2>2. CASE Len(f.length) = 2
    BY <1>4, <1>7, <2>2 DEF LengthBytes
  <2>3. CASE Len(f.length) = 8
    BY <1>4, <1>7, <2>3, ByteFacts DEF LengthBytes
  <2>4. QED
    BY <1>3, <2>1, <2>2, <2>3
<1>9. MaskBytes(SecondByte(f)) = Len(f.mask)
  BY <1>1, <1>2, <1>7 DEF MaskBytes
<1>10. QED
  BY <1>2, <1>4, <1>7, <1>8, <1>9

\* Where the parts of a frame lie.
LEMMA BytesOfFrame ==
  ASSUME NEW f, IsFrame(f)
  PROVE  LET l == Len(f.length)
             m == Len(f.mask)
             p == Len(f.payload)
         IN  /\ l \in Nat /\ m \in Nat /\ p \in Nat
             /\ Bytes(f) \in Seq(ByteValues) /\ Len(Bytes(f)) = 2 + l + m + p
             /\ Bytes(f)[1] = f.first /\ Bytes(f)[2] = SecondByte(f)
             /\ \A k \in 1 .. l : Bytes(f)[2 + k] = f.length[k]
             /\ \A k \in 1 .. m : Bytes(f)[2 + l + k] = f.mask[k]
             /\ \A k \in 1 .. p : Bytes(f)[2 + l + m + k] = Unmask(f.payload, f.mask)[k]
<1> DEFINE two == <<f.first, SecondByte(f)>>
           l == Len(f.length)
           m == Len(f.mask)
           p == Len(f.payload)
           body == Unmask(f.payload, f.mask)
           a == two \o f.length
           b == a \o f.mask
<1>1. /\ f.payload \in Seq(ByteValues) /\ f.mask \in Seq(ByteValues) /\ m \in {0, 4}
      /\ f.length \in Seq(ByteValues) /\ f.first \in ByteValues
  BY DEF IsFrame
<1>2. l \in Nat /\ m \in Nat /\ p \in Nat
  BY <1>1
<1>3. two \in Seq(ByteValues) /\ Len(two) = 2 /\ two[1] = f.first /\ two[2] = SecondByte(f)
  BY <1>1, SecondByteFacts
<1>4. body \in Seq(ByteValues) /\ Len(body) = p
  BY <1>1, UnmaskProperties
<1> HIDE DEF two, body, l, m, p
<1>5. /\ a \in Seq(ByteValues) /\ Len(a) = Len(two) + Len(f.length)
      /\ \A k \in 1 .. Len(two) + Len(f.length) :
            a[k] = IF k <= Len(two) THEN two[k] ELSE f.length[k - Len(two)]
  <2>1. two \in Seq(ByteValues) /\ f.length \in Seq(ByteValues)
    BY <1>1, <1>3
  <2>2. QED
    BY <2>1, ConcatProperties
<1> HIDE DEF a
<1>6. /\ b \in Seq(ByteValues) /\ Len(b) = Len(a) + Len(f.mask)
      /\ \A k \in 1 .. Len(a) + Len(f.mask) :
            b[k] = IF k <= Len(a) THEN a[k] ELSE f.mask[k - Len(a)]
  <2>1. a \in Seq(ByteValues) /\ f.mask \in Seq(ByteValues)
    BY <1>1, <1>5
  <2>2. QED
    BY <2>1, ConcatProperties
<1> HIDE DEF b
<1>7. /\ b \o body \in Seq(ByteValues) /\ Len(b \o body) = Len(b) + Len(body)
      /\ \A k \in 1 .. Len(b) + Len(body) :
            (b \o body)[k] = IF k <= Len(b) THEN b[k] ELSE body[k - Len(b)]
  <2>1. b \in Seq(ByteValues) /\ body \in Seq(ByteValues)
    BY <1>4, <1>6
  <2>2. QED
    BY <2>1, ConcatProperties
<1>8. Bytes(f) = b \o body
  BY DEF Bytes, two, a, b, body
<1> DEFINE w == b \o body
<1> HIDE DEF w
<1>9. Len(a) = 2 + l /\ Len(b) = 2 + l + m /\ Len(w) = 2 + l + m + p /\ w \in Seq(ByteValues)
  BY <1>2, <1>3, <1>4, <1>5, <1>6, <1>7 DEF w, l, m, p
<1>10. \A k \in 1 .. (2 + l + m + p) : w[k] = IF k <= 2 + l + m THEN b[k] ELSE body[k - (2 + l + m)]
  BY <1>4, <1>7, <1>9 DEF w
<1>11. \A k \in 1 .. (2 + l + m) : b[k] = IF k <= 2 + l THEN a[k] ELSE f.mask[k - (2 + l)]
  BY <1>6, <1>9 DEF l, m
<1>12. \A k \in 1 .. (2 + l) : a[k] = IF k <= 2 THEN two[k] ELSE f.length[k - 2]
  BY <1>3, <1>5 DEF l
<1>13. w[1] = f.first /\ w[2] = SecondByte(f)
  BY <1>2, <1>3, <1>10, <1>11, <1>12
<1>14. ASSUME NEW k \in 1 .. l PROVE w[2 + k] = f.length[k]
  <2>1. 2 + k \in 1 .. (2 + l + m + p) /\ 2 + k \in 1 .. (2 + l + m) /\ 2 + k \in 1 .. (2 + l)
        /\ 2 + k <= 2 + l + m /\ 2 + k <= 2 + l /\ ~ (2 + k <= 2) /\ (2 + k) - 2 = k
    BY <1>2
  <2>2. QED
    BY <2>1, <1>10, <1>11, <1>12
<1>15. ASSUME NEW k \in 1 .. m PROVE w[2 + l + k] = f.mask[k]
  <2>1. 2 + l + k \in 1 .. (2 + l + m + p) /\ 2 + l + k \in 1 .. (2 + l + m)
        /\ 2 + l + k <= 2 + l + m /\ ~ (2 + l + k <= 2 + l) /\ (2 + l + k) - (2 + l) = k
    BY <1>2
  <2>2. QED
    BY <2>1, <1>10, <1>11
<1>16. ASSUME NEW k \in 1 .. p PROVE w[2 + l + m + k] = body[k]
  <2>1. 2 + l + m + k \in 1 .. (2 + l + m + p)
        /\ ~ (2 + l + m + k <= 2 + l + m) /\ (2 + l + m + k) - (2 + l + m) = k
    BY <1>2
  <2>2. QED
    BY <2>1, <1>10
<1>17. QED
  BY <1>2, <1>8, <1>9, <1>13, <1>14, <1>15, <1>16 DEF w, l, m, p, body

\* What the loop of decodeFrames is in the course of.
LoopState(buffer) == [index : 0 .. Len(buffer), payloads : Seq(Seq(ByteValues))]

\* Whatever the second byte is.
LEMMA HeaderSizes ==
  ASSUME NEW second
  PROVE  /\ LengthBytes(second) \in {0, 2, 8} /\ MaskBytes(second) \in {0, 4}
         /\ HeaderLen(second) = 2 + LengthBytes(second) + MaskBytes(second)
         /\ HeaderLen(second) \in Nat
BY DEF LengthBytes, MaskBytes, HeaderLen

\* A turn stays in the buffer.
LEMMA TurnType ==
  ASSUME NEW buffer \in Seq(ByteValues), NEW s \in LoopState(buffer)
  PROVE  Turn(buffer, s) \in LoopState(buffer)
<1> DEFINE index == s.index
           left == Len(buffer) - index
           second == buffer[index + 2]
           header == HeaderLen(second)
           length == PayloadLen(buffer, index)
<1>1. index \in 0 .. Len(buffer) /\ s.payloads \in Seq(Seq(ByteValues)) /\ Len(buffer) \in Nat
  BY DEF LoopState
<1> HIDE DEF index
<1>2. CASE left < 2 \/ left < header \/ left < header + length
  BY <1>2 DEF Turn, index
<1>3. CASE ~ (left < 2 \/ left < header \/ left < header + length)
  <2>1. index \in Nat /\ index + 2 \in 1 .. Len(buffer) /\ second \in ByteValues
    BY <1>1, <1>3, HeaderSizes
  <2>2. second \in Nat /\ second % Top \in Nat
    BY <2>1, ByteFacts
  <2> HIDE DEF second
  <2>3. header \in Nat /\ index + header <= Len(buffer)
    BY <1>1, <1>3, HeaderSizes
  <2>4. length \in Nat
    <3>1. CASE LengthBytes(second) = 0
      BY <2>2, <3>1 DEF PayloadLen, second
    <3>2. CASE LengthBytes(second) # 0
      <4> DEFINE last == index + 2 + LengthBytes(second)
      <4>1. index + 2 \in Nat /\ last \in Nat /\ last <= Len(buffer) /\ index + 2 <= last
        BY <2>1, <2>3, HeaderSizes
      <4>2. SubSeq(buffer, (index + 2) + 1, last) \in Seq(ByteValues)
        <5> HIDE DEF last
        <5>1. QED
          BY <4>1, SubSeqOfBytes
      <4>3. (index + 2) + 1 = index + 3
        BY <2>1
      <4>4. BigEndian(SubSeq(buffer, index + 3, last)) \in Nat
        BY <4>2, <4>3, BigEndianType
      <4>5. QED
        BY <3>2, <4>4 DEF PayloadLen, second
    <3>3. QED
      BY <3>1, <3>2
  <2> DEFINE last == index + (header + length)
  <2> HIDE DEF length
  <2>5. last \in Nat /\ last <= Len(buffer) /\ index + header <= last
    BY <1>1, <1>3, <2>1, <2>3, <2>4
  <2> HIDE DEF last
  <2>6. Unmasked(buffer, index, last) \in Seq(ByteValues)
    <3> DEFINE start == index + header
               mask == SubSeq(buffer, start - MaskBytes(second) + 1, start)
               bytes == SubSeq(buffer, start + 1, last)
    <3>1. start \in Nat /\ start - MaskBytes(second) \in Nat
      BY <2>1, HeaderSizes
    <3>2. /\ start <= Len(buffer) /\ start <= last /\ start - MaskBytes(second) <= start
          /\ start - (start - MaskBytes(second)) = MaskBytes(second)
      <4>1. start <= Len(buffer) /\ start <= last
        BY <2>3, <2>5
      <4>2. MaskBytes(second) \in {0, 4}
        BY HeaderSizes
      <4> HIDE DEF start
      <4>3. \A n \in {0, 4} : start - n <= start /\ start - (start - n) = n
        BY <3>1
      <4>4. QED
        BY <4>1, <4>2, <4>3
    <3>3. Unmasked(buffer, index, last) = Unmask(bytes, mask)
      BY DEF Unmasked, second
    <3> HIDE DEF start, header
    <3>4. mask \in Seq(ByteValues) /\ Len(mask) = MaskBytes(second)
      BY <3>1, <3>2, SubSeqOfBytes
    <3>5. bytes \in Seq(ByteValues)
      BY <2>5, <3>1, <3>2, SubSeqOfBytes
    <3> HIDE DEF mask, bytes
    <3>6. QED
      BY <3>3, <3>4, <3>5, HeaderSizes, UnmaskProperties
  <2>7. Turn(buffer, s) = [index |-> last,
            payloads |-> IF buffer[index + 1] % Opcodes \in {1, 2}
                         THEN Append(s.payloads, Unmasked(buffer, index, last)) ELSE s.payloads]
    BY <1>3 DEF Turn, index, last, length, second
  <2>8. last \in 0 .. Len(buffer)
    BY <1>1, <2>5
  <2>9. Append(s.payloads, Unmasked(buffer, index, last)) \in Seq(Seq(ByteValues))
    BY <1>1, <2>6, AppendProperties
  <2>10. QED
    BY <1>1, <2>7, <2>8, <2>9 DEF LoopState
<1>4. QED
  BY <1>2, <1>3

TurnsEnd(buffer, a) ==
  /\ a \in [0 .. Turns(buffer) -> LoopState(buffer)]
  /\ a[0] = [index |-> 0, payloads |-> <<>>]
  /\ \A n \in 0 .. (Turns(buffer) - 1) : a[n + 1] = Turn(buffer, a[n])
  /\ decodeFrames(buffer) = a[Turns(buffer)].payloads

\* The loop of decodeFrames, turn by turn.
LEMMA decodeLoop ==
  ASSUME NEW buffer \in Seq(ByteValues)
  PROVE  \E a : TurnsEnd(buffer, a)
<1> DEFINE N == Turns(buffer)
           start == [index |-> 0, payloads |-> <<>>]
           Loop(a) == a = [n \in 0 .. N |-> IF n = 0 THEN start ELSE Turn(buffer, a[n - 1])]
           V == LoopState(buffer)
<1>1. N \in Nat /\ start \in V
  <2>1. Len(buffer) \in Nat
    OBVIOUS
  <2>2. N \in Nat
    BY <2>1 DEF Turns
  <2>3. QED
    BY <2>1, <2>2 DEF LoopState
<1>2. \A s \in V : Turn(buffer, s) \in V
  BY TurnType
<1> HIDE DEF N, start, V
<1>3. \E a : Loop(a) /\ a \in [0 .. N -> V]
  <2> DEFINE step == [p \in (0 .. (N - 1)) \X V |-> Turn(buffer, p[2])]
  <2>1. step \in StepsTo(N, V)
    BY <1>2 DEF StepsTo
  <2>2. \A n \in 0 .. (N - 1), s \in V : step[<<n, s>>] = Turn(buffer, s)
    OBVIOUS
  <2> HIDE DEF step
  <2>3. PICK a : IteratesTo(N, a, V, start, step)
    BY <1>1, <2>1, FiniteRecursion
  <2>4. ASSUME NEW n \in 0 .. N, n # 0 PROVE a[n] = Turn(buffer, a[n - 1])
    <3>1. n - 1 \in 0 .. (N - 1) /\ n - 1 \in 0 .. N /\ (n - 1) + 1 = n
      BY <1>1, <2>4
    <3>2. a[n - 1] \in V /\ a[n] = step[<<n - 1, a[n - 1]>>]
      BY <2>3, <3>1 DEF IteratesTo
    <3>3. QED
      BY <2>2, <3>1, <3>2
  <2>5. a \in [0 .. N -> V] /\ a[0] = start
    BY <2>3 DEF IteratesTo
  <2>6. a = [n \in 0 .. N |-> IF n = 0 THEN start ELSE Turn(buffer, a[n - 1])]
    BY <2>4, <2>5
  <2>7. QED
    BY <2>5, <2>6
<1> DEFINE w == CHOOSE a : Loop(a)
<1>4. Loop(w)
  <2>1. \E a : Loop(a)
    BY <1>3
  <2> HIDE DEF Loop
  <2>2. QED
    BY <2>1
<1>5. decodeFrames(buffer) = w[N].payloads
  BY DEF decodeFrames, N, start
<1> HIDE DEF w
<1>6. /\ w[0] = start
      /\ \A n \in 0 .. (N - 1) : w[n + 1] = Turn(buffer, w[n])
  <2>1. w[0] = start
    BY <1>1, <1>4
  <2>2. ASSUME NEW n \in 0 .. (N - 1) PROVE w[n + 1] = Turn(buffer, w[n])
    <3>1. n + 1 \in 0 .. N /\ n + 1 # 0 /\ (n + 1) - 1 = n
      BY <1>1
    <3>2. QED
      BY <1>4, <3>1
  <2>3. QED
    BY <2>1, <2>2
<1>7. \A k \in Nat : k \in {n \in Nat : n <= N => w[n] \in V}
  <2> DEFINE S == {n \in Nat : n <= N => w[n] \in V}
  <2>1. 0 \in S
    BY <1>1, <1>6
  <2>2. ASSUME NEW n \in Nat, n \in S PROVE n + 1 \in S
    <3>1. SUFFICES ASSUME n + 1 <= N PROVE w[n + 1] \in V
      OBVIOUS
    <3>2. n \in 0 .. (N - 1) /\ w[n] \in V
      BY <1>1, <2>2, <3>1
    <3>3. QED
      BY <1>2, <1>6, <3>2
  <2> HIDE DEF S
  <2>3. \A k \in Nat : k \in S
    BY <2>1, <2>2, NatSetInduction
  <2>4. QED
    BY <2>3 DEF S
<1>8. w \in [0 .. N -> V]
  <2>1. w = [n \in 0 .. N |-> IF n = 0 THEN start ELSE Turn(buffer, w[n - 1])]
    BY <1>4
  <2>2. \A n \in 0 .. N : w[n] \in V
    BY <1>1, <1>7
  <2>3. QED
    BY <2>1, <2>2
<1>9. QED
  BY <1>5, <1>6, <1>8 DEF TurnsEnd, N, V, start

\* The buffer agrees with a frame in the j bytes after the first index.
Agrees(buffer, index, f, j) ==
  \A k \in 1 .. j : buffer[index + k] = Bytes(f)[k]

\* What the decoder makes of a frame's header.
LEMMA HeaderRead ==
  ASSUME NEW buffer \in Seq(ByteValues), NEW index \in Nat, NEW f, IsFrame(f),
         NEW j \in Nat, j >= 2, index + j <= Len(buffer), j <= Len(Bytes(f)),
         Agrees(buffer, index, f, j)
  PROVE  /\ buffer[index + 1] = f.first /\ buffer[index + 2] = SecondByte(f)
         /\ HeaderLen(SecondByte(f)) = 2 + Len(f.length) + Len(f.mask)
         /\ MaskBytes(SecondByte(f)) = Len(f.mask)
         /\ HeaderLen(SecondByte(f)) <= j => PayloadLen(buffer, index) = Len(f.payload)
<1> DEFINE l == Len(f.length)
           m == Len(f.mask)
           p == Len(f.payload)
<1>1. /\ f.payload \in Seq(ByteValues) /\ f.mask \in Seq(ByteValues) /\ m \in {0, 4}
      /\ f.length \in Seq(ByteValues)
      /\ IF p < Code16 THEN f.length = <<>> ELSE l \in {2, 8} /\ BigEndian(f.length) = p
  BY DEF IsFrame
<1>2. /\ l \in Nat /\ m \in Nat /\ p \in Nat
      /\ Bytes(f) \in Seq(ByteValues) /\ Len(Bytes(f)) = 2 + l + m + p
      /\ Bytes(f)[1] = f.first /\ Bytes(f)[2] = SecondByte(f)
      /\ \A k \in 1 .. l : Bytes(f)[2 + k] = f.length[k]
  BY BytesOfFrame
<1>3. /\ LengthBytes(SecondByte(f)) = l /\ MaskBytes(SecondByte(f)) = m
      /\ f.length = <<>> => SecondByte(f) % Top = p
  BY SecondByteFacts
<1>4. buffer[index + 1] = f.first /\ buffer[index + 2] = SecondByte(f)
  <2>1. 1 \in 1 .. j /\ 2 \in 1 .. j
    OBVIOUS
  <2>2. QED
    BY <1>2, <2>1 DEF Agrees
<1>5. HeaderLen(SecondByte(f)) = 2 + l + m
  BY <1>3 DEF HeaderLen
<1>6. ASSUME 2 + l + m <= j PROVE PayloadLen(buffer, index) = p
  <2>1. CASE f.length = <<>>
    <3>1. l = 0
      BY <2>1
    <3>2. QED
      BY <1>3, <1>4, <2>1, <3>1 DEF PayloadLen
  <2>2. CASE f.length # <<>>
    <3>1. l # 0 /\ BigEndian(f.length) = p
      BY <1>1, <2>2
    <3> HIDE DEF l, m, p
    <3> DEFINE last == index + 2 + l
    <3>2. index + 2 \in Nat /\ last \in Nat /\ last = (index + 2) + l /\ last <= Len(buffer)
      <4>1. l \in Nat /\ m \in Nat /\ Len(buffer) \in Nat
        BY <1>2
      <4>2. QED
        BY <4>1, <1>6
    <3>3. ASSUME NEW k \in 1 .. l PROVE buffer[(index + 2) + k] = f.length[k]
      <4>1. 2 + k \in 1 .. j /\ (index + 2) + k = index + (2 + k)
        BY <1>2, <1>6
      <4>2. buffer[index + (2 + k)] = Bytes(f)[2 + k]
        BY <4>1 DEF Agrees
      <4>3. QED
        BY <1>2, <4>1, <4>2
    <3> HIDE DEF last
    <3>4. SubSeq(buffer, (index + 2) + 1, last) = f.length
      <4>1. /\ last = (index + 2) + Len(f.length)
            /\ \A k \in 1 .. Len(f.length) : buffer[(index + 2) + k] = f.length[k]
        BY <3>2, <3>3 DEF l
      <4>2. QED
        BY <1>1, <3>2, <4>1, SubSeqIs
    <3>5. (index + 2) + 1 = index + 3
      OBVIOUS
    <3>6. PayloadLen(buffer, index) = BigEndian(SubSeq(buffer, index + 3, last))
      BY <1>3, <1>4, <3>1 DEF PayloadLen, last
    <3>7. QED
      BY <3>1, <3>4, <3>5, <3>6
  <2>3. QED
    BY <2>1, <2>2
<1>7. QED
  BY <1>3, <1>4, <1>5, <1>6

\* A frame that is in the buffer whole is decoded.
LEMMA WholeRead ==
  ASSUME NEW buffer \in Seq(ByteValues), NEW index \in Nat, NEW f, IsFrame(f),
         index + Len(Bytes(f)) <= Len(buffer), Agrees(buffer, index, f, Len(Bytes(f)))
  PROVE  Unmasked(buffer, index, index + Len(Bytes(f))) = f.payload
<1> DEFINE l == Len(f.length)
           m == Len(f.mask)
           p == Len(f.payload)
           body == Unmask(f.payload, f.mask)
<1>1. f.payload \in Seq(ByteValues) /\ f.mask \in Seq(ByteValues) /\ m \in {0, 4}
  BY DEF IsFrame
<1>2. /\ l \in Nat /\ m \in Nat /\ p \in Nat /\ Len(Bytes(f)) = 2 + l + m + p
      /\ \A k \in 1 .. m : Bytes(f)[2 + l + k] = f.mask[k]
      /\ \A k \in 1 .. p : Bytes(f)[2 + l + m + k] = body[k]
  BY BytesOfFrame
<1>3. body \in Seq(ByteValues) /\ Len(body) = p /\ Unmask(body, f.mask) = f.payload
  BY <1>1, UnmaskProperties
<1> HIDE DEF l, m, p, body
<1>4. /\ buffer[index + 2] = SecondByte(f) /\ HeaderLen(SecondByte(f)) = 2 + l + m
      /\ MaskBytes(SecondByte(f)) = m
  <2>1. Len(Bytes(f)) \in Nat /\ Len(Bytes(f)) >= 2
    BY <1>2
  <2> DEFINE j == Len(Bytes(f))
  <2>2. /\ j \in Nat /\ j >= 2 /\ index + j <= Len(buffer) /\ j <= Len(Bytes(f))
        /\ Agrees(buffer, index, f, j)
    BY <2>1
  <2> HIDE DEF j
  <2>3. QED
    BY <2>2, HeaderRead DEF l, m
<1> DEFINE header == index + (2 + l + m)
           last == index + Len(Bytes(f))
<1>5. Unmasked(buffer, index, last)
        = Unmask(SubSeq(buffer, header + 1, last), SubSeq(buffer, header - m + 1, header))
  BY <1>4 DEF Unmasked
<1>6. /\ header \in Nat /\ last \in Nat /\ last = header + p /\ last <= Len(buffer)
      /\ header - m = index + 2 + l /\ index + 2 + l \in Nat /\ header = (index + 2 + l) + m
      /\ header <= Len(buffer)
  <2>1. Len(buffer) \in Nat
    OBVIOUS
  <2>2. QED
    BY <1>2, <2>1
<1>7. ASSUME NEW k \in 1 .. m PROVE buffer[(index + 2 + l) + k] = f.mask[k]
  <2>1. 2 + l + k \in 1 .. Len(Bytes(f)) /\ (index + 2 + l) + k = index + (2 + l + k)
    BY <1>2
  <2>2. QED
    BY <1>2, <2>1 DEF Agrees
<1>8. ASSUME NEW k \in 1 .. p PROVE buffer[header + k] = body[k]
  <2>1. 2 + l + m + k \in 1 .. Len(Bytes(f)) /\ header + k = index + (2 + l + m + k)
    BY <1>2
  <2>2. QED
    BY <1>2, <2>1 DEF Agrees
<1> HIDE DEF header, last
<1>9. SubSeq(buffer, (index + 2 + l) + 1, header) = f.mask
  BY <1>1, <1>6, <1>7, SubSeqIs DEF m
<1>10. SubSeq(buffer, header + 1, last) = body
  BY <1>3, <1>6, <1>8, SubSeqIs
<1>11. QED
  BY <1>3, <1>5, <1>6, <1>9, <1>10 DEF last

\* The sizes of a frame's parts, as numbers.
LEMMA FrameSize ==
  ASSUME NEW f, IsFrame(f)
  PROVE  \E l \in Nat, m \in Nat, p \in Nat, j \in Nat :
            /\ l = Len(f.length) /\ m = Len(f.mask) /\ p = Len(f.payload) /\ j = Len(Bytes(f))
            /\ j = 2 + l + m + p /\ HeaderLen(SecondByte(f)) = 2 + l + m
<1> DEFINE l == Len(f.length)
           m == Len(f.mask)
           p == Len(f.payload)
           j == Len(Bytes(f))
<1>1. l \in Nat /\ m \in Nat /\ p \in Nat /\ j = 2 + l + m + p
  BY BytesOfFrame
<1>2. HeaderLen(SecondByte(f)) = 2 + l + m
  BY SecondByteFacts DEF HeaderLen
<1>3. l = Len(f.length) /\ m = Len(f.mask) /\ p = Len(f.payload) /\ j = Len(Bytes(f))
  OBVIOUS
<1> HIDE DEF l, m, p, j
<1>4. j \in Nat
  BY <1>1
<1>5. QED
  BY <1>1, <1>2, <1>3, <1>4

\* One turn of the loop at a frame that is in the buffer whole.
LEMMA TurnReads ==
  ASSUME NEW buffer \in Seq(ByteValues), NEW s \in LoopState(buffer), NEW f, IsFrame(f),
         s.index + Len(Bytes(f)) <= Len(buffer), Agrees(buffer, s.index, f, Len(Bytes(f)))
  PROVE  Turn(buffer, s) =
           [index |-> s.index + Len(Bytes(f)),
            payloads |-> IF f.first % Opcodes \in {1, 2} THEN Append(s.payloads, f.payload)
                         ELSE s.payloads]
<1>1. PICK index \in Nat, all \in Nat : index = s.index /\ all = Len(buffer)
  <2>1. s.index \in 0 .. Len(buffer) /\ Len(buffer) \in Nat
    BY DEF LoopState
  <2>2. s.index \in Nat
    BY <2>1
  <2>3. QED
    BY <2>1, <2>2
<1>2. PICK l \in Nat, m \in Nat, p \in Nat, j \in Nat :
            /\ l = Len(f.length) /\ m = Len(f.mask) /\ p = Len(f.payload) /\ j = Len(Bytes(f))
            /\ j = 2 + l + m + p /\ HeaderLen(SecondByte(f)) = 2 + l + m
  BY FrameSize
<1>s. j = 2 + l + m + p
  BY <1>2
<1>3. index + j <= all /\ Agrees(buffer, index, f, j)
  BY <1>1, <1>2
<1>4. Unmasked(buffer, index, index + j) = f.payload
  <2>1. index + Len(Bytes(f)) <= Len(buffer) /\ Agrees(buffer, index, f, Len(Bytes(f)))
    BY <1>1
  <2>2. Unmasked(buffer, index, index + Len(Bytes(f))) = f.payload
    BY <2>1, WholeRead
  <2>3. QED
    BY <2>2, <1>2
<1>5. /\ buffer[index + 1] = f.first /\ buffer[index + 2] = SecondByte(f)
      /\ HeaderLen(SecondByte(f)) <= j => PayloadLen(buffer, index) = p
  <2>1. j >= 2 /\ index + j <= Len(buffer) /\ j <= Len(Bytes(f))
    <3>1. j >= 2 /\ j <= j
      BY <1>s
    <3>2. QED
      BY <3>1, <1>1, <1>2, <1>3
  <2>2. /\ buffer[index + 1] = f.first /\ buffer[index + 2] = SecondByte(f)
        /\ HeaderLen(SecondByte(f)) <= j => PayloadLen(buffer, index) = Len(f.payload)
    BY <2>1, <1>3, HeaderRead
  <2>3. QED
    BY <2>2, <1>2
<1>6. HeaderLen(buffer[index + 2]) = 2 + l + m /\ PayloadLen(buffer, index) = p
  <2>1. 2 + l + m <= j
    BY <1>s
  <2>2. QED
    BY <2>1, <1>2, <1>5
<1>7. /\ ~ (all - index < 2 \/ all - index < 2 + l + m \/ all - index < (2 + l + m) + p)
      /\ (2 + l + m) + p = j
  BY <1>s, <1>3
<1>8. QED
  BY <1>1, <1>2, <1>4, <1>5, <1>6, <1>7 DEF Turn

\* One turn at a frame that is cut off by the end of the buffer.
LEMMA TurnEnds ==
  ASSUME NEW buffer \in Seq(ByteValues), NEW s \in LoopState(buffer), NEW f, IsFrame(f),
         Len(buffer) < s.index + Len(Bytes(f)), Agrees(buffer, s.index, f, Len(buffer) - s.index)
  PROVE  Turn(buffer, s) = s
<1>1. PICK index \in Nat, all \in Nat : index = s.index /\ all = Len(buffer) /\ index <= all
  <2>1. s.index \in 0 .. Len(buffer) /\ Len(buffer) \in Nat
    BY DEF LoopState
  <2>2. s.index \in Nat
    BY <2>1
  <2>3. QED
    BY <2>1, <2>2
<1>2. PICK l \in Nat, m \in Nat, p \in Nat, j \in Nat :
            /\ l = Len(f.length) /\ m = Len(f.mask) /\ p = Len(f.payload) /\ j = Len(Bytes(f))
            /\ j = 2 + l + m + p /\ HeaderLen(SecondByte(f)) = 2 + l + m
  BY FrameSize
<1>s. j = 2 + l + m + p
  BY <1>2
<1>3. PICK left \in Nat : left = all - index /\ index + left = all
  BY <1>1
<1>4. all < index + j /\ Agrees(buffer, index, f, left)
  BY <1>1, <1>2, <1>3
<1>5. CASE left < 2
  BY <1>1, <1>3, <1>5 DEF Turn
<1>6. CASE ~ (left < 2)
  <2>1. left >= 2 /\ index + left <= all /\ left <= j /\ left < j
    BY <1>3, <1>4, <1>6
  <2>2. index + left <= Len(buffer) /\ left <= Len(Bytes(f))
    BY <1>1, <1>2, <2>1
  <2>3. /\ buffer[index + 2] = SecondByte(f)
        /\ HeaderLen(SecondByte(f)) <= left => PayloadLen(buffer, index) = p
    <3>1. /\ buffer[index + 2] = SecondByte(f)
          /\ HeaderLen(SecondByte(f)) <= left => PayloadLen(buffer, index) = Len(f.payload)
      BY <1>4, <2>1, <2>2, HeaderRead
    <3>2. QED
      BY <3>1, <1>2
  <2>4. CASE left < 2 + l + m
    BY <1>1, <1>2, <1>3, <2>3, <2>4 DEF Turn
  <2>5. CASE ~ (left < 2 + l + m)
    <3>1. 2 + l + m <= left /\ left < (2 + l + m) + p
      BY <1>s, <2>1, <2>5
    <3>2. HeaderLen(buffer[index + 2]) = 2 + l + m /\ PayloadLen(buffer, index) = p
      BY <1>2, <2>3, <3>1
    <3>3. QED
      BY <1>1, <1>3, <3>1, <3>2 DEF Turn
  <2>6. QED
    BY <2>4, <2>5
<1>7. QED
  BY <1>5, <1>6

\* The loop leaves everything alone once a turn has.
LEMMA LoopStops ==
  ASSUME NEW buffer \in Seq(ByteValues), NEW a, TurnsEnd(buffer, a),
         NEW k \in 0 .. Turns(buffer), Turn(buffer, a[k]) = a[k]
  PROVE  decodeFrames(buffer) = a[k].payloads
<1> DEFINE N == Turns(buffer)
           S == {n \in Nat : k + n <= N => a[k + n] = a[k]}
<1>1. N \in Nat
  <2>1. Len(buffer) \in Nat
    OBVIOUS
  <2>2. QED
    BY <2>1 DEF Turns
<1>2. \A n \in 0 .. (N - 1) : a[n + 1] = Turn(buffer, a[n])
  BY DEF TurnsEnd
<1> HIDE DEF N
<1>3. k \in 0 .. N
  BY DEF N
<1>4. 0 \in S
  BY <1>3
<1>5. ASSUME NEW n \in Nat, n \in S PROVE n + 1 \in S
  <2>1. SUFFICES ASSUME k + (n + 1) <= N PROVE a[k + (n + 1)] = a[k]
    OBVIOUS
  <2>2. k + n \in 0 .. (N - 1) /\ (k + n) + 1 = k + (n + 1) /\ k + n <= N
    BY <1>1, <1>3, <2>1
  <2>3. a[k + n] = a[k]
    BY <1>5, <2>2
  <2>4. QED
    BY <1>2, <2>2, <2>3
<1> HIDE DEF S
<1>6. \A n \in Nat : n \in S
  BY <1>4, <1>5, NatSetInduction
<1>7. N - k \in Nat /\ k + (N - k) = N /\ N <= N
  BY <1>1, <1>3
<1>8. N - k \in S
  BY <1>6, <1>7
<1>9. a[N] = a[k]
  BY <1>7, <1>8 DEF S
<1>10. QED
  BY <1>9 DEF TurnsEnd, N

\* The frame that encodeFrame makes.
Encoded(message) ==
  [first |-> Top + 1, mask |-> <<>>, payload |-> message,
   length |-> IF Len(message) < Code16 THEN <<>>
              ELSE <<(Len(message) \div Byte) % Byte, Len(message) % Byte>>]

\* Lengths below 65536: what encodeFrame makes is such a frame.
LEMMA EncodedIsFrame ==
  ASSUME NEW message \in Seq(ByteValues), Len(message) < Byte * Byte
  PROVE  IsFrame(Encoded(message)) /\ Bytes(Encoded(message)) = encodeFrame(message)
<1> DEFINE f == Encoded(message)
           n == Len(message)
           hi == (n \div Byte) % Byte
           lo == n % Byte
<1>1. n \in Nat /\ n < Byte * Byte
  OBVIOUS
<1>2. hi \in ByteValues /\ lo \in ByteValues /\ hi * Byte + lo = n
  <2> HIDE DEF n
  <2>1. Byte \in Nat \ {0}
    BY ByteFacts
  <2>2. QED
    BY <1>1, <2>1, Digits, ByteFacts
<1>3. Top + 1 \in ByteValues /\ Code16 \in ByteValues /\ Top + 1 \in Nat
  BY ByteFacts
<1>4. /\ f.first = Top + 1 /\ f.mask = <<>> /\ f.payload = message
      /\ f.length = IF n < Code16 THEN <<>> ELSE <<hi, lo>>
  BY DEF Encoded
<1> HIDE DEF f, n, hi, lo
<1>5. BigEndian(<<hi, lo>>) = n
  BY <1>2, BigEndianTwo
<1>6. n = Len(message)
  BY DEF n
<1>7. <<>> \in Seq(ByteValues) /\ Len(<<>>) = 0
      /\ <<hi, lo>> \in Seq(ByteValues) /\ Len(<<hi, lo>>) = 2
  BY <1>2
<1>8. IsFrame(f)
  <2>1. CASE n < Code16
    BY <1>3, <1>4, <1>6, <1>7, <2>1 DEF IsFrame
  <2>2. CASE ~ (n < Code16)
    <3>1. f.length = <<hi, lo>>
      BY <1>4, <2>2
    <3>2. Len(f.length) \in {2, 8} /\ BigEndian(f.length) = Len(f.payload)
          /\ f.length \in Seq(ByteValues)
      BY <1>4, <1>5, <1>6, <1>7, <3>1
    <3>3. f.mask \in Seq(ByteValues) /\ Len(f.mask) \in {0, 4} /\ f.first \in ByteValues
      BY <1>3, <1>4, <1>7
    <3>4. f.payload \in Seq(ByteValues) /\ ~ (Len(f.payload) < Code16)
      BY <1>4, <1>6, <2>2
    <3>5. QED
      BY <3>2, <3>3, <3>4 DEF IsFrame
  <2>3. QED
    BY <2>1, <2>2
<1>9. Bytes(f) = (<<Top + 1, SecondByte(f)>> \o f.length) \o <<>> \o message
  BY <1>4 DEF Bytes, Unmask
<1>10. CASE n < Code16
  <2>1. f.length = <<>> /\ SecondByte(f) = n
    BY <1>1, <1>4, <1>6, <1>10 DEF SecondByte
  <2> DEFINE two == <<Top + 1, n>>
  <2>2. two \in Seq(Nat)
    BY <1>1, <1>3
  <2>3. encodeFrame(message) = two \o message
    BY <1>6, <1>10 DEF encodeFrame
  <2> HIDE DEF two
  <2>4. two \o <<>> = two
    BY <2>2, ConcatEmptySeq
  <2>5. Bytes(f) = (two \o <<>>) \o <<>> \o message
    BY <1>9, <2>1 DEF two
  <2>6. QED
    BY <1>8, <2>3, <2>4, <2>5 DEF f
<1>11. CASE ~ (n < Code16)
  <2>1. f.length = <<hi, lo>> /\ f.length # <<>> /\ Len(f.length) = 2
    BY <1>4, <1>7, <1>11
  <2>2. SecondByte(f) = Code16
    BY <1>4, <2>1, ByteFacts DEF SecondByte
  <2> DEFINE four == <<Top + 1, Code16, hi, lo>>
  <2>4. four \in Seq(ByteValues)
    BY <1>2, <1>3
  <2>3. <<Top + 1, Code16>> \o <<hi, lo>> = four
    <3> DEFINE x == <<Top + 1, Code16>>
               y == <<hi, lo>>
    <3>1. /\ x \in Seq(ByteValues) /\ Len(x) = 2 /\ x[1] = Top + 1 /\ x[2] = Code16
          /\ y \in Seq(ByteValues) /\ Len(y) = 2 /\ y[1] = hi /\ y[2] = lo
      BY <1>2, <1>3
    <3>2. Len(four) = 4 /\ four[1] = Top + 1 /\ four[2] = Code16 /\ four[3] = hi /\ four[4] = lo
      OBVIOUS
    <3> DEFINE z == x \o y
    <3> HIDE DEF x, y, four
    <3>3. /\ z \in Seq(ByteValues) /\ Len(z) = Len(x) + Len(y)
          /\ \A i \in 1 .. Len(x) + Len(y) : z[i] = IF i <= Len(x) THEN x[i] ELSE y[i - Len(x)]
      <4>1. x \in Seq(ByteValues) /\ y \in Seq(ByteValues)
        BY <3>1
      <4>2. QED
        BY <4>1, ConcatProperties
    <3> HIDE DEF z
    <3>4. Len(z) = 4 /\ \A i \in 1 .. 4 : z[i] = IF i <= 2 THEN x[i] ELSE y[i - 2]
      BY <3>1, <3>3
    <3>5. z[1] = x[1] /\ z[2] = x[2] /\ z[3] = y[1] /\ z[4] = y[2]
      BY <3>4
    <3>6. ASSUME NEW i \in 1 .. Len(z) PROVE z[i] = four[i]
      <4>1. i \in {1, 2, 3, 4}
        BY <3>4
      <4>2. QED
        BY <3>1, <3>2, <3>5, <4>1
    <3>7. z = four
      <4>1. Len(z) = Len(four)
        BY <3>2, <3>4
      <4>2. QED
        BY <2>4, <3>3, <3>6, <4>1, SeqEqual
    <3>8. QED
      BY <3>7 DEF x, y, z
  <2>5. encodeFrame(message) = four \o message
    BY <1>6, <1>11 DEF encodeFrame, hi, lo
  <2> HIDE DEF four
  <2>6. four \o <<>> = four
    BY <2>4, ConcatEmptySeq
  <2>7. Bytes(f) = four \o <<>> \o message
    BY <1>9, <2>1, <2>2, <2>3
  <2>8. QED
    BY <1>8, <2>5, <2>6, <2>7 DEF f
<1>12. QED
  BY <1>10, <1>11

\* Both decoders give back what encodeFrame was given.
LEMMA RoundTrip ==
  ASSUME NEW message \in Seq(ByteValues), Len(message) < Byte * Byte
  PROVE  /\ decodeFrames(encodeFrame(message)) = <<message>>
         /\ decodeFrame(encodeFrame(message)) = message
<1> DEFINE f == Encoded(message)
           buffer == Bytes(f)
<1>1. IsFrame(f) /\ buffer = encodeFrame(message)
  BY EncodedIsFrame
<1>2. f.first = Top + 1 /\ f.payload = message
  BY DEF Encoded
<1> HIDE DEF f
<1>3. PICK l \in Nat, m \in Nat, p \in Nat, j \in Nat :
            /\ l = Len(f.length) /\ m = Len(f.mask) /\ p = Len(f.payload) /\ j = Len(Bytes(f))
            /\ j = 2 + l + m + p /\ HeaderLen(SecondByte(f)) = 2 + l + m
  BY <1>1, FrameSize
<1>4. buffer \in Seq(ByteValues) /\ Len(buffer) = j
  BY <1>1, <1>3, BytesOfFrame
<1>5. j = 2 + l + m + p
  BY <1>3
<1>6. j >= 2 /\ j <= j /\ 0 + j = j
  BY <1>5
<1>7. \A k \in 1 .. Len(Bytes(f)) : 0 + k = k
  BY <1>3, <1>6
<1>8. Agrees(buffer, 0, f, Len(Bytes(f)))
  BY <1>7 DEF Agrees
<1>9. 0 + Len(Bytes(f)) <= Len(buffer) /\ 0 + Len(Bytes(f)) = j
  BY <1>3, <1>4, <1>6
<1> HIDE DEF buffer
<1>10. decodeFrame(buffer) = message
  <2>1. Unmasked(buffer, 0, 0 + Len(Bytes(f))) = f.payload
    BY <1>1, <1>4, <1>8, <1>9, WholeRead
  <2>2. 0 + Len(Bytes(f)) = Len(buffer) /\ ~ (Len(buffer) < 2)
    BY <1>4, <1>6, <1>9
  <2>3. QED
    BY <1>2, <2>1, <2>2 DEF decodeFrame
<1>11. decodeFrames(buffer) = <<message>>
  <2>1. PICK a : TurnsEnd(buffer, a)
    BY <1>4, decodeLoop
  <2>2. Turns(buffer) \in Nat /\ Turns(buffer) >= 1
    BY <1>4, <1>6 DEF Turns
  <2>3. 0 \in 0 .. (Turns(buffer) - 1) /\ 0 \in 0 .. Turns(buffer) /\ 1 \in 0 .. Turns(buffer)
        /\ 0 + 1 = 1
    BY <2>2
  <2>4. a[0] \in LoopState(buffer) /\ a[0] = [index |-> 0, payloads |-> <<>>]
        /\ a[1] = Turn(buffer, a[0])
    BY <2>1, <2>3 DEF TurnsEnd
  <2>5. a[0].index = 0 /\ a[0].payloads = <<>>
    BY <2>4
  <2>6. Turn(buffer, a[0]) = [index |-> 0 + Len(Bytes(f)),
            payloads |-> IF f.first % Opcodes \in {1, 2} THEN Append(<<>>, f.payload) ELSE <<>>]
    <3>1. a[0].index + Len(Bytes(f)) <= Len(buffer) /\ Agrees(buffer, a[0].index, f, Len(Bytes(f)))
      BY <1>8, <1>9, <2>5
    <3>2. Turn(buffer, a[0]) = [index |-> a[0].index + Len(Bytes(f)),
            payloads |-> IF f.first % Opcodes \in {1, 2} THEN Append(a[0].payloads, f.payload)
                         ELSE a[0].payloads]
      BY <1>1, <1>4, <2>4, <3>1, TurnReads
    <3>3. QED
      BY <2>5, <3>2
  <2>7. f.first % Opcodes \in {1, 2}
    BY <1>2, FramesAssumption
  <2>8. a[1] = [index |-> j, payloads |-> <<message>>]
    BY <1>2, <1>9, <2>4, <2>6, <2>7
  <2>9. Turn(buffer, a[1]) = a[1]
    <3>1. a[1].index = j /\ j - j < 2
      BY <2>8
    <3>2. Len(buffer) - a[1].index < 2
      BY <1>4, <3>1
    <3>3. QED
      BY <3>2 DEF Turn
  <2>10. decodeFrames(buffer) = a[1].payloads
    BY <1>4, <2>1, <2>3, <2>9, LoopStops
  <2>11. QED
    BY <2>8, <2>10
<1>12. QED
  BY <1>1, <1>10, <1>11 DEF buffer

\* The bytes of each frame, and what each of them adds to decodeFrames' result.
BytesOf(frames) == [k \in DOMAIN frames |-> Bytes(frames[k])]
Added(f) == IF f.first % Opcodes \in {1, 2} THEN <<f.payload>> ELSE <<>>
AddedBy(frames) == [k \in DOMAIN frames |-> Added(frames[k])]

\* The stream and its payloads after each frame.
Laid(frames, e, q) ==
  /\ PutTogether(BytesOf(frames), ByteValues, e)
  /\ PutTogether(AddedBy(frames), Seq(ByteValues), q)
  /\ \A k \in 0 .. Len(frames) :
        Stream(SubSeq(frames, 1, k)) = e[k] /\ Payloads(SubSeq(frames, 1, k)) = q[k]

\* The frames of a stream.
LEMMA FramesTypes ==
  ASSUME NEW frames \in Seq(Inputs)
  PROVE  /\ BytesOf(frames) \in Seq(Seq(ByteValues)) /\ Len(BytesOf(frames)) = Len(frames)
         /\ AddedBy(frames) \in Seq(Seq(Seq(ByteValues))) /\ Len(AddedBy(frames)) = Len(frames)
         /\ \A k \in 1 .. Len(frames) :
               /\ IsFrame(frames[k])
               /\ BytesOf(frames)[k] = Bytes(frames[k]) /\ AddedBy(frames)[k] = Added(frames[k])
<1> DEFINE N == Len(frames)
<1>1. N \in Nat /\ DOMAIN frames = 1 .. N /\ \A k \in 1 .. N : frames[k] \in Inputs
  OBVIOUS
<1>2. ASSUME NEW k \in 1 .. N
      PROVE  IsFrame(frames[k]) /\ Bytes(frames[k]) \in Seq(ByteValues)
             /\ Added(frames[k]) \in Seq(Seq(ByteValues))
  <2>1. IsFrame(frames[k])
    BY <1>1, FramesAssumption
  <2>2. Bytes(frames[k]) \in Seq(ByteValues)
    BY <2>1, BytesOfFrame
  <2>3. frames[k].payload \in Seq(ByteValues)
    BY <2>1 DEF IsFrame
  <2>4. Added(frames[k]) \in Seq(Seq(ByteValues))
    BY <2>3 DEF Added
  <2>5. QED
    BY <2>1, <2>2, <2>4
<1> DEFINE b == BytesOf(frames)
           g == AddedBy(frames)
<1> HIDE DEF N
<1>3. b \in [1 .. N -> Seq(ByteValues)] /\ \A k \in 1 .. N : b[k] = Bytes(frames[k])
  BY <1>1, <1>2 DEF BytesOf
<1>4. g \in [1 .. N -> Seq(Seq(ByteValues))] /\ \A k \in 1 .. N : g[k] = Added(frames[k])
  BY <1>1, <1>2 DEF AddedBy
<1> HIDE DEF b, g
<1>5. b \in Seq(Seq(ByteValues)) /\ Len(b) = N
  BY <1>1, <1>3
<1>6. g \in Seq(Seq(Seq(ByteValues))) /\ Len(g) = N
  BY <1>1, <1>4
<1>7. QED
  BY <1>2, <1>3, <1>4, <1>5, <1>6 DEF b, g, N

\* The first k of them.
LEMMA SubSeqFrames ==
  ASSUME NEW frames \in Seq(Inputs), NEW k \in 0 .. Len(frames)
  PROVE  /\ SubSeq(frames, 1, k) \in Seq(Inputs) /\ Len(SubSeq(frames, 1, k)) = k
         /\ \A i \in 1 .. k : SubSeq(frames, 1, k)[i] = frames[i]
<1>1. \A i \in 1 .. k : frames[i] \in Inputs
  OBVIOUS
<1>2. k \in Nat /\ 1 \in Int /\ k \in Int
  OBVIOUS
<1>3. /\ SubSeq(frames, 1, k) \in Seq(Inputs)
      /\ Len(SubSeq(frames, 1, k)) = IF 1 <= k THEN k - 1 + 1 ELSE 0
      /\ \A i \in 1 .. (k - 1 + 1) : SubSeq(frames, 1, k)[i] = frames[1 + i - 1]
  BY <1>1, <1>2, SubSeqProperties
<1>4. Len(SubSeq(frames, 1, k)) = k
  BY <1>2, <1>3
<1>5. ASSUME NEW i \in 1 .. k PROVE SubSeq(frames, 1, k)[i] = frames[i]
  <2>1. i \in 1 .. (k - 1 + 1) /\ 1 + i - 1 = i
    BY <1>2
  <2>2. QED
    BY <1>3, <2>1
<1>6. QED
  BY <1>3, <1>4, <1>5

\* Every stream is laid out so.
LEMMA StreamLaid ==
  ASSUME NEW frames \in Seq(Inputs)
  PROVE  \E e, q : Laid(frames, e, q)
<1> DEFINE b == BytesOf(frames)
           g == AddedBy(frames)
<1>1. /\ b \in Seq(Seq(ByteValues)) /\ Len(b) = Len(frames)
      /\ g \in Seq(Seq(Seq(ByteValues))) /\ Len(g) = Len(frames)
      /\ \A k \in 1 .. Len(frames) : b[k] = Bytes(frames[k]) /\ g[k] = Added(frames[k])
  BY FramesTypes
<1> HIDE DEF b, g
<1>2. PICK e : PutTogether(b, ByteValues, e)
  BY <1>1, FlattenSteps
<1>3. PICK q : PutTogether(g, Seq(ByteValues), q)
  BY <1>1, FlattenSteps
<1>4. ASSUME NEW k \in 0 .. Len(frames)
      PROVE  Stream(SubSeq(frames, 1, k)) = e[k] /\ Payloads(SubSeq(frames, 1, k)) = q[k]
  <2> DEFINE part == SubSeq(frames, 1, k)
             bp == BytesOf(part)
             gp == AddedBy(part)
  <2>1. part \in Seq(Inputs) /\ Len(part) = k /\ \A i \in 1 .. k : part[i] = frames[i]
    BY SubSeqFrames
  <2>2. Stream(part) = FlattenSeq(bp) /\ Payloads(part) = FlattenSeq(gp)
    BY DEF Stream, Payloads, BytesOf, AddedBy, Added
  <2> HIDE DEF part
  <2>3. /\ bp \in Seq(Seq(ByteValues)) /\ Len(bp) = k
        /\ gp \in Seq(Seq(Seq(ByteValues))) /\ Len(gp) = k
        /\ \A i \in 1 .. k : bp[i] = Bytes(part[i]) /\ gp[i] = Added(part[i])
    BY <2>1, FramesTypes
  <2> HIDE DEF bp, gp
  <2>4. \A i \in 1 .. k : i \in 1 .. Len(frames)
    OBVIOUS
  <2>5. \A i \in 1 .. k : bp[i] = b[i] /\ gp[i] = g[i]
    BY <1>1, <2>1, <2>3, <2>4
  <2>6. k \in 0 .. Len(b) /\ k \in 0 .. Len(g)
    BY <1>1
  <2>7. FlattenSeq(bp) = e[k]
    <3>1. b \in Seq(Seq(ByteValues)) /\ bp \in Seq(Seq(ByteValues))
      BY <1>1, <2>3
    <3>2. Begins(bp, b, k)
      BY <2>3, <2>5, <2>6 DEF Begins
    <3>3. QED
      BY <1>2, <3>1, <3>2, FlattenAgrees
  <2>8. FlattenSeq(gp) = q[k]
    <3> DEFINE V == Seq(ByteValues)
    <3>1. g \in Seq(Seq(V)) /\ gp \in Seq(Seq(V))
      BY <1>1, <2>3
    <3>2. Begins(gp, g, k)
      BY <2>3, <2>5, <2>6 DEF Begins
    <3>3. PutTogether(g, V, q)
      BY <1>3
    <3> HIDE DEF V
    <3>4. QED
      BY <3>1, <3>2, <3>3, FlattenAgrees
  <2>9. QED
    BY <2>2, <2>7, <2>8 DEF part
<1>5. QED
  BY <1>2, <1>3, <1>4 DEF Laid, b, g

\* A stream consists of bytes.
LEMMA StreamType ==
  ASSUME NEW frames \in Seq(Inputs)
  PROVE  Stream(frames) \in Seq(ByteValues)
<1> DEFINE b == BytesOf(frames)
<1>1. b \in Seq(Seq(ByteValues))
  BY FramesTypes
<1>2. Stream(frames) = FlattenSeq(b)
  BY DEF Stream, BytesOf
<1> HIDE DEF b
<1>3. PICK e : PutTogether(b, ByteValues, e)
  BY <1>1, FlattenSteps
<1>4. Len(b) \in 0 .. Len(b)
  <2>1. Len(b) \in Nat
    BY <1>1
  <2>2. QED
    BY <2>1
<1>5. QED
  BY <1>2, <1>3, <1>4 DEF PutTogether

\* decodeFrames gives payloads.
LEMMA decodeType ==
  ASSUME NEW buffer \in Seq(ByteValues)
  PROVE  decodeFrames(buffer) \in Seq(Seq(ByteValues))
<1>1. PICK a : TurnsEnd(buffer, a)
  BY decodeLoop
<1>2. Turns(buffer) \in 0 .. Turns(buffer)
  <2>1. Len(buffer) \in Nat
    OBVIOUS
  <2>2. QED
    BY <2>1 DEF Turns
<1>3. a[Turns(buffer)] \in LoopState(buffer) /\ decodeFrames(buffer) = a[Turns(buffer)].payloads
  BY <1>1, <1>2 DEF TurnsEnd
<1>4. QED
  BY <1>3 DEF LoopState

\* A chunk of the stream, from its start.
LEMMA ChunkType ==
  ASSUME NEW frames \in Seq(Inputs), NEW n \in Nat, n <= Len(Stream(frames))
  PROVE  LET buffer == SubSeq(Stream(frames), 1, n)
         IN  /\ buffer \in Seq(ByteValues) /\ Len(buffer) = n
             /\ \A i \in 1 .. n : buffer[i] = Stream(frames)[i]
<1> DEFINE s == Stream(frames)
<1>1. s \in Seq(ByteValues) /\ n <= Len(s)
  BY StreamType
<1> HIDE DEF s
<1>2. \A i \in 1 .. n : s[i] \in ByteValues
  BY <1>1
<1>3. 1 \in Int /\ n \in Int
  OBVIOUS
<1>4. /\ SubSeq(s, 1, n) \in Seq(ByteValues)
      /\ Len(SubSeq(s, 1, n)) = IF 1 <= n THEN n - 1 + 1 ELSE 0
      /\ \A i \in 1 .. (n - 1 + 1) : SubSeq(s, 1, n)[i] = s[1 + i - 1]
  BY <1>2, <1>3, SubSeqProperties
<1>5. Len(SubSeq(s, 1, n)) = n
  BY <1>4
<1>6. ASSUME NEW i \in 1 .. n PROVE SubSeq(s, 1, n)[i] = s[i]
  <2>1. i \in 1 .. (n - 1 + 1) /\ 1 + i - 1 = i
    OBVIOUS
  <2>2. QED
    BY <1>4, <2>1
<1>7. QED
  BY <1>4, <1>5, <1>6 DEF s

\* Where the next frame lies, and what it adds to the result.
NextFrame(frames, e, q, k) ==
  LET f == frames[k + 1]
  IN  /\ IsFrame(f) /\ Len(e[k]) \in Nat /\ Len(Bytes(f)) \in Nat /\ Len(Bytes(f)) >= 2
      /\ Len(e[k + 1]) = Len(e[k]) + Len(Bytes(f)) /\ Len(e[k + 1]) <= Len(Stream(frames))
      /\ \A j \in 1 .. Len(Bytes(f)) : Stream(frames)[Len(e[k]) + j] = Bytes(f)[j]
      /\ q[k + 1] = IF f.first % Opcodes \in {1, 2} THEN Append(q[k], f.payload) ELSE q[k]

\* Every frame of the stream is such a next frame.
LEMMA NextFrameLies ==
  ASSUME NEW frames \in Seq(Inputs), NEW e, NEW q, Laid(frames, e, q),
         NEW k \in Nat, k < Len(frames)
  PROVE  NextFrame(frames, e, q, k)
<1> DEFINE b == BytesOf(frames)
           g == AddedBy(frames)
           f == frames[k + 1]
<1>1. /\ b \in Seq(Seq(ByteValues)) /\ Len(b) = Len(frames)
      /\ g \in Seq(Seq(Seq(ByteValues))) /\ Len(g) = Len(frames)
      /\ \A i \in 1 .. Len(frames) :
            IsFrame(frames[i]) /\ b[i] = Bytes(frames[i]) /\ g[i] = Added(frames[i])
  BY FramesTypes
<1>2. PutTogether(b, ByteValues, e) /\ PutTogether(g, Seq(ByteValues), q)
  BY DEF Laid
<1>3. Stream(frames) = FlattenSeq(b)
  BY DEF Stream, BytesOf
<1> HIDE DEF b, g
<1>4. k + 1 \in 1 .. Len(frames) /\ k \in 0 .. (Len(frames) - 1) /\ k \in 0 .. Len(frames)
  <2>1. Len(frames) \in Nat
    OBVIOUS
  <2>2. QED
    BY <2>1
<1>5. IsFrame(f) /\ b[k + 1] = Bytes(f) /\ g[k + 1] = Added(f)
  BY <1>1, <1>4
<1> HIDE DEF f
<1>6. LiesAfter(b, e, k)
  <2>1. k < Len(b)
    BY <1>1
  <2>2. QED
    BY <1>1, <1>2, <2>1, FlattenLies
<1>7. /\ Len(e[k]) \in Nat /\ Len(Bytes(f)) \in Nat
      /\ Len(e[k + 1]) = Len(e[k]) + Len(Bytes(f)) /\ Len(e[k + 1]) <= Len(Stream(frames))
      /\ \A j \in 1 .. Len(Bytes(f)) : Stream(frames)[Len(e[k]) + j] = Bytes(f)[j]
  BY <1>3, <1>5, <1>6 DEF LiesAfter
<1>8. Len(Bytes(f)) >= 2
  <2>1. PICK l \in Nat, m \in Nat, p \in Nat, j \in Nat :
            /\ l = Len(f.length) /\ m = Len(f.mask) /\ p = Len(f.payload) /\ j = Len(Bytes(f))
            /\ j = 2 + l + m + p /\ HeaderLen(SecondByte(f)) = 2 + l + m
    BY <1>5, FrameSize
  <2>2. j = 2 + l + m + p
    BY <2>1
  <2>3. j >= 2
    BY <2>2
  <2>4. QED
    BY <2>1, <2>3
<1>9. q[k] \in Seq(Seq(ByteValues)) /\ q[k + 1] = q[k] \o Added(f)
  <2>1. /\ q \in [0 .. Len(frames) -> Seq(Seq(ByteValues))]
        /\ \A i \in 0 .. (Len(frames) - 1) : q[i + 1] = q[i] \o g[i + 1]
    BY <1>1, <1>2 DEF PutTogether
  <2>2. QED
    BY <1>4, <1>5, <2>1
<1>10. q[k + 1] = IF f.first % Opcodes \in {1, 2} THEN Append(q[k], f.payload) ELSE q[k]
  <2>1. f.payload \in Seq(ByteValues)
    BY <1>5 DEF IsFrame
  <2>2. Append(q[k], f.payload) = q[k] \o <<f.payload>>
    BY <1>9, <2>1, AppendIsConcat
  <2>3. q[k] \o <<>> = q[k]
    BY <1>9, ConcatEmptySeq
  <2>4. QED
    BY <1>9, <2>2, <2>3 DEF Added
<1>11. QED
  BY <1>5, <1>7, <1>8, <1>10 DEF NextFrame, f

\* decodeFrames, for a chunk that holds the first w frames whole and not one more.
LEMMA ChunkDecoded ==
  ASSUME NEW frames \in Seq(Inputs), NEW e, NEW q, Laid(frames, e, q),
         NEW n \in Nat, n <= Len(Stream(frames)),
         NEW w \in Nat, w <= Len(frames), Len(e[w]) <= n, w < Len(frames) => n < Len(e[w + 1])
  PROVE  decodeFrames(SubSeq(Stream(frames), 1, n)) = q[w]
<1> DEFINE N == Len(frames)
           buffer == SubSeq(Stream(frames), 1, n)
<1>1. /\ buffer \in Seq(ByteValues) /\ Len(buffer) = n
      /\ \A i \in 1 .. n : buffer[i] = Stream(frames)[i]
  BY ChunkType
<1>2. N \in Nat /\ w <= N
  OBVIOUS
<1> HIDE DEF buffer
<1>3. \A k \in Nat : k < N => NextFrame(frames, e, q, k)
  BY NextFrameLies
<1>4. /\ e[0] = <<>> /\ q[0] = <<>> /\ Len(<<>>) = 0
      /\ Stream(frames) = e[N]
  <2>1. Len(BytesOf(frames)) = N
    BY FramesTypes
  <2>2. Stream(frames) = FlattenSeq(BytesOf(frames))
    BY DEF Stream, BytesOf
  <2>3. QED
    BY <2>1, <2>2 DEF Laid, PutTogether
<1> HIDE DEF N
<1>5. \A k \in Nat : k <= w => Len(e[k]) \in Nat /\ 2 * k <= Len(e[k])
  <2> DEFINE S == {k \in Nat : k <= w => Len(e[k]) \in Nat /\ 2 * k <= Len(e[k])}
  <2>1. 0 \in S
    BY <1>4
  <2>2. ASSUME NEW k \in Nat, k \in S PROVE k + 1 \in S
    <3>1. SUFFICES ASSUME k + 1 <= w PROVE Len(e[k + 1]) \in Nat /\ 2 * (k + 1) <= Len(e[k + 1])
      OBVIOUS
    <3>2. k < N /\ k <= w
      BY <1>2, <3>1
    <3>3. PICK x \in Nat : x = Len(e[k]) /\ 2 * k <= x
      BY <2>2, <3>2
    <3>4. PICK y \in Nat : y = Len(Bytes(frames[k + 1])) /\ y >= 2 /\ Len(e[k + 1]) = x + y
      BY <1>3, <3>2, <3>3 DEF NextFrame
    <3>5. x + y \in Nat /\ 2 * (k + 1) <= x + y
      <4>1. 2 * k <= x /\ y >= 2
        BY <3>3, <3>4
      <4>2. QED
        BY <4>1
    <3>6. QED
      BY <3>4, <3>5
  <2> HIDE DEF S
  <2>3. \A k \in Nat : k \in S
    BY <2>1, <2>2, NatSetInduction
  <2>4. QED
    BY <2>3 DEF S
<1>6. \A k \in Nat : k <= w => Len(e[k]) <= n
  <2> DEFINE S == {d \in Nat : d <= w => Len(e[w - d]) <= n}
  <2>1. 0 \in S
    <3>1. w - 0 = w
      OBVIOUS
    <3>2. QED
      BY <3>1
  <2>2. ASSUME NEW d \in Nat, d \in S PROVE d + 1 \in S
    <3>1. SUFFICES ASSUME d + 1 <= w PROVE Len(e[w - (d + 1)]) <= n
      OBVIOUS
    <3> DEFINE k == w - (d + 1)
    <3>2. k \in Nat /\ k + 1 = w - d /\ k < N /\ d <= w
      BY <1>2, <3>1
    <3>3. Len(e[w - d]) <= n
      BY <2>2, <3>2
    <3> HIDE DEF k
    <3>4. PICK x \in Nat, y \in Nat : x = Len(e[k]) /\ Len(e[k + 1]) = x + y
      <4> DEFINE f == frames[k + 1]
      <4>1. /\ Len(e[k]) \in Nat /\ Len(Bytes(f)) \in Nat
            /\ Len(e[k + 1]) = Len(e[k]) + Len(Bytes(f))
        BY <1>3, <3>2 DEF NextFrame
      <4> HIDE DEF f
      <4>2. QED
        BY <4>1
    <3>5. x + y <= n
      BY <3>2, <3>3, <3>4
    <3>6. x <= n
      BY <3>5
    <3>7. QED
      BY <3>4, <3>6 DEF k
  <2> HIDE DEF S
  <2>3. \A d \in Nat : d \in S
    BY <2>1, <2>2, NatSetInduction
  <2>4. ASSUME NEW k \in Nat, k <= w PROVE Len(e[k]) <= n
    <3>1. w - k \in Nat /\ w - k <= w /\ w - (w - k) = k
      BY <2>4
    <3>2. w - k \in S
      BY <2>3, <3>1
    <3>3. QED
      BY <3>1, <3>2 DEF S
  <2>5. QED
    BY <2>4
<1>7. PICK a : TurnsEnd(buffer, a)
  BY <1>1, decodeLoop
<1> DEFINE T == Turns(buffer)
           Reached(k) == [index |-> Len(e[k]), payloads |-> q[k]]
<1>8. T \in Nat /\ \A k \in Nat : 2 * k <= n => k <= T
  BY <1>1 DEF Turns
<1>9. \A k \in Nat : k <= w => k <= T
  <2>1. ASSUME NEW k \in Nat, k <= w PROVE k <= T
    <3>1. PICK x \in Nat : x = Len(e[k]) /\ 2 * k <= x /\ x <= n
      BY <1>5, <1>6, <2>1
    <3>2. 2 * k <= n
      BY <3>1
    <3>3. QED
      BY <1>8, <3>2
  <2>2. QED
    BY <2>1
<1> HIDE DEF T
<1>10. /\ a \in [0 .. T -> LoopState(buffer)] /\ a[0] = [index |-> 0, payloads |-> <<>>]
       /\ \A k \in 0 .. (T - 1) : a[k + 1] = Turn(buffer, a[k])
  BY <1>7 DEF TurnsEnd, T
<1>11. \A k \in Nat : k <= w => a[k] = Reached(k)
  <2> DEFINE S == {k \in Nat : k <= w => a[k] = Reached(k)}
  <2>1. 0 \in S
    BY <1>4, <1>10
  <2>2. ASSUME NEW k \in Nat, k \in S PROVE k + 1 \in S
    <3>1. SUFFICES ASSUME k + 1 <= w PROVE a[k + 1] = Reached(k + 1)
      OBVIOUS
    <3>2. k < N /\ k <= w /\ k \in 0 .. T /\ k \in 0 .. (T - 1)
      <4>1. k + 1 <= T /\ k <= w
        BY <1>9, <3>1
      <4>2. QED
        BY <1>2, <1>8, <3>1, <4>1
    <3>3. a[k] = Reached(k) /\ a[k] \in LoopState(buffer)
      BY <1>10, <2>2, <3>2
    <3>4. a[k].index = Len(e[k]) /\ a[k].payloads = q[k]
      BY <3>3
    <3> DEFINE f == frames[k + 1]
    <3>5. /\ IsFrame(f) /\ Len(e[k]) \in Nat /\ Len(Bytes(f)) \in Nat
          /\ Len(e[k + 1]) = Len(e[k]) + Len(Bytes(f))
          /\ \A j \in 1 .. Len(Bytes(f)) : Stream(frames)[Len(e[k]) + j] = Bytes(f)[j]
          /\ q[k + 1] = IF f.first % Opcodes \in {1, 2} THEN Append(q[k], f.payload) ELSE q[k]
      BY <1>3, <3>2 DEF NextFrame
    <3> HIDE DEF f
    <3>6. Len(e[k + 1]) <= n
      BY <1>6, <3>1
    <3>7. PICK x \in Nat, y \in Nat : x = Len(e[k]) /\ y = Len(Bytes(f))
      BY <3>5
    <3>8. x + y <= n /\ Len(e[k + 1]) = x + y
      BY <3>5, <3>6, <3>7
    <3>9. Agrees(buffer, a[k].index, f, Len(Bytes(f)))
      <4>1. ASSUME NEW j \in 1 .. y PROVE buffer[x + j] = Bytes(f)[j]
        <5>1. x + j \in 1 .. n
          BY <3>8
        <5>2. QED
          BY <1>1, <3>5, <3>7, <5>1
      <4>2. QED
        BY <3>4, <3>7, <4>1 DEF Agrees
    <3>10. a[k].index + Len(Bytes(f)) <= Len(buffer) /\ a[k].index + Len(Bytes(f)) = Len(e[k + 1])
      BY <1>1, <3>4, <3>7, <3>8
    <3>11. Turn(buffer, a[k]) =
             [index |-> a[k].index + Len(Bytes(f)),
              payloads |-> IF f.first % Opcodes \in {1, 2} THEN Append(a[k].payloads, f.payload)
                           ELSE a[k].payloads]
      BY <1>1, <3>3, <3>5, <3>9, <3>10, TurnReads
    <3>12. a[k + 1] = Turn(buffer, a[k])
      BY <1>10, <3>2
    <3>13. QED
      BY <3>4, <3>5, <3>10, <3>11, <3>12
  <2> HIDE DEF S
  <2>3. \A k \in Nat : k \in S
    BY <2>1, <2>2, NatSetInduction
  <2>4. QED
    BY <2>3 DEF S
<1>12. w <= T /\ w \in 0 .. T /\ a[w] \in LoopState(buffer)
       /\ a[w].index = Len(e[w]) /\ a[w].payloads = q[w]
  <2>1. w <= w
    OBVIOUS
  <2>2. w <= T
    BY <1>9, <2>1
  <2>3. w \in 0 .. T
    BY <1>8, <2>2
  <2>4. a[w] = Reached(w)
    BY <1>11, <2>1
  <2>5. a[w].index = Len(e[w]) /\ a[w].payloads = q[w]
    BY <2>4
  <2>6. a[w] \in LoopState(buffer)
    BY <1>10, <2>3
  <2>7. QED
    BY <2>2, <2>3, <2>5, <2>6
<1>13. PICK x \in Nat : x = Len(e[w]) /\ x <= n
  <2>1. w <= w
    OBVIOUS
  <2>2. QED
    BY <1>5, <1>6, <2>1
<1>14. Turn(buffer, a[w]) = a[w]
  <2>1. CASE w = N
    <3>1. n <= x
      BY <1>4, <1>13, <2>1
    <3>2. n - x < 2
      BY <1>13, <3>1
    <3>3. Len(buffer) - a[w].index < 2
      BY <1>1, <1>12, <1>13, <3>2
    <3>4. QED
      BY <3>3 DEF Turn
  <2>2. CASE w < N
    <3> DEFINE f == frames[w + 1]
    <3>1. /\ IsFrame(f) /\ Len(Bytes(f)) \in Nat
          /\ Len(e[w + 1]) = Len(e[w]) + Len(Bytes(f))
          /\ \A j \in 1 .. Len(Bytes(f)) : Stream(frames)[Len(e[w]) + j] = Bytes(f)[j]
      BY <1>3, <2>2 DEF NextFrame
    <3>2. n < Len(e[w + 1])
      BY <2>2 DEF N
    <3> HIDE DEF f
    <3>3. PICK y \in Nat : y = Len(Bytes(f)) /\ n < x + y
      BY <1>13, <3>1, <3>2
    <3>4. Len(buffer) < a[w].index + Len(Bytes(f))
      BY <1>1, <1>12, <1>13, <3>3
    <3>5. Agrees(buffer, a[w].index, f, Len(buffer) - a[w].index)
      <4>1. ASSUME NEW j \in 1 .. (n - x) PROVE buffer[x + j] = Bytes(f)[j]
        <5>1. x + j \in 1 .. n /\ j \in 1 .. y
          BY <1>13, <3>3
        <5>2. QED
          BY <1>1, <1>13, <3>1, <3>3, <5>1
      <4>2. QED
        BY <1>1, <1>12, <1>13, <4>1 DEF Agrees
    <3>6. QED
      BY <1>1, <1>12, <3>1, <3>4, <3>5, TurnEnds
  <2>3. QED
    BY <1>2, <2>1, <2>2
<1>15. decodeFrames(buffer) = a[w].payloads
  BY <1>1, <1>7, <1>12, <1>14, LoopStops DEF T
<1>16. QED
  BY <1>12, <1>15 DEF buffer

FramesTypeOK ==
  unread \in Seq(Inputs) /\ skip \in Nat /\ payloads \in Seq(Seq(ByteValues))

\* What recv returns.
LEMMA SubSeqOfStream ==
  ASSUME NEW s \in Seq(ByteValues), NEW from \in Nat, NEW n \in Nat, from + n <= Len(s)
  PROVE  SubSeq(s, from + 1, from + n) \in Seq(ByteValues)
<1>1. from + n \in Nat /\ from <= from + n
  OBVIOUS
<1>2. QED
  BY <1>1, SubSeqOfBytes

\* Every step keeps the types.
LEMMA FramesTypeStep ==
  ASSUME FramesTypeOK, [FramesNext]_framesVars
  PROVE  FramesTypeOK'
<1> USE DEF FramesTypeOK
<1>1. ASSUME NEW f \in Inputs, SendFrame(f) PROVE FramesTypeOK'
  <2>1. Append(unread, f) \in Seq(Inputs)
    BY AppendProperties
  <2>2. <<>> \in Seq(Seq(ByteValues))
    OBVIOUS
  <2>3. QED
    BY <1>1, <2>1, <2>2 DEF SendFrame
<1>2. ASSUME NEW n \in Arrivals, Receive(n) PROVE FramesTypeOK'
  <2> DEFINE stream == Stream(unread)
             End(k) == Len(Stream(SubSeq(unread, 1, k)))
  <2>1. n \in Nat /\ Len(unread) \in Nat
    BY FramesAssumption
  <2>2. /\ skip + n <= Len(stream)
        /\ payloads' = decodeFrames(SubSeq(stream, skip + 1, skip + n))
    BY <1>2 DEF Receive
  <2>3. PICK whole \in 0 .. Len(unread) :
          /\ End(whole) <= skip + n
          /\ unread' = SubSeq(unread, whole + 1, Len(unread))
          /\ skip' = skip + n - End(whole)
    BY <1>2 DEF Receive
  <2>4. End(whole) \in Nat
    <3>1. SubSeq(unread, 1, whole) \in Seq(Inputs)
      BY SubSeqFrames
    <3>2. Stream(SubSeq(unread, 1, whole)) \in Seq(ByteValues)
      BY <3>1, StreamType
    <3>3. QED
      BY <3>2
  <2>5. stream \in Seq(ByteValues)
    BY StreamType
  <2> HIDE DEF stream, End
  <2>6. payloads' \in Seq(Seq(ByteValues))
    BY <2>1, <2>2, <2>5, SubSeqOfStream, decodeType
  <2>7. skip' \in Nat
    BY <2>1, <2>3, <2>4
  <2>8. unread' \in Seq(Inputs)
    <3>1. whole \in Nat /\ whole <= Len(unread) /\ Len(unread) <= Len(unread)
      BY <2>1
    <3>2. SubSeq(unread, whole + 1, Len(unread)) \in Seq(Inputs)
      BY <2>1, <3>1, SubSeqOfBytes
    <3>3. QED
      BY <2>3, <3>2
  <2>9. QED
    BY <2>6, <2>7, <2>8
<1>3. CASE UNCHANGED framesVars
  BY <1>3 DEF framesVars
<1>4. QED
  BY <1>1, <1>2, <1>3 DEF FramesNext

\* The types hold at first.
LEMMA FramesTypeInit == FramesInit => FramesTypeOK
BY DEF FramesInit, FramesTypeOK

\* The types of the stream's state.
THEOREM FramesTypeCorrect == FramesInit /\ [][FramesNext]_framesVars => []FramesTypeOK
<1>1. QED
  BY FramesTypeInit, FramesTypeStep, PTL

\* The round trip, for the payloads there are.
LEMMA DecodedIfTyped == FramesTypeOK => EncodedIsDecoded
<1>1. SUFFICES ASSUME FramesTypeOK, NEW k \in DOMAIN payloads, Len(payloads[k]) < Byte * Byte
               PROVE  /\ decodeFrames(encodeFrame(payloads[k])) = <<payloads[k]>>
                      /\ decodeFrame(encodeFrame(payloads[k])) = payloads[k]
  BY DEF EncodedIsDecoded
<1>2. payloads[k] \in Seq(ByteValues)
  BY <1>1 DEF FramesTypeOK
<1>3. QED
  BY <1>1, <1>2, RoundTrip

\* What encodeFrame makes of a payload below 65536 bytes is decoded as that payload
\* by decodeFrames and by decodeFrame, for every width of a byte.
THEOREM EncodedIsDecodedAlways ==
  FramesInit /\ [][FramesNext]_framesVars => []EncodedIsDecoded
<1>1. QED
  BY FramesTypeCorrect, DecodedIfTyped, PTL

\* A chunk that starts where a frame starts.
LEMMA WholeFramesStep ==
  ASSUME FramesTypeOK, [FramesNext]_framesVars
  PROVE  [skip = 0 /\ Len(unread') <= Len(unread) =>
            payloads' = Payloads(SubSeq(unread, 1, Len(unread) - Len(unread')))]_framesVars
<1> USE DEF FramesTypeOK
<1>0. Len(unread) \in Nat
  OBVIOUS
<1>1. ASSUME NEW f \in Inputs, SendFrame(f), Len(unread') <= Len(unread) PROVE FALSE
  <2>1. unread' = Append(unread, f)
    BY <1>1 DEF SendFrame
  <2>2. Len(unread') = Len(unread) + 1
    BY <2>1, AppendProperties
  <2>3. QED
    BY <1>0, <1>1, <2>2
<1>2. ASSUME NEW n \in Arrivals, Receive(n), skip = 0
      PROVE  payloads' = Payloads(SubSeq(unread, 1, Len(unread) - Len(unread')))
  <2> DEFINE stream == Stream(unread)
             End(k) == Len(Stream(SubSeq(unread, 1, k)))
  <2>1. n \in Nat /\ skip + n = n /\ skip + 1 = 1
    BY <1>2, FramesAssumption
  <2>2. n <= Len(stream) /\ payloads' = decodeFrames(SubSeq(stream, 1, n))
    BY <1>2, <2>1 DEF Receive
  <2>3. PICK whole \in 0 .. Len(unread) :
          /\ End(whole) <= n
          /\ whole < Len(unread) => n < End(whole + 1)
          /\ unread' = SubSeq(unread, whole + 1, Len(unread))
    BY <1>2, <2>1 DEF Receive
  <2>4. PICK e, q : Laid(unread, e, q)
    BY StreamLaid
  <2>5. \A k \in 0 .. Len(unread) : End(k) = Len(e[k]) /\ Payloads(SubSeq(unread, 1, k)) = q[k]
    BY <2>4 DEF Laid
  <2>6. whole \in Nat /\ whole <= Len(unread)
    BY <1>0
  <2>7. Len(e[whole]) <= n /\ (whole < Len(unread) => n < Len(e[whole + 1]))
    <3>1. whole < Len(unread) => whole + 1 \in 0 .. Len(unread)
      BY <1>0, <2>6
    <3> HIDE DEF End
    <3>2. QED
      BY <2>3, <2>5, <3>1
  <2>8. decodeFrames(SubSeq(stream, 1, n)) = q[whole]
    BY <2>1, <2>2, <2>4, <2>6, <2>7, ChunkDecoded
  <2>9. Len(unread) - Len(unread') = whole
    <3>1. whole \in Nat /\ whole <= Len(unread) /\ Len(unread) <= Len(unread)
      BY <1>0, <2>6
    <3>2. Len(SubSeq(unread, whole + 1, Len(unread))) = Len(unread) - whole
      BY <1>0, <3>1, SubSeqOfBytes
    <3>3. QED
      BY <1>0, <2>3, <3>1, <3>2
  <2>10. QED
    BY <2>2, <2>5, <2>8, <2>9
<1>3. QED
  BY <1>1, <1>2 DEF FramesNext

\* A chunk that starts where a frame starts gives decodeFrames exactly the payloads
\* of the text and binary frames it holds whole, in their order: frames of every
\* length, in every number, masked or not, cut off anywhere.
THEOREM WholeFramesAlways == FramesInit /\ [][FramesNext]_framesVars => WholeFrames
<1>1. QED
  BY FramesTypeCorrect, WholeFramesStep, PTL DEF WholeFrames
=============================================================================
