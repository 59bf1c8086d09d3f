----------------------------- MODULE RpcParserProofs ----------------------------
(***************************************************************************)
(* Proofs about RpcParser.  MemInv accounts for the heap and gives         *)
(* ReleasesAll; TextOK keeps the text of the tree next to the text that    *)
(* was read and gives ParsesExactly; FollowsValid keeps the descent at a   *)
(* token of a valid definition and gives RejectsOnlyInvalid.               *)
(***************************************************************************)
EXTENDS RpcParser, SequenceTheorems, WellFoundedInduction, TLAPS

(* Induction over the natural numbers, for a set.                          *)
LEMMA Induction ==
  ASSUME NEW T, 0 \in T, \A n \in Nat : n \in T => n + 1 \in T
  PROVE  Nat \subseteq T
  <1> DEFINE S == {n \in Nat : n \notin T}
  <1>1. ASSUME S # {}  PROVE  FALSE
    <2>1. IsWellFoundedOn(OpToRel(<,Nat), Nat)
      BY NatLessThanWellFounded
    <2>2. PICK R : R = OpToRel(<,Nat)
      OBVIOUS
    <2>3. PICK m \in S : \A n \in S : ~ (<<n, m>> \in R)
      <3>1. S \in SUBSET Nat
        OBVIOUS
      <3> HIDE DEF S
      <3>2. QED
        BY <1>1, <2>1, <2>2, <3>1, WFMin
    <2>4. \A y, z \in Nat : y < z => <<y, z>> \in R
      BY <2>2 DEF OpToRel
    <2>5. m \in Nat /\ m # 0 /\ m - 1 \in Nat /\ m - 1 < m
      OBVIOUS
    <2>6. m - 1 \notin S
      BY <2>3, <2>4, <2>5
    <2>7. (m - 1) + 1 \in T /\ (m - 1) + 1 = m
      BY <2>5, <2>6
    <2>8. QED
      BY <2>7
  <1>2. QED
    BY <1>1

(* A recursive function of the numbers up to n: it has values in V, and is *)
(* the only one.                                                           *)
Chain(f, c, h, V, n) == /\ f \in [0..n -> V] /\ f[0] = c
                        /\ \A i \in 1..n : f[i] = h[<<i, f[i - 1]>>]

LEMMA ChainExists ==
  ASSUME NEW V, NEW c \in V, NEW n \in Nat, NEW h \in [(1..n) \X V -> V]
  PROVE  \E f : Chain(f, c, h, V, n)
  <1> DEFINE T == {k \in Nat : k <= n => \E f : Chain(f, c, h, V, k)}
  <1>1. 0 \in T
    <2> DEFINE g == [i \in 0..0 |-> c]
    <2>1. g \in [0..0 -> V] /\ g[0] = c /\ \A i \in 1..0 : g[i] = h[<<i, g[i - 1]>>]
      OBVIOUS
    <2> HIDE DEF g
    <2>2. \E f : Chain(f, c, h, V, 0)
      BY <2>1 DEF Chain
    <2>3. QED
      BY <2>2
  <1>2. ASSUME NEW k \in Nat, k \in T
        PROVE  k + 1 \in T
    <2> SUFFICES ASSUME k + 1 <= n
                 PROVE  \E f : Chain(f, c, h, V, k + 1)
      OBVIOUS
    <2>0. PICK f : Chain(f, c, h, V, k)
      BY <1>2
    <2>1. f \in [0..k -> V] /\ f[0] = c /\ \A i \in 1..k : f[i] = h[<<i, f[i - 1]>>]
      BY <2>0 DEF Chain
    <2> DEFINE g == [i \in 0..k + 1 |-> IF i = k + 1 THEN h[<<k + 1, f[k]>>] ELSE f[i]]
    <2>2. h[<<k + 1, f[k]>>] \in V
      <3>1. k + 1 \in 1..n /\ f[k] \in V
        BY <2>1
      <3>2. QED
        BY <3>1
    <2>3. g \in [0..k + 1 -> V] /\ g[0] = c
      BY <2>1, <2>2
    <2>4. ASSUME NEW i \in 1..k + 1
          PROVE  g[i] = h[<<i, g[i - 1]>>]
      <3>1. i - 1 \in 0..k /\ i - 1 # k + 1 /\ i - 1 \in 0..k + 1 /\ g[i - 1] = f[i - 1]
        OBVIOUS
      <3>2. CASE i = k + 1
        <4>1. g[i] = h[<<k + 1, f[k]>>] /\ i - 1 = k
          BY <3>2
        <4> HIDE DEF g
        <4>2. QED
          BY <3>1, <3>2, <4>1
      <3>3. CASE i \in 1..k
        <4>1. g[i] = f[i]
          BY <3>3
        <4> HIDE DEF g
        <4>2. QED
          BY <2>1, <3>1, <3>3, <4>1
      <3>4. QED
        BY <3>2, <3>3
    <2>5. Chain(g, c, h, V, k + 1)
      <3> HIDE DEF g
      <3>1. QED
        BY <2>3, <2>4 DEF Chain
    <2> HIDE DEF g
    <2>6. QED
      BY <2>5
  <1>3. n \in T
    <2> HIDE DEF T
    <2>1. Nat \subseteq T
      BY <1>1, <1>2, Induction
    <2>2. QED
      BY <2>1
  <1>4. QED
    BY <1>3

(* Two of them that begin alike go on alike.                               *)
LEMMA ChainsAgree ==
  ASSUME NEW V, NEW c, NEW n \in Nat, NEW h, NEW f, Chain(f, c, h, V, n),
         NEW W, NEW m \in Nat, n <= m, NEW k, NEW g, Chain(g, c, k, W, m),
         \A i \in 1..n, v \in V : h[<<i, v>>] = k[<<i, v>>]
  PROVE  \A i \in 0..n : f[i] = g[i]
  <1> DEFINE T == {i \in Nat : i <= n => f[i] = g[i]}
  <1>1. f \in [0..n -> V] /\ f[0] = c /\ \A i \in 1..n : f[i] = h[<<i, f[i - 1]>>]
    BY DEF Chain
  <1>2. g[0] = c /\ \A i \in 1..m : g[i] = k[<<i, g[i - 1]>>]
    BY DEF Chain
  <1>3. 0 \in T
    BY <1>1, <1>2
  <1>4. ASSUME NEW i \in Nat, i \in T
        PROVE  i + 1 \in T
    <2> SUFFICES ASSUME i + 1 <= n
                 PROVE  f[i + 1] = g[i + 1]
      OBVIOUS
    <2>1. i + 1 \in 1..n /\ i + 1 \in 1..m /\ (i + 1) - 1 = i /\ i \in 0..n /\ i <= n
      OBVIOUS
    <2>2. f[i + 1] = h[<<i + 1, f[i]>>] /\ f[i] \in V
      BY <1>1, <2>1
    <2>3. g[i + 1] = k[<<i + 1, g[i]>>]
      BY <1>2, <2>1
    <2>4. f[i] = g[i]
      BY <1>4, <2>1
    <2>5. QED
      BY <2>1, <2>2, <2>3, <2>4
  <1>5. Nat \subseteq T
    <2> HIDE DEF T
    <2>1. QED
      BY <1>3, <1>4, Induction
  <1>6. QED
    BY <1>5

(* FlattenSeq, one sequence at a time.                                     *)
LEMMA FlattenIsChain ==
  ASSUME NEW S, NEW ss \in Seq(Seq(S)), NEW h,
         h = [p \in (1..Len(ss)) \X Seq(S) |-> p[2] \o ss[p[1]]]
  PROVE  \E f : Chain(f, <<>>, h, Seq(S), Len(ss)) /\ FlattenSeq(ss) = f[Len(ss)]
  <1> DEFINE V == Seq(S)
             n == Len(ss)
             Is(f) == f = [i \in 1..n |-> IF i = 1 THEN ss[i] ELSE f[i - 1] \o ss[i]]
  <1>1. n \in Nat /\ <<>> \in V /\ \A i \in 1..n : ss[i] \in V
    OBVIOUS
  <1>2. h \in [(1..n) \X V -> V]
    <2> SUFFICES ASSUME NEW p \in (1..n) \X V
                 PROVE  p[2] \o ss[p[1]] \in V
      OBVIOUS
    <2>1. p[2] \in Seq(S) /\ ss[p[1]] \in Seq(S)
      BY <1>1
    <2>2. QED
      BY <2>1, ConcatProperties
  <1>3. PICK f : Chain(f, <<>>, h, V, n)
    <2> HIDE DEF V, n
    <2>1. QED
      BY <1>1, <1>2, ChainExists
  <1>4. /\ f \in [0..n -> V] /\ f[0] = <<>>
        /\ \A i \in 1..n : f[i] = f[i - 1] \o ss[i]
    <2>1. f \in [0..n -> V] /\ f[0] = <<>> /\ \A i \in 1..n : f[i] = h[<<i, f[i - 1]>>]
      BY <1>3 DEF Chain
    <2>2. ASSUME NEW i \in 1..n
          PROVE  f[i] = f[i - 1] \o ss[i]
      <3>1. i - 1 \in 0..n
        BY <1>1
      <3>2. <<i, f[i - 1]>> \in (1..n) \X V
        BY <2>1, <3>1
      <3>3. h[<<i, f[i - 1]>>] = f[i - 1] \o ss[i]
        BY <3>2
      <3>4. QED
        BY <2>1, <3>3
    <2>3. QED
      BY <2>1, <2>2
  <1>5. CASE n = 0
    <2>1. FlattenSeq(ss) = ss /\ ss = <<>>
      BY <1>5 DEF FlattenSeq
    <2>2. QED
      BY <1>3, <1>4, <1>5, <2>1
  <1>6. CASE n # 0
    <2> DEFINE g == [i \in 1..n |-> f[i]]
    <2>1. ASSUME NEW i \in 1..n
          PROVE  g[i] = IF i = 1 THEN ss[i] ELSE g[i - 1] \o ss[i]
      <3>1. CASE i = 1
        <4>1. f[i] = <<>> \o ss[i]
          <5>1. i - 1 = 0
            BY <3>1
          <5>2. f[i] = f[i - 1] \o ss[i]
            BY <1>4
          <5>3. QED
            BY <1>4, <5>1, <5>2
        <4>2. <<>> \o ss[i] = ss[i]
          BY <1>1, ConcatEmptySeq
        <4>3. QED
          BY <3>1, <4>1, <4>2
      <3>2. CASE i # 1
        <4>1. i - 1 \in 1..n
          BY <1>1, <3>2
        <4>2. QED
          BY <1>4, <3>2, <4>1
      <3>3. QED
        BY <3>1, <3>2
    <2>2. g = [i \in 1..n |-> g[i]]
      OBVIOUS
    <2>3. g[n] = f[n]
      BY <1>1, <1>6
    <2> HIDE DEF g
    <2>4. Is(g)
      BY <2>1, <2>2
    <2>5. \A k : Is(k) => \A i \in 1..n : k[i] = f[i]
      <3> SUFFICES ASSUME NEW k, Is(k)
                   PROVE  \A i \in 1..n : k[i] = f[i]
        OBVIOUS
      <3>1. \A i \in 1..n : k[i] = IF i = 1 THEN ss[i] ELSE k[i - 1] \o ss[i]
        OBVIOUS
      <3> DEFINE T == {i \in Nat : i + 1 <= n => k[i + 1] = f[i + 1]}
      <3>2. 0 \in T
        <4>1. 1 \in 1..n /\ f[1] = <<>> \o ss[1]
          <5>1. PICK i \in 1..n : i = 1 /\ i - 1 = 0
            BY <1>1, <1>6
          <5>2. f[i] = f[i - 1] \o ss[i]
            BY <1>4
          <5>3. QED
            BY <1>4, <5>1, <5>2
        <4>2. <<>> \o ss[1] = ss[1]
          BY <1>1, <4>1, ConcatEmptySeq
        <4>3. QED
          BY <3>1, <4>1, <4>2
      <3>3. ASSUME NEW i \in Nat, i \in T
            PROVE  i + 1 \in T
        <4> SUFFICES ASSUME (i + 1) + 1 <= n
                     PROVE  k[(i + 1) + 1] = f[(i + 1) + 1]
          OBVIOUS
        <4>1. PICK j \in 1..n : j = (i + 1) + 1 /\ j # 1 /\ j - 1 = i + 1
          BY <1>1
        <4>2. k[j] = k[j - 1] \o ss[j] /\ f[j] = f[j - 1] \o ss[j]
          BY <1>4, <3>1, <4>1
        <4>3. k[i + 1] = f[i + 1]
          BY <3>3
        <4>4. QED
          BY <4>1, <4>2, <4>3
      <3>4. Nat \subseteq T
        <4> HIDE DEF T
        <4>1. QED
          BY <3>2, <3>3, Induction
      <3>5. ASSUME NEW i \in 1..n
            PROVE  k[i] = f[i]
        <4>1. i - 1 \in Nat /\ (i - 1) + 1 = i /\ i <= n
          BY <1>1
        <4>3. i - 1 \in T
          <5> HIDE DEF T
          <5>1. QED
            BY <3>4, <4>1
        <4>2. QED
          BY <4>1, <4>3
      <3>6. QED
        BY <3>5
    <2>6. FlattenSeq(ss) = (CHOOSE k : Is(k))[n]
      BY <1>6 DEF FlattenSeq
    <2>7. Is(CHOOSE k : Is(k))
      <3> HIDE DEF Is
      <3>1. QED
        BY <2>4
    <2>8. n \in 1..n
      BY <1>1, <1>6
    <2>9. FlattenSeq(ss) = f[n]
      <3> HIDE DEF Is
      <3>1. QED
        BY <2>5, <2>6, <2>7, <2>8
    <2>10. QED
      BY <1>3, <2>9
  <1>7. QED
    BY <1>5, <1>6

LEMMA FlattenFacts ==
  ASSUME NEW S, NEW ss \in Seq(Seq(S)), NEW s \in Seq(S)
  PROVE  /\ FlattenSeq(ss) \in Seq(S)
         /\ FlattenSeq(Append(ss, s)) = FlattenSeq(ss) \o s
  <1> DEFINE V == Seq(S)
             n == Len(ss)
             rr == Append(ss, s)
             h == [p \in (1..n) \X V |-> p[2] \o ss[p[1]]]
             k == [p \in (1..n + 1) \X V |-> p[2] \o rr[p[1]]]
  <1>1. /\ n \in Nat /\ rr \in Seq(V) /\ Len(rr) = n + 1 /\ rr[n + 1] = s
        /\ \A i \in 1..n : rr[i] = ss[i]
    BY AppendProperties
  <1>2. PICK f : Chain(f, <<>>, h, V, n) /\ FlattenSeq(ss) = f[n]
    BY FlattenIsChain
  <1>3. PICK g : Chain(g, <<>>, k, V, n + 1) /\ FlattenSeq(rr) = g[n + 1]
    <2>1. k = [p \in (1..Len(rr)) \X Seq(S) |-> p[2] \o rr[p[1]]]
      BY <1>1
    <2> HIDE DEF k, rr, n
    <2>2. QED
      BY <1>1, <2>1, FlattenIsChain
  <1>4. \A i \in 1..n, v \in V : h[<<i, v>>] = k[<<i, v>>]
    <2>1. ASSUME NEW i \in 1..n, NEW v \in V  PROVE  h[<<i, v>>] = k[<<i, v>>]
      <3>1. i \in 1..n + 1 /\ rr[i] = ss[i]
        BY <1>1
      <3>2. h[<<i, v>>] = v \o ss[i]
        OBVIOUS
      <3>3. k[<<i, v>>] = v \o rr[i]
        BY <3>1
      <3>4. QED
        BY <3>1, <3>2, <3>3
    <2>2. QED
      BY <2>1
  <1>5. f[n] = g[n]
    <2> HIDE DEF h, k, n, V
    <2>1. n <= n + 1 /\ n + 1 \in Nat /\ n \in 0..n
      BY <1>1
    <2>2. \A i \in 0..n : f[i] = g[i]
      BY <1>1, <1>2, <1>3, <1>4, <2>1, ChainsAgree
    <2>3. QED
      BY <2>1, <2>2
  <1>6. g[n] \in V /\ g[n + 1] = k[<<n + 1, g[n]>>]
    <2> HIDE DEF k, V, n
    <2>1. n + 1 \in 1..n + 1 /\ (n + 1) - 1 = n /\ n \in 0..n + 1
      BY <1>1
    <2>2. QED
      BY <1>3, <2>1 DEF Chain
  <1>7. k[<<n + 1, g[n]>>] = g[n] \o rr[n + 1]
    <2>1. <<n + 1, g[n]>> \in (1..n + 1) \X V
      BY <1>1, <1>6
    <2>2. QED
      BY <2>1
  <1>8. QED
    BY <1>1, <1>2, <1>3, <1>5, <1>6, <1>7

LEMMA FlattenNone == FlattenSeq(<<>>) = <<>>
  BY DEF FlattenSeq

(* OwnedUpTo, one method at a time.                                        *)
LEMMA OwnedIsChain ==
  ASSUME NEW ms, Len(ms) \in Nat, \A i \in 1..Len(ms) : Owned(ms[i]) \in Nat, NEW h,
         h = [p \in (1..Len(ms)) \X Nat |-> p[2] + Owned(ms[p[1]])]
  PROVE  \E f : Chain(f, 0, h, Nat, Len(ms)) /\ OwnedUpTo(ms)[Len(ms)] = f[Len(ms)]
  <1> DEFINE n == Len(ms)
             Is(f) == f = [i \in 0..n |-> IF i = 0 THEN 0 ELSE f[i - 1] + Owned(ms[i])]
  <1>1. n \in Nat /\ 0 \in Nat
    OBVIOUS
  <1>2. h \in [(1..n) \X Nat -> Nat]
    <2> SUFFICES ASSUME NEW p \in (1..n) \X Nat
                 PROVE  p[2] + Owned(ms[p[1]]) \in Nat
      OBVIOUS
    <2>1. p[2] \in Nat /\ Owned(ms[p[1]]) \in Nat
      OBVIOUS
    <2>2. QED
      BY <2>1
  <1>3. PICK f : Chain(f, 0, h, Nat, n)
    <2> HIDE DEF n
    <2>1. QED
      BY <1>1, <1>2, ChainExists
  <1>4. ASSUME NEW g, Chain(g, 0, h, Nat, n)
        PROVE  Is(g)
    <2>1. g \in [0..n -> Nat] /\ g[0] = 0 /\ \A i \in 1..n : g[i] = h[<<i, g[i - 1]>>]
      BY <1>4 DEF Chain
    <2>2. ASSUME NEW i \in 1..n
          PROVE  g[i] = g[i - 1] + Owned(ms[i])
      <3>1. i - 1 \in 0..n
        BY <1>1
      <3>2. <<i, g[i - 1]>> \in (1..n) \X Nat
        BY <2>1, <3>1
      <3>3. h[<<i, g[i - 1]>>] = g[i - 1] + Owned(ms[i])
        BY <3>2
      <3>4. QED
        BY <2>1, <3>3
    <2>3. ASSUME NEW i \in 0..n
          PROVE  g[i] = IF i = 0 THEN 0 ELSE g[i - 1] + Owned(ms[i])
      <3>1. i # 0 => i \in 1..n
        BY <1>1
      <3>2. QED
        BY <2>1, <2>2, <3>1
    <2>4. g = [i \in 0..n |-> g[i]]
      BY <2>1
    <2>5. QED
      BY <2>3, <2>4
  <1>5. ASSUME NEW g, Is(g)
        PROVE  \A i \in 0..n : g[i] = f[i]
    <2>1. \A i \in 0..n : g[i] = IF i = 0 THEN 0 ELSE g[i - 1] + Owned(ms[i])
      BY <1>5
    <2>2. \A i \in 0..n : f[i] = IF i = 0 THEN 0 ELSE f[i - 1] + Owned(ms[i])
      BY <1>3, <1>4
    <2> DEFINE T == {i \in Nat : i <= n => g[i] = f[i]}
    <2> HIDE DEF n
    <2>3. 0 \in T
      <3>1. 0 \in 0..n
        BY <1>1
      <3>2. QED
        BY <2>1, <2>2, <3>1
    <2>4. ASSUME NEW i \in Nat, i \in T
          PROVE  i + 1 \in T
      <3> SUFFICES ASSUME i + 1 <= n
                   PROVE  g[i + 1] = f[i + 1]
        OBVIOUS
      <3>1. PICK j \in 0..n : j = i + 1 /\ j # 0 /\ j - 1 = i
        BY <1>1
      <3>2. g[j] = g[j - 1] + Owned(ms[j]) /\ f[j] = f[j - 1] + Owned(ms[j])
        BY <2>1, <2>2, <3>1
      <3>3. g[i] = f[i]
        BY <2>4, <1>1
      <3>4. QED
        BY <3>1, <3>2, <3>3
    <2>5. Nat \subseteq T
      <3> HIDE DEF T
      <3>1. QED
        BY <2>3, <2>4, Induction
    <2>6. QED
      BY <1>1, <2>5
  <1>6. OwnedUpTo(ms) = CHOOSE g : Is(g)
    BY DEF OwnedUpTo
  <1>7. Is(CHOOSE g : Is(g))
    <2>1. Is(f)
      BY <1>3, <1>4
    <2> HIDE DEF Is
    <2>2. QED
      BY <2>1
  <1>8. OwnedUpTo(ms)[n] = f[n]
    <2>1. n \in 0..n
      BY <1>1
    <2> HIDE DEF Is, n
    <2>2. QED
      BY <1>5, <1>6, <1>7, <2>1
  <1>9. QED
    BY <1>3, <1>8

LEMMA OwnedFacts ==
  ASSUME NEW M, NEW ms \in Seq(M), NEW m \in M, \A x \in M : Owned(x) \in Nat
  PROVE  /\ OwnedUpTo(ms)[Len(ms)] \in Nat
         /\ OwnedUpTo(Append(ms, m))[Len(ms) + 1] = OwnedUpTo(ms)[Len(ms)] + Owned(m)
  <1> DEFINE n == Len(ms)
             rr == Append(ms, m)
             h == [p \in (1..n) \X Nat |-> p[2] + Owned(ms[p[1]])]
             k == [p \in (1..n + 1) \X Nat |-> p[2] + Owned(rr[p[1]])]
  <1>1. /\ n \in Nat /\ rr \in Seq(M) /\ Len(rr) = n + 1 /\ rr[n + 1] = m
        /\ \A i \in 1..n : rr[i] = ms[i]
    BY AppendProperties
  <1>2. PICK f : Chain(f, 0, h, Nat, n) /\ OwnedUpTo(ms)[n] = f[n]
    <2>1. \A i \in 1..Len(ms) : Owned(ms[i]) \in Nat
      OBVIOUS
    <2>2. QED
      BY <1>1, <2>1, OwnedIsChain
  <1>3. PICK g : Chain(g, 0, k, Nat, n + 1) /\ OwnedUpTo(rr)[n + 1] = g[n + 1]
    <2>1. k = [p \in (1..Len(rr)) \X Nat |-> p[2] + Owned(rr[p[1]])]
      BY <1>1
    <2>2. \A i \in 1..Len(rr) : Owned(rr[i]) \in Nat
      <3> HIDE DEF rr
      <3>1. QED
        BY <1>1
    <2> HIDE DEF k, rr, n
    <2>3. Len(rr) \in Nat
      BY <1>1
    <2>4. \E g : Chain(g, 0, k, Nat, Len(rr)) /\ OwnedUpTo(rr)[Len(rr)] = g[Len(rr)]
      BY <2>1, <2>2, <2>3, OwnedIsChain
    <2>5. QED
      BY <1>1, <2>4
  <1>4. \A i \in 1..n, v \in Nat : h[<<i, v>>] = k[<<i, v>>]
    <2>1. ASSUME NEW i \in 1..n, NEW v \in Nat  PROVE  h[<<i, v>>] = k[<<i, v>>]
      <3>1. i \in 1..n + 1 /\ rr[i] = ms[i]
        BY <1>1
      <3>2. h[<<i, v>>] = v + Owned(ms[i])
        OBVIOUS
      <3>3. k[<<i, v>>] = v + Owned(rr[i])
        BY <3>1
      <3>4. QED
        BY <3>1, <3>2, <3>3
    <2>2. QED
      BY <2>1
  <1>5. f[n] = g[n]
    <2> HIDE DEF h, k, n
    <2>1. n <= n + 1 /\ n + 1 \in Nat /\ n \in 0..n
      BY <1>1
    <2>2. \A i \in 0..n : f[i] = g[i]
      <3>1. PICK V : V = Nat
        OBVIOUS
      <3>2. Chain(f, 0, h, V, n) /\ Chain(g, 0, k, V, n + 1)
        BY <1>2, <1>3, <3>1
      <3>3. \A i \in 1..n, v \in V : h[<<i, v>>] = k[<<i, v>>]
        BY <1>4, <3>1
      <3>4. QED
        BY <1>1, <2>1, <3>2, <3>3, ChainsAgree
    <2>3. QED
      BY <2>1, <2>2
  <1>6. g[n] \in Nat /\ g[n + 1] = k[<<n + 1, g[n]>>]
    <2> HIDE DEF k, n
    <2>1. n + 1 \in 1..n + 1 /\ (n + 1) - 1 = n /\ n \in 0..n + 1
      BY <1>1
    <2>2. QED
      BY <1>3, <2>1 DEF Chain
  <1>7. k[<<n + 1, g[n]>>] = g[n] + Owned(rr[n + 1])
    <2>1. <<n + 1, g[n]>> \in (1..n + 1) \X Nat
      BY <1>1, <1>6
    <2>2. QED
      BY <2>1
  <1>8. QED
    BY <1>1, <1>2, <1>3, <1>5, <1>6, <1>7

LEMMA OwnedNone == OwnedUpTo(<<>>)[0] = 0
  <1> DEFINE h == [p \in (1..Len(<<>>)) \X Nat |-> p[2] + Owned(<<>>[p[1]])]
  <1>1. Len(<<>>) = 0 /\ \A i \in 1..Len(<<>>) : Owned(<<>>[i]) \in Nat
    OBVIOUS
  <1>2. PICK f : Chain(f, 0, h, Nat, 0) /\ OwnedUpTo(<<>>)[0] = f[0]
    <2> HIDE DEF h
    <2>1. \E f : Chain(f, 0, h, Nat, Len(<<>>)) /\ OwnedUpTo(<<>>)[Len(<<>>)] = f[Len(<<>>)]
      BY <1>1, OwnedIsChain DEF h
    <2>2. QED
      BY <1>1, <2>1
  <1>3. QED
    BY <1>2 DEF Chain

-----------------------------------------------------------------------------
(* Memory *)

Method   == [name : Names \cup {Eof}, parameters : Seq(Parameter), return_type : Keywords \cup {Eof}]

Descent  == DOMAIN Expects
InMethod == {"method_name", "open_paren", "parameters", "parameter_name", "separator",
             "returns", "open_type", "return_type", "close_type", "semicolon"}

ShapeOK ==
  /\ at \in Descent \cup Verdicts \cup {"validate", "accepted"}
  /\ service \in [name : Names \cup {Eof}, methods : Seq(Method)]
  /\ method \in Method
  /\ at = "parameter_name" => type \in Keywords
  /\ heap \in Nat /\ lost \in Nat

(* What is allocated can be reached from the service or is lost, but for   *)
(* the method that is being parsed and the parameter read last.            *)
HeapOK ==
  /\ at \in Descent \cup {"validate", "accepted"} =>
       heap = Reachable + lost + (IF at \in InMethod THEN Owned(method) ELSE 0)
                               + (IF at = "parameter_name" THEN 1 ELSE 0)
  /\ at \in {"rejected", "released"} => heap = lost

MemInv == ShapeOK /\ HeapOK

LEMMA DescentIs ==
  Descent = {"service", "service_name", "open_brace", "methods"} \cup InMethod
  BY DEF Descent, Expects, InMethod

LEMMA OwnedNat == \A m \in Method : Owned(m) \in Nat
  <1> SUFFICES ASSUME NEW m \in Method
               PROVE  Owned(m) \in Nat
    OBVIOUS
  <1>1. m.parameters \in Seq(Parameter)
    BY DEF Method
  <1>2. PICK n \in Nat : n = Len(m.parameters)
    BY <1>1
  <1>3. QED
    BY <1>2 DEF Owned, NewBlock

LEMMA ReachableFacts ==
  ASSUME ShapeOK
  PROVE  Reachable \in Nat
  <1>1. PICK ms \in Seq(Method) : ms = service.methods
    BY DEF ShapeOK
  <1>2. OwnedUpTo(ms)[Len(ms)] \in Nat
    <2>1. PICK m : m \in Method
      BY DEF ShapeOK
    <2>2. QED
      BY <2>1, OwnedNat, OwnedFacts
  <1>3. QED
    BY <1>1, <1>2 DEF Reachable, NewBlock

LEMMA InitMem == Init => MemInv
  <1> SUFFICES ASSUME Init
               PROVE  MemInv
    OBVIOUS
  <1>1. NoMethod \in Method /\ NoService \in [name : Names \cup {Eof}, methods : Seq(Method)]
    BY DEF NoMethod, NoService, Method
  <1>2. ShapeOK
    BY <1>1, DescentIs DEF Init, ShapeOK
  <1>3. Reachable = 1
    <2>1. service.methods = <<>>
      BY DEF Init, NoService
    <2>2. OwnedUpTo(service.methods)[Len(service.methods)] = 0
      BY <2>1, OwnedNone
    <2>3. QED
      BY <2>1, <2>2 DEF Reachable, NewBlock
  <1>4. HeapOK
    BY <1>3 DEF Init, HeapOK, InMethod
  <1>5. QED
    BY <1>2, <1>4 DEF MemInv

(* A step that leaves the tree and the heap alone.                         *)
LEMMA QuietMem ==
  ASSUME MemInv, UNCHANGED tree, at' \in Descent \cup Verdicts \cup {"validate", "accepted"},
         at' # "parameter_name", at' \notin {"rejected", "released"},
         at' \in Descent \cup {"validate", "accepted"} =>
           /\ at \in Descent \cup {"validate", "accepted"}
           /\ at # "parameter_name"
           /\ at' \in InMethod <=> at \in InMethod
  PROVE  MemInv'
  <1>1. UNCHANGED <<service, method, type, heap, lost>>
    BY DEF tree
  <1>2. ShapeOK'
    BY <1>1 DEF MemInv, ShapeOK, Descent
  <1>3. Reachable' = Reachable /\ Owned(method)' = Owned(method)
    BY <1>1 DEF Reachable, Owned
  <1>4. HeapOK'
    BY <1>1, <1>3 DEF MemInv, HeapOK, Descent
  <1>5. QED
    BY <1>2, <1>4 DEF MemInv

LEMMA StepMem == MemInv /\ [Next]_vars => MemInv'
  <1> SUFFICES ASSUME MemInv, [Next]_vars
               PROVE  MemInv'
    OBVIOUS
  <1>0. /\ service = [name |-> service.name, methods |-> service.methods]
        /\ service.name \in Names \cup {Eof} /\ service.methods \in Seq(Method)
        /\ method = [name |-> method.name, parameters |-> method.parameters,
                     return_type |-> method.return_type]
        /\ method.name \in Names \cup {Eof} /\ method.parameters \in Seq(Parameter)
        /\ method.return_type \in Keywords \cup {Eof}
        /\ heap \in Nat /\ lost \in Nat
    BY DEF MemInv, ShapeOK, Method
  <1>00. PICK own \in Nat, reach \in Nat : own = Owned(method) /\ reach = Reachable
    BY OwnedNat, ReachableFacts DEF MemInv, ShapeOK
  <1>1. CASE Service \/ OpenBrace \/ CloseBrace \/ OpenParen \/ CloseParen \/ Comma
             \/ Returns \/ OpenType \/ CloseType
    <2>1. /\ at \in Descent /\ at # "parameter_name" /\ UNCHANGED tree
          /\ \/ at' \in InMethod /\ at \in InMethod /\ at' # "parameter_name"
             \/ at' \notin InMethod /\ at \notin InMethod /\ at' \in Descent \cup {"validate"}
      BY <1>1, DescentIs
      DEF Service, OpenBrace, CloseBrace, OpenParen, CloseParen, Comma, Returns, OpenType,
          CloseType, Take, InMethod
    <2>2. "parameter_name" \in InMethod /\ "rejected" \notin Descent /\ "released" \notin Descent
      BY DescentIs DEF InMethod
    <2>3. InMethod \subseteq Descent
      BY DescentIs
    <2>4. QED
      BY <2>1, <2>2, <2>3, QuietMem
  <1>2. CASE SyntaxError \/ OutOfMemory \/ UseRecycled
    BY <1>2, QuietMem, DescentIs DEF SyntaxError, OutOfMemory, UseRecycled, Verdicts, InMethod
  <1>3. CASE ServiceName
    <2>1. CASE Take("service_name", "open_brace")
               /\ service' = [service EXCEPT !.name = curr_token]
               /\ UNCHANGED <<method, type, heap, lost, recycled>>
      <3>1. /\ at = "service_name" /\ at' = "open_brace" /\ curr_token \in Names
        BY <2>1 DEF Take, Expects
      <3>2. service' = [name |-> curr_token, methods |-> service.methods]
        BY <1>0, <2>1
      <3>3. ShapeOK'
        BY <1>0, <2>1, <3>1, <3>2, DescentIs DEF ShapeOK, MemInv, Descent
      <3>4. Reachable' = Reachable
        BY <3>2 DEF Reachable
      <3>5. HeapOK'
        BY <2>1, <3>1, <3>4, DescentIs DEF MemInv, HeapOK, InMethod
      <3>6. QED
        BY <3>3, <3>5 DEF MemInv
    <2>2. CASE AllocMayFail /\ at = "service_name" /\ at' = "crashed"
               /\ UNCHANGED <<source, pos, tree>>
      BY <2>2, QuietMem, DescentIs DEF Verdicts, InMethod
    <2>3. QED
      BY <1>3, <2>1, <2>2 DEF ServiceName
  <1>4. CASE Rpc
    <2>1. /\ at = "methods" /\ at' = "method_name" /\ method' = NoMethod
          /\ heap' = heap + 1 /\ UNCHANGED <<service, type, lost>>
      BY <1>4 DEF Rpc, Take
    <2>2. ShapeOK'
      <3>1. NoMethod \in Method
        BY DEF NoMethod, Method
      <3>2. QED
        BY <1>0, <2>1, <3>1, DescentIs DEF ShapeOK, MemInv, Descent, InMethod
    <2>3. Owned(method)' = 1 /\ Reachable' = reach
      BY <1>00, <2>1 DEF Owned, NoMethod, NewBlock, Reachable
    <2>4. heap = reach + lost
      BY <1>0, <1>00, <2>1, DescentIs DEF MemInv, HeapOK, InMethod
    <2>5. heap' = reach + lost' + 1 + 0
      BY <1>0, <2>1, <2>4
    <2>6. HeapOK'
      BY <2>1, <2>3, <2>5 DEF HeapOK, InMethod
    <2>7. QED
      BY <2>2, <2>6 DEF MemInv
  <1>5. CASE MethodName \/ ReturnType
    <2>1. /\ at \in InMethod /\ at' \in InMethod /\ at # "parameter_name" /\ at' # "parameter_name"
          /\ UNCHANGED <<service, type, heap, lost>>
      BY <1>5 DEF MethodName, ReturnType, Take, InMethod
    <2>2. method' \in Method /\ method'.parameters = method.parameters
      <3>1. CASE MethodName
        <4>1. curr_token \in Names /\ method' = [method EXCEPT !.name = curr_token]
          BY <3>1 DEF MethodName, Take, Expects
        <4>2. method' = [name |-> curr_token, parameters |-> method.parameters,
                         return_type |-> method.return_type]
          BY <1>0, <4>1
        <4>3. QED
          BY <1>0, <4>1, <4>2 DEF Method
      <3>2. CASE ReturnType
        <4>1. curr_token \in Keywords /\ method' = [method EXCEPT !.return_type = curr_token]
          BY <3>2 DEF ReturnType, Take, Expects
        <4>2. method' = [name |-> method.name, parameters |-> method.parameters,
                         return_type |-> curr_token]
          BY <1>0, <4>1
        <4>3. QED
          BY <1>0, <4>1, <4>2 DEF Method
      <3>3. QED
        BY <1>5, <3>1, <3>2
    <2>3. ShapeOK'
      BY <1>0, <2>1, <2>2, DescentIs DEF ShapeOK, MemInv, Descent
    <2>4. Owned(method)' = Owned(method) /\ Reachable' = Reachable
      BY <2>1, <2>2 DEF Owned, Reachable
    <2>5. HeapOK'
      <3>1. at' \notin {"rejected", "released"} /\ at \in Descent
        BY <2>1, DescentIs DEF InMethod
      <3>2. QED
        BY <2>1, <2>4, <3>1 DEF MemInv, HeapOK
    <2>6. QED
      BY <2>3, <2>5 DEF MemInv
  <1>6. CASE ParameterType
    <2>1. /\ at = "parameters" /\ at' = "parameter_name" /\ type' = curr_token
          /\ curr_token \in Keywords
          /\ heap' = heap + 1 /\ UNCHANGED <<service, method, lost>>
      BY <1>6 DEF ParameterType, Take, Expects
    <2>2. ShapeOK'
      BY <1>0, <2>1, DescentIs DEF ShapeOK, MemInv, Descent, InMethod
    <2>3. Owned(method)' = own /\ Reachable' = reach
      BY <1>00, <2>1 DEF Owned, Reachable
    <2>4. heap = reach + lost + own + 0
      BY <1>0, <1>00, <2>1, DescentIs DEF MemInv, HeapOK, InMethod
    <2>5. heap' = reach + lost' + own + 1
      BY <1>0, <2>1, <2>4
    <2>6. HeapOK'
      BY <2>1, <2>3, <2>5 DEF HeapOK, InMethod
    <2>7. QED
      BY <2>2, <2>6 DEF MemInv
  <1>7. CASE ParameterName
    <2> DEFINE parameter == [type |-> type, name |-> curr_token]
    <2>1. /\ at = "parameter_name" /\ at' = "separator" /\ curr_token \in Names
          /\ UNCHANGED <<service, type>>
      BY <1>7 DEF ParameterName, Take, Expects
    <2>2. parameter \in Parameter
      BY <2>1 DEF MemInv, ShapeOK, Parameter
    <2>3. heap = reach + lost + own + 1 /\ Reachable' = reach
      <3>1. heap = reach + lost + own + 1
        BY <1>0, <1>00, <2>1, DescentIs DEF MemInv, HeapOK, InMethod
      <3>2. QED
        BY <1>00, <2>1, <3>1 DEF Reachable
    <2>4. CASE /\ method' = [method EXCEPT !.parameters = Append(@, parameter)]
               /\ heap' = heap + NewBlock(method.parameters)
               /\ UNCHANGED lost
      <3> HIDE DEF parameter
      <3>1. method' = [name |-> method.name, parameters |-> Append(method.parameters, parameter),
                       return_type |-> method.return_type]
        BY <1>0, <2>4
      <3>2. PICK n \in Nat : n = Len(method.parameters)
        BY <1>0
      <3>3. /\ Append(method.parameters, parameter) \in Seq(Parameter)
            /\ Append(method.parameters, parameter) # <<>>
            /\ Len(Append(method.parameters, parameter)) = n + 1
        BY <1>0, <2>2, <3>2, AppendProperties
      <3>4. method' \in Method
        BY <1>0, <3>1, <3>3 DEF Method
      <3>5. Owned(method)' = 1 + (n + 1) + 1
        BY <3>1, <3>3 DEF Owned, NewBlock
      <3>6. PICK b \in {0, 1} : b = NewBlock(method.parameters)
        BY DEF NewBlock
      <3>7. own = 1 + n + (1 - b)
        BY <1>00, <3>2, <3>6 DEF Owned
      <3>8. heap' = reach + lost' + (1 + (n + 1) + 1) + 0 /\ heap' \in Nat
        BY <1>0, <2>3, <2>4, <3>6, <3>7
      <3>9. HeapOK'
        BY <2>1, <2>3, <3>5, <3>8 DEF HeapOK, InMethod
      <3>10. ShapeOK'
        BY <1>0, <2>1, <2>4, <3>4, <3>8, DescentIs DEF ShapeOK, Descent, InMethod
      <3>11. QED
        BY <3>9, <3>10 DEF MemInv
    <2>5. CASE lost' = lost + 1 /\ UNCHANGED <<method, heap>>
      <3>1. Owned(method)' = own
        BY <1>00, <2>5 DEF Owned
      <3>2. heap' = reach + lost' + own + 0 /\ lost' \in Nat
        <4>1. heap' = heap /\ lost' = lost + 1 /\ heap = reach + lost + own + 1 /\ lost \in Nat
          BY <1>0, <2>3, <2>5
        <4>2. QED
          BY <1>00, <4>1
      <3>3. HeapOK'
        BY <2>1, <2>3, <3>1, <3>2 DEF HeapOK, InMethod
      <3>4. ShapeOK'
        BY <1>0, <2>1, <2>5, <3>2, DescentIs DEF MemInv, ShapeOK, Descent, InMethod
      <3>5. QED
        BY <3>3, <3>4 DEF MemInv
    <2>6. QED
      BY <1>7, <2>4, <2>5 DEF ParameterName
  <1>8. CASE Semicolon
    <2>1. /\ at = "semicolon" /\ at' = "methods" /\ UNCHANGED <<method, type>>
      BY <1>8 DEF Semicolon, Take
    <2>2. heap = reach + lost + own
      BY <1>0, <1>00, <2>1, DescentIs DEF MemInv, HeapOK, InMethod
    <2>3. CASE /\ service' = [service EXCEPT !.methods = Append(@, method)]
               /\ heap' = heap + NewBlock(service.methods)
               /\ UNCHANGED lost
      <3>1. service' = [name |-> service.name, methods |-> Append(service.methods, method)]
        BY <1>0, <2>3
      <3>2. method \in Method
        BY DEF MemInv, ShapeOK
      <3>3. /\ Append(service.methods, method) \in Seq(Method)
            /\ Append(service.methods, method) # <<>>
            /\ Len(Append(service.methods, method)) = Len(service.methods) + 1
        BY <1>0, <3>2, AppendProperties
      <3>4. /\ OwnedUpTo(service.methods)[Len(service.methods)] \in Nat
            /\ OwnedUpTo(service'.methods)[Len(service'.methods)]
                 = OwnedUpTo(service.methods)[Len(service.methods)] + Owned(method)
        BY <1>0, <3>1, <3>2, <3>3, OwnedNat, OwnedFacts
      <3>5. PICK s \in Nat : s = OwnedUpTo(service.methods)[Len(service.methods)]
        BY <3>4
      <3>6. PICK b \in {0, 1} : b = NewBlock(service.methods)
        BY DEF NewBlock
      <3>7. reach = 1 + (1 - b) + s
        BY <1>00, <3>5, <3>6 DEF Reachable
      <3>8. Reachable' = 1 + 1 + (s + own)
        <4>1. NewBlock(service'.methods) = 0
          BY <3>1, <3>3 DEF NewBlock
        <4>2. OwnedUpTo(service'.methods)[Len(service'.methods)] = s + own
          BY <1>00, <3>4, <3>5
        <4>3. QED
          BY <4>1, <4>2 DEF Reachable
      <3>9. heap' = (1 + 1 + (s + own)) + lost' /\ heap' \in Nat
        BY <1>0, <2>2, <2>3, <3>6, <3>7
      <3>10. HeapOK'
        BY <1>0, <2>1, <2>3, <3>8, <3>9 DEF HeapOK, InMethod
      <3>11. ShapeOK'
        BY <1>0, <2>1, <2>3, <3>1, <3>2, <3>3, <3>9, DescentIs DEF ShapeOK, Descent, InMethod
      <3>12. QED
        BY <3>10, <3>11 DEF MemInv
    <2>4. CASE lost' = lost + Owned(method) /\ UNCHANGED <<service, heap>>
      <3>1. Reachable' = reach
        BY <1>00, <2>4 DEF Reachable
      <3>2. heap' = reach + lost' /\ lost' \in Nat
        BY <1>0, <1>00, <2>2, <2>4
      <3>3. HeapOK'
        BY <1>0, <1>00, <2>1, <3>1, <3>2 DEF HeapOK, InMethod
      <3>4. ShapeOK'
        BY <1>0, <2>1, <2>4, <3>2, DescentIs DEF MemInv, ShapeOK, Descent, InMethod
      <3>5. QED
        BY <3>3, <3>4 DEF MemInv
    <2>5. QED
      BY <1>8, <2>3, <2>4 DEF Semicolon
  <1>9. CASE Validate \/ Release
    <2>1. /\ at \in {"validate", "accepted"} /\ UNCHANGED <<service, method, type, lost>>
          /\ \/ at' \in {"crashed", "accepted"} /\ at = "validate" /\ heap' = heap
             \/ at' \in {"rejected", "released"} /\ heap' = heap - Reachable
      BY <1>9 DEF Validate, Release
    <2>2. heap = reach + lost
      BY <1>0, <1>00, <2>1, DescentIs DEF MemInv, HeapOK, InMethod
    <2>3. Reachable' = reach
      BY <1>00, <2>1 DEF Reachable
    <2>4. heap' = (IF at' \in {"rejected", "released"} THEN lost ELSE heap) /\ heap' \in Nat
      BY <1>0, <1>00, <2>1, <2>2
    <2>5. HeapOK'
      BY <1>0, <2>1, <2>2, <2>3, <2>4, DescentIs DEF HeapOK, InMethod
    <2>6. ShapeOK'
      BY <1>0, <2>1, <2>4 DEF MemInv, ShapeOK, Verdicts
    <2>7. QED
      BY <2>5, <2>6 DEF MemInv
  <1>10. CASE UNCHANGED vars
    <2>1. UNCHANGED <<at, service, method, type, heap, lost>>
      BY <1>10 DEF vars, tree
    <2>2. Reachable' = Reachable /\ Owned(method)' = Owned(method)
      BY <2>1 DEF Reachable, Owned
    <2>3. QED
      BY <2>1, <2>2 DEF MemInv, ShapeOK, HeapOK, Descent
  <1>11. QED
    BY <1>1, <1>2, <1>3, <1>4, <1>5, <1>6, <1>7, <1>8, <1>9, <1>10 DEF Next

LEMMA SpecMem == Spec => []MemInv
  BY InitMem, StepMem, PTL DEF Spec

(* Once the service is released, only what vector_add refused is left      *)
(* (free_service, free_method against what the parser allocates).          *)
THEOREM ParserReleasesAll == Spec => []ReleasesAll
  <1>1. MemInv => ReleasesAll
    BY DEF MemInv, HeapOK, ReleasesAll
  <1>2. QED
    BY <1>1, SpecMem, PTL

-----------------------------------------------------------------------------
(* Texts *)

(* A sequence grows by what is concatenated, one element after another.    *)
LEMMA ConcatOne ==
  ASSUME NEW S, NEW u \in Seq(S), NEW v \in Seq(S), NEW x \in S
  PROVE  u \o Append(v, x) = Append(u \o v, x)
  <1>1. <<x>> \in Seq(S) /\ u \o v \in Seq(S)
    BY ConcatProperties
  <1>2. Append(v, x) = v \o <<x>> /\ Append(u \o v, x) = (u \o v) \o <<x>>
    BY <1>1, AppendIsConcat
  <1>3. QED
    BY <1>1, <1>2, ConcatAssociative

LEMMA ConcatTuples ==
  ASSUME NEW S, NEW u \in Seq(S), NEW a \in S, NEW b \in S, NEW c \in S
  PROVE  /\ u \o <<a>> = Append(u, a)
         /\ u \o <<a, b>> = Append(Append(u, a), b)
         /\ u \o <<a, b, c>> = Append(Append(Append(u, a), b), c)
  <1>1. <<a>> \in Seq(S) /\ <<a, b>> \in Seq(S) /\ Append(u, a) \in Seq(S)
    BY AppendProperties
  <1>2. <<a, b>> = Append(<<a>>, b) /\ <<a, b, c>> = Append(<<a, b>>, c)
    OBVIOUS
  <1>3. u \o <<a>> = Append(u, a)
    BY AppendIsConcat
  <1>4. u \o <<a, b>> = Append(u \o <<a>>, b)
    BY <1>1, <1>2, ConcatOne
  <1>5. u \o <<a, b, c>> = Append(u \o <<a, b>>, c)
    BY <1>1, <1>2, ConcatOne
  <1>6. QED
    BY <1>3, <1>4, <1>5

Six(u, a, b, c, d, e, f) ==
  u \o <<a, b, c, d, e, f>> = Append(Append(Append(Append(Append(Append(u, a), b), c), d), e), f)

LEMMA ConcatSix ==
  ASSUME NEW S, NEW u \in Seq(S),
         NEW a \in S, NEW b \in S, NEW c \in S, NEW d \in S, NEW e \in S, NEW f \in S
  PROVE  Six(u, a, b, c, d, e, f)
  <1> DEFINE v == Append(Append(Append(u, a), b), c)
  <1>1. <<a, b, c>> \in Seq(S) /\ <<d, e, f>> \in Seq(S) /\ v \in Seq(S)
    BY AppendProperties
  <1>2. v = u \o <<a, b, c>>
    BY ConcatTuples
  <1>3. v \o <<d, e, f>> = Append(Append(Append(v, d), e), f)
    <2> HIDE DEF v
    <2>1. QED
      BY <1>1, ConcatTuples
  <1>4. <<a, b, c>> \o <<d, e, f>> = <<a, b, c, d, e, f>>
    <2>1. <<a, b, c>> \o <<d, e, f>> = Append(Append(Append(<<a, b, c>>, d), e), f)
      BY <1>1, ConcatTuples
    <2>2.Append(<<a, b, c>>, d) = <<a, b, c, d>>
      <3>1. <<a, b, c>> \in Seq(S) /\ Len(<<a, b, c>>) = 3 /\ <<a, b, c, d>> \in Seq(S) /\ Len(<<a, b, c, d>>) = 4
        OBVIOUS
      <3>2. PICK r : r = Append(<<a, b, c>>, d)
        OBVIOUS
      <3>3. r \in Seq(S) /\ Len(r) = 4 /\ r[1] = a /\ r[2] = b /\ r[3] = c /\ r[4] = d
        BY <3>1, <3>2, AppendProperties
      <3>4. \A i \in 1..4 : r[i] = <<a, b, c, d>>[i]
        BY <3>3
      <3>5. QED
        BY <3>1, <3>2, <3>3, <3>4, SeqEqual
    <2>3.Append(<<a, b, c, d>>, e) = <<a, b, c, d, e>>
      <3>1. <<a, b, c, d>> \in Seq(S) /\ Len(<<a, b, c, d>>) = 4 /\ <<a, b, c, d, e>> \in Seq(S) /\ Len(<<a, b, c, d, e>>) = 5
        OBVIOUS
      <3>2. PICK r : r = Append(<<a, b, c, d>>, e)
        OBVIOUS
      <3>3. r \in Seq(S) /\ Len(r) = 5 /\ r[1] = a /\ r[2] = b /\ r[3] = c /\ r[4] = d /\ r[5] = e
        BY <3>1, <3>2, AppendProperties
      <3>4. \A i \in 1..5 : r[i] = <<a, b, c, d, e>>[i]
        BY <3>3
      <3>5. QED
        BY <3>1, <3>2, <3>3, <3>4, SeqEqual
    <2>4.Append(<<a, b, c, d, e>>, f) = <<a, b, c, d, e, f>>
      <3>1. <<a, b, c, d, e>> \in Seq(S) /\ Len(<<a, b, c, d, e>>) = 5 /\ <<a, b, c, d, e, f>> \in Seq(S) /\ Len(<<a, b, c, d, e, f>>) = 6
        OBVIOUS
      <3>2. PICK r : r = Append(<<a, b, c, d, e>>, f)
        OBVIOUS
      <3>3. r \in Seq(S) /\ Len(r) = 6 /\ r[1] = a /\ r[2] = b /\ r[3] = c /\ r[4] = d /\ r[5] = e /\ r[6] = f
        BY <3>1, <3>2, AppendProperties
      <3>4. \A i \in 1..6 : r[i] = <<a, b, c, d, e, f>>[i]
        BY <3>3
      <3>5. QED
        BY <3>1, <3>2, <3>3, <3>4, SeqEqual
    <2>5. QED
      BY <2>1, <2>2, <2>3, <2>4
  <1>5. (u \o <<a, b, c>>) \o <<d, e, f>> = u \o (<<a, b, c>> \o <<d, e, f>>)
    BY <1>1, ConcatAssociative
  <1>6. QED
    BY <1>2, <1>3, <1>4, <1>5 DEF Six

(* A sequence of pieces, one more piece.                                   *)
Grows(p, q, m, x, S) == /\ m \in Nat /\ p \in [1..m -> Seq(S)] /\ q \in [1..m + 1 -> Seq(S)]
                        /\ x \in Seq(S)
                        /\ q[m + 1] = x /\ \A i \in 1..m : q[i] = p[i]

LEMMA PiecesAppend ==
  ASSUME NEW S, NEW m, NEW p, NEW x, NEW q, Grows(p, q, m, x, S)
  PROVE  /\ FlattenSeq(p) \in Seq(S)
         /\ FlattenSeq(q) = FlattenSeq(p) \o x
  <1>0. /\ m \in Nat /\ p \in [1..m -> Seq(S)] /\ q \in [1..m + 1 -> Seq(S)] /\ x \in Seq(S)
        /\ q[m + 1] = x /\ \A i \in 1..m : q[i] = p[i]
    BY DEF Grows
  <1>1. p \in Seq(Seq(S)) /\ Len(p) = m /\ q \in Seq(Seq(S)) /\ Len(q) = m + 1
    BY <1>0
  <1>2. /\ Append(p, x) \in Seq(Seq(S)) /\ Len(Append(p, x)) = m + 1
        /\ \A i \in 1..m : Append(p, x)[i] = p[i]
        /\ Append(p, x)[m + 1] = x
    BY <1>0, <1>1, AppendProperties
  <1>3. q = Append(p, x)
    <2>1. PICK r : r = Append(p, x)
      OBVIOUS
    <2>2. \A i \in 1..m + 1 : q[i] = r[i]
      <3>1. \A i \in 1..m + 1 : i = m + 1 \/ i \in 1..m
        BY <1>0
      <3>2. QED
        BY <1>0, <1>2, <2>1, <3>1
    <2>3. q = r
      BY <1>0, <1>1, <1>2, <2>1, <2>2, SeqEqual
    <2>4. QED
      BY <2>1, <2>3
  <1>4. QED
    BY <1>0, <1>1, <1>3, FlattenFacts

(* The signs, by name, and the texts in those names.                       *)
Token     == STRING \cup Names \cup Keywords \cup Punctuation \cup {Eof}
CommaSign == ","
SemiSign  == ";"
LeftSign  == "{"
RightSign == "}"

LEMMA Signs ==
  /\ CommaSign \in Token /\ SemiSign \in Token /\ LeftSign \in Token /\ RightSign \in Token
  /\ CommaSign # SemiSign /\ CommaSign # LeftSign /\ CommaSign # RightSign
  /\ CommaSign # "(" /\ CommaSign # ")" /\ CommaSign # "service" /\ CommaSign # "rpc"
  /\ CommaSign # "returns" /\ RightSign # "rpc"
  BY Zenon DEF CommaSign, SemiSign, LeftSign, RightSign, Token, Punctuation

LEMMA Words ==
  /\ "service" \in Token /\ "rpc" \in Token /\ "returns" \in Token
  /\ "(" \in Token /\ ")" \in Token /\ Eof \in Token
  /\ \A x : x \in STRING \/ x \in Keywords \/ x \in Names => x \in Token
  BY Zenon DEF Token, Keywords, Punctuation

LEMMA NotSigns ==
  /\ CommaSign \notin Names /\ CommaSign \notin Keywords /\ CommaSign # Eof
  /\ ")" \notin Names /\ ")" \notin Keywords /\ ")" # Eof
  /\ Eof \notin Names /\ Eof \notin Keywords
  <1>1. CommaSign \notin Keywords /\ ")" \notin Keywords /\ CommaSign # Eof /\ ")" # Eof
    BY Zenon DEF Keywords, CommaSign, Eof
  <1>2. CommaSign \in Punctuation /\ ")" \in Punctuation
    BY Zenon DEF Punctuation, CommaSign
  <1>3. \A x \in Names : x \notin Punctuation /\ x # Eof
    BY TokensAssumption, Zenon
  <1>4. Eof \notin Keywords
    BY DEF Eof, Keywords
  <1>5. QED
    BY <1>1, <1>2, <1>3, <1>4

ParameterText(i, p) == (IF i = 1 THEN <<>> ELSE <<CommaSign>>) \o <<p.type, p.name>>

LEMMA TextOfParameters ==
  \A ps : ParametersText(ps) =
    FlattenSeq([i \in DOMAIN ps |->
      ParameterText(i, ps[i])])
  BY Zenon DEF ParametersText, ParameterText, CommaSign

LEMMA TextOfMethod ==
  \A m : MethodText(m) = <<"rpc", m.name, "(">> \o ParametersText(m.parameters)
                           \o <<")", "returns", "(", m.return_type, ")", SemiSign>>
  BY Zenon DEF MethodText, SemiSign

LEMMA ParameterAppended ==
  ASSUME NEW ps \in Seq(Parameter), NEW p \in Parameter
  PROVE  /\ ParametersText(ps) \in Seq(Token)
         /\ ParametersText(Append(ps, p))
              = ParametersText(ps) \o ((IF ps = <<>> THEN <<>> ELSE <<CommaSign>>) \o <<p.type, p.name>>)
  <1> DEFINE n == Len(ps)
             pp == Append(ps, p)
             F == [i \in 1..n |-> ParameterText(i, ps[i])]
             G == [i \in 1..n + 1 |-> ParameterText(i, pp[i])]
  <1>1. /\ n \in Nat /\ Len(pp) = n + 1 /\ pp \in Seq(Parameter)
        /\ pp[n + 1] = p /\ \A i \in 1..n : pp[i] = ps[i]
    BY AppendProperties
  <1>2. \A i : \A x \in Parameter : ParameterText(i, x) \in Seq(Token)
    <2> SUFFICES ASSUME NEW i, NEW x \in Parameter
                 PROVE  ParameterText(i, x) \in Seq(Token)
      OBVIOUS
    <2>1. x.type \in Token /\ x.name \in Token
      BY Words DEF Parameter
    <2>2. <<x.type, x.name>> \in Seq(Token)
      BY <2>1
    <2>3. PICK c : c = IF i = 1 THEN <<>> ELSE <<CommaSign>>
      OBVIOUS
    <2>4. c \in Seq(Token)
      BY <2>3, Signs
    <2>5. QED
      BY <2>2, <2>3, <2>4, ConcatProperties DEF ParameterText
  <1>3. F \in [1..n -> Seq(Token)] /\ G \in [1..n + 1 -> Seq(Token)]
    <2>1. \A i \in 1..n : ps[i] \in Parameter
      OBVIOUS
    <2>2. \A i \in 1..n + 1 : pp[i] \in Parameter
      BY <1>1
    <2> HIDE DEF n, pp
    <2>3. \A i \in 1..n : ParameterText(i, ps[i]) \in Seq(Token)
      BY <1>2, <2>1
    <2>4. \A i \in 1..n + 1 : ParameterText(i, pp[i]) \in Seq(Token)
      BY <1>2, <2>2
    <2>5. QED
      BY <2>3, <2>4
  <1>4. (\A i \in 1..n : G[i] = F[i]) /\ G[n + 1] = ParameterText(n + 1, p)
    <2> HIDE DEF n, pp
    <2>1. \A i \in 1..n : i \in 1..n + 1
      BY <1>1
    <2>2. n + 1 \in 1..n + 1
      BY <1>1
    <2>3. QED
      BY <1>1, <2>1, <2>2
  <1>5. FlattenSeq(F) \in Seq(Token) /\ FlattenSeq(G) = FlattenSeq(F) \o ParameterText(n + 1, p)
    <2>1. ParameterText(n + 1, p) \in Seq(Token)
      BY <1>2
    <2> HIDE DEF F, G, n
    <2>2. PICK x : x = ParameterText(n + 1, p)
      OBVIOUS
    <2>3. n \in Nat /\ x \in Seq(Token) /\ G[n + 1] = x /\ \A i \in 1..n : G[i] = F[i]
      BY <1>1, <1>4, <2>1, <2>2
    <2>4. Grows(F, G, n, x, Token)
      BY <1>3, <2>3 DEF Grows
    <2>5. FlattenSeq(F) \in Seq(Token) /\ FlattenSeq(G) = FlattenSeq(F) \o x
      BY <2>4, PiecesAppend
    <2>6. QED
      BY <2>2, <2>5
  <1>6. ParametersText(ps) = FlattenSeq(F)
    BY TextOfParameters
  <1>7. ParametersText(pp) = FlattenSeq(G)
    <2>1. DOMAIN pp = 1..n + 1
      BY <1>1
    <2> HIDE DEF pp
    <2>2. QED
      BY <2>1, TextOfParameters
  <1>8. n + 1 = 1 <=> ps = <<>>
    BY <1>1
  <1>9. QED
    BY <1>5, <1>6, <1>7, <1>8 DEF ParameterText

MethodsText(ms) == FlattenSeq([i \in DOMAIN ms |-> MethodText(ms[i])])

LEMMA NoPieces == \A f : DOMAIN f = {} /\ f = [i \in DOMAIN f |-> f[i]] => f = <<>>
  OBVIOUS

LEMMA NoText == MethodsText(<<>>) = <<>> /\ ParametersText(<<>>) = <<>>
  <1>1. DOMAIN <<>> = {}
    OBVIOUS
  <1>2. [i \in DOMAIN <<>> |-> MethodText(<<>>[i])] = <<>>
    BY <1>1, NoPieces
  <1>3. [i \in DOMAIN <<>> |-> ParameterText(i, <<>>[i])] = <<>>
    BY <1>1, NoPieces
  <1>4. QED
    BY <1>2, <1>3, FlattenNone, TextOfParameters DEF MethodsText

LEMMA MethodTextIs ==
  ASSUME NEW m \in Method
  PROVE  MethodText(m) \in Seq(Token) /\ ParametersText(m.parameters) \in Seq(Token)
  <1>1. m.name \in Token /\ m.return_type \in Token /\ m.parameters \in Seq(Parameter)
    BY Words DEF Method
  <1>2. ParametersText(m.parameters) \in Seq(Token)
    <2>1. CASE m.parameters = <<>>
      <3>1. ParametersText(m.parameters) = <<>>
        BY <2>1, NoText
      <3>2. QED
        BY <3>1
    <2>2. CASE m.parameters # <<>>
      <3>1. m.parameters[1] \in Parameter
        BY <1>1, <2>2
      <3>2. QED
        BY <1>1, <3>1, ParameterAppended
    <2>3. QED
      BY <2>1, <2>2
  <1>3. <<"rpc", m.name, "(">> \in Seq(Token)
        /\ <<")", "returns", "(", m.return_type, ")", SemiSign>> \in Seq(Token)
    BY <1>1, Signs, Words
  <1>4. QED
    BY <1>2, <1>3, ConcatProperties, TextOfMethod

LEMMA MethodAppended ==
  ASSUME NEW ms \in Seq(Method), NEW m \in Method
  PROVE  /\ MethodsText(ms) \in Seq(Token)
         /\ MethodsText(Append(ms, m)) = MethodsText(ms) \o MethodText(m)
  <1> DEFINE n == Len(ms)
             mm == Append(ms, m)
             F == [i \in 1..n |-> MethodText(ms[i])]
             G == [i \in 1..n + 1 |-> MethodText(mm[i])]
  <1>1. /\ n \in Nat /\ Len(mm) = n + 1 /\ mm \in Seq(Method)
        /\ mm[n + 1] = m /\ \A i \in 1..n : mm[i] = ms[i]
    BY AppendProperties
  <1>2. \A x \in Method : MethodText(x) \in Seq(Token)
    BY MethodTextIs
  <1>3. F \in [1..n -> Seq(Token)] /\ G \in [1..n + 1 -> Seq(Token)]
    <2>1. \A i \in 1..n : ms[i] \in Method
      OBVIOUS
    <2>2. \A i \in 1..n + 1 : mm[i] \in Method
      BY <1>1
    <2> HIDE DEF n, mm
    <2>3. QED
      BY <1>2, <2>1, <2>2
  <1>4. (\A i \in 1..n : G[i] = F[i]) /\ G[n + 1] = MethodText(m)
    <2> HIDE DEF n, mm
    <2>1. \A i \in 1..n : i \in 1..n + 1
      BY <1>1
    <2>2. n + 1 \in 1..n + 1
      BY <1>1
    <2>3. QED
      BY <1>1, <2>1, <2>2
  <1>5. FlattenSeq(F) \in Seq(Token) /\ FlattenSeq(G) = FlattenSeq(F) \o MethodText(m)
    <2>1. MethodText(m) \in Seq(Token)
      BY <1>2
    <2> HIDE DEF F, G, n
    <2>2. PICK x : x = MethodText(m)
      OBVIOUS
    <2>3. n \in Nat /\ x \in Seq(Token) /\ G[n + 1] = x /\ \A i \in 1..n : G[i] = F[i]
      BY <1>1, <1>4, <2>1, <2>2
    <2>4. Grows(F, G, n, x, Token)
      BY <1>3, <2>3 DEF Grows
    <2>5. FlattenSeq(F) \in Seq(Token) /\ FlattenSeq(G) = FlattenSeq(F) \o x
      BY <2>4, PiecesAppend
    <2>6. QED
      BY <2>2, <2>5
  <1>6. MethodsText(ms) = FlattenSeq(F)
    BY DEF MethodsText
  <1>7. MethodsText(mm) = FlattenSeq(G)
    <2>1. DOMAIN mm = 1..n + 1
      BY <1>1
    <2> HIDE DEF mm
    <2>2. QED
      BY <2>1 DEF MethodsText
  <1>8. QED
    BY <1>5, <1>6, <1>7

(* Plain, one token at a time: a comma is dropped when its parenthesis     *)
(* comes.                                                                  *)
PlainOf(tokens, comma, close) ==
  FlattenSeq([i \in DOMAIN tokens |->
    IF i < Len(tokens) /\ tokens[i] = comma /\ tokens[i + 1] = close THEN <<>> ELSE <<tokens[i]>>])

PlainGrows(t, x, comma, close, S) ==
  /\ PlainOf(t, comma, close) \in Seq(S)
  /\ t = <<>> \/ t[Len(t)] # comma \/ x # close =>
       PlainOf(Append(t, x), comma, close) = Append(PlainOf(t, comma, close), x)
  /\ t # <<>> /\ t[Len(t)] = comma /\ x = close =>
       \E u \in Seq(S) : /\ PlainOf(t, comma, close) = Append(u, comma)
                         /\ PlainOf(Append(t, x), comma, close) = Append(u, x)

LEMMA PlainOfFacts ==
  ASSUME NEW S, NEW t \in Seq(S), NEW x \in S, NEW comma \in S, NEW close
  PROVE  PlainGrows(t, x, comma, close, S)
  <1> DEFINE n == Len(t)
             tx == Append(t, x)
             Piece(w, k, i) == IF i < k /\ w[i] = comma /\ w[i + 1] = close THEN <<>> ELSE <<w[i]>>
             F == [i \in 1..n |-> Piece(t, n, i)]
             G == [i \in 1..n + 1 |-> Piece(tx, n + 1, i)]
  <1>1. /\ n \in Nat /\ tx \in Seq(S) /\ Len(tx) = n + 1 /\ tx[n + 1] = x
        /\ \A i \in 1..n : tx[i] = t[i] /\ t[i] \in S
    BY AppendProperties
  <1>2. PlainOf(t, comma, close) = FlattenSeq(F) /\ PlainOf(tx, comma, close) = FlattenSeq(G)
    <2>1. DOMAIN t = 1..n /\ DOMAIN tx = 1..n + 1
      BY <1>1
    <2> HIDE DEF tx
    <2>2. QED
      BY <1>1, <2>1 DEF PlainOf
  <1> HIDE DEF n, tx
  <1>3. F \in [1..n -> Seq(S)] /\ G \in [1..n + 1 -> Seq(S)]
    <2>1. ASSUME NEW i \in 1..n  PROVE  F[i] \in Seq(S)
      <3>1. t[i] \in S
        BY <1>1
      <3>2. <<t[i]>> \in Seq(S) /\ <<>> \in Seq(S)
        BY <3>1
      <3>3. QED
        BY <3>2
    <2>2. ASSUME NEW i \in 1..n + 1  PROVE  G[i] \in Seq(S)
      <3>1. tx[i] \in S
        BY <1>1
      <3>2. <<tx[i]>> \in Seq(S) /\ <<>> \in Seq(S)
        BY <3>1
      <3>3. QED
        BY <3>2
    <2>3. QED
      BY <2>1, <2>2
  <1>4. G[n + 1] = <<x>>
    <2>1. n + 1 \in 1..n + 1 /\ ~ (n + 1 < n + 1)
      BY <1>1
    <2>2. QED
      BY <1>1, <2>1
  <1>5. \A i \in 1..n : i < n => G[i] = F[i]
    <2> SUFFICES ASSUME NEW i \in 1..n, i < n
                 PROVE  G[i] = F[i]
      OBVIOUS
    <2>1. i \in 1..n + 1 /\ i + 1 \in 1..n /\ i < n + 1
      BY <1>1
    <2>2. tx[i] = t[i] /\ tx[i + 1] = t[i + 1]
      BY <1>1, <2>1
    <2>3. QED
      BY <2>1, <2>2
  <1>6. n # 0 => G[n] = (IF t[n] = comma /\ x = close THEN <<>> ELSE <<t[n]>>) /\ F[n] = <<t[n]>>
    <2> SUFFICES ASSUME n # 0
                 PROVE  G[n] = (IF t[n] = comma /\ x = close THEN <<>> ELSE <<t[n]>>)
                        /\ F[n] = <<t[n]>>
      OBVIOUS
    <2>1. n \in 1..n /\ n \in 1..n + 1 /\ n < n + 1 /\ ~ (n < n)
      BY <1>1
    <2>2. tx[n] = t[n] /\ tx[n + 1] = x
      BY <1>1, <2>1
    <2>3. QED
      BY <2>1, <2>2
  <1>7. <<x>> \in Seq(S)
    OBVIOUS
  <1> HIDE DEF F, G
  <1>8. PlainOf(t, comma, close) \in Seq(S)
    <2> DEFINE H == [i \in 1..n + 1 |-> IF i = n + 1 THEN <<x>> ELSE F[i]]
    <2>1. H \in [1..n + 1 -> Seq(S)] /\ (\A i \in 1..n : H[i] = F[i]) /\ H[n + 1] = <<x>>
      <3>1. \A i \in 1..n : i \in 1..n + 1 /\ i # n + 1
        BY <1>1
      <3>2. n + 1 \in 1..n + 1 /\ \A i \in 1..n + 1 : i # n + 1 => i \in 1..n
        BY <1>1
      <3>3. QED
        BY <1>3, <1>7, <3>1, <3>2
    <2> HIDE DEF H
    <2>2. FlattenSeq(F) \in Seq(S)
      <3>1. PICK y : y = <<x>>
        OBVIOUS
      <3>2. Grows(F, H, n, y, S)
        BY <1>1, <1>3, <1>7, <2>1, <3>1 DEF Grows
      <3>3. QED
        BY <3>2, PiecesAppend
    <2>3. QED
      BY <1>2, <2>2
  <1>9. ASSUME t = <<>> \/ t[Len(t)] # comma \/ x # close
        PROVE  PlainOf(tx, comma, close) = Append(PlainOf(t, comma, close), x)
    <2>1. \A i \in 1..n : G[i] = F[i]
      <3>1. n # 0 => t # <<>> /\ n = Len(t)
        BY <1>1 DEF n
      <3>2. n # 0 => G[n] = F[n]
        BY <1>6, <1>9, <3>1
      <3>3. \A i \in 1..n : i < n \/ (i = n /\ n # 0)
        BY <1>1
      <3>4. QED
        BY <1>5, <3>2, <3>3
    <2>2. FlattenSeq(G) = FlattenSeq(F) \o <<x>>
      <3>1. PICK y : y = <<x>>
        OBVIOUS
      <3>2. n \in Nat /\ y \in Seq(S) /\ G[n + 1] = y
        BY <1>1, <1>4, <1>7, <3>1
      <3>3. Grows(F, G, n, y, S)
        BY <1>3, <2>1, <3>2 DEF Grows
      <3>4. FlattenSeq(G) = FlattenSeq(F) \o y
        BY <3>3, PiecesAppend
      <3>5. QED
        BY <3>1, <3>4
    <2>3. QED
      BY <1>2, <1>8, <2>2, AppendIsConcat
  <1>10. ASSUME t # <<>>, t[Len(t)] = comma, x = close
         PROVE  \E u \in Seq(S) : PlainOf(t, comma, close) = Append(u, comma) /\ PlainOf(tx, comma, close) = Append(u, x)
    <2>1. n # 0 /\ t[n] = comma
      BY <1>1, <1>10 DEF n
    <2>2. PICK k \in Nat : n = k + 1
      <3>1. n - 1 \in Nat /\ n = (n - 1) + 1
        BY <1>1, <2>1
      <3>2. QED
        BY <3>1
    <2> DEFINE E == [i \in 1..k |-> F[i]]
               D == [i \in 1..k + 1 |-> G[i]]
    <2>3. /\ E \in [1..k -> Seq(S)] /\ D \in [1..k + 1 -> Seq(S)]
          /\ \A i \in 1..k : F[i] = E[i] /\ D[i] = E[i]
          /\ \A i \in 1..k + 1 : G[i] = D[i]
          /\ F[k + 1] = <<comma>> /\ D[k + 1] = <<>>
      <3>1. /\ \A i \in 1..k : i \in 1..n /\ i < n /\ i \in 1..k + 1 /\ i \in 1..n + 1
            /\ \A i \in 1..k + 1 : i \in 1..n + 1
            /\ k + 1 \in 1..k + 1
        BY <2>2
      <3>2. F[k + 1] = <<comma>> /\ G[k + 1] = <<>>
        BY <1>6, <1>10, <2>1, <2>2
      <3>3. \A i \in 1..k : G[i] = F[i]
        BY <1>5, <3>1
      <3>4. QED
        BY <1>3, <3>1, <3>2, <3>3
    <2> HIDE DEF E, D
    <2>4. <<>> \in Seq(S) /\ <<comma>> \in Seq(S)
      OBVIOUS
    <2>5. FlattenSeq(E) \in Seq(S) /\ FlattenSeq(F) = FlattenSeq(E) \o <<comma>>
      <3>1. F \in [1..k + 1 -> Seq(S)]
        BY <1>3, <2>2
      <3>2. PICK y : y = <<comma>>
        OBVIOUS
      <3>3. y \in Seq(S) /\ F[k + 1] = y /\ \A i \in 1..k : F[i] = E[i]
        BY <2>3, <2>4, <3>2
      <3>4. Grows(E, F, k, y, S)
        BY <2>2, <2>3, <3>1, <3>3 DEF Grows
      <3>5. FlattenSeq(E) \in Seq(S) /\ FlattenSeq(F) = FlattenSeq(E) \o y
        BY <3>4, PiecesAppend
      <3>6. QED
        BY <3>2, <3>5
    <2>6. FlattenSeq(D) = FlattenSeq(E) \o <<>>
      <3>1. PICK y : y = <<>>
        OBVIOUS
      <3>2. y \in Seq(S) /\ D[k + 1] = y /\ \A i \in 1..k : D[i] = E[i]
        BY <2>3, <2>4, <3>1
      <3>3. Grows(E, D, k, y, S)
        BY <2>2, <2>3, <3>2 DEF Grows
      <3>4. FlattenSeq(D) = FlattenSeq(E) \o y
        BY <3>3, PiecesAppend
      <3>5. QED
        BY <3>1, <3>4
    <2>7. FlattenSeq(G) = FlattenSeq(D) \o <<x>>
      <3>1. G \in [1..(k + 1) + 1 -> Seq(S)] /\ G[(k + 1) + 1] = <<x>> /\ k + 1 \in Nat
        BY <1>3, <1>4, <2>2
      <3>2. PICK y, j : y = <<x>> /\ j = k + 1 /\ j \in Nat
        <4>1. k + 1 \in Nat
          BY <2>2
        <4>2. QED
          BY <4>1
      <3>3. y \in Seq(S) /\ G \in [1..j + 1 -> Seq(S)] /\ G[j + 1] = y
            /\ D \in [1..j -> Seq(S)] /\ \A i \in 1..j : G[i] = D[i]
        BY <1>7, <2>3, <3>1, <3>2
      <3>4. Grows(D, G, j, y, S)
        BY <3>2, <3>3 DEF Grows
      <3>5. FlattenSeq(G) = FlattenSeq(D) \o y
        BY <3>4, PiecesAppend
      <3>6. QED
        BY <3>2, <3>5
    <2>8. FlattenSeq(D) = FlattenSeq(E)
      BY <2>5, <2>6, ConcatEmptySeq
    <2>9. /\ FlattenSeq(E) \o <<comma>> = Append(FlattenSeq(E), comma)
          /\ FlattenSeq(E) \o <<x>> = Append(FlattenSeq(E), x)
      BY <2>5, AppendIsConcat
    <2>10. QED
      BY <1>2, <2>5, <2>7, <2>8, <2>9
  <1>11. QED
    BY <1>8, <1>9, <1>10 DEF tx, n, PlainGrows

LEMMA PlainIs == \A w : Plain(w) = PlainOf(w, CommaSign, ")")
  BY Zenon DEF Plain, PlainOf, CommaSign

-----------------------------------------------------------------------------
(* The text of a tree in the making *)

ServiceHead(name, ms) == <<"service", name, LeftSign>> \o MethodsText(ms)
MethodHead(name, ms, m) ==
  (ServiceHead(name, ms) \o <<"rpc", m.name, "(">>) \o ParametersText(m.parameters)

Returning(u)    == Append(Append(Append(u, ")"), "returns"), "(")
Returned(u, t)  == Append(Append(Returning(u), t), ")")

(* What was written when the descent stands here, for a service of this    *)
(* name with these methods, a method and a parameter type; comma tells     *)
(* whether a comma was the last token.                                     *)
Upto(here, name, ms, m, t, comma) ==
  CASE here = "service"        -> <<>>
    [] here = "service_name"   -> <<"service">>
    [] here = "open_brace"     -> <<"service", name>>
    [] here = "methods"        -> ServiceHead(name, ms)
    [] here = "method_name"    -> Append(ServiceHead(name, ms), "rpc")
    [] here = "open_paren"     -> Append(Append(ServiceHead(name, ms), "rpc"), m.name)
    [] here = "parameters"     -> IF comma THEN Append(MethodHead(name, ms, m), CommaSign)
                                           ELSE MethodHead(name, ms, m)
    [] here = "parameter_name" -> IF m.parameters = <<>>
                                  THEN Append(MethodHead(name, ms, m), t)
                                  ELSE Append(Append(MethodHead(name, ms, m), CommaSign), t)
    [] here = "separator"      -> MethodHead(name, ms, m)
    [] here = "returns"        -> Append(MethodHead(name, ms, m), ")")
    [] here = "open_type"      -> Append(Append(MethodHead(name, ms, m), ")"), "returns")
    [] here = "return_type"    -> Returning(MethodHead(name, ms, m))
    [] here = "close_type"     -> Append(Returning(MethodHead(name, ms, m)), m.return_type)
    [] here = "semicolon"      -> Returned(MethodHead(name, ms, m), m.return_type)
    [] OTHER                   -> Append(ServiceHead(name, ms), RightSign)

LEMMA HeadsAre ==
  ASSUME NEW name \in Token, NEW ms \in Seq(Method), NEW m \in Method
  PROVE  /\ ServiceHead(name, ms) \in Seq(Token) /\ MethodHead(name, ms, m) \in Seq(Token)
         /\ ServiceHead(name, <<>>) = Append(<<"service", name>>, LeftSign)
         /\ m.parameters = <<>> =>
              MethodHead(name, ms, m)
                = Append(Append(Append(ServiceHead(name, ms), "rpc"), m.name), "(")
  <1>1. <<"service", name, LeftSign>> \in Seq(Token) /\ m.name \in Token
    BY Signs, Words DEF Method
  <1>2. MethodsText(ms) \in Seq(Token) /\ ParametersText(m.parameters) \in Seq(Token)
    BY MethodAppended, MethodTextIs
  <1>3. ServiceHead(name, ms) \in Seq(Token)
    BY <1>1, <1>2, ConcatProperties DEF ServiceHead
  <1>4. <<"rpc", m.name, "(">> \in Seq(Token)
    BY <1>1, Words
  <1>5. ServiceHead(name, ms) \o <<"rpc", m.name, "(">> \in Seq(Token)
    BY <1>3, <1>4, ConcatProperties
  <1>6. MethodHead(name, ms, m) \in Seq(Token)
    BY <1>2, <1>5, ConcatProperties DEF MethodHead
  <1>7. ServiceHead(name, <<>>) = Append(<<"service", name>>, LeftSign)
    <2>1. ServiceHead(name, <<>>) = <<"service", name, LeftSign>> \o <<>>
      BY NoText DEF ServiceHead
    <2>2. ServiceHead(name, <<>>) = <<"service", name, LeftSign>>
      BY <1>1, <2>1, ConcatEmptySeq
    <2>3. <<"service", name, LeftSign>> = Append(<<"service", name>>, LeftSign)
      OBVIOUS
    <2>4. QED
      BY <2>2, <2>3
  <1>8. ASSUME m.parameters = <<>>
        PROVE  MethodHead(name, ms, m)
                 = Append(Append(Append(ServiceHead(name, ms), "rpc"), m.name), "(")
    <2>1. MethodHead(name, ms, m) = (ServiceHead(name, ms) \o <<"rpc", m.name, "(">>) \o <<>>
      BY <1>8, NoText DEF MethodHead
    <2>2. MethodHead(name, ms, m) = ServiceHead(name, ms) \o <<"rpc", m.name, "(">>
      BY <1>5, <2>1, ConcatEmptySeq
    <2>3. QED
      BY <1>1, <1>3, <2>2, ConcatTuples, Words
  <1>9. QED
    BY <1>3, <1>6, <1>7, <1>8

LEMMA SixSigned ==
  ASSUME NEW u, NEW t, u \in Seq(Token), t \in Token
  PROVE  u \o <<")", "returns", "(", t, ")", SemiSign>>
           = Append(Append(Append(Append(Append(Append(u, ")"), "returns"), "("), t), ")"), SemiSign)
  <1>1. Six(u, ")", "returns", "(", t, ")", SemiSign)
    BY ConcatSix, Words, Signs
  <1>2. QED
    BY <1>1 DEF Six

Three(u, a, b, c) == u \o <<a, b, c>> = Append(Append(Append(u, a), b), c)

LEMMA ThreeTokens ==
  ASSUME NEW u, NEW a, NEW b, NEW c, u \in Seq(Token), a \in Token, b \in Token, c \in Token
  PROVE  Three(u, a, b, c)
  BY ConcatTuples DEF Three

LEMMA OneTwo ==
  ASSUME NEW c, NEW a, NEW b, c \in Token, a \in Token, b \in Token
  PROVE  <<c>> \o <<a, b>> = <<c, a, b>>
  <1>1. <<c>> \in Seq(Token)
    OBVIOUS
  <1>2. <<a,b>> \in Seq(Token)
    OBVIOUS
  <1>5. <<c,a,b>> \in Seq(Token)
    OBVIOUS
  <1>3. PICK r : r = <<c>> \o <<a, b>>
    OBVIOUS
  <1>4. r \in Seq(Token) /\ Len(r) = 3 /\ r[1] = c /\ r[2] = a /\ r[3] = b
    BY <1>1, <1>2, <1>3, ConcatProperties
  <1>6. \A i \in 1..3 : r[i] = <<c, a, b>>[i]
    BY <1>4
  <1>7. Len(<<c, a, b>>) = 3
    OBVIOUS
  <1>8. QED
    BY <1>3, <1>4, <1>5, <1>6, <1>7, SeqEqual

(* Concatenation, by name.                                                 *)
Cat(u, v) == u \o v

LEMMA CatFacts ==
  \A a, b, c \in Seq(Token) : Cat(a, Cat(b, c)) = Cat(Cat(a, b), c) /\ Cat(a, b) \in Seq(Token)
  BY ConcatAssociative, ConcatProperties DEF Cat

Regrouped(h, u, v, w, z) == h \o (u \o ((v \o w) \o z)) = (((h \o u) \o v) \o w) \o z

LEMMA Regroup ==
  ASSUME NEW h, NEW u, NEW v, NEW w, NEW z, h \in Seq(Token), u \in Seq(Token), v \in Seq(Token),
         w \in Seq(Token), z \in Seq(Token)
  PROVE  Regrouped(h, u, v, w, z)
  <1>1. Cat(v, w) \in Seq(Token) /\ Cat(h, u) \in Seq(Token) /\ Cat(Cat(v, w), z) \in Seq(Token)
    BY CatFacts
  <1>2. Cat(h, Cat(u, Cat(Cat(v, w), z))) = Cat(Cat(h, u), Cat(Cat(v, w), z))
    BY <1>1, CatFacts
  <1>3. Cat(Cat(h, u), Cat(Cat(v, w), z)) = Cat(Cat(Cat(h, u), Cat(v, w)), z)
    BY <1>1, CatFacts
  <1>4. Cat(Cat(h, u), Cat(v, w)) = Cat(Cat(Cat(h, u), v), w)
    BY <1>1, CatFacts
  <1>5. Cat(h, Cat(u, Cat(Cat(v, w), z))) = Cat(Cat(Cat(Cat(h, u), v), w), z)
    BY <1>2, <1>3, <1>4
  <1>6. QED
    BY <1>5 DEF Cat, Regrouped

(* One more parameter, and one more method.                                *)
Grown(name, ms, m, n, t, x) ==
  /\ m.parameters = <<>> =>
       MethodHead(name, ms, n) = Append(Append(MethodHead(name, ms, m), t), x)
  /\ m.parameters # <<>> =>
       MethodHead(name, ms, n) = Append(Append(Append(MethodHead(name, ms, m), CommaSign), t), x)

LEMMA HeadsGrow ==
  ASSUME NEW name \in Token, NEW ms \in Seq(Method), NEW m \in Method, NEW n \in Method,
         NEW t \in Keywords, NEW x \in Names, NEW p, p = [type |-> t, name |-> x],
         n.name = m.name, n.parameters = Append(m.parameters, p)
  PROVE  Grown(name, ms, m, n, t, x)
  <1>1. p \in Parameter /\ p.type = t /\ p.name = x /\ t \in Token /\ x \in Token
    BY Words DEF Parameter
  <1>2. m.parameters \in Seq(Parameter)
    BY DEF Method
  <1> DEFINE r == ServiceHead(name, ms) \o <<"rpc", m.name, "(">>
             v == ParametersText(m.parameters)
  <1>3. r \in Seq(Token) /\ v \in Seq(Token)
    <2>1. ServiceHead(name, ms) \in Seq(Token) /\ m.name \in Token
      BY HeadsAre, Words DEF Method
    <2>2. <<"rpc", m.name, "(">> \in Seq(Token)
      BY <2>1, Words
    <2>3. QED
      BY <2>1, <2>2, ConcatProperties, MethodTextIs
  <1>4. MethodHead(name, ms, m) = r \o v /\ MethodHead(name, ms, n) = r \o ParametersText(n.parameters)
    BY DEF MethodHead
  <1>5. ParametersText(n.parameters)
          = v \o ((IF m.parameters = <<>> THEN <<>> ELSE <<CommaSign>>) \o <<t, x>>)
    <2>1. PICK ps \in Seq(Parameter) : ps = m.parameters
      BY <1>2
    <2>2. ParametersText(Append(ps, p))
            = ParametersText(ps) \o ((IF ps = <<>> THEN <<>> ELSE <<CommaSign>>) \o <<p.type, p.name>>)
      BY <1>1, ParameterAppended
    <2>3. QED
      BY <1>1, <2>1, <2>2
  <1> HIDE DEF r, v
  <1>6. r \o v \in Seq(Token)
    BY <1>3, ConcatProperties
  <1>7. ASSUME m.parameters = <<>>
        PROVE  MethodHead(name, ms, n) = Append(Append(MethodHead(name, ms, m), t), x)
    <2>1. <<t, x>> \in Seq(Token)
      BY <1>1
    <2>2. <<>> \o <<t, x>> = <<t, x>>
      BY <2>1, ConcatEmptySeq
    <2>3. MethodHead(name, ms, n) = r \o (v \o <<t, x>>)
      BY <1>4, <1>5, <1>7, <2>2
    <2>4. MethodHead(name, ms, n) = (r \o v) \o <<t, x>>
      BY <1>3, <2>1, <2>3, ConcatAssociative
    <2>5. QED
      BY <1>1, <1>4, <1>6, <2>4, ConcatTuples
  <1>8. ASSUME m.parameters # <<>>
        PROVE  MethodHead(name, ms, n)
                 = Append(Append(Append(MethodHead(name, ms, m), CommaSign), t), x)
    <2>1. <<CommaSign>> \o <<t, x>> = <<CommaSign, t, x>> /\ <<CommaSign, t, x>> \in Seq(Token)
      BY <1>1, OneTwo, Signs
    <2>2. MethodHead(name, ms, n) = Cat(r, Cat(v, <<CommaSign, t, x>>))
      BY <1>4, <1>5, <1>8, <2>1 DEF Cat
    <2>3. MethodHead(name, ms, n) = Cat(Cat(r, v), <<CommaSign, t, x>>)
      BY <1>3, <2>1, <2>2, CatFacts
    <2>4. MethodHead(name, ms, n) = (r \o v) \o <<CommaSign, t, x>>
      BY <2>3 DEF Cat
    <2>5. QED
      <3>1. Three(r \o v, CommaSign, t, x)
        BY <1>1, <1>6, ThreeTokens, Signs
      <3>2. QED
        BY <1>4, <2>4, <3>1 DEF Three
  <1>9. QED
    BY <1>7, <1>8 DEF Grown

LEMMA ServiceGrows ==
  ASSUME NEW name \in Token, NEW ms \in Seq(Method), NEW m \in Method
  PROVE  ServiceHead(name, Append(ms, m))
           = Append(Returned(MethodHead(name, ms, m), m.return_type), SemiSign)
  <1>1. m.name \in Token /\ m.return_type \in Token
    BY Words DEF Method
  <1>2. PICK h, u, v, w, z :
          /\ h = <<"service", name, LeftSign>> /\ u = MethodsText(ms)
          /\ v = <<"rpc", m.name, "(">> /\ w = ParametersText(m.parameters)
          /\ z = <<")", "returns", "(", m.return_type, ")", SemiSign>>
    OBVIOUS
  <1>3. /\ h \in Seq(Token) /\ u \in Seq(Token) /\ v \in Seq(Token) /\ w \in Seq(Token)
        /\ z \in Seq(Token)
    BY <1>1, <1>2, Words, Signs, MethodAppended, MethodTextIs
  <1>4. ServiceHead(name, Append(ms, m)) = h \o (u \o ((v \o w) \o z))
    <2>1. MethodText(m) = (v \o w) \o z
      BY <1>2, TextOfMethod
    <2>2. MethodsText(Append(ms, m)) = u \o MethodText(m)
      BY <1>2, MethodAppended
    <2>3. QED
      BY <1>2, <2>1, <2>2 DEF ServiceHead
  <1>5. MethodHead(name, ms, m) = ((h \o u) \o v) \o w
    BY <1>2 DEF MethodHead, ServiceHead
  <1>6. h \o (u \o ((v \o w) \o z)) = (((h \o u) \o v) \o w) \o z
    <2>1. Regrouped(h, u, v, w, z)
      BY <1>3, Regroup
    <2>2. QED
      BY <2>1 DEF Regrouped
  <1>7. QED
    <2>1. MethodHead(name, ms, m) \in Seq(Token)
      BY HeadsAre
    <2>2. PICK b : b = MethodHead(name, ms, m)
      OBVIOUS
    <2>3. b \o z = Append(Append(Append(Append(Append(Append(b, ")"), "returns"), "("),
                                        m.return_type), ")"), SemiSign)
      BY <1>1, <1>2, <2>1, <2>2, SixSigned
    <2>4. QED
      BY <1>4, <1>5, <1>6, <2>2, <2>3 DEF Returned, Returning

LEMMA TextIs ==
  ASSUME NEW s, s.name \in Token, s.methods \in Seq(Method)
  PROVE  Text(s) = Append(ServiceHead(s.name, s.methods), RightSign)
  <1>1. Text(s) = ServiceHead(s.name, s.methods) \o <<RightSign>>
    BY Zenon DEF Text, ServiceHead, MethodsText, LeftSign, RightSign
  <1>2. PICK m : m \in Method
    <2>1. NoMethod \in Method
      BY DEF NoMethod, Method
    <2>2. QED
      BY <2>1
  <1>3. ServiceHead(s.name, s.methods) \in Seq(Token)
    BY <1>2, HeadsAre
  <1>4. QED
    BY <1>1, <1>3, ConcatTuples, Signs

-----------------------------------------------------------------------------
(* What the parser has read *)

Consumed   == SubSeq(source, 1, pos)
Read       == Plain(Consumed)
AfterComma == pos > 0 /\ source[pos] = CommaSign

SourceOK == source \in Seq(Token) /\ pos \in Nat /\ pos <= Len(source)

LEMMA PrefixGrows ==
  ASSUME NEW S, NEW s, NEW p, s \in Seq(S), p \in Nat, p < Len(s)
  PROVE  /\ SubSeq(s, 1, p) \in Seq(S) /\ Len(SubSeq(s, 1, p)) = p
         /\ \A i \in 1..p : SubSeq(s, 1, p)[i] = s[i]
         /\ SubSeq(s, 1, p + 1) = Append(SubSeq(s, 1, p), s[p + 1])
  <1>1. PICK n : n = Len(s) /\ n \in Nat
    OBVIOUS
  <1>2. PICK u, v : u = SubSeq(s, 1, p) /\ v = SubSeq(s, 1, p + 1)
    OBVIOUS
  <1>3. p + 1 \in 1..n /\ s[p + 1] \in S
    BY <1>1
  <1>4. u \in Seq(S) /\ Len(u) = p /\ \A i \in 1..p : u[i] = s[i]
    BY <1>1, <1>2, <1>3, SubSeqProperties
  <1>5. v \in Seq(S) /\ Len(v) = p + 1 /\ \A i \in 1..p + 1 : v[i] = s[i]
    BY <1>1, <1>2, <1>3, SubSeqProperties
  <1>6. PICK x, w : x = s[p + 1] /\ w = Append(u, x)
    OBVIOUS
  <1>7. /\ w \in Seq(S) /\ Len(w) = p + 1 /\ w[p + 1] = x
        /\ \A i \in 1..p : w[i] = u[i]
    BY <1>3, <1>4, <1>6, AppendProperties
  <1>8. \A i \in 1..p + 1 : w[i] = v[i]
    <2>1. \A i \in 1..p + 1 : i \in 1..p \/ i = p + 1
      OBVIOUS
    <2>2. v[p + 1] = x
      BY <1>5, <1>6
    <2>3. \A i \in 1..p : v[i] = s[i]
      BY <1>5
    <2>4. QED
      BY <1>4, <1>7, <2>1, <2>2, <2>3
  <1>9. w = v
    BY <1>5, <1>7, <1>8, SeqEqual
  <1>10. QED
    BY <1>2, <1>4, <1>6, <1>9

LEMMA ExpectsNamed ==
  Expects = [service        |-> {"service"},
             service_name   |-> Names,
             open_brace     |-> {LeftSign},
             methods        |-> {RightSign, "rpc"},
             method_name    |-> Names,
             open_paren     |-> {"("},
             parameters     |-> {")"} \cup Keywords,
             parameter_name |-> Names,
             separator      |-> {")", CommaSign},
             returns        |-> {"returns"},
             open_type      |-> {"("},
             return_type    |-> Keywords,
             close_type     |-> {")"},
             semicolon      |-> {SemiSign}]
  BY Zenon DEF Expects, LeftSign, RightSign, CommaSign, SemiSign

LEMMA ExpectsAre ==
  /\ Expects["service"] = {"service"} /\ Expects["service_name"] = Names
  /\ Expects["open_brace"] = {LeftSign} /\ Expects["methods"] = {RightSign, "rpc"}
  /\ Expects["method_name"] = Names /\ Expects["open_paren"] = {"("}
  /\ Expects["parameters"] = {")"} \cup Keywords /\ Expects["parameter_name"] = Names
  /\ Expects["separator"] = {")", CommaSign} /\ Expects["returns"] = {"returns"}
  /\ Expects["open_type"] = {"("} /\ Expects["return_type"] = Keywords
  /\ Expects["close_type"] = {")"} /\ Expects["semicolon"] = {SemiSign}
  BY ExpectsNamed

LEMMA NeverEof == \A here \in Descent : Eof \notin Expects[here]
  <1>1. /\ Eof # "service" /\ Eof # "rpc" /\ Eof # "(" /\ Eof # ")" /\ Eof # "returns"
        /\ Eof # LeftSign /\ Eof # RightSign /\ Eof # CommaSign /\ Eof # SemiSign
    BY Zenon DEF Eof, LeftSign, RightSign, CommaSign, SemiSign
  <1>2. QED
    BY <1>1, DescentIs, ExpectsAre, NotSigns DEF InMethod

LEMMA TokenRead ==
  ASSUME SourceOK, NEW here \in Descent, NEW there, Take(here, there)
  PROVE  /\ at = here /\ at' = there /\ source' = source /\ curr_token \in Expects[here]
         /\ SourceOK' /\ curr_token \in Token
         /\ Read \in Seq(Token) /\ Read' \in Seq(Token)
         /\ AfterComma' <=> curr_token = CommaSign
         /\ ~ AfterComma \/ curr_token # ")" => Read' = Append(Read, curr_token)
         /\ AfterComma /\ curr_token = ")" =>
              \E u : u \in Seq(Token) /\ Read = Append(u, CommaSign) /\ Read' = Append(u, ")")
  <1>1. /\ at = here /\ at' = there /\ source' = source /\ curr_token \in Expects[here]
        /\ pos' = pos + 1
    BY DEF Take, Advance
  <1>2. source \in Seq(Token) /\ pos \in Nat /\ pos <= Len(source)
    BY DEF SourceOK
  <1>3. pos < Len(source) /\ curr_token = source[pos + 1]
    <2>1. Eof \notin Expects[here]
      BY NeverEof
    <2>2. curr_token # Eof
      BY <1>1, <2>1
    <2>3. QED
      BY <2>2 DEF curr_token
  <1>4. PICK p, s, n : p = pos /\ s = source /\ n = Len(source) /\ n \in Nat
    BY <1>2
  <1>5. curr_token \in Token
    BY <1>2, <1>3
  <1>6. SourceOK'
    BY <1>1, <1>2, <1>3 DEF SourceOK
  <1>7. AfterComma' <=> curr_token = CommaSign
    BY <1>1, <1>2, <1>3 DEF AfterComma
  <1>8. /\ Consumed \in Seq(Token) /\ Len(Consumed) = pos
        /\ \A i \in 1..pos : Consumed[i] = source[i]
        /\ Consumed' = Append(Consumed, curr_token)
    <2>1. /\ SubSeq(s, 1, p) \in Seq(Token) /\ Len(SubSeq(s, 1, p)) = p
          /\ \A i \in 1..p : SubSeq(s, 1, p)[i] = s[i]
          /\ SubSeq(s, 1, p + 1) = Append(SubSeq(s, 1, p), s[p + 1])
      BY <1>2, <1>3, <1>4, PrefixGrows
    <2>2. QED
      BY <1>1, <1>3, <1>4, <2>1 DEF Consumed
  <1>9. AfterComma <=> Consumed # <<>> /\ Consumed[Len(Consumed)] = CommaSign
    <2>1. Consumed = <<>> <=> pos = 0
      BY <1>2, <1>8
    <2>2. QED
      BY <1>2, <1>8, <2>1 DEF AfterComma
  <1>10. PICK t, x : t = Consumed /\ x = curr_token
    OBVIOUS
  <1>11. PlainGrows(t, x, CommaSign, ")", Token)
    BY <1>5, <1>8, <1>10, PlainOfFacts, Signs
  <1>12. PICK y, r, q : y = Append(t, x) /\ r = Read /\ q = Read'
    OBVIOUS
  <1>13. r = PlainOf(t, CommaSign, ")") /\ q = PlainOf(y, CommaSign, ")")
    BY <1>8, <1>10, <1>12, PlainIs DEF Read
  <1>14. /\ r \in Seq(Token)
         /\ t = <<>> \/ t[Len(t)] # CommaSign \/ x # ")" => q = Append(r, x)
         /\ t # <<>> /\ t[Len(t)] = CommaSign /\ x = ")" =>
              \E u : u \in Seq(Token) /\ r = Append(u, CommaSign) /\ q = Append(u, x)
    BY <1>11, <1>12, <1>13 DEF PlainGrows
  <1>15. q \in Seq(Token)
    <2>1. CASE t = <<>> \/ t[Len(t)] # CommaSign \/ x # ")"
      BY <1>5, <1>10, <1>14, <2>1, AppendProperties
    <2>2. CASE t # <<>> /\ t[Len(t)] = CommaSign /\ x = ")"
      BY <1>5, <1>10, <1>14, <2>2, AppendProperties
    <2>3. QED
      BY <2>1, <2>2
  <1>16. AfterComma <=> t # <<>> /\ t[Len(t)] = CommaSign
    BY <1>9, <1>10
  <1>17. x = ")" => \A u : Append(u, x) = Append(u, ")")
    OBVIOUS
  <1>18. QED
    BY <1>1, <1>5, <1>6, <1>7, <1>10, <1>12, <1>14, <1>15, <1>16, <1>17

-----------------------------------------------------------------------------
(* The text of the tree against the text that was read: the same, unless   *)
(* something was lost, and then shorter.                                   *)
Match(l, u, r) == /\ u \in Seq(Token) /\ r \in Seq(Token)
                  /\ l = 0 => u = r
                  /\ l # 0 => Len(u) < Len(r)

LEMMA MatchAppend ==
  ASSUME NEW l, NEW u, NEW r, NEW x, Match(l, u, r), x \in Token
  PROVE  Match(l, Append(u, x), Append(r, x))
  <1>1. u \in Seq(Token) /\ r \in Seq(Token)
    BY DEF Match
  <1>2. PICK v, w : v = Append(u, x) /\ w = Append(r, x)
    OBVIOUS
  <1>3. /\ v \in Seq(Token) /\ w \in Seq(Token)
        /\ Len(v) = Len(u) + 1 /\ Len(w) = Len(r) + 1
    BY <1>1, <1>2, AppendProperties
  <1>4. Len(u) \in Nat /\ Len(r) \in Nat
    BY <1>1
  <1>5. l = 0 => v = w
    BY <1>2 DEF Match
  <1>6. QED
    BY <1>2, <1>3, <1>4, <1>5 DEF Match

LEMMA MatchLast ==
  ASSUME NEW l, NEW u, NEW r, NEW x, NEW y, u \in Seq(Token), r \in Seq(Token),
         y \in Token, Match(l, Append(u, y), Append(r, y)), x \in Token
  PROVE  Match(l, Append(u, x), Append(r, x))
  <1>1. PICK v, w : v = Append(u, y) /\ w = Append(r, y)
    OBVIOUS
  <1>2. /\ Len(v) = Len(u) + 1 /\ Len(w) = Len(r) + 1 /\ Len(u) \in Nat /\ Len(r) \in Nat
        /\ \A i \in 1..Len(u) : v[i] = u[i]
        /\ \A i \in 1..Len(r) : w[i] = r[i]
    BY <1>1, AppendProperties
  <1>3. ASSUME l = 0  PROVE  u = r
    <2>1. v = w
      BY <1>1, <1>3 DEF Match
    <2>2. Len(u) = Len(r) /\ \A i \in 1..Len(u) : u[i] = r[i]
      BY <1>2, <2>1
    <2>3. QED
      BY <2>2, SeqEqual
  <1>4. ASSUME l # 0  PROVE  Len(u) < Len(r)
    BY <1>1, <1>2, <1>4 DEF Match
  <1>5. Match(l, u, r)
    BY <1>3, <1>4 DEF Match
  <1>6. QED
    BY <1>5, MatchAppend

(* A loss makes the text of the tree shorter.                              *)
LEMMA MatchLoses ==
  ASSUME NEW l, NEW k, NEW u, NEW r, NEW v, NEW w,
         Match(l, u, r), v \in Seq(Token), w \in Seq(Token), k # 0,
         Len(v) <= Len(u), Len(r) < Len(w)
  PROVE  Match(k, v, w)
  <1>1. /\ Len(u) \in Nat /\ Len(r) \in Nat /\ Len(v) \in Nat /\ Len(w) \in Nat
        /\ Len(u) <= Len(r)
    BY DEF Match
  <1>2. Len(v) < Len(w)
    BY <1>1
  <1>3. QED
    BY <1>2 DEF Match

Reading == Descent \cup {"validate", "accepted"}
Written == Upto(at, service.name, service.methods, method, type, AfterComma)
Begun    == ServiceHead(service.name, service.methods)
InBegun  == MethodHead(service.name, service.methods, method)

CommasOK ==
  /\ at # "parameters" => ~ AfterComma
  /\ at \in {"service", "service_name", "open_brace"} => service.methods = <<>>
  /\ at \in {"method_name", "open_paren"} => method.parameters = <<>>
  /\ at = "parameters" /\ ~ AfterComma => method.parameters = <<>>
  /\ at = "parameters" /\ AfterComma /\ lost = 0 => method.parameters # <<>>
  /\ at = "separator" /\ lost = 0 => method.parameters # <<>>

TextOK == /\ SourceOK
          /\ at \in Reading => Match(lost, Written, Read) /\ CommasOK
          /\ at = "accepted" => ~ Duplicates

LEMMA Moves ==
  ASSUME TextOK, NEW here, here \in Descent, NEW there, Take(here, there), lost' = lost,
         ~ AfterComma \/ curr_token # ")", Written' = Append(Written, curr_token)
  PROVE  Match(lost', Written', Read')
  <1>1. /\ at = here /\ curr_token \in Token
        /\ Read' = Append(Read, curr_token)
    BY TokenRead DEF TextOK
  <1>2. Match(lost, Written, Read)
    BY <1>1 DEF TextOK, Reading
  <1>3. QED
    BY <1>1, <1>2, MatchAppend

LEMMA TreeFacts ==
  ASSUME MemInv
  PROVE  /\ service.name \in Token /\ service.methods \in Seq(Method) /\ method \in Method
         /\ method.name \in Token /\ method.return_type \in Token
         /\ Begun \in Seq(Token) /\ InBegun \in Seq(Token)
         /\ Len(Begun) <= Len(InBegun)
  <1>1. /\ service.name \in Token /\ service.methods \in Seq(Method) /\ method \in Method
        /\ method.name \in Token /\ method.return_type \in Token
    BY Words DEF MemInv, ShapeOK, Method
  <1>2. Begun \in Seq(Token) /\ InBegun \in Seq(Token)
    BY <1>1, HeadsAre DEF Begun, InBegun
  <1>3. Len(Begun) <= Len(InBegun)
    <2>1. PICK h, v, w : h = Begun /\ v = <<"rpc", method.name, "(">>
                         /\ w = ParametersText(method.parameters)
      OBVIOUS
    <2>2. InBegun = (h \o v) \o w
      BY <2>1 DEF InBegun, Begun, MethodHead
    <2>3. h \in Seq(Token) /\ v \in Seq(Token) /\ w \in Seq(Token)
      BY <1>1, <1>2, <2>1, Words, MethodTextIs
    <2>4. PICK x : x = h \o v
      OBVIOUS
    <2>5. x \in Seq(Token) /\ Len(x) = Len(h) + Len(v)
      BY <2>3, <2>4, ConcatProperties
    <2>6. Len(x \o w) = Len(x) + Len(w)
      BY <2>3, <2>5, ConcatProperties
    <2>7. Len(h) \in Nat /\ Len(v) \in Nat /\ Len(w) \in Nat
      BY <2>3
    <2>8. QED
      BY <2>1, <2>2, <2>4, <2>5, <2>6, <2>7
  <1>4. QED
    BY <1>1, <1>2, <1>3

LEMMA TextKept ==
  ASSUME TextOK, NEW here, here \in Descent, NEW there, Take(here, there), there # "accepted",
         Match(lost', Written', Read'), CommasOK'
  PROVE  TextOK'
  <1>1. SourceOK' /\ at' # "accepted"
    BY TokenRead DEF TextOK
  <1>2. QED
    BY <1>1 DEF TextOK

(* A token that is no comma follows one that is none.                      *)
LEMMA PlainMove ==
  ASSUME MemInv, TextOK, NEW here, here \in Descent \ {"parameters"}, NEW there,
         Take(here, there), there \in Reading \ {"service", "accepted", "parameters", "separator"},
         curr_token # CommaSign, lost' = lost,
         Written' = Append(Written, curr_token),
         there \in {"service_name", "open_brace"} => service'.methods = <<>>,
         there \in {"method_name", "open_paren"} => method'.parameters = <<>>
  PROVE  TextOK'
  <1>1. at = here /\ at' = there /\ (AfterComma' <=> curr_token = CommaSign)
    BY TokenRead DEF TextOK
  <1>2. ~ AfterComma
    BY <1>1 DEF TextOK, CommasOK, Reading
  <1>3. Match(lost', Written', Read')
    BY <1>2, Moves
  <1>4. CommasOK'
    BY <1>1 DEF CommasOK
  <1>5. QED
    BY <1>3, <1>4, TextKept

LEMMA CommaIs == Comma <=> /\ curr_token = CommaSign /\ Take("separator", "parameters")
                           /\ UNCHANGED tree
  BY Zenon DEF Comma, CommaSign

LEMMA ReturnedLonger ==
  ASSUME NEW u, NEW t, u \in Seq(Token), t \in Token
  PROVE  Len(u) <= Len(Returned(u, t))
  <1>1. PICK v, w, x, y, z : /\ v = Append(u, ")") /\ w = Append(v, "returns") /\ x = Append(w, "(")
                             /\ y = Append(x, t) /\ z = Append(y, ")")
    OBVIOUS
  <1>2. v \in Seq(Token) /\ Len(v) = Len(u) + 1 /\ Len(u) \in Nat
    BY <1>1, Words, AppendProperties
  <1>3. w \in Seq(Token) /\ Len(w) = Len(v) + 1
    BY <1>1, <1>2, Words, AppendProperties
  <1>4. x \in Seq(Token) /\ Len(x) = Len(w) + 1
    BY <1>1, <1>3, Words, AppendProperties
  <1>5. y \in Seq(Token) /\ Len(y) = Len(x) + 1
    BY <1>1, <1>4, AppendProperties
  <1>6. Len(z) = Len(y) + 1
    BY <1>1, <1>5, Words, AppendProperties
  <1>7. Returned(u, t) = z
    BY <1>1 DEF Returned, Returning
  <1>8. Len(u) <= Len(z)
    BY <1>2, <1>3, <1>4, <1>5, <1>6
  <1>9. QED
    BY <1>7, <1>8

LEMMA StepText == MemInv /\ TextOK /\ [Next]_vars => TextOK'
  <1> SUFFICES ASSUME MemInv, TextOK, [Next]_vars
               PROVE  TextOK'
    OBVIOUS
  <1>0. /\ service.name \in Token /\ service.methods \in Seq(Method) /\ method \in Method
        /\ method.name \in Token /\ method.return_type \in Token
        /\ Begun \in Seq(Token) /\ InBegun \in Seq(Token)
        /\ Len(Begun) <= Len(InBegun)
    BY TreeFacts
  <1>00. at \in Reading => Match(lost, Written, Read) /\ CommasOK
    BY DEF TextOK
  <1>d. /\ Descent \subseteq Reading /\ "validate" \in Reading /\ "accepted" \in Reading
        /\ "syntax_error" \notin Reading /\ "out_of_memory" \notin Reading
        /\ "crashed" \notin Reading /\ "rejected" \notin Reading /\ "released" \notin Reading
    BY DescentIs DEF Reading, InMethod
  <1>1. CASE Service
    <2>1. /\ at = "service" /\ at' = "service_name" /\ Take("service", "service_name")
          /\ curr_token = "service" /\ lost' = lost
          /\ UNCHANGED <<service, method, type>>
      BY <1>1, ExpectsAre DEF Service, Take, tree
    <2>0. service.methods = <<>>
      BY <1>00, <1>d, <2>1, DescentIs DEF CommasOK
    <2>2. curr_token # CommaSign /\ ~ AfterComma'
      <3>1. curr_token # CommaSign
        BY <2>1, Signs
      <3>2. AfterComma' <=> curr_token = CommaSign
        BY <2>1, <1>d, TokenRead, DescentIs DEF TextOK, InMethod
      <3>3. QED
        BY <3>1, <3>2
    <2>3. Written' = Append(Written, curr_token)
      <3>1. Written = <<>> /\ Written' = <<"service">>
        BY <2>1 DEF Written, Upto
      <3>2. QED
        BY <2>1, <3>1
    <2>4. QED
      BY <1>d, <2>1, <2>2, <2>3, <2>0, PlainMove, DescentIs DEF InMethod
  <1>3. CASE OpenBrace
    <2>1. /\ at = "open_brace" /\ at' = "methods" /\ Take("open_brace", "methods")
          /\ curr_token = LeftSign /\ lost' = lost
          /\ UNCHANGED <<service, method, type>>
      BY <1>3, ExpectsAre DEF OpenBrace, Take, tree
    <2>0. service.methods = <<>>
      BY <1>00, <1>d, <2>1, DescentIs DEF CommasOK
    <2>2. curr_token # CommaSign /\ ~ AfterComma'
      <3>1. curr_token # CommaSign
        BY <2>1, Signs
      <3>2. AfterComma' <=> curr_token = CommaSign
        BY <2>1, <1>d, TokenRead, DescentIs DEF TextOK, InMethod
      <3>3. QED
        BY <3>1, <3>2
    <2>3. Written' = Append(Written, curr_token)
      <3>1. Written = <<"service", service.name>> /\ Written' = ServiceHead(service.name, <<>>)
        BY <2>0, <2>1 DEF Written, Upto
      <3>2. QED
        BY <1>0, <2>1, <3>1, HeadsAre
    <2>4. QED
      BY <1>d, <2>1, <2>2, <2>3, PlainMove, DescentIs DEF InMethod
  <1>4. CASE CloseBrace
    <2>1. /\ at = "methods" /\ at' = "validate" /\ Take("methods", "validate")
          /\ curr_token = RightSign /\ lost' = lost
          /\ UNCHANGED <<service, method, type>>
      BY <1>4, ExpectsAre DEF CloseBrace, Take, tree
    <2>2. curr_token # CommaSign /\ ~ AfterComma'
      <3>1. curr_token # CommaSign
        BY <2>1, Signs
      <3>2. AfterComma' <=> curr_token = CommaSign
        BY <2>1, <1>d, TokenRead, DescentIs DEF TextOK, InMethod
      <3>3. QED
        BY <3>1, <3>2
    <2>3. Written' = Append(Written, curr_token)
      BY <2>1 DEF Written, Upto, Begun, InBegun, Returning, Returned
    <2>4. QED
      BY <1>d, <2>1, <2>2, <2>3, PlainMove, DescentIs DEF InMethod
  <1>5. CASE Rpc
    <2>1. /\ at = "methods" /\ at' = "method_name" /\ Take("methods", "method_name")
          /\ curr_token = "rpc" /\ lost' = lost
          /\ UNCHANGED <<service, type>> /\ method' = NoMethod
      BY <1>5, ExpectsAre DEF Rpc, Take
    <2>0. method'.parameters = <<>>
      BY <2>1 DEF NoMethod
    <2>2. curr_token # CommaSign /\ ~ AfterComma'
      <3>1. curr_token # CommaSign
        BY <2>1, Signs
      <3>2. AfterComma' <=> curr_token = CommaSign
        BY <2>1, <1>d, TokenRead, DescentIs DEF TextOK, InMethod
      <3>3. QED
        BY <3>1, <3>2
    <2>3. Written' = Append(Written, curr_token)
      BY <2>1 DEF Written, Upto, Begun, InBegun, Returning, Returned
    <2>4. QED
      BY <1>d, <2>1, <2>2, <2>3, <2>0, PlainMove, DescentIs DEF InMethod
  <1>6. CASE MethodName
    <2>1. /\ at = "method_name" /\ at' = "open_paren" /\ Take("method_name", "open_paren")
          /\ curr_token \in Names /\ lost' = lost
          /\ UNCHANGED <<service, type>> /\ method' = [method EXCEPT !.name = curr_token]
      BY <1>6, ExpectsAre DEF MethodName, Take
    <2>0. method.parameters = <<>>
      BY <1>00, <1>d, <2>1, DescentIs DEF CommasOK, InMethod
    <2>5. method'.parameters = <<>>
      BY <1>0, <2>0, <2>1 DEF Method
    <2>2. curr_token # CommaSign /\ ~ AfterComma'
      <3>1. curr_token # CommaSign
        BY <2>1, NotSigns
      <3>2. AfterComma' <=> curr_token = CommaSign
        BY <2>1, <1>d, TokenRead, DescentIs DEF TextOK, InMethod
      <3>3. QED
        BY <3>1, <3>2
    <2>3. Written' = Append(Written, curr_token)
      <3>1. method'.name = curr_token
        BY <1>0, <2>1 DEF Method
      <3>2. QED
        BY <2>1, <3>1 DEF Written, Upto, Begun
    <2>4. QED
      BY <1>d, <2>1, <2>2, <2>3, <2>5, PlainMove, DescentIs DEF InMethod
  <1>8. CASE Returns
    <2>1. /\ at = "returns" /\ at' = "open_type" /\ Take("returns", "open_type")
          /\ curr_token = "returns" /\ lost' = lost
          /\ UNCHANGED <<service, method, type>>
      BY <1>8, ExpectsAre DEF Returns, Take, tree
    <2>2. curr_token # CommaSign /\ ~ AfterComma'
      <3>1. curr_token # CommaSign
        BY <2>1, Signs
      <3>2. AfterComma' <=> curr_token = CommaSign
        BY <2>1, <1>d, TokenRead, DescentIs DEF TextOK, InMethod
      <3>3. QED
        BY <3>1, <3>2
    <2>3. Written' = Append(Written, curr_token)
      BY <2>1 DEF Written, Upto, Begun, InBegun, Returning, Returned
    <2>4. QED
      BY <1>d, <2>1, <2>2, <2>3, PlainMove, DescentIs DEF InMethod
  <1>9. CASE OpenType
    <2>1. /\ at = "open_type" /\ at' = "return_type" /\ Take("open_type", "return_type")
          /\ curr_token = "(" /\ lost' = lost
          /\ UNCHANGED <<service, method, type>>
      BY <1>9, ExpectsAre DEF OpenType, Take, tree
    <2>2. curr_token # CommaSign /\ ~ AfterComma'
      <3>1. curr_token # CommaSign
        BY <2>1, Signs
      <3>2. AfterComma' <=> curr_token = CommaSign
        BY <2>1, <1>d, TokenRead, DescentIs DEF TextOK, InMethod
      <3>3. QED
        BY <3>1, <3>2
    <2>3. Written' = Append(Written, curr_token)
      BY <2>1 DEF Written, Upto, Begun, InBegun, Returning, Returned
    <2>4. QED
      BY <1>d, <2>1, <2>2, <2>3, PlainMove, DescentIs DEF InMethod
  <1>10. CASE ReturnType
    <2>1. /\ at = "return_type" /\ at' = "close_type" /\ Take("return_type", "close_type")
          /\ curr_token \in Keywords /\ lost' = lost
          /\ UNCHANGED <<service, type>> /\ method' = [method EXCEPT !.return_type = curr_token]
      BY <1>10, ExpectsAre DEF ReturnType, Take
    <2>2. curr_token # CommaSign /\ ~ AfterComma'
      <3>1. curr_token # CommaSign
        BY <2>1, NotSigns
      <3>2. AfterComma' <=> curr_token = CommaSign
        BY <2>1, <1>d, TokenRead, DescentIs DEF TextOK, InMethod
      <3>3. QED
        BY <3>1, <3>2
    <2>3. Written' = Append(Written, curr_token)
      <3>1. method'.return_type = curr_token /\ InBegun' = InBegun
        BY <1>0, <2>1 DEF Method, InBegun, MethodHead
      <3>2. QED
        BY <2>1, <3>1 DEF Written, Upto, InBegun
    <2>4. QED
      BY <1>d, <2>1, <2>2, <2>3, PlainMove, DescentIs DEF InMethod
  <1>11. CASE CloseType
    <2>1. /\ at = "close_type" /\ at' = "semicolon" /\ Take("close_type", "semicolon")
          /\ curr_token = ")" /\ lost' = lost
          /\ UNCHANGED <<service, method, type>>
      BY <1>11, ExpectsAre DEF CloseType, Take, tree
    <2>2. curr_token # CommaSign /\ ~ AfterComma'
      <3>1. curr_token # CommaSign
        BY <2>1, Signs
      <3>2. AfterComma' <=> curr_token = CommaSign
        BY <2>1, <1>d, TokenRead, DescentIs DEF TextOK, InMethod
      <3>3. QED
        BY <3>1, <3>2
    <2>3. Written' = Append(Written, curr_token)
      BY <2>1 DEF Written, Upto, Begun, InBegun, Returning, Returned
    <2>4. QED
      BY <1>d, <2>1, <2>2, <2>3, PlainMove, DescentIs DEF InMethod
  <1>2. CASE ServiceName
    <2>1. CASE Take("service_name", "open_brace")
               /\ service' = [service EXCEPT !.name = curr_token]
               /\ UNCHANGED <<method, type, heap, lost, recycled>>
      <3>1. at = "service_name" /\ at' = "open_brace" /\ curr_token \in Names
        BY <2>1, ExpectsAre DEF Take
      <3>2. service.methods = <<>>
        BY <1>00, <1>d, <3>1, DescentIs DEF CommasOK
      <3>3. service'.name = curr_token /\ service'.methods = <<>>
        BY <2>1, <3>2 DEF MemInv, ShapeOK
      <3>4. curr_token # CommaSign
        BY <3>1, NotSigns
      <3>5. Written' = Append(Written, curr_token)
        <4>1. Written = <<"service">> /\ Written' = <<"service", curr_token>>
          BY <3>1, <3>3 DEF Written, Upto
        <4>2. QED
          BY <4>1
      <3>6. QED
        BY <1>d, <2>1, <3>1, <3>3, <3>4, <3>5, PlainMove, DescentIs DEF InMethod
    <2>2. CASE AllocMayFail /\ at = "service_name" /\ at' = "crashed"
               /\ UNCHANGED <<source, pos, tree>>
      BY <1>d, <2>2 DEF TextOK, SourceOK
    <2>3. QED
      BY <1>2, <2>1, <2>2 DEF ServiceName
  <1>7. CASE OpenParen
    <2>1. /\ at = "open_paren" /\ at' = "parameters" /\ Take("open_paren", "parameters")
          /\ curr_token = "(" /\ lost' = lost /\ UNCHANGED <<service, method, type>>
      BY <1>7, ExpectsAre DEF OpenParen, Take, tree
    <2>2. at \in Descent /\ at \in Reading
      BY <1>d, <2>1, DescentIs DEF InMethod
    <2>3. method.parameters = <<>> /\ ~ AfterComma
      BY <1>00, <2>1, <2>2 DEF CommasOK
    <2>4. ~ AfterComma'
      <3>1. AfterComma' <=> curr_token = CommaSign
        BY <2>1, <2>2, TokenRead DEF TextOK
      <3>2. QED
        BY <2>1, <3>1, Signs
    <2>5. Written' = Append(Written, curr_token)
      <3>1. Written = Append(Append(Begun, "rpc"), method.name) /\ Written' = InBegun
        BY <2>1, <2>4 DEF Written, Upto, Begun, InBegun
      <3>2. InBegun = Append(Append(Append(Begun, "rpc"), method.name), "(")
        BY <1>0, <2>3, HeadsAre DEF Begun, InBegun
      <3>3. QED
        BY <2>1, <3>1, <3>2
    <2>6. Match(lost', Written', Read')
      BY <2>1, <2>2, <2>3, <2>5, Moves
    <2>7. CommasOK'
      BY <2>1, <2>3, <2>4 DEF CommasOK
    <2>8. QED
      BY <2>1, <2>2, <2>6, <2>7, TextKept
  <1>12. CASE CloseParen
    <2>1. /\ at \in {"parameters", "separator"} /\ at' = "returns" /\ Take(at, "returns")
          /\ curr_token = ")" /\ lost' = lost /\ UNCHANGED <<service, method, type>>
      BY <1>12 DEF CloseParen, Take, tree
    <2>2. at \in Descent /\ at \in Reading
      BY <1>d, <2>1, DescentIs DEF InMethod
    <2>3. /\ AfterComma' <=> curr_token = CommaSign
          /\ AfterComma /\ curr_token = ")" =>
               \E u : u \in Seq(Token) /\ Read = Append(u, CommaSign) /\ Read' = Append(u, ")")
      BY <2>1, <2>2, TokenRead DEF TextOK
    <2>4. ~ AfterComma'
      BY <2>1, <2>3, Signs
    <2>5. Written' = Append(InBegun, ")")
      BY <2>1 DEF Written, Upto, InBegun
    <2>6. CASE ~ AfterComma
      <3>1. Written = InBegun
        BY <2>1, <2>6 DEF Written, Upto, InBegun
      <3>2. QED
        <4>1. Match(lost', Written', Read')
          BY <2>1, <2>2, <2>5, <2>6, <3>1, Moves
        <4>2. CommasOK'
          BY <2>1, <2>4 DEF CommasOK
        <4>3. QED
          BY <2>1, <2>2, <4>1, <4>2, TextKept
    <2>7. CASE AfterComma
      <3>1. Written = Append(InBegun, CommaSign)
        BY <1>00, <2>1, <2>2, <2>7 DEF Written, Upto, InBegun, CommasOK
      <3>2. PICK u : u \in Seq(Token) /\ Read = Append(u, CommaSign) /\ Read' = Append(u, ")")
        BY <2>1, <2>3, <2>7
      <3>3. Match(lost, Append(InBegun, CommaSign), Append(u, CommaSign))
        BY <1>00, <2>2, <3>1, <3>2
      <3>4. Match(lost, Append(InBegun, ")"), Append(u, ")"))
        BY <1>0, <3>2, <3>3, MatchLast, Signs, Words
      <3>5. CommasOK'
        BY <2>1, <2>4 DEF CommasOK
      <3>6. QED
        BY <2>1, <2>2, <2>5, <3>2, <3>4, <3>5, TextKept
    <2>8. QED
      BY <2>6, <2>7
  <1>13. CASE ParameterType
    <2>1. /\ at = "parameters" /\ at' = "parameter_name" /\ Take("parameters", "parameter_name")
          /\ curr_token \in Keywords /\ curr_token # ")"
          /\ lost' = lost /\ UNCHANGED <<service, method>> /\ type' = curr_token
      BY <1>13, ExpectsAre DEF ParameterType, Take
    <2>2. at \in Descent /\ at \in Reading
      BY <1>d, <2>1, DescentIs DEF InMethod
    <2>3. /\ AfterComma' <=> curr_token = CommaSign
          /\ Read' = Append(Read, curr_token) /\ Read \in Seq(Token) /\ curr_token \in Token
      BY <2>1, <2>2, TokenRead DEF TextOK
    <2>4. ~ AfterComma'
      BY <2>1, <2>3, NotSigns
    <2>5. Match(lost', Written', Read')
      <3>1. CASE method.parameters = <<>> /\ AfterComma
        <4>1. Written = Append(InBegun, CommaSign) /\ Written' = Append(InBegun, curr_token)
          BY <2>1, <3>1 DEF Written, Upto, InBegun
        <4>2. /\ Len(Written') = Len(InBegun) + 1 /\ Len(Written) = Len(InBegun) + 1
              /\ Written' \in Seq(Token) /\ Len(InBegun) \in Nat
          BY <1>0, <2>3, <4>1, Signs, AppendProperties
        <4>3. Read' \in Seq(Token) /\ Len(Read) < Len(Read')
          <5>1. Read' \in Seq(Token) /\ Len(Read') = Len(Read) + 1 /\ Len(Read) \in Nat
            BY <2>3, AppendProperties
          <5>2. QED
            BY <5>1
        <4>4. Len(Written') <= Len(Written)
          BY <4>2
        <4>5. lost' # 0
          BY <1>00, <2>1, <2>2, <3>1 DEF CommasOK
        <4>6. Match(lost, Written, Read)
          BY <1>00, <2>2
        <4>7. QED
          BY <4>2, <4>3, <4>4, <4>5, <4>6, MatchLoses
      <3>2. CASE method.parameters = <<>> /\ ~ AfterComma
        <4>1. Written = InBegun /\ Written' = Append(InBegun, curr_token)
          BY <2>1, <3>2 DEF Written, Upto, InBegun
        <4>2. QED
          BY <2>1, <2>2, <4>1, Moves
      <3>3. CASE method.parameters # <<>>
        <4>1. AfterComma
          BY <1>00, <2>1, <2>2, <3>3 DEF CommasOK
        <4>2. /\ Written = Append(InBegun, CommaSign)
              /\ Written' = Append(Append(InBegun, CommaSign), curr_token)
          BY <2>1, <3>3, <4>1 DEF Written, Upto, InBegun
        <4>3. QED
          BY <2>1, <2>2, <4>2, Moves
      <3>4. QED
        BY <3>1, <3>2, <3>3
    <2>6. CommasOK'
      BY <2>1, <2>4 DEF CommasOK
    <2>7. QED
      BY <2>1, <2>2, <2>5, <2>6, TextKept
  <1>14. CASE ParameterName
    <2>1. /\ at = "parameter_name" /\ at' = "separator" /\ Take("parameter_name", "separator")
          /\ curr_token \in Names /\ UNCHANGED <<service, type>>
      BY <1>14, ExpectsAre DEF ParameterName, Take
    <2>2. at \in Descent /\ at \in Reading /\ type \in Keywords /\ lost \in Nat
      BY <1>d, <2>1, DescentIs DEF InMethod, MemInv, ShapeOK
    <2>3. /\ AfterComma' <=> curr_token = CommaSign
          /\ Read \in Seq(Token) /\ curr_token \in Token
      BY <2>1, <2>2, TokenRead DEF TextOK
    <2>4. ~ AfterComma' /\ ~ AfterComma /\ curr_token # ")"
      BY <1>00, <2>1, <2>2, <2>3, NotSigns DEF CommasOK
    <2>5. Read' = Append(Read, curr_token)
      BY <2>1, <2>2, <2>4, TokenRead DEF TextOK
    <2>6. Written' = InBegun'
      BY <2>1 DEF Written, Upto, InBegun
    <2>7. CASE /\ method' = [method EXCEPT !.parameters
                              = Append(@, [type |-> type, name |-> curr_token])]
               /\ heap' = heap + NewBlock(method.parameters)
               /\ UNCHANGED lost
      <3>1. PICK p : p = [type |-> type, name |-> curr_token]
        OBVIOUS
      <3>2. /\ method'.name = method.name /\ method'.parameters = Append(method.parameters, p)
            /\ method' \in Method
        <4>1. method.parameters \in Seq(Parameter) /\ p \in Parameter
          BY <1>0, <2>1, <2>2, <3>1 DEF Method, Parameter
        <4>2. Append(method.parameters, p) \in Seq(Parameter)
          BY <4>1, AppendProperties
        <4>3. method' = [method EXCEPT !.parameters = Append(method.parameters, p)]
          BY <2>7, <3>1
        <4>4. QED
          BY <1>0, <4>2, <4>3 DEF Method
      <3>3. PICK name, ms, m, n, t, x :
              /\ name = service.name /\ ms = service.methods /\ m = method /\ n = method'
              /\ t = type /\ x = curr_token
        OBVIOUS
      <3>4. Grown(name, ms, m, n, t, x)
        BY <1>0, <2>1, <2>2, <3>1, <3>2, <3>3, HeadsGrow
      <3>5. InBegun = MethodHead(name, ms, m) /\ InBegun' = MethodHead(name, ms, n)
        BY <2>1, <3>3 DEF InBegun
      <3>6. Written' = Append(Written, curr_token)
        <4>1. CASE m.parameters = <<>>
          <5>1. Written = Append(InBegun, t)
            BY <2>1, <3>3, <4>1 DEF Written, Upto, InBegun
          <5>2. QED
            BY <2>6, <3>3, <3>4, <3>5, <4>1, <5>1 DEF Grown
        <4>2. CASE m.parameters # <<>>
          <5>1. Written = Append(Append(InBegun, CommaSign), t)
            BY <2>1, <3>3, <4>2 DEF Written, Upto, InBegun
          <5>2. QED
            BY <2>6, <3>3, <3>4, <3>5, <4>2, <5>1 DEF Grown
        <4>3. QED
          BY <4>1, <4>2
      <3>7. Match(lost', Written', Read')
        BY <2>1, <2>2, <2>4, <2>7, <3>6, Moves
      <3>8. method'.parameters # <<>>
        <4>1. method.parameters \in Seq(Parameter) /\ p \in Parameter
          BY <1>0, <2>1, <2>2, <3>1 DEF Method, Parameter
        <4>2. QED
          BY <3>2, <4>1, AppendProperties
      <3>9. CommasOK'
        BY <2>1, <2>4, <3>8 DEF CommasOK
      <3>10. QED
        BY <2>1, <2>2, <3>7, <3>9, TextKept
    <2>8. CASE AllocMayFail /\ lost' = lost + 1 /\ UNCHANGED <<method, heap>>
      <3>1. InBegun' = InBegun /\ lost' # 0
        BY <2>1, <2>2, <2>8 DEF InBegun
      <3>2. Len(InBegun) <= Len(Written)
        <4>1. PICK a, b, c, d : a = InBegun /\ b = Append(a, CommaSign) /\ c = Append(b, type)
                                /\ d = Append(a, type)
          OBVIOUS
        <4>2. Written \in {c, d}
          BY <2>1, <4>1 DEF Written, Upto, InBegun
        <4>3. type \in Token
          BY <2>2, Words
        <4>4. /\ Len(b) = Len(a) + 1 /\ Len(c) = Len(b) + 1 /\ Len(d) = Len(a) + 1
              /\ Len(a) \in Nat
          <5>1. Len(b) = Len(a) + 1 /\ b \in Seq(Token) /\ Len(d) = Len(a) + 1 /\ Len(a) \in Nat
            BY <1>0, <4>1, <4>3, Signs, AppendProperties
          <5>2. Len(c) = Len(b) + 1
            BY <4>1, <4>3, <5>1, AppendProperties
          <5>3. QED
            BY <5>1, <5>2
        <4>5. Len(a) <= Len(c) /\ Len(a) <= Len(d)
          BY <4>4
        <4>6. QED
          BY <4>1, <4>2, <4>5
      <3>3. Read' \in Seq(Token) /\ Len(Read) < Len(Read')
        <4>1. Read' \in Seq(Token) /\ Len(Read') = Len(Read) + 1 /\ Len(Read) \in Nat
          BY <2>3, <2>5, AppendProperties
        <4>2. QED
          BY <4>1
      <3>4. Match(lost, Written, Read) /\ Written' = InBegun
        BY <1>00, <2>2, <2>6, <3>1
      <3>5. Match(lost', Written', Read')
        BY <1>0, <3>1, <3>2, <3>3, <3>4, MatchLoses
      <3>6. CommasOK'
        BY <2>1, <2>4, <3>1 DEF CommasOK
      <3>7. QED
        BY <2>1, <2>2, <3>5, <3>6, TextKept
    <2>9. QED
      BY <1>14, <2>7, <2>8 DEF ParameterName
  <1>15. CASE Comma
    <2>1. /\ at = "separator" /\ at' = "parameters" /\ Take("separator", "parameters")
          /\ curr_token = CommaSign /\ lost' = lost /\ UNCHANGED <<service, method, type>>
      BY <1>15, CommaIs DEF Take, tree
    <2>2. at \in Descent /\ at \in Reading
      BY <1>d, <2>1, DescentIs DEF InMethod
    <2>3. ~ AfterComma /\ (lost = 0 => method.parameters # <<>>)
      BY <1>00, <2>1, <2>2 DEF CommasOK
    <2>4. AfterComma'
      BY <2>1, <2>2, TokenRead DEF TextOK
    <2>5. Written = InBegun /\ Written' = Append(InBegun, CommaSign)
      BY <2>1, <2>4 DEF Written, Upto, InBegun
    <2>6. Match(lost', Written', Read')
      BY <2>1, <2>2, <2>3, <2>5, Moves
    <2>7. CommasOK'
      BY <2>1, <2>3, <2>4 DEF CommasOK
    <2>8. QED
      BY <2>1, <2>2, <2>6, <2>7, TextKept
  <1>16. CASE Semicolon
    <2>1. /\ at = "semicolon" /\ at' = "methods" /\ Take("semicolon", "methods")
          /\ curr_token = SemiSign /\ UNCHANGED <<method, type>>
      BY <1>16, ExpectsAre DEF Semicolon, Take
    <2>2. at \in Descent /\ at \in Reading
      BY <1>d, <2>1, DescentIs DEF InMethod
    <2>3. /\ AfterComma' <=> curr_token = CommaSign
          /\ Read \in Seq(Token) /\ curr_token \in Token
      BY <2>1, <2>2, TokenRead DEF TextOK
    <2>4. ~ AfterComma' /\ ~ AfterComma
      BY <1>00, <2>1, <2>2, <2>3, Signs DEF CommasOK
    <2>5. Read' = Append(Read, curr_token)
      BY <2>1, <2>2, <2>4, TokenRead DEF TextOK
    <2>6. Written = Returned(InBegun, method.return_type) /\ Written' = Begun'
      BY <2>1 DEF Written, Upto, InBegun, Begun
    <2>7. CommasOK'
      BY <2>1, <2>4 DEF CommasOK
    <2>8. CASE /\ service' = [service EXCEPT !.methods = Append(@, method)]
               /\ heap' = heap + NewBlock(service.methods)
               /\ UNCHANGED lost
      <3>1. service'.name = service.name /\ service'.methods = Append(service.methods, method)
        BY <2>8 DEF MemInv, ShapeOK
      <3>2. PICK name, ms, m : name = service.name /\ ms = service.methods /\ m = method
        OBVIOUS
      <3>3. ServiceHead(name, Append(ms, m))
              = Append(Returned(MethodHead(name, ms, m), m.return_type), SemiSign)
        BY <1>0, <3>2, ServiceGrows
      <3>4. Written' = Append(Written, curr_token)
        BY <2>1, <2>6, <3>1, <3>2, <3>3 DEF Begun, InBegun
      <3>5. Match(lost', Written', Read')
        BY <2>1, <2>2, <2>4, <2>8, <3>4, Moves
      <3>6. QED
        BY <2>1, <2>2, <2>7, <3>5, TextKept
    <2>9. CASE AllocMayFail /\ lost' = lost + Owned(method) /\ UNCHANGED <<service, heap>>
      <3>1. lost' # 0
        <4>1. PICK n : n \in Nat /\ n = Len(method.parameters)
          <5>1. method.parameters \in Seq(Parameter)
            BY <1>0 DEF Method
          <5>2. QED
            BY <5>1
        <4>2. PICK k : k \in {0, 1} /\ k = NewBlock(method.parameters)
          BY DEF NewBlock
        <4>3. Owned(method) = 1 + n + (1 - k)
          BY <4>1, <4>2 DEF Owned
        <4>4. lost \in Nat
          BY DEF MemInv, ShapeOK
        <4>5. QED
          BY <2>9, <4>1, <4>2, <4>3, <4>4
      <3>2. Begun' = Begun
        BY <2>9 DEF Begun
      <3>3. Len(Written') <= Len(Written) /\ Written' \in Seq(Token)
        <4>1. Len(InBegun) <= Len(Written)
          BY <1>0, <2>6, ReturnedLonger
        <4>2. Len(Written) \in Nat /\ Len(InBegun) \in Nat /\ Len(Begun) \in Nat
          BY <1>0, <1>00, <2>2 DEF Match
        <4>3. QED
          BY <1>0, <2>6, <3>2, <4>1, <4>2
      <3>4. Read' \in Seq(Token) /\ Len(Read) < Len(Read')
        <4>1. Read' \in Seq(Token) /\ Len(Read') = Len(Read) + 1 /\ Len(Read) \in Nat
          BY <2>3, <2>5, AppendProperties
        <4>2. QED
          BY <4>1
      <3>5. Match(lost', Written', Read')
        BY <1>00, <2>2, <3>1, <3>3, <3>4, MatchLoses
      <3>6. QED
        BY <2>1, <2>2, <2>7, <3>5, TextKept
    <2>10. QED
      BY <1>16, <2>8, <2>9 DEF Semicolon
  <1>17. CASE SyntaxError \/ OutOfMemory \/ UseRecycled
    BY <1>d, <1>17 DEF SyntaxError, OutOfMemory, UseRecycled, TextOK, SourceOK
  <1>18. CASE Validate
    <2>1. /\ at = "validate" /\ UNCHANGED <<source, pos, service, method, type, lost>>
          /\ at' \in {"crashed", "rejected"} \/ (at' = "accepted" /\ ~ Duplicates)
      BY <1>18 DEF Validate
    <2>2. CASE at' \in {"crashed", "rejected"}
      BY <1>d, <2>1, <2>2 DEF TextOK, SourceOK
    <2>3. CASE at' = "accepted" /\ ~ Duplicates
      <3>1. Match(lost, Written, Read) /\ CommasOK
        BY <1>00, <1>d, <2>1
      <3>2. /\ SourceOK' /\ (AfterComma' <=> AfterComma)
            /\ Read' = Read /\ (Duplicates' <=> Duplicates)
        BY <2>1 DEF TextOK, SourceOK, AfterComma, Read, Consumed, Duplicates
      <3>3. Written = Append(Begun, RightSign) /\ Written' = Append(Begun, RightSign)
        BY <2>1, <2>3 DEF Written, Upto, Begun
      <3>4. CommasOK'
        BY <2>1, <2>3, <3>1, <3>2 DEF CommasOK
      <3>5. QED
        BY <2>1, <2>3, <3>1, <3>2, <3>3, <3>4 DEF TextOK
    <2>4. QED
      BY <2>1, <2>2, <2>3
  <1>19. CASE Release
    BY <1>d, <1>19 DEF Release, TextOK, SourceOK
  <1>20. CASE UNCHANGED vars
    <2>1. UNCHANGED <<source, pos, at, service, method, type, lost>>
      BY <1>20 DEF vars, tree
    <2>2. /\ Written' = Written /\ Read' = Read /\ (Duplicates' <=> Duplicates)
          /\ (CommasOK' <=> CommasOK)
      BY <2>1 DEF Written, AfterComma, Read, Consumed, Duplicates, CommasOK
    <2>3. QED
      BY <2>1, <2>2 DEF TextOK, SourceOK
  <1>21. QED
    BY <1>1, <1>2, <1>3, <1>4, <1>5, <1>6, <1>7, <1>8, <1>9, <1>10, <1>11, <1>12, <1>13, <1>14,
       <1>15, <1>16, <1>17, <1>18, <1>19, <1>20 DEF Next

LEMMA InitText == Init => TextOK
  <1> SUFFICES ASSUME Init
               PROVE  TextOK
    OBVIOUS
  <1>1. /\ source \in Sources /\ pos = 0 /\ at = "service" /\ lost = 0
        /\ service.methods = <<>>
    BY DEF Init, NoService
  <1>2. source \in Seq(Token)
    <2>1. PICK T : T = STRING
      OBVIOUS
    <2>2. source \in Seq(T) /\ T \subseteq Token
      BY <1>1, <2>1, TokensAssumption, Zenon DEF Token
    <2>3. QED
      BY <2>2
  <1>3. SourceOK /\ ~ AfterComma
    BY <1>1, <1>2 DEF SourceOK, AfterComma
  <1>4. Written = <<>> /\ Read = <<>>
    <2>1. Written = <<>>
      BY <1>1 DEF Written, Upto
    <2>2. Consumed = <<>>
      BY <1>1, <1>2, EmptySeq, SubSeqProperties DEF Consumed
    <2>3. Read = PlainOf(<<>>, CommaSign, ")")
      BY <2>2, PlainIs DEF Read
    <2>4. PlainOf(<<>>, CommaSign, ")") = <<>>
      <3>1. DOMAIN <<>> = {}
        OBVIOUS
      <3>2. QED
        BY <3>1, NoPieces, FlattenNone DEF PlainOf
    <2>5. QED
      BY <2>1, <2>3, <2>4
  <1>5. Match(lost, Written, Read) /\ CommasOK
    BY <1>1, <1>3, <1>4 DEF Match, CommasOK
  <1>6. QED
    BY <1>1, <1>3, <1>5 DEF TextOK

(* What is accepted is what was written.                                   *)
THEOREM ParserParsesExactly == Spec => []ParsesExactly
  <1>1. Init => MemInv /\ TextOK
    BY InitMem, InitText
  <1>2. MemInv /\ TextOK /\ [Next]_vars => (MemInv /\ TextOK)'
    BY StepMem, StepText
  <1>3. MemInv /\ TextOK => ParsesExactly
    <2> SUFFICES ASSUME MemInv, TextOK, at = "accepted"
                 PROVE  /\ lost = 0 <=> Text(service) = Plain(SubSeq(source, 1, pos))
                        /\ \A i, j \in DOMAIN service.methods :
                             service.methods[i].name = service.methods[j].name => i = j
      BY DEF ParsesExactly
    <2>1. Match(lost, Written, Read) /\ ~ Duplicates
      BY DEF TextOK, Reading
    <2>2. Written = Text(service)
      <3>1. Text(service) = Append(Begun, RightSign)
        BY TreeFacts, TextIs DEF Begun
      <3>2. QED
        BY <3>1 DEF Written, Upto, Begun
    <2>3. lost = 0 <=> Written = Read
      BY <2>1 DEF Match
    <2>4. \A i, j \in DOMAIN service.methods :
            service.methods[i].name = service.methods[j].name => i = j
      <3>1. PICK n : n \in Nat /\ DOMAIN service.methods = 1..n
        <4>1. service.methods \in Seq(Method)
          BY TreeFacts
        <4>2. QED
          BY <4>1
      <3>2. QED
        BY <2>1, <3>1 DEF Duplicates
    <2>5. QED
      BY <2>2, <2>3, <2>4 DEF Read, Consumed
  <1>4. QED
    BY <1>1, <1>2, <1>3, PTL DEF Spec

-----------------------------------------------------------------------------
(* The beginnings of a definition's text *)

Prefix(u, w) == /\ u \in Seq(Token) /\ w \in Seq(Token) /\ Len(u) <= Len(w)
                /\ \A k \in 1..Len(u) : u[k] = w[k]

LEMMA PrefixAppend ==
  ASSUME NEW u, NEW w, NEW x, u \in Seq(Token), Prefix(Append(u, x), w), x \in Token
  PROVE  Prefix(u, w) /\ Len(u) + 1 <= Len(w) /\ w[Len(u) + 1] = x
  <1>0. Len(u) \in Nat
    OBVIOUS
  <1>1. PICK v, n : v = Append(u, x) /\ n = Len(u) /\ n \in Nat
    BY <1>0
  <1>2. v \in Seq(Token) /\ Len(v) = n + 1 /\ v[n + 1] = x /\ \A k \in 1..n : v[k] = u[k]
    BY <1>1, AppendProperties
  <1>3. w \in Seq(Token) /\ n + 1 <= Len(w) /\ \A k \in 1..n + 1 : v[k] = w[k]
    BY <1>1, <1>2 DEF Prefix
  <1>4. PICK l : l = Len(w) /\ l \in Nat
    BY <1>3
  <1>5. n <= l /\ n + 1 \in 1..n + 1 /\ \A k \in 1..n : k \in 1..n + 1
    BY <1>1, <1>3, <1>4
  <1>6. w[n + 1] = x /\ \A k \in 1..n : u[k] = w[k]
    BY <1>2, <1>3, <1>5
  <1>7. QED
    BY <1>1, <1>3, <1>4, <1>5, <1>6 DEF Prefix

(* A definition with only its first methods; in the one that follows, only *)
(* the first parameters.                                                   *)
First(s, i)       == SubSeq(s.methods, 1, i)
Parameters(s, i)  == s.methods[i + 1].parameters
MethodOf(s, i, j) == [name |-> s.methods[i + 1].name,
                      parameters |-> SubSeq(Parameters(s, i), 1, j),
                      return_type |-> s.methods[i + 1].return_type]
HeadOf(s, i)      == ServiceHead(s.name, First(s, i))
InHeadOf(s, i, j) == MethodHead(s.name, First(s, i), MethodOf(s, i, j))

LEMMA ServiceFacts ==
  ASSUME NEW s \in Services
  PROVE  /\ s.name \in Names /\ s.name \in Token /\ s.methods \in Seq(FullMethod)
         /\ s.methods \in Seq(Method) /\ Len(s.methods) \in Nat
         /\ \A i \in Nat : i <= Len(s.methods) => First(s, i) \in Seq(Method)
         /\ First(s, 0) = <<>> /\ First(s, Len(s.methods)) = s.methods
  <1>1. s.name \in Names /\ s.methods \in Seq(FullMethod) /\ s.name \in Token
    BY Words DEF Services
  <1>2. FullMethod \subseteq Method
    BY DEF FullMethod, Method
  <1>3. s.methods \in Seq(Method) /\ Len(s.methods) \in Nat
    BY <1>1, <1>2
  <1>4. PICK ms, n : ms = s.methods /\ n = Len(ms) /\ n \in Nat
    BY <1>3
  <1>5. ASSUME NEW i \in Nat, i <= n  PROVE  First(s, i) \in Seq(Method)
    <2>1. \A k \in 1..i : k \in 1..n
      BY <1>4, <1>5
    <2>2. \A k \in 1..i : ms[k] \in Method
      BY <1>3, <1>4, <2>1
    <2>3. SubSeq(ms, 1, i) \in Seq(Method)
      BY <1>4, <2>2, SubSeqProperties
    <2>4. QED
      BY <1>4, <2>3 DEF First
  <1>6. First(s, 0) = <<>>
    BY <1>3, EmptySeq, SubSeqProperties DEF First
  <1>7. First(s, n) = s.methods
    <2>1. PICK q : q = SubSeq(ms, 1, n)
      OBVIOUS
    <2>2. q \in Seq(Method) /\ Len(q) = n /\ \A k \in 1..n : q[k] = ms[k]
      <3>1. \A k \in 1..n : ms[k] \in Method
        BY <1>3, <1>4
      <3>2. QED
        BY <1>3, <1>4, <2>1, <3>1, SubSeqProperties
    <2>3. q = ms
      BY <1>3, <1>4, <2>2, SeqEqual
    <2>4. QED
      BY <1>4, <2>1, <2>3 DEF First
  <1>8. QED
    BY <1>1, <1>3, <1>4, <1>5, <1>6, <1>7

LEMMA MethodFacts ==
  ASSUME NEW s \in Services, NEW i \in Nat, i < Len(s.methods)
  PROVE  /\ s.methods[i + 1] \in FullMethod
         /\ Parameters(s, i) \in Seq(Parameter) /\ Len(Parameters(s, i)) \in Nat
         /\ s.methods[i + 1].name \in Names /\ s.methods[i + 1].name \in Token
         /\ s.methods[i + 1].return_type \in Keywords /\ s.methods[i + 1].return_type \in Token
         /\ First(s, i + 1) = Append(First(s, i), s.methods[i + 1])
         /\ \A j \in Nat : j <= Len(Parameters(s, i)) => MethodOf(s, i, j) \in Method
         /\ MethodOf(s, i, 0).parameters = <<>>
         /\ MethodOf(s, i, Len(Parameters(s, i))) = s.methods[i + 1]
  <1>1. PICK ms, n, k : ms = s.methods /\ n = Len(ms) /\ n \in Nat /\ k = i + 1 /\ k \in 1..n
    <2>1. s.methods \in Seq(FullMethod)
      BY ServiceFacts
    <2>2. Len(s.methods) \in Nat /\ i + 1 \in 1..Len(s.methods)
      BY <2>1
    <2>3. QED
      BY <2>2
  <1>2. ms \in Seq(FullMethod) /\ ms[k] \in FullMethod
    BY <1>1, ServiceFacts
  <1>3. PICK m : m = ms[k]
    OBVIOUS
  <1>4. /\ m = [name |-> m.name, parameters |-> m.parameters, return_type |-> m.return_type]
        /\ m.name \in Names /\ m.parameters \in Seq(Parameter) /\ m.return_type \in Keywords
    BY <1>2, <1>3 DEF FullMethod
  <1>5. PICK ps, l : ps = m.parameters /\ l = Len(ps) /\ l \in Nat
    BY <1>4
  <1>6. Parameters(s, i) = ps /\ s.methods[i + 1] = m
    BY <1>1, <1>3, <1>5 DEF Parameters
  <1>7. m.name \in Token /\ m.return_type \in Token
    BY <1>4, Words
  <1>8. First(s, i + 1) = Append(First(s, i), m)
    <2>1. SubSeq(ms, 1, i + 1) = Append(SubSeq(ms, 1, i), ms[i + 1])
      BY <1>1, <1>2, PrefixGrows
    <2>2. QED
      BY <1>1, <1>3, <2>1 DEF First
  <1>9. \A j \in Nat : j <= l => SubSeq(ps, 1, j) \in Seq(Parameter)
    <2> SUFFICES ASSUME NEW j \in Nat, j <= l
                 PROVE  SubSeq(ps, 1, j) \in Seq(Parameter)
      OBVIOUS
    <2>1. \A x \in 1..j : x \in 1..l
      BY <1>5
    <2>2. \A x \in 1..j : ps[x] \in Parameter
      BY <1>4, <1>5, <2>1
    <2>3. QED
      BY <1>4, <1>5, <2>2, SubSeqProperties
  <1>10. \A j \in Nat : j <= l => MethodOf(s, i, j) \in Method
    BY <1>4, <1>6, <1>9 DEF MethodOf, Method
  <1>11. MethodOf(s, i, 0).parameters = <<>>
    <2>1. SubSeq(ps, 1, 0) = <<>>
      BY <1>4, <1>5, EmptySeq, SubSeqProperties
    <2>2. QED
      BY <1>6, <2>1 DEF MethodOf
  <1>12. MethodOf(s, i, l) = m
    <2>1. PICK q : q = SubSeq(ps, 1, l)
      OBVIOUS
    <2>2. q \in Seq(Parameter) /\ Len(q) = l /\ \A x \in 1..l : q[x] = ps[x]
      <3>1. \A x \in 1..l : ps[x] \in Parameter
        BY <1>4, <1>5
      <3>2. QED
        BY <1>4, <1>5, <2>1, <3>1, SubSeqProperties
    <2>3. q = ps
      BY <1>4, <1>5, <2>2, SeqEqual
    <2>4. QED
      BY <1>4, <1>5, <1>6, <2>1, <2>3 DEF MethodOf
  <1>13. QED
    BY <1>2, <1>3, <1>4, <1>5, <1>6, <1>7, <1>8, <1>10, <1>11, <1>12, <1>1

LEMMA HeadOfFacts ==
  ASSUME NEW s \in Services, NEW i \in Nat, i <= Len(s.methods)
  PROVE  HeadOf(s, i) \in Seq(Token)
  <1>1. PICK m : m \in Method
    <2>1. NoMethod \in Method
      BY DEF NoMethod, Method
    <2>2. QED
      BY <2>1
  <1>2. s.name \in Token /\ First(s, i) \in Seq(Method)
    BY ServiceFacts
  <1>3. QED
    BY <1>1, <1>2, HeadsAre DEF HeadOf

LEMMA InHeadOfFacts ==
  ASSUME NEW s \in Services, NEW i \in Nat, i < Len(s.methods)
  PROVE  /\ \A j \in Nat : j <= Len(Parameters(s, i)) => InHeadOf(s, i, j) \in Seq(Token)
         /\ InHeadOf(s, i, 0) = Append(Append(Append(HeadOf(s, i), "rpc"), s.methods[i + 1].name), "(")
         /\ HeadOf(s, i + 1)
              = Append(Returned(InHeadOf(s, i, Len(Parameters(s, i))), s.methods[i + 1].return_type),
                       SemiSign)
  <1>1. PICK name, ms, m : name = s.name /\ ms = First(s, i) /\ m = s.methods[i + 1]
    OBVIOUS
  <1>2. Len(s.methods) \in Nat /\ name \in Token
    BY <1>1, ServiceFacts
  <1>3. ms \in Seq(Method)
    <2>1. i <= Len(s.methods)
      BY <1>2
    <2>2. QED
      BY <1>1, <2>1, ServiceFacts
  <1>4. m \in Method
    <2>1. m \in FullMethod
      BY <1>1, MethodFacts
    <2>2. QED
      BY <2>1 DEF FullMethod, Method
  <1>5. ASSUME NEW j \in Nat, j <= Len(Parameters(s, i))
        PROVE  InHeadOf(s, i, j) \in Seq(Token)
    <2>1. MethodOf(s, i, j) \in Method
      BY <1>5, MethodFacts
    <2>2. PICK n : n = MethodOf(s, i, j)
      OBVIOUS
    <2>3. MethodHead(name, ms, n) \in Seq(Token)
      BY <1>2, <1>3, <2>1, <2>2, HeadsAre
    <2>4. QED
      BY <1>1, <2>2, <2>3 DEF InHeadOf
  <1>6. InHeadOf(s, i, 0) = Append(Append(Append(HeadOf(s, i), "rpc"), s.methods[i + 1].name), "(")
    <2>1. PICK n : n = MethodOf(s, i, 0)
      OBVIOUS
    <2>2. n \in Method /\ n.parameters = <<>> /\ n.name = m.name
      <3>1. 0 <= Len(Parameters(s, i))
        BY MethodFacts
      <3>2. MethodOf(s, i, 0) \in Method /\ MethodOf(s, i, 0).parameters = <<>>
        BY <3>1, MethodFacts
      <3>3. MethodOf(s, i, 0).name = m.name
        BY <1>1 DEF MethodOf
      <3>4. QED
        BY <2>1, <3>2, <3>3
    <2>3. MethodHead(name, ms, n) = Append(Append(Append(ServiceHead(name, ms), "rpc"), n.name), "(")
      BY <1>2, <1>3, <2>2, HeadsAre
    <2>4. QED
      BY <1>1, <2>1, <2>2, <2>3 DEF InHeadOf, HeadOf
  <1>7. HeadOf(s, i + 1)
          = Append(Returned(InHeadOf(s, i, Len(Parameters(s, i))), s.methods[i + 1].return_type),
                   SemiSign)
    <2>1. ServiceHead(name, Append(ms, m))
            = Append(Returned(MethodHead(name, ms, m), m.return_type), SemiSign)
      BY <1>2, <1>3, <1>4, ServiceGrows
    <2>2. First(s, i + 1) = Append(ms, m) /\ MethodOf(s, i, Len(Parameters(s, i))) = m
      BY <1>1, MethodFacts
    <2>3. QED
      BY <1>1, <2>1, <2>2 DEF HeadOf, InHeadOf
  <1>8. QED
    BY <1>5, <1>6, <1>7

(* One parameter further.                                                  *)
LEMMA InHeadOfGrows ==
  ASSUME NEW s \in Services, NEW i \in Nat, i < Len(s.methods),
         NEW j \in Nat, j < Len(Parameters(s, i))
  PROVE  /\ Parameters(s, i)[j + 1] \in Parameter
         /\ MethodOf(s, i, j).parameters = <<>> <=> j = 0
         /\ Grown(s.name, First(s, i), MethodOf(s, i, j), MethodOf(s, i, j + 1),
                  Parameters(s, i)[j + 1].type, Parameters(s, i)[j + 1].name)
  <1>1. PICK ps, l, k : ps = Parameters(s, i) /\ l = Len(ps) /\ k = j + 1
    OBVIOUS
  <1>2. ps \in Seq(Parameter) /\ l \in Nat /\ k \in 1..l /\ j < l
    <2>1. ps \in Seq(Parameter) /\ l \in Nat
      BY <1>1, MethodFacts
    <2>2. QED
      BY <1>1, <2>1
  <1>3. PICK p : p = ps[k]
    OBVIOUS
  <1>4. p \in Parameter /\ p = [type |-> p.type, name |-> p.name]
        /\ p.type \in Keywords /\ p.name \in Names
    <2>1. p \in Parameter
      BY <1>1, <1>2, <1>3
    <2>2. QED
      BY <2>1 DEF Parameter
  <1>5. /\ SubSeq(ps, 1, j) \in Seq(Parameter) /\ Len(SubSeq(ps, 1, j)) = j
        /\ SubSeq(ps, 1, j + 1) = Append(SubSeq(ps, 1, j), ps[j + 1])
    BY <1>1, <1>2, PrefixGrows
  <1>6. PICK name, ms, m, n : /\ name = s.name /\ ms = First(s, i)
                              /\ m = MethodOf(s, i, j) /\ n = MethodOf(s, i, j + 1)
    OBVIOUS
  <1>7. /\ m.parameters = SubSeq(ps, 1, j) /\ n.parameters = Append(m.parameters, p)
        /\ n.name = m.name
    BY <1>1, <1>3, <1>5, <1>6 DEF MethodOf
  <1>8. m \in Method /\ n \in Method
    <2>1. j <= l /\ j + 1 <= l /\ j + 1 \in Nat
      BY <1>1, <1>2
    <2>2. QED
      BY <1>1, <1>6, <2>1, MethodFacts
  <1>9. name \in Token /\ ms \in Seq(Method)
    <2>1. i <= Len(s.methods)
      BY ServiceFacts
    <2>2. QED
      BY <1>6, <2>1, ServiceFacts
  <1>10. PICK t, x : t = p.type /\ x = p.name
    OBVIOUS
  <1>11. Grown(name, ms, m, n, t, x)
    <2>1. p = [type |-> t, name |-> x] /\ t \in Keywords /\ x \in Names
      BY <1>4, <1>10
    <2>2. QED
      BY <1>7, <1>8, <1>9, <2>1, HeadsGrow
  <1>12. m.parameters = <<>> <=> j = 0
    BY <1>5, <1>7, EmptySeq
  <1>13. QED
    BY <1>1, <1>3, <1>4, <1>6, <1>10, <1>11, <1>12

Param(s, i, j) == Parameters(s, i)[j + 1]

(* The texts on the way from one parameter to the next all begin w.        *)
OnParameter(s, i, j, w) ==
  /\ j = 0 => /\ InHeadOf(s, i, j + 1)
                   = Append(Append(InHeadOf(s, i, j), Param(s, i, j).type), Param(s, i, j).name)
              /\ Prefix(Append(InHeadOf(s, i, j), Param(s, i, j).type), w)
  /\ j # 0 => /\ InHeadOf(s, i, j + 1)
                   = Append(Append(Append(InHeadOf(s, i, j), CommaSign), Param(s, i, j).type),
                            Param(s, i, j).name)
              /\ Prefix(Append(InHeadOf(s, i, j), CommaSign), w)
              /\ Prefix(Append(Append(InHeadOf(s, i, j), CommaSign), Param(s, i, j).type), w)
  /\ Prefix(InHeadOf(s, i, j + 1), w)

LEMMA DownParameter ==
  ASSUME NEW s \in Services, NEW i \in Nat, i < Len(s.methods),
         NEW j \in Nat, j < Len(Parameters(s, i)), NEW w, Prefix(InHeadOf(s, i, j + 1), w)
  PROVE  OnParameter(s, i, j, w) /\ Prefix(InHeadOf(s, i, j), w)
  <1>1. PICK h, g, t, x : /\ h = InHeadOf(s, i, j) /\ g = InHeadOf(s, i, j + 1)
                          /\ t = Param(s, i, j).type /\ x = Param(s, i, j).name
    OBVIOUS
  <1>2. h \in Seq(Token) /\ t \in Token /\ x \in Token
    <2>1. j <= Len(Parameters(s, i))
      BY MethodFacts
    <2>2. Param(s, i, j) \in Parameter
      BY InHeadOfGrows DEF Param
    <2>3. QED
      BY <1>1, <2>1, <2>2, InHeadOfFacts, Words DEF Parameter
  <1>3. /\ j = 0 => g = Append(Append(h, t), x)
        /\ j # 0 => g = Append(Append(Append(h, CommaSign), t), x)
    <2>1. Grown(s.name, First(s, i), MethodOf(s, i, j), MethodOf(s, i, j + 1), t, x)
          /\ (MethodOf(s, i, j).parameters = <<>> <=> j = 0)
      BY <1>1, InHeadOfGrows DEF Param
    <2>2. QED
      BY <1>1, <2>1 DEF Grown, InHeadOf
  <1>4. PICK c, a, b : c = Append(h, CommaSign) /\ a = Append(h, t) /\ b = Append(c, t)
    OBVIOUS
  <1>5. c \in Seq(Token) /\ a \in Seq(Token) /\ b \in Seq(Token)
    BY <1>2, <1>4, Signs, AppendProperties
  <1>6. Prefix(g, w)
    BY <1>1
  <1>7. CASE j = 0
    <2>1. Prefix(a, w)
      BY <1>2, <1>3, <1>4, <1>5, <1>6, <1>7, PrefixAppend
    <2>2. Prefix(h, w)
      BY <1>2, <1>4, <2>1, PrefixAppend
    <2>3. QED
      BY <1>1, <1>3, <1>4, <1>6, <1>7, <2>1, <2>2 DEF OnParameter
  <1>8. CASE j # 0
    <2>1. Prefix(b, w)
      BY <1>2, <1>3, <1>4, <1>5, <1>6, <1>8, PrefixAppend
    <2>2. Prefix(c, w)
      BY <1>2, <1>4, <1>5, <2>1, PrefixAppend
    <2>3. Prefix(h, w)
      BY <1>2, <1>4, <2>2, PrefixAppend, Signs
    <2>4. QED
      BY <1>1, <1>3, <1>4, <1>6, <1>8, <2>1, <2>2, <2>3 DEF OnParameter
  <1>9. QED
    BY <1>7, <1>8

LEMMA DownParameters ==
  ASSUME NEW s \in Services, NEW i \in Nat, i < Len(s.methods), NEW w,
         Prefix(InHeadOf(s, i, Len(Parameters(s, i))), w)
  PROVE  /\ \A j \in Nat : j <= Len(Parameters(s, i)) => Prefix(InHeadOf(s, i, j), w)
         /\ \A j \in Nat : j < Len(Parameters(s, i)) => OnParameter(s, i, j, w)
  <1>1. PICK l : l = Len(Parameters(s, i)) /\ l \in Nat
    BY MethodFacts
  <1> DEFINE T == {k \in Nat : k <= l => Prefix(InHeadOf(s, i, l - k), w)}
  <1>2. 0 \in T
    <2>1. l - 0 = l
      BY <1>1
    <2>2. QED
      BY <1>1, <2>1
  <1>3. ASSUME NEW k \in Nat, k \in T  PROVE  k + 1 \in T
    <2>1. CASE k + 1 <= l
      <3>1. PICK j : j = l - (k + 1) /\ j \in Nat /\ j < l /\ j + 1 = l - k /\ k <= l
        <4>1. l - (k + 1) \in Nat /\ l - (k + 1) < l /\ (l - (k + 1)) + 1 = l - k /\ k <= l
          BY <1>1, <2>1
        <4>2. QED
          BY <4>1
      <3>2. Prefix(InHeadOf(s, i, j + 1), w)
        BY <1>3, <3>1
      <3>3. Prefix(InHeadOf(s, i, j), w)
        BY <1>1, <3>1, <3>2, DownParameter
      <3>4. QED
        BY <3>1, <3>3
    <2>2. CASE ~ (k + 1 <= l)
      BY <2>2
    <2>3. QED
      BY <2>1, <2>2
  <1>4. Nat \subseteq T
    <2> HIDE DEF T
    <2>1. QED
      BY <1>2, <1>3, Induction
  <1>5. ASSUME NEW j \in Nat, j <= l  PROVE  Prefix(InHeadOf(s, i, j), w)
    <2>1. l - j \in Nat /\ l - j <= l /\ l - (l - j) = j
      BY <1>1, <1>5
    <2>2. l - j \in T
      BY <1>4, <2>1
    <2>3. QED
      BY <2>1, <2>2
  <1>6. ASSUME NEW j \in Nat, j < l  PROVE  OnParameter(s, i, j, w)
    <2>1. j + 1 \in Nat /\ j + 1 <= l
      BY <1>1, <1>6
    <2>2. Prefix(InHeadOf(s, i, j + 1), w)
      BY <1>5, <2>1
    <2>3. QED
      BY <1>1, <1>6, <2>2, DownParameter
  <1>7. QED
    BY <1>1, <1>5, <1>6

(* The texts on the way from one method to the next.                       *)
OnMethod(s, i, w) ==
  LET m == s.methods[i + 1]
      h == HeadOf(s, i)
      g == InHeadOf(s, i, Len(Parameters(s, i)))
  IN  /\ Prefix(Append(h, "rpc"), w) /\ Prefix(Append(Append(h, "rpc"), m.name), w)
      /\ Prefix(Append(Append(Append(h, "rpc"), m.name), "("), w)
      /\ Prefix(Append(g, ")"), w) /\ Prefix(Append(Append(g, ")"), "returns"), w)
      /\ Prefix(Returning(g), w) /\ Prefix(Append(Returning(g), m.return_type), w)
      /\ Prefix(Returned(g, m.return_type), w)
      /\ Prefix(Append(Returned(g, m.return_type), SemiSign), w)
      /\ \A j \in Nat : j < Len(Parameters(s, i)) => OnParameter(s, i, j, w)

LEMMA DownMethod ==
  ASSUME NEW s \in Services, NEW i \in Nat, i < Len(s.methods), NEW w,
         Prefix(HeadOf(s, i + 1), w)
  PROVE  OnMethod(s, i, w) /\ Prefix(HeadOf(s, i), w)
  <1>1. PICK h, g, l, name, t : /\ h = HeadOf(s, i) /\ l = Len(Parameters(s, i))
                                /\ g = InHeadOf(s, i, l)
                                /\ name = s.methods[i + 1].name /\ t = s.methods[i + 1].return_type
    OBVIOUS
  <1>2. name \in Token /\ t \in Token /\ l \in Nat
    BY <1>1, MethodFacts
  <1>3. h \in Seq(Token) /\ g \in Seq(Token)
    <2>1. i <= Len(s.methods)
      BY ServiceFacts
    <2>2. QED
      BY <1>1, <1>2, <2>1, HeadOfFacts, InHeadOfFacts
  <1>4. PICK a1, a2, a3, a4, a5, a6 :
          /\ a1 = Append(g, ")") /\ a2 = Append(a1, "returns") /\ a3 = Append(a2, "(")
          /\ a4 = Append(a3, t) /\ a5 = Append(a4, ")") /\ a6 = Append(a5, SemiSign)
    OBVIOUS
  <1>5. a1 \in Seq(Token) /\ a2 \in Seq(Token) /\ a3 \in Seq(Token)
    <2>1. a1 \in Seq(Token)
      BY <1>3, <1>4, Words, AppendProperties
    <2>2. a2 \in Seq(Token)
      BY <2>1, <1>4, Words, AppendProperties
    <2>3. QED
      BY <2>1, <2>2, <1>4, Words, AppendProperties
  <1>6. a4 \in Seq(Token) /\ a5 \in Seq(Token) /\ a6 \in Seq(Token)
    <2>1. a4 \in Seq(Token)
      BY <1>2, <1>4, <1>5, AppendProperties
    <2>2. a5 \in Seq(Token)
      BY <2>1, <1>4, Words, AppendProperties
    <2>3. QED
      BY <2>1, <2>2, <1>4, Signs, AppendProperties
  <1>7. Prefix(a6, w)
    <2>1. HeadOf(s, i + 1) = Append(Returned(g, t), SemiSign)
      BY <1>1, InHeadOfFacts
    <2>2. QED
      BY <1>4, <2>1 DEF Returned, Returning
  <1>8. Prefix(a5, w)
    BY <1>4, <1>6, <1>7, PrefixAppend, Signs
  <1>9. Prefix(a4, w)
    BY <1>4, <1>6, <1>8, PrefixAppend, Words
  <1>10. Prefix(a3, w)
    BY <1>2, <1>4, <1>5, <1>9, PrefixAppend
  <1>11. Prefix(a2, w)
    BY <1>4, <1>5, <1>10, PrefixAppend, Words
  <1>12. Prefix(a1, w)
    BY <1>4, <1>5, <1>11, PrefixAppend, Words
  <1>13. Prefix(g, w)
    BY <1>3, <1>4, <1>12, PrefixAppend, Words
  <1>14. /\ \A j \in Nat : j <= l => Prefix(InHeadOf(s, i, j), w)
         /\ \A j \in Nat : j < l => OnParameter(s, i, j, w)
    BY <1>1, <1>13, DownParameters
  <1>15. PICK b1, b2, b3 :
           b1 = Append(h, "rpc") /\ b2 = Append(b1, name) /\ b3 = Append(b2, "(")
    OBVIOUS
  <1>16. b1 \in Seq(Token) /\ b2 \in Seq(Token)
    <2>1. b1 \in Seq(Token)
      BY <1>3, <1>15, Words, AppendProperties
    <2>2. QED
      BY <1>2, <1>15, <2>1, AppendProperties
  <1>17. Prefix(b3, w)
    <2>1. InHeadOf(s, i, 0) = b3
      BY <1>1, <1>15, InHeadOfFacts
    <2>2. QED
      BY <1>2, <1>14, <2>1
  <1>18. Prefix(b2, w)
    BY <1>15, <1>16, <1>17, PrefixAppend, Words
  <1>19. Prefix(b1, w)
    BY <1>2, <1>15, <1>16, <1>18, PrefixAppend
  <1>20. Prefix(h, w)
    BY <1>3, <1>15, <1>19, PrefixAppend, Words
  <1>21. OnMethod(s, i, w)
    BY <1>1, <1>4, <1>7, <1>8, <1>9, <1>10, <1>11, <1>12, <1>14, <1>15, <1>17, <1>18, <1>19
    DEF OnMethod, Returned, Returning
  <1>22. QED
    BY <1>1, <1>20, <1>21

(* The texts on the way to the first method.                               *)
OnService(s, w) ==
  /\ Prefix(<<"service">>, w) /\ Prefix(<<"service", s.name>>, w)
  /\ Prefix(Append(<<"service", s.name>>, LeftSign), w)
  /\ HeadOf(s, 0) = Append(<<"service", s.name>>, LeftSign)

LEMMA DownService ==
  ASSUME NEW s \in Services, NEW w, Prefix(HeadOf(s, 0), w)
  PROVE  OnService(s, w)
  <1>1. PICK u, v, n : u = <<"service">> /\ n = s.name /\ v = <<"service", n>>
    OBVIOUS
  <1>2. n \in Token
    BY <1>1, ServiceFacts
  <1>3. u \in Seq(Token) /\ v \in Seq(Token) /\ v = Append(u, n)
    BY <1>1, <1>2, Words
  <1>4. HeadOf(s, 0) = Append(v, LeftSign)
    <2>1. PICK m : m \in Method
      <3>1. NoMethod \in Method
        BY DEF NoMethod, Method
      <3>2. QED
        BY <3>1
    <2>2. First(s, 0) = <<>>
      BY ServiceFacts
    <2>3. <<>> \in Seq(Method)
      OBVIOUS
    <2>4. ServiceHead(n, <<>>) = Append(<<"service", n>>, LeftSign)
      BY <1>2, <2>1, <2>3, HeadsAre
    <2>5. QED
      BY <1>1, <2>2, <2>4 DEF HeadOf
  <1>5. Prefix(v, w)
    BY <1>3, <1>4, PrefixAppend, Signs
  <1>6. Prefix(u, w)
    BY <1>2, <1>3, <1>5, PrefixAppend
  <1>7. QED
    BY <1>1, <1>4, <1>5, <1>6 DEF OnService

LEMMA AllPrefixes ==
  ASSUME NEW s \in Services
  PROVE  /\ Text(s) \in Seq(Token)
         /\ Text(s) = Append(HeadOf(s, Len(s.methods)), RightSign)
         /\ Prefix(Append(HeadOf(s, Len(s.methods)), RightSign), Text(s))
         /\ \A i \in Nat : i <= Len(s.methods) => Prefix(HeadOf(s, i), Text(s))
         /\ \A i \in Nat : i < Len(s.methods) => OnMethod(s, i, Text(s))
         /\ OnService(s, Text(s))
  <1>1. PICK l, w : l = Len(s.methods) /\ l \in Nat /\ w = Text(s)
    <2>1. Len(s.methods) \in Nat
      BY ServiceFacts
    <2>2. QED
      BY <2>1
  <1>2. w = Append(HeadOf(s, l), RightSign)
    <2>1. s.name \in Token /\ s.methods \in Seq(Method) /\ First(s, l) = s.methods
      BY <1>1, ServiceFacts
    <2>2. QED
      BY <1>1, <2>1, TextIs DEF HeadOf
  <1>3. HeadOf(s, l) \in Seq(Token)
    BY <1>1, HeadOfFacts
  <1>4. w \in Seq(Token)
    BY <1>2, <1>3, Signs, AppendProperties
  <1>5. Prefix(w, w)
    <2>1. Len(w) \in Nat
      BY <1>4
    <2>2. QED
      BY <1>4, <2>1 DEF Prefix
  <1>6. Prefix(HeadOf(s, l), w)
    BY <1>2, <1>3, <1>5, PrefixAppend, Signs
  <1> DEFINE T == {k \in Nat : k <= l => Prefix(HeadOf(s, l - k), w)}
  <1>7. 0 \in T
    <2>1. l - 0 = l
      BY <1>1
    <2>2. QED
      BY <1>6, <2>1
  <1>8. ASSUME NEW k \in Nat, k \in T  PROVE  k + 1 \in T
    <2>1. CASE k + 1 <= l
      <3>1. PICK j : j = l - (k + 1) /\ j \in Nat /\ j < l /\ j + 1 = l - k /\ k <= l
        <4>1. l - (k + 1) \in Nat /\ l - (k + 1) < l /\ (l - (k + 1)) + 1 = l - k /\ k <= l
          BY <1>1, <2>1
        <4>2. QED
          BY <4>1
      <3>2. Prefix(HeadOf(s, j + 1), w)
        BY <1>8, <3>1
      <3>3. Prefix(HeadOf(s, j), w)
        BY <1>1, <3>1, <3>2, DownMethod
      <3>4. QED
        BY <3>1, <3>3
    <2>2. CASE ~ (k + 1 <= l)
      BY <2>2
    <2>3. QED
      BY <2>1, <2>2
  <1>9. Nat \subseteq T
    <2> HIDE DEF T
    <2>1. QED
      BY <1>7, <1>8, Induction
  <1>10. ASSUME NEW i \in Nat, i <= l  PROVE  Prefix(HeadOf(s, i), w)
    <2>1. l - i \in Nat /\ l - i <= l /\ l - (l - i) = i
      BY <1>1, <1>10
    <2>2. l - i \in T
      BY <1>9, <2>1
    <2>3. QED
      BY <2>1, <2>2
  <1>11. ASSUME NEW i \in Nat, i < l  PROVE  OnMethod(s, i, w)
    <2>1. i + 1 \in Nat /\ i + 1 <= l
      BY <1>1, <1>11
    <2>2. Prefix(HeadOf(s, i + 1), w)
      BY <1>10, <2>1
    <2>3. QED
      BY <1>1, <1>11, <2>2, DownMethod
  <1>12. OnService(s, w)
    BY <1>1, <1>10, DownService
  <1>13. QED
    BY <1>1, <1>2, <1>4, <1>5, <1>10, <1>11, <1>12

-----------------------------------------------------------------------------
(* Where each token of a definition's text stands *)

HeadLen(s, i)  == Len(HeadOf(s, i))
InLen(s, i, j) == Len(InHeadOf(s, i, j))
EndLen(s, i)   == InLen(s, i, Len(Parameters(s, i)))

TokenAt(w, k, x) == k \in 1..Len(w) /\ w[k] = x

LEMMA PrefixAt ==
  ASSUME NEW u, NEW x, NEW w, NEW k, u \in Seq(Token), x \in Token, Prefix(Append(u, x), w),
         k = Len(u) + 1
  PROVE  TokenAt(w, k, x)
  <1>1. Len(u) \in Nat /\ Len(u) + 1 <= Len(w) /\ w[Len(u) + 1] = x
    BY PrefixAppend
  <1>2. Len(w) \in Nat
    BY DEF Prefix
  <1>3. QED
    BY <1>1, <1>2 DEF TokenAt

LEMMA AppendLen ==
  ASSUME NEW u, NEW x, u \in Seq(Token), x \in Token
  PROVE  Append(u, x) \in Seq(Token) /\ Len(Append(u, x)) = Len(u) + 1 /\ Len(u) \in Nat
  BY AppendProperties

LEMMA MethodPlaces ==
  ASSUME NEW s \in Services, NEW i \in Nat, i < Len(s.methods)
  PROVE  /\ HeadLen(s, i) \in Nat /\ EndLen(s, i) \in Nat
         /\ InLen(s, i, 0) = HeadLen(s, i) + 3
         /\ HeadLen(s, i + 1) = EndLen(s, i) + 6
         /\ TokenAt(Text(s), HeadLen(s, i) + 1, "rpc")
         /\ TokenAt(Text(s), HeadLen(s, i) + 2, s.methods[i + 1].name)
         /\ TokenAt(Text(s), HeadLen(s, i) + 3, "(")
         /\ TokenAt(Text(s), EndLen(s, i) + 1, ")")
         /\ TokenAt(Text(s), EndLen(s, i) + 2, "returns")
         /\ TokenAt(Text(s), EndLen(s, i) + 3, "(")
         /\ TokenAt(Text(s), EndLen(s, i) + 4, s.methods[i + 1].return_type)
         /\ TokenAt(Text(s), EndLen(s, i) + 5, ")")
         /\ TokenAt(Text(s), EndLen(s, i) + 6, SemiSign)
  <1>1. PICK h, g, l, name, t, w :
          /\ h = HeadOf(s, i) /\ l = Len(Parameters(s, i)) /\ g = InHeadOf(s, i, l)
          /\ name = s.methods[i + 1].name /\ t = s.methods[i + 1].return_type /\ w = Text(s)
    OBVIOUS
  <1>2. name \in Token /\ t \in Token /\ l \in Nat
    BY <1>1, MethodFacts
  <1>3. h \in Seq(Token) /\ g \in Seq(Token)
    <2>1. i <= Len(s.methods)
      BY ServiceFacts
    <2>2. QED
      BY <1>1, <1>2, <2>1, HeadOfFacts, InHeadOfFacts
  <1>4. PICK a1, a2, a3, a4, a5, a6, b1, b2, b3 :
          /\ a1 = Append(g, ")") /\ a2 = Append(a1, "returns") /\ a3 = Append(a2, "(")
          /\ a4 = Append(a3, t) /\ a5 = Append(a4, ")") /\ a6 = Append(a5, SemiSign)
          /\ b1 = Append(h, "rpc") /\ b2 = Append(b1, name) /\ b3 = Append(b2, "(")
    OBVIOUS
  <1>5. /\ Prefix(a1, w) /\ Prefix(a2, w) /\ Prefix(a3, w) /\ Prefix(a4, w) /\ Prefix(a5, w)
        /\ Prefix(a6, w) /\ Prefix(b1, w) /\ Prefix(b2, w) /\ Prefix(b3, w)
    <2>1. OnMethod(s, i, w)
      BY <1>1, AllPrefixes
    <2>2. QED
      BY <1>1, <1>4, <2>1 DEF OnMethod, Returning, Returned
  <1>6. PICK n, k : n = Len(g) /\ k = Len(h) /\ n \in Nat /\ k \in Nat
    <2>1. Len(g) \in Nat /\ Len(h) \in Nat
      BY <1>3
    <2>2. QED
      BY <2>1
  <1>7. a1 \in Seq(Token) /\ Len(a1) = n + 1
    <2>1. Append(g, ")") \in Seq(Token) /\ Len(Append(g, ")")) = Len(g) + 1
      BY <1>3, Words, AppendLen
    <2>2. QED
      BY <1>4, <1>6, <2>1
  <1>8. a2 \in Seq(Token) /\ Len(a2) = n + 2
    <2>1. Append(a1, "returns") \in Seq(Token) /\ Len(Append(a1, "returns")) = Len(a1) + 1
      BY <1>7, Words, AppendLen
    <2>2. QED
      BY <1>4, <1>6, <2>1, <1>7
  <1>9. a3 \in Seq(Token) /\ Len(a3) = n + 3
    <2>1. Append(a2, "(") \in Seq(Token) /\ Len(Append(a2, "(")) = Len(a2) + 1
      BY <1>8, Words, AppendLen
    <2>2. QED
      BY <1>4, <1>6, <2>1, <1>8
  <1>10. a4 \in Seq(Token) /\ Len(a4) = n + 4
    <2>1. Append(a3, t) \in Seq(Token) /\ Len(Append(a3, t)) = Len(a3) + 1
      BY <1>9, <1>2, AppendLen
    <2>2. QED
      BY <1>4, <1>6, <2>1, <1>9
  <1>11. a5 \in Seq(Token) /\ Len(a5) = n + 5
    <2>1. Append(a4, ")") \in Seq(Token) /\ Len(Append(a4, ")")) = Len(a4) + 1
      BY <1>10, Words, AppendLen
    <2>2. QED
      BY <1>4, <1>6, <2>1, <1>10
  <1>12. a6 \in Seq(Token) /\ Len(a6) = n + 6
    <2>1. Append(a5, SemiSign) \in Seq(Token) /\ Len(Append(a5, SemiSign)) = Len(a5) + 1
      BY <1>11, Signs, AppendLen
    <2>2. QED
      BY <1>4, <1>6, <2>1, <1>11
  <1>13. b1 \in Seq(Token) /\ Len(b1) = k + 1
    <2>1. Append(h, "rpc") \in Seq(Token) /\ Len(Append(h, "rpc")) = Len(h) + 1
      BY <1>3, Words, AppendLen
    <2>2. QED
      BY <1>4, <1>6, <2>1
  <1>14. b2 \in Seq(Token) /\ Len(b2) = k + 2
    <2>1. Append(b1, name) \in Seq(Token) /\ Len(Append(b1, name)) = Len(b1) + 1
      BY <1>13, <1>2, AppendLen
    <2>2. QED
      BY <1>4, <1>6, <2>1, <1>13
  <1>15. b3 \in Seq(Token) /\ Len(b3) = k + 3
    <2>1. Append(b2, "(") \in Seq(Token) /\ Len(Append(b2, "(")) = Len(b2) + 1
      BY <1>14, Words, AppendLen
    <2>2. QED
      BY <1>4, <1>6, <2>1, <1>14
  <1>16. TokenAt(w, n + 1, ")")
    <2>1. g \in Seq(Token) /\ Prefix(Append(g, ")"), w) /\ n + 1 = Len(g) + 1
      BY <1>4, <1>5, <1>6, <1>3
    <2>2. QED
      BY <2>1, Words, PrefixAt
  <1>17. TokenAt(w, n + 2, "returns")
    <2>1. a1 \in Seq(Token) /\ Prefix(Append(a1, "returns"), w) /\ n + 2 = Len(a1) + 1
      BY <1>4, <1>5, <1>6, <1>7
    <2>2. QED
      BY <2>1, Words, PrefixAt
  <1>18. TokenAt(w, n + 3, "(")
    <2>1. a2 \in Seq(Token) /\ Prefix(Append(a2, "("), w) /\ n + 3 = Len(a2) + 1
      BY <1>4, <1>5, <1>6, <1>8
    <2>2. QED
      BY <2>1, Words, PrefixAt
  <1>19. TokenAt(w, n + 4, t)
    <2>1. a3 \in Seq(Token) /\ Prefix(Append(a3, t), w) /\ n + 4 = Len(a3) + 1
      BY <1>4, <1>5, <1>6, <1>9
    <2>2. QED
      BY <2>1, <1>2, PrefixAt
  <1>20. TokenAt(w, n + 5, ")")
    <2>1. a4 \in Seq(Token) /\ Prefix(Append(a4, ")"), w) /\ n + 5 = Len(a4) + 1
      BY <1>4, <1>5, <1>6, <1>10
    <2>2. QED
      BY <2>1, Words, PrefixAt
  <1>21. TokenAt(w, n + 6, SemiSign)
    <2>1. a5 \in Seq(Token) /\ Prefix(Append(a5, SemiSign), w) /\ n + 6 = Len(a5) + 1
      BY <1>4, <1>5, <1>6, <1>11
    <2>2. QED
      BY <2>1, Signs, PrefixAt
  <1>22. TokenAt(w, k + 1, "rpc")
    <2>1. h \in Seq(Token) /\ Prefix(Append(h, "rpc"), w) /\ k + 1 = Len(h) + 1
      BY <1>4, <1>5, <1>6, <1>3
    <2>2. QED
      BY <2>1, Words, PrefixAt
  <1>23. TokenAt(w, k + 2, name)
    <2>1. b1 \in Seq(Token) /\ Prefix(Append(b1, name), w) /\ k + 2 = Len(b1) + 1
      BY <1>4, <1>5, <1>6, <1>13
    <2>2. QED
      BY <2>1, <1>2, PrefixAt
  <1>24. TokenAt(w, k + 3, "(")
    <2>1. b2 \in Seq(Token) /\ Prefix(Append(b2, "("), w) /\ k + 3 = Len(b2) + 1
      BY <1>4, <1>5, <1>6, <1>14
    <2>2. QED
      BY <2>1, Words, PrefixAt
  <1>25. InLen(s, i, 0) = k + 3
    <2>1. InHeadOf(s, i, 0) = b3
      BY <1>1, <1>4, InHeadOfFacts
    <2>2. QED
      BY <1>15, <2>1 DEF InLen
  <1>26. HeadLen(s, i + 1) = n + 6
    <2>1. HeadOf(s, i + 1) = a6
      BY <1>1, <1>4, InHeadOfFacts DEF Returned, Returning
    <2>2. QED
      BY <1>12, <2>1 DEF HeadLen
  <1>27. HeadLen(s, i) = k /\ EndLen(s, i) = n
    BY <1>1, <1>6 DEF HeadLen, EndLen, InLen
  <1>28. QED
    BY <1>1, <1>6, <1>16, <1>17, <1>18, <1>19, <1>20, <1>21, <1>22, <1>23, <1>24, <1>25, <1>26, <1>27

LEMMA ParameterPlaces ==
  ASSUME NEW s \in Services, NEW i \in Nat, i < Len(s.methods),
         NEW j \in Nat, j < Len(Parameters(s, i))
  PROVE  /\ InLen(s, i, j) \in Nat
         /\ InLen(s, i, j + 1) = InLen(s, i, j) + (IF j = 0 THEN 2 ELSE 3)
         /\ j = 0 => /\ TokenAt(Text(s), InLen(s, i, j) + 1, Param(s, i, j).type)
                     /\ TokenAt(Text(s), InLen(s, i, j) + 2, Param(s, i, j).name)
         /\ j # 0 => /\ TokenAt(Text(s), InLen(s, i, j) + 1, CommaSign)
                     /\ TokenAt(Text(s), InLen(s, i, j) + 2, Param(s, i, j).type)
                     /\ TokenAt(Text(s), InLen(s, i, j) + 3, Param(s, i, j).name)
  <1>1. PICK h, g, t, x, w : /\ h = InHeadOf(s, i, j) /\ g = InHeadOf(s, i, j + 1)
                             /\ t = Param(s, i, j).type /\ x = Param(s, i, j).name /\ w = Text(s)
    OBVIOUS
  <1>2. t \in Token /\ x \in Token
    <2>1. Param(s, i, j) \in Parameter
      BY InHeadOfGrows DEF Param
    <2>2. QED
      BY <1>1, <2>1, Words DEF Parameter
  <1>3. h \in Seq(Token)
    <2>1. j <= Len(Parameters(s, i))
      BY MethodFacts
    <2>2. QED
      BY <1>1, <2>1, InHeadOfFacts
  <1>4. OnParameter(s, i, j, w)
    <2>1. OnMethod(s, i, w)
      BY <1>1, AllPrefixes
    <2>2. QED
      BY <2>1 DEF OnMethod
  <1>5. PICK n : n = Len(h) /\ n \in Nat
    <2>1. Len(h) \in Nat
      BY <1>3
    <2>2. QED
      BY <2>1
  <1>6. InLen(s, i, j) = n
    BY <1>1, <1>5 DEF InLen
  <1>7. CASE j = 0
    <2>1. PICK a, b : a = Append(h, t) /\ b = Append(a, x)
      OBVIOUS
    <2>2. g = b /\ Prefix(a, w) /\ Prefix(b, w)
      BY <1>1, <1>4, <1>7, <2>1 DEF OnParameter
    <2>3. a \in Seq(Token) /\ Len(a) = n + 1
      BY <1>2, <1>3, <1>5, <2>1, AppendLen
    <2>4. Len(b) = n + 2
      <3>1. Len(b) = Len(a) + 1
        BY <1>2, <2>1, <2>3, AppendLen
      <3>2. QED
        BY <1>5, <2>3, <3>1
    <2>5. TokenAt(w, n + 1, t)
      BY <1>2, <1>3, <1>5, <2>1, <2>2, PrefixAt
    <2>6. TokenAt(w, n + 2, x)
      <3>1. n + 2 = Len(a) + 1
        BY <1>5, <2>3
      <3>2. QED
        BY <1>2, <2>1, <2>2, <2>3, <3>1, PrefixAt
    <2>7. InLen(s, i, j + 1) = n + 2
      BY <1>1, <2>2, <2>4 DEF InLen
    <2>8. QED
      BY <1>1, <1>5, <1>6, <1>7, <2>5, <2>6, <2>7
  <1>8. CASE j # 0
    <2>1. PICK c, a, b : c = Append(h, CommaSign) /\ a = Append(c, t) /\ b = Append(a, x)
      OBVIOUS
    <2>2. g = b /\ Prefix(c, w) /\ Prefix(a, w) /\ Prefix(b, w)
      BY <1>1, <1>4, <1>8, <2>1 DEF OnParameter
    <2>3. c \in Seq(Token) /\ Len(c) = n + 1
      BY <1>3, <1>5, <2>1, Signs, AppendLen
    <2>4. a \in Seq(Token) /\ Len(a) = n + 2
      <3>1. a \in Seq(Token) /\ Len(a) = Len(c) + 1
        BY <1>2, <2>1, <2>3, AppendLen
      <3>2. QED
        BY <1>5, <2>3, <3>1
    <2>5. Len(b) = n + 3
      <3>1. Len(b) = Len(a) + 1
        BY <1>2, <2>1, <2>4, AppendLen
      <3>2. QED
        BY <1>5, <2>4, <3>1
    <2>6. TokenAt(w, n + 1, CommaSign)
      BY <1>3, <1>5, <2>1, <2>2, Signs, PrefixAt
    <2>7. TokenAt(w, n + 2, t)
      <3>1. n + 2 = Len(c) + 1
        BY <1>5, <2>3
      <3>2. QED
        BY <1>2, <2>1, <2>2, <2>3, <3>1, PrefixAt
    <2>8. TokenAt(w, n + 3, x)
      <3>1. n + 3 = Len(a) + 1
        BY <1>5, <2>4
      <3>2. QED
        BY <1>2, <2>1, <2>2, <2>4, <3>1, PrefixAt
    <2>9. InLen(s, i, j + 1) = n + 3
      BY <1>1, <2>2, <2>5 DEF InLen
    <2>10. QED
      BY <1>1, <1>5, <1>6, <1>8, <2>6, <2>7, <2>8, <2>9
  <1>9. QED
    BY <1>7, <1>8

LEMMA OneMore ==
  ASSUME NEW S, NEW a \in S, NEW b \in S
  PROVE  <<a, b>> = Append(<<a>>, b)
  OBVIOUS

LEMMA ServicePlaces ==
  ASSUME NEW s \in Services
  PROVE  /\ TokenAt(Text(s), 1, "service") /\ TokenAt(Text(s), 2, s.name)
         /\ TokenAt(Text(s), 3, LeftSign) /\ HeadLen(s, 0) = 3
         /\ HeadLen(s, Len(s.methods)) \in Nat
         /\ TokenAt(Text(s), HeadLen(s, Len(s.methods)) + 1, RightSign)
  <1>1. PICK u, v, n, w : /\ n = s.name /\ u = <<"service">> /\ v = <<"service", n>>
                          /\ w = Text(s)
    OBVIOUS
  <1>2. n \in Token
    BY <1>1, ServiceFacts
  <1>3. <<>> \in Seq(Token) /\ Len(<<>>) = 0 /\ Append(<<>>, "service") = u
    BY <1>1
  <1>4. u \in Seq(Token) /\ Len(u) = 1 /\ Append(u, n) = v
    <2>1. u \in Seq(Token) /\ Len(u) = 1
      BY <1>1, Words
    <2>2. Append(u, n) = v
      BY <1>1, <1>2, Words, OneMore
    <2>3. QED
      BY <2>1, <2>2
  <1>5. v \in Seq(Token) /\ Len(v) = 2
    BY <1>1, <1>2, Words
  <1>6. /\ Prefix(u, w) /\ Prefix(v, w) /\ Prefix(Append(v, LeftSign), w)
        /\ HeadOf(s, 0) = Append(v, LeftSign)
    <2>1. OnService(s, w)
      BY <1>1, AllPrefixes
    <2>2. QED
      BY <1>1, <2>1 DEF OnService
  <1>7. TokenAt(w, 1, "service")
    <2>1. PICK e : e = <<>>
      OBVIOUS
    <2>2. e \in Seq(Token) /\ Prefix(Append(e, "service"), w) /\ 1 = Len(e) + 1
      BY <1>3, <1>6, <2>1
    <2>3. QED
      BY <2>2, Words, PrefixAt
  <1>8. TokenAt(w, 2, n)
    <2>1. 2 = Len(u) + 1 /\ Prefix(Append(u, n), w)
      BY <1>4, <1>6
    <2>2. QED
      BY <1>2, <1>4, <2>1, PrefixAt
  <1>9. TokenAt(w, 3, LeftSign)
    <2>1. 3 = Len(v) + 1
      BY <1>5
    <2>2. QED
      BY <1>5, <1>6, <2>1, Signs, PrefixAt
  <1>10. HeadLen(s, 0) = 3
    <2>1. Len(Append(v, LeftSign)) = Len(v) + 1
      BY <1>5, Signs, AppendLen
    <2>2. QED
      BY <1>5, <1>6, <2>1 DEF HeadLen
  <1>11. /\ HeadLen(s, Len(s.methods)) \in Nat
         /\ TokenAt(w, HeadLen(s, Len(s.methods)) + 1, RightSign)
    <2>1. PICK h, k : h = HeadOf(s, Len(s.methods)) /\ k = Len(h)
      OBVIOUS
    <2>2. h \in Seq(Token) /\ k \in Nat /\ Prefix(Append(h, RightSign), w)
      <3>1. Len(s.methods) \in Nat /\ Len(s.methods) <= Len(s.methods)
        BY ServiceFacts
      <3>2. h \in Seq(Token)
        BY <2>1, <3>1, HeadOfFacts
      <3>3. QED
        BY <1>1, <2>1, <3>2, AllPrefixes
    <2>3. TokenAt(w, k + 1, RightSign)
      BY <2>1, <2>2, Signs, PrefixAt
    <2>4. QED
      BY <2>1, <2>2, <2>3 DEF HeadLen
  <1>12. QED
    BY <1>1, <1>7, <1>8, <1>9, <1>10, <1>11

-----------------------------------------------------------------------------
(* The parser on the text of a valid definition *)

(* The file starts with this definition.                                   *)
Ahead(s) == \E n \in DOMAIN source : SubSeq(source, 1, n) = Text(s)

LEMMA TokenAhead ==
  ASSUME SourceOK, NEW s \in Services, Ahead(s), NEW k, NEW x, k = pos + 1,
         TokenAt(Text(s), k, x)
  PROVE  curr_token = x
  <1>1. PICK n \in DOMAIN source : SubSeq(source, 1, n) = Text(s)
    BY DEF Ahead
  <1>2. source \in Seq(Token) /\ pos \in Nat
    BY DEF SourceOK
  <1>3. PICK l, p, v, w : l = Len(source) /\ p = pos /\ v = source /\ w = Text(s)
    OBVIOUS
  <1>4. v \in Seq(Token) /\ l \in Nat /\ n \in 1..l /\ p \in Nat
    BY <1>1, <1>2, <1>3
  <1>5. \A m \in 1..n : v[m] \in Token
    BY <1>3, <1>4
  <1>6. Len(w) = n /\ \A m \in 1..n : w[m] = v[m]
    <2>1. w = SubSeq(v, 1, n)
      BY <1>1, <1>3
    <2>2. QED
      BY <1>3, <1>4, <1>5, <2>1, SubSeqProperties
  <1>7. k \in 1..n /\ w[k] = x
    BY <1>3, <1>6 DEF TokenAt
  <1>8. v[k] = x /\ p < l /\ k = p + 1
    BY <1>3, <1>4, <1>6, <1>7
  <1>9. QED
    BY <1>3, <1>8 DEF curr_token

(* i methods of the definition and j parameters of the next one were read. *)
Spot(s, i, j) ==
  /\ i \in Nat /\ i <= Len(s.methods) /\ j \in Nat
  /\ at \in InMethod       => i < Len(s.methods)
  /\ at = "service"        => pos = 0 /\ i = 0
  /\ at = "service_name"   => pos = 1 /\ i = 0
  /\ at = "open_brace"     => pos = 2 /\ i = 0
  /\ at = "methods"        => pos = HeadLen(s, i)
  /\ at = "method_name"    => pos = HeadLen(s, i) + 1
  /\ at = "open_paren"     => pos = HeadLen(s, i) + 2
  /\ at = "parameters" /\ ~ AfterComma => j = 0 /\ pos = InLen(s, i, 0)
  /\ at = "parameters" /\ AfterComma   => /\ 0 < j /\ j < Len(Parameters(s, i))
                                          /\ pos = InLen(s, i, j) + 1
  /\ at = "parameter_name" => /\ j < Len(Parameters(s, i))
                              /\ pos = InLen(s, i, j) + (IF j = 0 THEN 1 ELSE 2)
  /\ at = "separator"      => /\ 0 < j /\ j <= Len(Parameters(s, i))
                              /\ pos = InLen(s, i, j)
  /\ at = "returns"        => pos = EndLen(s, i) + 1
  /\ at = "open_type"      => pos = EndLen(s, i) + 2
  /\ at = "return_type"    => pos = EndLen(s, i) + 3
  /\ at = "close_type"     => pos = EndLen(s, i) + 4
  /\ at = "semicolon"      => pos = EndLen(s, i) + 5
  /\ at \in {"validate", "accepted"} => i = Len(s.methods)

(* The methods kept are some of those read, each name once.                *)
Kept(s, i) ==
  /\ \A k \in DOMAIN service.methods :
       \E m \in 1..i : service.methods[k].name = s.methods[m].name
  /\ ~ Duplicates
  /\ lost = 0 => Len(service.methods) = i
  /\ at \in InMethod \ {"method_name"} => method.name = s.methods[i + 1].name

Comes(s, i, j) ==
  /\ at = "service"      => curr_token = "service"
  /\ at = "service_name" => curr_token \in Names
  /\ at = "open_brace"   => curr_token = LeftSign
  /\ at = "methods"      => /\ i < Len(s.methods) => curr_token = "rpc"
                            /\ i = Len(s.methods) => curr_token = RightSign
  /\ at = "method_name"  => curr_token \in Names /\ curr_token = s.methods[i + 1].name
  /\ at = "open_paren"   => curr_token = "("
  /\ at = "parameters"   => /\ j < Len(Parameters(s, i)) => curr_token \in Keywords
                            /\ j = Len(Parameters(s, i)) => curr_token = ")"
  /\ at = "parameter_name" => curr_token \in Names
  /\ at = "separator"    => /\ j < Len(Parameters(s, i)) => curr_token = CommaSign
                            /\ j = Len(Parameters(s, i)) => curr_token = ")"
  /\ at = "returns"      => curr_token = "returns"
  /\ at = "open_type"    => curr_token = "("
  /\ at = "return_type"  => curr_token \in Keywords
  /\ at = "close_type"   => curr_token = ")"
  /\ at = "semicolon"    => curr_token = SemiSign

LEMMA WhatComes ==
  ASSUME SourceOK, NEW s \in Services, Ahead(s), NEW i, NEW j, Spot(s, i, j)
  PROVE  Comes(s, i, j)
  <1>0. i \in Nat /\ i <= Len(s.methods) /\ j \in Nat /\ Len(s.methods) \in Nat
        /\ (at \in InMethod => i < Len(s.methods)) /\ pos \in Nat
    BY ServiceFacts DEF Spot, SourceOK
  <1>1. ASSUME at = "service"  PROVE  curr_token = "service"
    <2>1. 1 = pos + 1
      BY <1>1 DEF Spot
    <2>2. QED
      BY <2>1, ServicePlaces, TokenAhead
  <1>2. ASSUME at = "service_name"  PROVE  curr_token \in Names
    <2>1. 2 = pos + 1
      BY <1>2 DEF Spot
    <2>2. curr_token = s.name
      BY <2>1, ServicePlaces, TokenAhead
    <2>3. QED
      BY <2>2, ServiceFacts
  <1>3. ASSUME at = "open_brace"  PROVE  curr_token = LeftSign
    <2>1. 3 = pos + 1
      BY <1>3 DEF Spot
    <2>2. QED
      BY <2>1, ServicePlaces, TokenAhead
  <1>4. ASSUME at = "methods", i < Len(s.methods)  PROVE  curr_token = "rpc"
    <2>1. HeadLen(s, i) + 1 = pos + 1 /\ TokenAt(Text(s), HeadLen(s, i) + 1, "rpc")
      <3>1. TokenAt(Text(s), HeadLen(s, i) + 1, "rpc")
        BY <1>0, <1>4, MethodPlaces
      <3>2. HeadLen(s, i) + 1 = pos + 1
        BY <1>4 DEF Spot
      <3>3. QED
        BY <3>1, <3>2
    <2>2. QED
      BY <2>1, TokenAhead
  <1>5. ASSUME at = "methods", i = Len(s.methods)  PROVE  curr_token = RightSign
    <2>1. HeadLen(s, i) + 1 = pos + 1 /\ TokenAt(Text(s), HeadLen(s, i) + 1, RightSign)
      <3>1. TokenAt(Text(s), HeadLen(s, i) + 1, RightSign)
        BY <1>5, ServicePlaces
      <3>2. HeadLen(s, i) + 1 = pos + 1
        BY <1>5 DEF Spot
      <3>3. QED
        BY <3>1, <3>2
    <2>2. QED
      BY <2>1, TokenAhead
  <1>6. ASSUME at = "method_name"
        PROVE  curr_token \in Names /\ curr_token = s.methods[i + 1].name
    <2>1. i < Len(s.methods)
      BY <1>0, <1>6 DEF InMethod
    <2>2. /\ HeadLen(s, i) + 2 = pos + 1 /\ s.methods[i + 1].name \in Names
          /\ TokenAt(Text(s), HeadLen(s, i) + 2, s.methods[i + 1].name)
      <3>1. HeadLen(s, i) \in Nat /\ TokenAt(Text(s), HeadLen(s, i) + 2, s.methods[i + 1].name)
        BY <1>0, <2>1, MethodPlaces
      <3>2. HeadLen(s, i) + 2 = pos + 1
        <4>1. PICK n : n = HeadLen(s, i) /\ n \in Nat
          BY <3>1
        <4>2. pos = n + 1
          BY <1>6, <4>1 DEF Spot
        <4>3. QED
          BY <4>1, <4>2
      <3>3. s.methods[i + 1].name \in Names
        BY <1>0, <2>1, MethodFacts
      <3>4. QED
        BY <3>1, <3>2, <3>3
    <2>3. QED
      BY <2>2, TokenAhead
  <1>7. ASSUME at = "open_paren"  PROVE  curr_token = "("
    <2>1. i < Len(s.methods)
      BY <1>0, <1>7 DEF InMethod
    <2>2. /\ HeadLen(s, i) + 3 = pos + 1 /\ TokenAt(Text(s), HeadLen(s, i) + 3, "(")
      <3>1. HeadLen(s, i) \in Nat /\ TokenAt(Text(s), HeadLen(s, i) + 3, "(")
        BY <1>0, <2>1, MethodPlaces
      <3>2. pos = HeadLen(s, i) + 2
        BY <1>7 DEF Spot
      <3>3. HeadLen(s, i) + 3 = pos + 1
        BY <3>1, <3>2
      <3>4. QED
        BY <3>1, <3>3
    <2>3. QED
      BY <2>2, TokenAhead
  <1>8. ASSUME at = "parameters", j < Len(Parameters(s, i))  PROVE  curr_token \in Keywords
    <2>1. i < Len(s.methods)
      BY <1>0, <1>8 DEF InMethod
    <2>2. PICK t : t = Param(s, i, j).type
      OBVIOUS
    <2>3. t \in Keywords
      <3>1. Param(s, i, j) \in Parameter
        BY <1>0, <1>8, <2>1, InHeadOfGrows DEF Param
      <3>2. QED
        BY <2>2, <3>1 DEF Parameter
    <2>4. PICK n : n = InLen(s, i, j) /\ n \in Nat
      <3>1. InLen(s, i, j) \in Nat
        BY <1>0, <1>8, <2>1, ParameterPlaces
      <3>2. QED
        BY <3>1
    <2>5. CASE AfterComma
      <3>1. j # 0 /\ pos = n + 1
        BY <1>0, <1>8, <2>4, <2>5 DEF Spot
      <3>2. TokenAt(Text(s), n + 2, t)
        BY <1>0, <1>8, <2>1, <2>2, <2>4, <3>1, ParameterPlaces
      <3>3. n + 2 = pos + 1
        BY <2>4, <3>1
      <3>4. QED
        BY <2>3, <3>2, <3>3, TokenAhead
    <2>6. CASE ~ AfterComma
      <3>1. j = 0 /\ pos = n
        BY <1>0, <1>8, <2>4, <2>6 DEF Spot
      <3>2. TokenAt(Text(s), n + 1, t)
        BY <1>0, <1>8, <2>1, <2>2, <2>4, <3>1, ParameterPlaces
      <3>3. n + 1 = pos + 1
        BY <2>4, <3>1
      <3>4. QED
        BY <2>3, <3>2, <3>3, TokenAhead
    <2>7. QED
      BY <2>5, <2>6
  <1>9. ASSUME at = "parameters" \/ at = "separator", j = Len(Parameters(s, i))
        PROVE  curr_token = ")"
    <2>1. i < Len(s.methods)
      BY <1>0, <1>9 DEF InMethod
    <2>2. pos = EndLen(s, i)
      <3>1. CASE at = "parameters"
        <4>1. ~ AfterComma
          BY <1>0, <1>9, <3>1 DEF Spot
        <4>2. j = 0 /\ pos = InLen(s, i, 0)
          BY <3>1, <4>1 DEF Spot
        <4>3. QED
          BY <1>9, <4>2 DEF EndLen
      <3>2. CASE at = "separator"
        BY <1>9, <3>2 DEF Spot, EndLen
      <3>3. QED
        BY <1>9, <3>1, <3>2
    <2>3. EndLen(s, i) + 1 = pos + 1 /\ TokenAt(Text(s), EndLen(s, i) + 1, ")")
      <3>1. TokenAt(Text(s), EndLen(s, i) + 1, ")")
        BY <1>0, <2>1, MethodPlaces
      <3>2. EndLen(s, i) + 1 = pos + 1
        BY <2>2
      <3>3. QED
        BY <3>1, <3>2
    <2>4. QED
      BY <2>3, TokenAhead
  <1>10. ASSUME at = "parameter_name"  PROVE  curr_token \in Names
    <2>1. i < Len(s.methods) /\ j < Len(Parameters(s, i))
      BY <1>0, <1>10 DEF InMethod, Spot
    <2>2. PICK x : x = Param(s, i, j).name
      OBVIOUS
    <2>3. x \in Names
      <3>1. Param(s, i, j) \in Parameter
        BY <1>0, <2>1, InHeadOfGrows DEF Param
      <3>2. QED
        BY <2>2, <3>1 DEF Parameter
    <2>4. PICK n : n = InLen(s, i, j) /\ n \in Nat
      <3>1. InLen(s, i, j) \in Nat
        BY <1>0, <2>1, ParameterPlaces
      <3>2. QED
        BY <3>1
    <2>5. CASE j # 0
      <3>1. pos = n + 2
        BY <1>10, <2>4, <2>5 DEF Spot
      <3>2. TokenAt(Text(s), n + 3, x)
        BY <1>0, <2>1, <2>2, <2>4, <2>5, ParameterPlaces
      <3>3. n + 3 = pos + 1
        BY <2>4, <3>1
      <3>4. QED
        BY <2>3, <3>2, <3>3, TokenAhead
    <2>6. CASE j = 0
      <3>1. pos = n + 1
        BY <1>10, <2>4, <2>6 DEF Spot
      <3>2. TokenAt(Text(s), n + 2, x)
        BY <1>0, <2>1, <2>2, <2>4, <2>6, ParameterPlaces
      <3>3. n + 2 = pos + 1
        BY <2>4, <3>1
      <3>4. QED
        BY <2>3, <3>2, <3>3, TokenAhead
    <2>7. QED
      BY <2>5, <2>6
  <1>11. ASSUME at = "separator", j < Len(Parameters(s, i))  PROVE  curr_token = CommaSign
    <2>1. i < Len(s.methods) /\ j # 0 /\ pos = InLen(s, i, j)
      BY <1>0, <1>11 DEF InMethod, Spot
    <2>2. InLen(s, i, j) + 1 = pos + 1 /\ TokenAt(Text(s), InLen(s, i, j) + 1, CommaSign)
      BY <1>0, <1>11, <2>1, ParameterPlaces
    <2>3. QED
      BY <2>2, TokenAhead
  <1>12. ASSUME at \in {"returns", "open_type", "return_type", "close_type", "semicolon"}
         PROVE  /\ i < Len(s.methods)
                /\ EndLen(s, i) \in Nat
    BY <1>0, <1>12, MethodPlaces DEF InMethod
  <1>13. ASSUME at = "returns"  PROVE  curr_token = "returns"
    <2>1. EndLen(s, i) + 2 = pos + 1 /\ TokenAt(Text(s), EndLen(s, i) + 2, "returns")
      <3>1. pos = EndLen(s, i) + 1
        BY <1>13 DEF Spot
      <3>2. TokenAt(Text(s), EndLen(s, i) + 2, "returns")
        BY <1>0, <1>12, <1>13, MethodPlaces
      <3>3. EndLen(s, i) + 2 = pos + 1
        BY <1>12, <1>13, <3>1
      <3>4. QED
        BY <3>2, <3>3
    <2>2. QED
      BY <2>1, TokenAhead
  <1>14. ASSUME at = "open_type"  PROVE  curr_token = "("
    <2>1. EndLen(s, i) + 3 = pos + 1 /\ TokenAt(Text(s), EndLen(s, i) + 3, "(")
      <3>1. pos = EndLen(s, i) + 2
        BY <1>14 DEF Spot
      <3>2. TokenAt(Text(s), EndLen(s, i) + 3, "(")
        BY <1>0, <1>12, <1>14, MethodPlaces
      <3>3. EndLen(s, i) + 3 = pos + 1
        BY <1>12, <1>14, <3>1
      <3>4. QED
        BY <3>2, <3>3
    <2>2. QED
      BY <2>1, TokenAhead
  <1>15. ASSUME at = "return_type"  PROVE  curr_token \in Keywords
    <2>1. /\ EndLen(s, i) + 4 = pos + 1 /\ s.methods[i + 1].return_type \in Keywords
          /\ TokenAt(Text(s), EndLen(s, i) + 4, s.methods[i + 1].return_type)
      <3>1. TokenAt(Text(s), EndLen(s, i) + 4, s.methods[i + 1].return_type)
        BY <1>0, <1>12, <1>15, MethodPlaces
      <3>2. pos = EndLen(s, i) + 3
        BY <1>15 DEF Spot
      <3>3. EndLen(s, i) + 4 = pos + 1
        BY <1>12, <1>15, <3>2
      <3>4. s.methods[i + 1].return_type \in Keywords
        BY <1>0, <1>12, <1>15, MethodFacts
      <3>5. QED
        BY <3>1, <3>3, <3>4
    <2>2. QED
      BY <2>1, TokenAhead
  <1>16. ASSUME at = "close_type"  PROVE  curr_token = ")"
    <2>1. EndLen(s, i) + 5 = pos + 1 /\ TokenAt(Text(s), EndLen(s, i) + 5, ")")
      <3>1. pos = EndLen(s, i) + 4
        BY <1>16 DEF Spot
      <3>2. TokenAt(Text(s), EndLen(s, i) + 5, ")")
        BY <1>0, <1>12, <1>16, MethodPlaces
      <3>3. EndLen(s, i) + 5 = pos + 1
        BY <1>12, <1>16, <3>1
      <3>4. QED
        BY <3>2, <3>3
    <2>2. QED
      BY <2>1, TokenAhead
  <1>17. ASSUME at = "semicolon"  PROVE  curr_token = SemiSign
    <2>1. EndLen(s, i) + 6 = pos + 1 /\ TokenAt(Text(s), EndLen(s, i) + 6, SemiSign)
      <3>1. pos = EndLen(s, i) + 5
        BY <1>17 DEF Spot
      <3>2. TokenAt(Text(s), EndLen(s, i) + 6, SemiSign)
        BY <1>0, <1>12, <1>17, MethodPlaces
      <3>3. EndLen(s, i) + 6 = pos + 1
        BY <1>12, <1>17, <3>1
      <3>4. QED
        BY <3>2, <3>3
    <2>2. QED
      BY <2>1, TokenAhead
  <1>18. QED
    BY <1>1, <1>2, <1>3, <1>4, <1>5, <1>6, <1>7, <1>8, <1>9, <1>10, <1>11, <1>13, <1>14, <1>15,
       <1>16, <1>17 DEF Comes

(* So no syntax error comes up.                                            *)
LEMMA ExpectedComes ==
  ASSUME NEW s \in Services, NEW i, NEW j, Spot(s, i, j), Comes(s, i, j), at \in Descent
  PROVE  curr_token \in Expects[at]
  <1>0. i \in Nat /\ i <= Len(s.methods) /\ j \in Nat /\ Len(s.methods) \in Nat
        /\ (at \in InMethod => i < Len(s.methods))
    BY ServiceFacts DEF Spot
  <1>1. CASE at = "methods"
    <2>1. i < Len(s.methods) \/ i = Len(s.methods)
      BY <1>0
    <2>2. QED
      BY <1>1, <2>1, ExpectsAre DEF Comes
  <1>2. CASE at \in {"parameters", "separator"}
    <2>1. j < Len(Parameters(s, i)) \/ j = Len(Parameters(s, i))
      <3>1. Len(Parameters(s, i)) \in Nat
        BY <1>0, <1>2, MethodFacts DEF InMethod
      <3>2. j <= Len(Parameters(s, i))
        BY <1>0, <1>2, <3>1 DEF Spot
      <3>3. QED
        BY <1>0, <3>1, <3>2
    <2>2. QED
      BY <1>2, <2>1, ExpectsAre DEF Comes
  <1>3. CASE at \notin {"methods", "parameters", "separator"}
    BY <1>3, DescentIs, ExpectsAre DEF Comes, InMethod
  <1>4. QED
    BY <1>1, <1>2, <1>3

(* On a file that starts with a valid definition nothing but acceptance is *)
(* in sight, while memory lasts.                                           *)
Going(s) == \E i, j : Spot(s, i, j) /\ Kept(s, i)
FollowOK(s) == /\ at \notin {"syntax_error", "rejected"}
               /\ at = "crashed" => pos <= 1 \/ lost # 0 \/ recycled # {} \/ s.methods = <<>>
               /\ at \in Reading => Going(s)
FollowsValid == \A s \in Services : Valid(s) /\ Ahead(s) => FollowOK(s)

LEMMA Taken ==
  ASSUME SourceOK, NEW here, here \in Descent, NEW there, Take(here, there)
  PROVE  /\ at = here /\ at' = there /\ source' = source
         /\ pos \in Nat /\ pos' = pos + 1
         /\ AfterComma' <=> curr_token = CommaSign
  BY TokenRead DEF Take, Advance, SourceOK

LEMMA KeptStays ==
  ASSUME NEW s, NEW i, Kept(s, i), service' = service, lost' = 0 => lost = 0,
         at' \in InMethod \ {"method_name"} => method'.name = s.methods[i + 1].name
  PROVE  Kept(s, i)'
  <1>1. Duplicates' <=> Duplicates
    BY DEF Duplicates
  <1>2. QED
    BY <1>1 DEF Kept

LEMMA KeptMore ==
  ASSUME MemInv, NEW s \in Services, Valid(s), NEW i \in Nat, i < Len(s.methods), Kept(s, i),
         at \in InMethod \ {"method_name"}, at' = "methods",
         service' = [service EXCEPT !.methods = Append(@, method)], lost' = lost
  PROVE  Kept(s, i + 1)'
  <1>1. PICK ms, n, q : ms = service.methods /\ n = Len(ms) /\ n \in Nat /\ ms \in Seq(Method)
                        /\ q = Append(ms, method) /\ method \in Method
    <2>1. service.methods \in Seq(Method) /\ method \in Method
      BY TreeFacts
    <2>2. Len(service.methods) \in Nat
      BY <2>1
    <2>3. QED
      BY <2>1, <2>2
  <1>2. service'.methods = q
    BY <1>1 DEF MemInv, ShapeOK
  <1>3. /\ DOMAIN q = 1..n + 1 /\ Len(q) = n + 1 /\ DOMAIN ms = 1..n
        /\ q[n + 1] = method /\ \A k \in 1..n : q[k] = ms[k]
    BY <1>1, AppendProperties
  <1>4. PICK l, t : l = Len(s.methods) /\ l \in Nat /\ t = s.methods
    BY ServiceFacts
  <1>5. i + 1 \in 1..l /\ method.name = t[i + 1].name /\ DOMAIN t = 1..l
    <2>1. s.methods \in Seq(FullMethod)
      BY ServiceFacts
    <2>2. DOMAIN t = 1..l
      BY <1>4, <2>1
    <2>3. QED
      BY <1>4, <2>2 DEF Kept
  <1>6. \A k \in 1..n : \E m \in 1..i : ms[k].name = t[m].name
    BY <1>1, <1>3, <1>4 DEF Kept
  <1>7. \A k \in 1..n : ms[k].name # method.name
    <2>1. SUFFICES ASSUME NEW k \in 1..n, ms[k].name = method.name
                   PROVE  FALSE
      OBVIOUS
    <2>2. PICK m \in 1..i : ms[k].name = t[m].name
      BY <1>6
    <2>3. t[m].name = t[i + 1].name /\ m \in 1..l
      BY <1>4, <1>5, <2>1, <2>2
    <2>4. m = i + 1
      BY <1>4, <1>5, <2>3 DEF Valid
    <2>5. QED
      BY <2>4
  <1>8. \A k \in DOMAIN q : k \in 1..n \/ k = n + 1
    BY <1>1, <1>3
  <1>9. \A k \in DOMAIN q : \E m \in 1..i + 1 : q[k].name = t[m].name
    <2>1. SUFFICES ASSUME NEW k \in DOMAIN q
                   PROVE  \E m \in 1..i + 1 : q[k].name = t[m].name
      OBVIOUS
    <2>2. CASE k \in 1..n
      <3>1. PICK m \in 1..i : ms[k].name = t[m].name
        BY <1>6, <2>2
      <3>2. m \in 1..i + 1 /\ q[k].name = t[m].name
        BY <1>3, <2>2, <3>1
      <3>3. QED
        BY <3>2
    <2>3. CASE k = n + 1
      <3>1. i + 1 \in 1..i + 1 /\ q[k].name = t[i + 1].name
        BY <1>3, <1>5, <2>3
      <3>2. QED
        BY <3>1
    <2>4. QED
      BY <1>8, <2>2, <2>3
  <1>10. ~ \E k, m \in DOMAIN q : k < m /\ q[k].name = q[m].name
    <2>1. SUFFICES ASSUME NEW k \in DOMAIN q, NEW m \in DOMAIN q, k < m, q[k].name = q[m].name
                   PROVE  FALSE
      OBVIOUS
    <2>2. k \in 1..n
      BY <1>1, <1>3, <2>1
    <2>3. CASE m \in 1..n
      <3>1. ms[k].name = ms[m].name
        BY <1>3, <2>1, <2>2, <2>3
      <3>2. QED
        BY <1>1, <1>3, <2>1, <2>2, <2>3, <3>1 DEF Kept, Duplicates
    <2>4. CASE m = n + 1
      BY <1>3, <1>7, <2>1, <2>2, <2>4
    <2>5. QED
      BY <1>8, <2>3, <2>4
  <1>11. ~ Duplicates'
    BY <1>2, <1>10 DEF Duplicates
  <1>12. lost' = 0 => Len(service'.methods) = i + 1
    BY <1>1, <1>2, <1>3 DEF Kept
  <1>13. at' \notin InMethod
    BY DEF InMethod
  <1>14. QED
    BY <1>2, <1>4, <1>9, <1>11, <1>12, <1>13 DEF Kept

(* A loss leaves out the method that was read.                             *)
LEMMA KeptLess ==
  ASSUME NEW s, NEW i \in Nat, Kept(s, i), at' = "methods", service' = service, lost' # 0
  PROVE  Kept(s, i + 1)'
  <1>1. Duplicates' <=> Duplicates
    BY DEF Duplicates
  <1>2. \A m \in 1..i : m \in 1..i + 1
    OBVIOUS
  <1>3. at' \notin InMethod
    BY DEF InMethod
  <1>4. QED
    BY <1>1, <1>2, <1>3 DEF Kept

(* How a step goes on with the definition.                                 *)
LEMMA StepGoing ==
  ASSUME MemInv, TextOK, NEW s \in Services, Valid(s), Ahead(s), NEW i, NEW j,
         Spot(s, i, j), Kept(s, i), at \in Descent, Next,
         ~ SyntaxError, ~ OutOfMemory, at' # "crashed"
  PROVE  Going(s)'
  <1>0. SourceOK /\ Comes(s, i, j)
    BY WhatComes DEF TextOK
  <1>1. /\ i \in Nat /\ i <= Len(s.methods) /\ j \in Nat /\ Len(s.methods) \in Nat
        /\ at \in InMethod => i < Len(s.methods)
    BY ServiceFacts DEF Spot
  <1>2. CASE Service
    <2>1. Take("service", "service_name") /\ UNCHANGED tree
      BY <1>2 DEF Service
    <2>2. at = "service" /\ at' = "service_name" /\ pos' = pos + 1
      BY <1>0, <2>1, Taken, DescentIs
    <2>3. Spot(s, i, j)'
      BY <1>1, <2>2 DEF Spot, InMethod
    <2>4. Kept(s, i)'
      BY <2>1, <2>2, KeptStays DEF tree, InMethod
    <2>5. QED
      BY <2>3, <2>4 DEF Going
  <1>3. CASE ServiceName
    <2>1. /\ Take("service_name", "open_brace") /\ UNCHANGED <<method, type, heap, lost>>
          /\ service' = [service EXCEPT !.name = curr_token]
      BY <1>3 DEF ServiceName
    <2>2. at = "service_name" /\ at' = "open_brace" /\ pos' = pos + 1
      BY <1>0, <2>1, Taken, DescentIs
    <2>3. Spot(s, i, j)'
      BY <1>1, <2>2 DEF Spot, InMethod
    <2>4. service'.methods = service.methods
      BY <2>1 DEF MemInv, ShapeOK
    <2>5. Kept(s, i)'
      BY <2>1, <2>2, <2>4 DEF Kept, Duplicates, InMethod
    <2>6. QED
      BY <2>3, <2>5 DEF Going
  <1>4. CASE OpenBrace
    <2>1. Take("open_brace", "methods") /\ UNCHANGED tree
      BY <1>4 DEF OpenBrace
    <2>2. at = "open_brace" /\ at' = "methods" /\ pos' = pos + 1
      BY <1>0, <2>1, Taken, DescentIs
    <2>3. i = 0 /\ pos' = HeadLen(s, i)
      BY <2>2, ServicePlaces DEF Spot
    <2>4. Spot(s, i, j)'
      BY <1>1, <2>2, <2>3 DEF Spot, InMethod
    <2>5. Kept(s, i)'
      BY <2>1, <2>2, KeptStays DEF tree, InMethod
    <2>6. QED
      BY <2>4, <2>5 DEF Going
  <1>5. CASE CloseBrace
    <2>1. Take("methods", "validate") /\ curr_token = RightSign /\ UNCHANGED tree
      BY <1>5, Zenon DEF CloseBrace, RightSign
    <2>2. at = "methods" /\ at' = "validate" /\ pos' = pos + 1
      BY <1>0, <2>1, Taken, DescentIs
    <2>3. i = Len(s.methods)
      <3>1. ~ i < Len(s.methods)
        BY <1>0, <2>1, <2>2, Signs DEF Comes
      <3>2. QED
        BY <1>1, <3>1
    <2>4. Spot(s, i, j)'
      BY <1>1, <2>2, <2>3 DEF Spot, InMethod
    <2>5. Kept(s, i)'
      BY <2>1, <2>2, KeptStays DEF tree, InMethod
    <2>6. QED
      BY <2>4, <2>5 DEF Going
  <1>6. CASE Rpc
    <2>1. /\ Take("methods", "method_name") /\ curr_token = "rpc"
          /\ UNCHANGED <<service, type, lost>>
      BY <1>6 DEF Rpc
    <2>2. at = "methods" /\ at' = "method_name" /\ pos' = pos + 1
      BY <1>0, <2>1, Taken, DescentIs
    <2>3. i < Len(s.methods)
      <3>1. i # Len(s.methods)
        BY <1>0, <2>1, <2>2, Signs DEF Comes
      <3>2. QED
        BY <1>1, <3>1
    <2>4. Spot(s, i, j)'
      BY <1>1, <2>2, <2>3 DEF Spot, InMethod
    <2>5. Kept(s, i)'
      BY <2>1, <2>2, KeptStays
    <2>6. QED
      BY <2>4, <2>5 DEF Going
  <1>7. CASE MethodName
    <2>1. /\ Take("method_name", "open_paren") /\ UNCHANGED <<service, type, heap, lost>>
          /\ method' = [method EXCEPT !.name = curr_token]
      BY <1>7 DEF MethodName
    <2>2. at = "method_name" /\ at' = "open_paren" /\ pos' = pos + 1
      BY <1>0, <2>1, Taken, DescentIs DEF InMethod
    <2>3. i < Len(s.methods) /\ HeadLen(s, i) \in Nat
      BY <1>1, <2>2, MethodPlaces DEF InMethod
    <2>4. pos' = HeadLen(s, i) + 2
      BY <2>2, <2>3 DEF Spot
    <2>5. Spot(s, i, j)'
      BY <1>1, <2>2, <2>3, <2>4 DEF Spot, InMethod
    <2>6. method'.name = s.methods[i + 1].name
      <3>1. method'.name = curr_token
        BY <2>1, TreeFacts DEF Method
      <3>2. QED
        BY <1>0, <2>2, <3>1 DEF Comes
    <2>7. Kept(s, i)'
      BY <2>1, <2>6, KeptStays
    <2>8. QED
      BY <2>5, <2>7 DEF Going
  <1>8. CASE OpenParen
    <2>1. Take("open_paren", "parameters") /\ UNCHANGED tree
      BY <1>8 DEF OpenParen
    <2>2. /\ at = "open_paren" /\ at' = "parameters" /\ pos' = pos + 1
          /\ AfterComma' <=> curr_token = CommaSign
      BY <1>0, <2>1, Taken, DescentIs DEF InMethod
    <2>3. i < Len(s.methods) /\ HeadLen(s, i) \in Nat /\ InLen(s, i, 0) = HeadLen(s, i) + 3
      BY <1>1, <2>2, MethodPlaces DEF InMethod
    <2>4. pos' = InLen(s, i, 0)
      BY <2>2, <2>3 DEF Spot
    <2>5. ~ AfterComma'
      BY <1>0, <2>2, Signs DEF Comes
    <2>6. Spot(s, i, 0)'
      BY <1>1, <2>2, <2>3, <2>4, <2>5 DEF Spot, InMethod
    <2>7. method.name = s.methods[i + 1].name
      BY <2>2 DEF Kept, InMethod
    <2>8. Kept(s, i)'
      BY <2>1, <2>7, KeptStays DEF tree
    <2>9. QED
      BY <2>6, <2>8 DEF Going
  <1>9. CASE CloseParen
    <2>1. PICK here : here \in {"parameters", "separator"} /\ Take(here, "returns")
      BY <1>9 DEF CloseParen
    <2>2. curr_token = ")" /\ UNCHANGED tree
      BY <1>9 DEF CloseParen
    <2>3. at = here /\ at' = "returns" /\ pos' = pos + 1
      BY <1>0, <2>1, Taken, DescentIs DEF InMethod
    <2>4. i < Len(s.methods) /\ Len(Parameters(s, i)) \in Nat
      BY <1>1, <2>1, <2>3, MethodFacts DEF InMethod
    <2>5. ~ j < Len(Parameters(s, i))
      BY <1>0, <2>1, <2>2, <2>3, Signs, NotSigns DEF Comes
    <2>6. pos = EndLen(s, i)
      <3>1. CASE here = "parameters"
        <4>1. ~ AfterComma
          BY <2>3, <2>5, <3>1 DEF Spot
        <4>2. j = 0 /\ pos = InLen(s, i, 0)
          BY <2>3, <3>1, <4>1 DEF Spot
        <4>3. Len(Parameters(s, i)) = 0
          BY <2>4, <2>5, <4>2
        <4>4. QED
          BY <4>2, <4>3 DEF EndLen
      <3>2. CASE here = "separator"
        <4>1. j <= Len(Parameters(s, i)) /\ pos = InLen(s, i, j)
          BY <2>3, <3>2 DEF Spot
        <4>2. j = Len(Parameters(s, i))
          BY <1>1, <2>4, <2>5, <4>1
        <4>3. QED
          BY <4>1, <4>2 DEF EndLen
      <3>3. QED
        BY <2>1, <3>1, <3>2
    <2>7. Spot(s, i, j)'
      BY <1>1, <2>3, <2>4, <2>6 DEF Spot, InMethod
    <2>8. method.name = s.methods[i + 1].name
      BY <2>1, <2>3 DEF Kept, InMethod
    <2>9. Kept(s, i)'
      BY <2>2, <2>8, KeptStays DEF tree
    <2>10. QED
      BY <2>7, <2>9 DEF Going
  <1>10. CASE ParameterType
    <2>1. /\ Take("parameters", "parameter_name") /\ curr_token # ")"
          /\ UNCHANGED <<service, method, lost>>
      BY <1>10 DEF ParameterType
    <2>2. at = "parameters" /\ at' = "parameter_name" /\ pos' = pos + 1
      BY <1>0, <2>1, Taken, DescentIs DEF InMethod
    <2>3. i < Len(s.methods) /\ Len(Parameters(s, i)) \in Nat
      BY <1>1, <2>2, MethodFacts DEF InMethod
    <2>4. j < Len(Parameters(s, i))
      <3>1. j # Len(Parameters(s, i))
        BY <1>0, <2>1, <2>2 DEF Comes
      <3>2. CASE AfterComma
        BY <2>2, <3>2 DEF Spot
      <3>3. CASE ~ AfterComma
        <4>1. j = 0
          BY <2>2, <3>3 DEF Spot
        <4>2. QED
          BY <2>3, <3>1, <4>1
      <3>4. QED
        BY <3>2, <3>3
    <2>5. InLen(s, i, j) \in Nat
      BY <1>1, <2>3, <2>4, ParameterPlaces
    <2>6. pos' = InLen(s, i, j) + (IF j = 0 THEN 1 ELSE 2)
      <3>1. CASE AfterComma
        <4>1. j # 0 /\ pos = InLen(s, i, j) + 1
          BY <1>1, <2>2, <3>1 DEF Spot
        <4>2. QED
          BY <2>2, <2>5, <4>1
      <3>2. CASE ~ AfterComma
        <4>1. j = 0 /\ pos = InLen(s, i, j)
          BY <2>2, <3>2 DEF Spot
        <4>2. QED
          BY <2>2, <2>5, <4>1
      <3>3. QED
        BY <3>1, <3>2
    <2>7. Spot(s, i, j)'
      BY <1>1, <2>2, <2>3, <2>4, <2>6 DEF Spot, InMethod
    <2>8. method.name = s.methods[i + 1].name
      BY <2>2 DEF Kept, InMethod
    <2>9. Kept(s, i)'
      BY <2>1, <2>8, KeptStays
    <2>10. QED
      BY <2>7, <2>9 DEF Going
  <1>11. CASE ParameterName
    <2>1. Take("parameter_name", "separator") /\ UNCHANGED <<service, type>>
      BY <1>11 DEF ParameterName
    <2>2. at = "parameter_name" /\ at' = "separator" /\ pos' = pos + 1
      BY <1>0, <2>1, Taken, DescentIs DEF InMethod
    <2>3. i < Len(s.methods) /\ Len(Parameters(s, i)) \in Nat
      BY <1>1, <2>2, MethodFacts DEF InMethod
    <2>4. j < Len(Parameters(s, i)) /\ pos = InLen(s, i, j) + (IF j = 0 THEN 1 ELSE 2)
      BY <2>2 DEF Spot
    <2>5. /\ InLen(s, i, j) \in Nat
          /\ InLen(s, i, j + 1) = InLen(s, i, j) + (IF j = 0 THEN 2 ELSE 3)
      BY <1>1, <2>3, <2>4, ParameterPlaces
    <2>6. pos' = InLen(s, i, j + 1)
      BY <2>2, <2>4, <2>5
    <2>7. j + 1 \in Nat /\ 0 < j + 1 /\ j + 1 <= Len(Parameters(s, i))
      BY <1>1, <2>3, <2>4
    <2>8. Spot(s, i, j + 1)'
      BY <1>1, <2>2, <2>3, <2>6, <2>7 DEF Spot, InMethod
    <2>9. /\ method'.name = method.name
          /\ lost' = 0 => lost = 0
      <3>1. CASE AllocMayFail /\ lost' = lost + 1 /\ UNCHANGED <<method, heap>>
        BY <3>1 DEF MemInv, ShapeOK
      <3>2. CASE /\ method' = [method EXCEPT
                                 !.parameters = Append(@, [type |-> type, name |-> curr_token])]
                 /\ UNCHANGED lost
        BY <3>2, TreeFacts DEF Method
      <3>3. QED
        BY <1>11, <3>1, <3>2 DEF ParameterName
    <2>10. method.name = s.methods[i + 1].name
      BY <2>2 DEF Kept, InMethod
    <2>11. Kept(s, i)'
      BY <2>1, <2>9, <2>10, KeptStays
    <2>12. QED
      BY <2>8, <2>11 DEF Going
  <1>12. CASE Comma
    <2>1. curr_token = CommaSign /\ Take("separator", "parameters") /\ UNCHANGED tree
      BY <1>12, CommaIs
    <2>2. /\ at = "separator" /\ at' = "parameters" /\ pos' = pos + 1 /\ AfterComma'
      BY <1>0, <2>1, Taken, DescentIs DEF InMethod
    <2>3. i < Len(s.methods) /\ Len(Parameters(s, i)) \in Nat
      BY <1>1, <2>2, MethodFacts DEF InMethod
    <2>4. 0 < j /\ j <= Len(Parameters(s, i)) /\ pos = InLen(s, i, j)
      BY <2>2 DEF Spot
    <2>5. j < Len(Parameters(s, i))
      <3>1. j # Len(Parameters(s, i))
        BY <1>0, <2>1, <2>2, Signs DEF Comes
      <3>2. QED
        BY <1>1, <2>3, <2>4, <3>1
    <2>6. Spot(s, i, j)'
      BY <1>1, <2>2, <2>3, <2>4, <2>5 DEF Spot, InMethod
    <2>7. method.name = s.methods[i + 1].name
      BY <2>2 DEF Kept, InMethod
    <2>8. Kept(s, i)'
      BY <2>1, <2>7, KeptStays DEF tree
    <2>9. QED
      BY <2>6, <2>8 DEF Going
  <1>13. CASE Returns
    <2>1. Take("returns", "open_type") /\ UNCHANGED tree
      BY <1>13 DEF Returns
    <2>2. at = "returns" /\ at' = "open_type" /\ pos' = pos + 1
      BY <1>0, <2>1, Taken, DescentIs DEF InMethod
    <2>3. i < Len(s.methods) /\ EndLen(s, i) \in Nat
      BY <1>1, <2>2, MethodPlaces DEF InMethod
    <2>4. pos' = EndLen(s, i) + 2
      BY <2>2, <2>3 DEF Spot
    <2>5. Spot(s, i, j)'
      BY <1>1, <2>2, <2>3, <2>4 DEF Spot, InMethod
    <2>6. method.name = s.methods[i + 1].name
      BY <2>2 DEF Kept, InMethod
    <2>7. Kept(s, i)'
      BY <2>1, <2>6, KeptStays DEF tree
    <2>8. QED
      BY <2>5, <2>7 DEF Going
  <1>14. CASE OpenType
    <2>1. Take("open_type", "return_type") /\ UNCHANGED tree
      BY <1>14 DEF OpenType
    <2>2. at = "open_type" /\ at' = "return_type" /\ pos' = pos + 1
      BY <1>0, <2>1, Taken, DescentIs DEF InMethod
    <2>3. i < Len(s.methods) /\ EndLen(s, i) \in Nat
      BY <1>1, <2>2, MethodPlaces DEF InMethod
    <2>4. pos' = EndLen(s, i) + 3
      BY <2>2, <2>3 DEF Spot
    <2>5. Spot(s, i, j)'
      BY <1>1, <2>2, <2>3, <2>4 DEF Spot, InMethod
    <2>6. method.name = s.methods[i + 1].name
      BY <2>2 DEF Kept, InMethod
    <2>7. Kept(s, i)'
      BY <2>1, <2>6, KeptStays DEF tree
    <2>8. QED
      BY <2>5, <2>7 DEF Going
  <1>15. CASE ReturnType
    <2>1. /\ Take("return_type", "close_type") /\ UNCHANGED <<service, type, heap, lost>>
          /\ method' = [method EXCEPT !.return_type = curr_token]
      BY <1>15 DEF ReturnType
    <2>2. at = "return_type" /\ at' = "close_type" /\ pos' = pos + 1
      BY <1>0, <2>1, Taken, DescentIs DEF InMethod
    <2>3. i < Len(s.methods) /\ EndLen(s, i) \in Nat
      BY <1>1, <2>2, MethodPlaces DEF InMethod
    <2>4. pos' = EndLen(s, i) + 4
      BY <2>2, <2>3 DEF Spot
    <2>5. Spot(s, i, j)'
      BY <1>1, <2>2, <2>3, <2>4 DEF Spot, InMethod
    <2>6. method'.name = s.methods[i + 1].name
      <3>1. method'.name = method.name
        BY <2>1, TreeFacts DEF Method
      <3>2. QED
        BY <2>2, <3>1 DEF Kept, InMethod
    <2>7. Kept(s, i)'
      BY <2>1, <2>6, KeptStays
    <2>8. QED
      BY <2>5, <2>7 DEF Going
  <1>16. CASE CloseType
    <2>1. Take("close_type", "semicolon") /\ UNCHANGED tree
      BY <1>16 DEF CloseType
    <2>2. at = "close_type" /\ at' = "semicolon" /\ pos' = pos + 1
      BY <1>0, <2>1, Taken, DescentIs DEF InMethod
    <2>3. i < Len(s.methods) /\ EndLen(s, i) \in Nat
      BY <1>1, <2>2, MethodPlaces DEF InMethod
    <2>4. pos' = EndLen(s, i) + 5
      BY <2>2, <2>3 DEF Spot
    <2>5. Spot(s, i, j)'
      BY <1>1, <2>2, <2>3, <2>4 DEF Spot, InMethod
    <2>6. method.name = s.methods[i + 1].name
      BY <2>2 DEF Kept, InMethod
    <2>7. Kept(s, i)'
      BY <2>1, <2>6, KeptStays DEF tree
    <2>8. QED
      BY <2>5, <2>7 DEF Going
  <1>17. CASE Semicolon
    <2>1. Take("semicolon", "methods")
      BY <1>17 DEF Semicolon
    <2>2. at = "semicolon" /\ at' = "methods" /\ pos' = pos + 1
      BY <1>0, <2>1, Taken, DescentIs DEF InMethod
    <2>3. /\ i < Len(s.methods) /\ EndLen(s, i) \in Nat
          /\ HeadLen(s, i + 1) = EndLen(s, i) + 6
      BY <1>1, <2>2, MethodPlaces DEF InMethod
    <2>4. pos' = HeadLen(s, i + 1)
      BY <2>2, <2>3 DEF Spot
    <2>5. i + 1 \in Nat /\ i + 1 <= Len(s.methods)
      BY <1>1, <2>3
    <2>6. Spot(s, i + 1, j)'
      BY <1>1, <2>2, <2>4, <2>5 DEF Spot, InMethod
    <2>7. CASE /\ service' = [service EXCEPT !.methods = Append(@, method)]
               /\ UNCHANGED lost
      <3>1. Kept(s, i + 1)'
        BY <1>1, <2>2, <2>3, <2>7, KeptMore DEF InMethod
      <3>2. QED
        BY <2>6, <3>1 DEF Going
    <2>8. CASE AllocMayFail /\ lost' = lost + Owned(method) /\ UNCHANGED <<service, heap>>
      <3>1. lost' # 0
        <4>1. PICK n : n \in Nat /\ n = Len(method.parameters)
          <5>1. method.parameters \in Seq(Parameter)
            BY TreeFacts DEF Method
          <5>2. QED
            BY <5>1
        <4>2. PICK k : k \in {0, 1} /\ k = NewBlock(method.parameters)
          BY DEF NewBlock
        <4>3. Owned(method) = 1 + n + (1 - k)
          BY <4>1, <4>2 DEF Owned
        <4>4. lost \in Nat
          BY DEF MemInv, ShapeOK
        <4>5. QED
          BY <2>8, <4>1, <4>2, <4>3, <4>4
      <3>2. Kept(s, i + 1)'
        BY <1>1, <2>2, <2>8, <3>1, KeptLess
      <3>3. QED
        BY <2>6, <3>2 DEF Going
    <2>9. QED
      BY <1>17, <2>7, <2>8 DEF Semicolon
  <1>18. ~ Validate /\ ~ Release /\ ~ UseRecycled
    BY DescentIs DEF Validate, Release, UseRecycled, InMethod
  <1>19. QED
    BY <1>2, <1>3, <1>4, <1>5, <1>6, <1>7, <1>8, <1>9, <1>10, <1>11, <1>12, <1>13, <1>14,
       <1>15, <1>16, <1>17, <1>18 DEF Next

(* Where the descent may go from where it stands.                          *)
LEMMA StepStands ==
  ASSUME Next
  PROVE  /\ source' = source /\ at \in Reading
         /\ at \in Descent =>
              \/ SyntaxError
              \/ OutOfMemory
              \/ UseRecycled
              \/ at = "service_name" /\ at' = "crashed" /\ pos' = pos /\ UNCHANGED tree
              \/ at' \in Descent \cup {"validate"}
         /\ at = "validate" => Validate \/ UseRecycled
         /\ at = "accepted" => Release \/ UseRecycled
  <1>1. CASE Service \/ ServiceName \/ OpenBrace \/ CloseBrace \/ Rpc \/ MethodName
    BY <1>1, DescentIs DEF Service, ServiceName, OpenBrace, CloseBrace, Rpc, MethodName, Take,
       Reading, InMethod
  <1>2. CASE OpenParen \/ CloseParen \/ ParameterType \/ ParameterName \/ Comma
    BY <1>2, DescentIs, CommaIs DEF OpenParen, CloseParen, ParameterType, ParameterName, Take,
       Reading, InMethod
  <1>3. CASE Returns \/ OpenType \/ ReturnType \/ CloseType \/ Semicolon
    BY <1>3, DescentIs DEF Returns, OpenType, ReturnType, CloseType, Semicolon, Take,
       Reading, InMethod
  <1>4. CASE SyntaxError
    BY <1>4, DescentIs DEF SyntaxError, Reading, Descent, InMethod
  <1>5. CASE OutOfMemory
    BY <1>5, DescentIs DEF OutOfMemory, Reading, InMethod
  <1>6. CASE Validate
    BY <1>6, DescentIs DEF Validate, Reading, InMethod
  <1>7. CASE Release
    BY <1>7, DescentIs DEF Release, Reading, InMethod
  <1>8. CASE UseRecycled
    BY <1>8, DescentIs DEF UseRecycled, Reading, InMethod
  <1>9. QED
    BY <1>1, <1>2, <1>3, <1>4, <1>5, <1>6, <1>7, <1>8 DEF Next

LEMMA StepFollow == MemInv /\ TextOK /\ FollowsValid /\ [Next]_vars => FollowsValid'
  <1> SUFFICES ASSUME MemInv, TextOK, FollowsValid, [Next]_vars,
                      NEW s \in Services, Valid(s), Ahead(s)'
               PROVE  FollowOK(s)'
    BY DEF FollowsValid
  <1>1. CASE UNCHANGED vars
    <2>1. UNCHANGED <<source, pos, at, service, method, type, lost, recycled>>
      BY <1>1 DEF vars, tree
    <2>2. FollowOK(s)
      BY <2>1 DEF FollowsValid, Ahead
    <2>3. \A i, j : Spot(s, i, j) /\ Kept(s, i) => Spot(s, i, j)' /\ Kept(s, i)'
      BY <2>1 DEF Spot, Kept, Duplicates, AfterComma
    <2>4. QED
      BY <2>1, <2>2, <2>3 DEF FollowOK, Going
  <1>2. CASE Next
    <2>1. source' = source /\ at \in Reading
      BY <1>2, StepStands
    <2>2. Ahead(s) /\ FollowOK(s)
      BY <2>1 DEF FollowsValid, Ahead
    <2>3. PICK i, j : Spot(s, i, j) /\ Kept(s, i)
      BY <2>1, <2>2 DEF FollowOK, Going
    <2>0. CASE UseRecycled
      <3>1. at' = "crashed" /\ recycled' # {}
        BY <2>0 DEF UseRecycled, tree
      <3>2. at' \notin Reading
        BY <3>1, DescentIs DEF Reading, InMethod
      <3>3. QED
        BY <3>1, <3>2 DEF FollowOK
    <2>4. CASE at \in Descent /\ ~ UseRecycled
      <3>1. ~ SyntaxError
        <4>1. Comes(s, i, j)
          BY <2>2, <2>3, WhatComes DEF TextOK
        <4>2. curr_token \in Expects[at]
          BY <2>3, <2>4, <4>1, ExpectedComes
        <4>3. QED
          BY <4>2 DEF SyntaxError
      <3>2. CASE OutOfMemory
        <4>1. at' = "out_of_memory"
          BY <3>2 DEF OutOfMemory
        <4>2. QED
          BY <4>1, DescentIs DEF FollowOK, Reading, InMethod
      <3>3. CASE at = "service_name" /\ at' = "crashed" /\ pos' = pos /\ UNCHANGED tree
        <4>1. pos' = 1
          BY <2>3, <3>3 DEF Spot
        <4>2. at' \notin Reading
          BY <3>3, DescentIs DEF Reading, InMethod
        <4>3. QED
          BY <3>3, <4>1, <4>2 DEF FollowOK
      <3>4. CASE ~ OutOfMemory /\ at' \in Descent \cup {"validate"}
        <4>1. at' \notin {"crashed", "syntax_error", "rejected"}
          BY <3>4, DescentIs DEF InMethod
        <4>2. Going(s)'
          BY <1>2, <2>2, <2>3, <2>4, <3>1, <3>4, <4>1, StepGoing
        <4>3. QED
          BY <4>1, <4>2 DEF FollowOK
      <3>5. QED
        BY <1>2, <2>4, <3>1, <3>2, <3>3, <3>4, StepStands
    <2>5. CASE at = "validate" /\ ~ UseRecycled
      <3>1. /\ Validate /\ i = Len(s.methods) /\ ~ Duplicates
            /\ lost = 0 => Len(service.methods) = i
        BY <1>2, <2>3, <2>5, StepStands DEF Spot, Kept
      <3>2. UNCHANGED <<source, pos, service, method, type, lost>>
        BY <3>1 DEF Validate
      <3>3. CASE service.methods = <<>>
        <4>1. at' = "crashed"
          BY <3>1, <3>3 DEF Validate
        <4>2. lost # 0 \/ s.methods = <<>>
          <5>1. s.methods # <<>> => Len(s.methods) # 0
            BY ServiceFacts, EmptySeq
          <5>2. Len(service.methods) = 0
            BY <3>3
          <5>3. QED
            BY <3>1, <5>1, <5>2
        <4>3. at' \notin Reading
          BY <4>1, DescentIs DEF Reading, InMethod
        <4>4. QED
          BY <3>2, <4>1, <4>2, <4>3 DEF FollowOK
      <3>4. CASE service.methods # <<>>
        <4>1. at' = "accepted"
          BY <3>1, <3>4 DEF Validate
        <4>2. Spot(s, i, j)'
          BY <2>3, <3>1, <4>1 DEF Spot, InMethod
        <4>3. Kept(s, i)'
          BY <2>3, <3>2, <4>1 DEF Kept, Duplicates, InMethod
        <4>4. QED
          BY <4>1, <4>2, <4>3 DEF FollowOK, Going
      <3>5. QED
        BY <3>3, <3>4
    <2>6. CASE at = "accepted" /\ ~ UseRecycled
      <3>1. at' = "released"
        BY <1>2, <2>6, StepStands DEF Release
      <3>2. at' \notin Reading
        BY <3>1, DescentIs DEF Reading, InMethod
      <3>3. QED
        BY <3>1, <3>2 DEF FollowOK
    <2>7. QED
      BY <2>0, <2>1, <2>4, <2>5, <2>6 DEF Reading
  <1>3. QED
    BY <1>1, <1>2

LEMMA InitFollow == Init => FollowsValid
  <1> SUFFICES ASSUME Init, NEW s \in Services
               PROVE  FollowOK(s)
    BY DEF FollowsValid
  <1>1. at = "service" /\ pos = 0 /\ lost = 0 /\ service.methods = <<>>
    BY DEF Init, NoService
  <1>2. Spot(s, 0, 0)
    BY <1>1, ServiceFacts DEF Spot, InMethod
  <1>3. Kept(s, 0)
    <2>1. DOMAIN service.methods = {} /\ Len(service.methods) = 0
      BY <1>1
    <2>2. QED
      BY <1>1, <2>1 DEF Kept, Duplicates, InMethod
  <1>4. QED
    BY <1>1, <1>2, <1>3 DEF FollowOK, Going

(* The texts that must be accepted are those of valid definitions.         *)
TextsAreValid == \A t \in ValidTexts : \E s \in Services : Valid(s) /\ t = Text(s)

(* A service without methods has its closing brace where a first method    *)
(* would stand.                                                            *)
LEMMA MethodlessText ==
  ASSUME NEW s \in Services, s.methods = <<>>, NEW w \in Seq(Token), NEW n \in 1..Len(w),
         SubSeq(w, 1, n) = Text(s)
  PROVE  Len(w) > 3 /\ w[4] = RightSign
  <1>1. s.name \in Token /\ <<>> \in Seq(Method)
    BY ServiceFacts
  <1>2. PICK v : v = Append(<<"service", s.name>>, LeftSign)
    OBVIOUS
  <1>20. v \in Seq(Token) /\ Len(v) = 3
    <2>1. <<"service", s.name>> \in Seq(Token) /\ Len(<<"service", s.name>>) = 2
      BY <1>1, Words
    <2>2. QED
      BY <1>2, <2>1, Signs, AppendProperties
  <1>21. Text(s) = Append(v, RightSign)
    <2>1. Text(s) = Append(ServiceHead(s.name, <<>>), RightSign)
      BY <1>1, TextIs
    <2>2. NoMethod \in Method
      BY DEF NoMethod, Method
    <2>3. QED
      BY <1>1, <1>2, <2>1, <2>2, HeadsAre
  <1>3. PICK u : u = SubSeq(w, 1, n)
    OBVIOUS
  <1>4. Len(u) = n /\ \A k \in 1..n : u[k] = w[k]
    <2>1. /\ 1 \in Int /\ n \in Int /\ 1 <= n /\ n - 1 + 1 = n
          /\ \A k \in 1..n : w[k] \in Token
      OBVIOUS
    <2>2. /\ Len(SubSeq(w, 1, n)) = (IF 1 <= n THEN n - 1 + 1 ELSE 0)
          /\ \A k \in 1..(n - 1 + 1) : SubSeq(w, 1, n)[k] = w[1 + k - 1]
      BY <2>1, SubSeqProperties
    <2>3. Len(u) = n
      BY <1>3, <2>1, <2>2
    <2>4. ASSUME NEW k \in 1..n  PROVE  u[k] = w[k]
      <3>1. k \in 1..(n - 1 + 1) /\ 1 + k - 1 = k
        BY <2>1
      <3>2. QED
        BY <1>3, <2>2, <3>1
    <2>5. QED
      BY <2>3, <2>4
  <1>5. Len(u) = 4 /\ u[4] = RightSign
    <2>1. PICK x : x = Append(v, RightSign)
      OBVIOUS
    <2>2. Len(x) = Len(v) + 1 /\ x[Len(v) + 1] = RightSign
      BY <1>20, <2>1, Signs, AppendProperties
    <2>3. Len(x) = 4 /\ x[4] = RightSign
      BY <1>20, <2>2
    <2>4. u = x
      BY <1>3, <1>21, <2>1
    <2>5. QED
      BY <2>3, <2>4
  <1>6. QED
    BY <1>4, <1>5

(* No file that starts with a valid definition, its last brace included,   *)
(* is refused: the descent stands at a token of its text and finds there   *)
(* what it expects (consume_token, consume_keyword and the loop heads of   *)
(* parser.c), and validate_service finds no duplicate.  Nor does it crash  *)
(* the parser, but for an allocation refused, an empty service, and        *)
(* memory that malloc recycles for a vector.                               *)
THEOREM ParserRejectsOnlyInvalid == TextsAreValid => (Spec => []RejectsOnlyInvalid)
  <1>1. Init => MemInv /\ TextOK /\ FollowsValid
    BY InitMem, InitText, InitFollow
  <1>2. MemInv /\ TextOK /\ FollowsValid /\ [Next]_vars => (MemInv /\ TextOK /\ FollowsValid)'
    BY StepMem, StepText, StepFollow
  <1>3. ASSUME TextsAreValid
        PROVE  MemInv /\ TextOK /\ FollowsValid => RejectsOnlyInvalid
    <2> SUFFICES ASSUME MemInv, TextOK, FollowsValid,
                        at \in {"syntax_error", "rejected"} \/ (at = "crashed" /\ ~ CrashKnown),
                        NEW n \in DOMAIN source, SubSeq(source, 1, n) \in ValidTexts
                 PROVE  FALSE
      BY DEF RejectsOnlyInvalid
    <2>1. PICK s \in Services : Valid(s) /\ SubSeq(source, 1, n) = Text(s)
      BY <1>3 DEF TextsAreValid
    <2>2. FollowOK(s)
      BY <2>1 DEF FollowsValid, Ahead
    <2>3. pos \in Nat /\ source \in Seq(Token) /\ n \in 1..Len(source)
      BY DEF TextOK, SourceOK
    <2>4. at \notin {"syntax_error", "rejected"}
      BY <2>2 DEF FollowOK
    <2>5. s.methods = <<>> /\ ~ Methodless
      BY <2>2, <2>3, <2>4 DEF FollowOK, CrashKnown
    <2>6. Len(source) > 3 /\ source[4] = RightSign
      BY <2>1, <2>3, <2>5, MethodlessText
    <2>7. QED
      BY <2>5, <2>6, Zenon DEF Methodless, RightSign
  <1>4. ASSUME TextsAreValid
        PROVE  Spec => []RejectsOnlyInvalid
    <2>1. MemInv /\ TextOK /\ FollowsValid => RejectsOnlyInvalid
      BY <1>3, <1>4
    <2>2. QED
      BY <1>1, <1>2, <2>1, PTL DEF Spec
  <1>5. QED
    BY <1>4
=================================================================================
