------------------------------ MODULE Demux_proofs ------------------------------
(***************************************************************************)
(* What every operation of Demux keeps true, for any containers and any    *)
(* limits: the types, where data can wait, how full raw_packet_buffer is;  *)
(* and, as long as each scan ends with nothing held back, that no byte of  *)
(* a stream is lost, repeated or overtaken.                                *)
(*                                                                         *)
(* The data of a stream is a concatenation, so this needs inductions.      *)
(* They go by the least counterexample: < is well-founded on Nat.          *)
(***************************************************************************)
EXTENDS Demux, WellFoundedInduction, SequenceTheorems, TLAPS

---------------------------------------------------------------------------
(* Induction over the natural numbers.                                     *)

LEMMA LeastNatural ==
    ASSUME NEW T \in SUBSET Nat, T # {}
    PROVE  \E n \in T : \A m \in T : n <= m
<1> DEFINE R == OpToRel(<, Nat)
<1>1. IsWellFoundedOn(R, Nat)
    BY NatLessThanWellFounded
<1>2. \A n, m \in Nat : <<n, m>> \in R <=> n < m
    BY DEF OpToRel
<1> HIDE DEF R
<1>3. PICK n \in T : \A m \in T : ~(<<m, n>> \in R)
    BY <1>1, WFMin
<1>4. ASSUME NEW m \in T
      PROVE  n <= m
    <2>1. n \in Nat /\ m \in Nat
        OBVIOUS
    <2>2. ~(m < n)
        BY <1>2, <1>3, <2>1
    <2> QED BY <2>1, <2>2
<1> QED BY <1>4

LEMMA Induction ==
    ASSUME NEW K, 0 \in K, \A n \in Nat : n \in K => n + 1 \in K
    PROVE  Nat \subseteq K
<1> DEFINE T == {n \in Nat : n \notin K}
<1> SUFFICES ASSUME T # {} PROVE FALSE
    OBVIOUS
<1>1. PICK n \in T : \A m \in T : n <= m
    BY LeastNatural
<1>2. n # 0 /\ n - 1 \in Nat /\ n - 1 \notin T
    BY <1>1
<1> QED BY <1>2

(* f[n] is the concatenation of the first n of the sequences.              *)
Accumulates(f, ss, n) ==
    /\ f[0] = <<>>
    /\ \A i \in 1..n : f[i] = f[i - 1] \o ss[i]

LEMMA AccumulationExists ==
    ASSUME NEW T, NEW ss \in Seq(Seq(T))
    PROVE  \E f \in [0..Len(ss) -> Seq(T)] : Accumulates(f, ss, Len(ss))
<1> DEFINE K == {n \in Nat : n <= Len(ss) =>
                               \E f \in [0..n -> Seq(T)] : Accumulates(f, ss, n)}
<1>1. 0 \in K
    <2> DEFINE f == [i \in 0..0 |-> <<>>]
    <2>1. f \in [0..0 -> Seq(T)] /\ Accumulates(f, ss, 0)
        BY EmptySeq DEF Accumulates
    <2> QED BY <2>1
<1>2. ASSUME NEW n \in Nat, n \in K
      PROVE  n + 1 \in K
    <2> SUFFICES ASSUME n + 1 <= Len(ss)
                 PROVE  \E f \in [0..(n + 1) -> Seq(T)] : Accumulates(f, ss, n + 1)
        OBVIOUS
    <2>0. Len(ss) \in Nat
        BY LenProperties
    <2>1. PICK g \in [0..n -> Seq(T)] : Accumulates(g, ss, n)
        BY <1>2, <2>0
    <2>2. ss[n + 1] \in Seq(T) /\ g[n] \in Seq(T)
        BY <2>0, ElementOfSeq
    <2>3. g[n] \o ss[n + 1] \in Seq(T)
        BY <2>2, ConcatProperties
    <2> DEFINE f == [i \in 0..(n + 1) |-> IF i <= n THEN g[i] ELSE g[n] \o ss[n + 1]]
    <2>4. f \in [0..(n + 1) -> Seq(T)]
        BY <2>3
    <2>5. f[0] = <<>>
        BY <2>1 DEF Accumulates
    <2>6. ASSUME NEW i \in 1..(n + 1)
          PROVE  f[i] = f[i - 1] \o ss[i]
        <3>1. CASE i <= n
            <4>1. f[i] = g[i] /\ f[i - 1] = g[i - 1] /\ i \in 1..n
                BY <3>1
            <4> QED BY <2>1, <4>1 DEF Accumulates
        <3>2. CASE i = n + 1
            <4>1. f[i] = g[n] \o ss[n + 1] /\ f[i - 1] = g[n]
                BY <3>2
            <4> QED BY <3>2, <4>1
        <3>3. i <= n \/ i = n + 1
            OBVIOUS
        <3> HIDE DEF f
        <3> QED BY <3>1, <3>2, <3>3
    <2> HIDE DEF f
    <2> QED BY <2>4, <2>5, <2>6 DEF Accumulates
<1> HIDE DEF K
<1>3. Len(ss) \in K
    BY <1>1, <1>2, Induction, LenProperties
<1> QED BY <1>3, LenProperties DEF K

LEMMA AccumulationUnique ==
    ASSUME NEW ss, NEW n \in Nat, NEW f, NEW g, Accumulates(f, ss, n), Accumulates(g, ss, n)
    PROVE  \A i \in 0..n : f[i] = g[i]
<1> DEFINE K == {i \in Nat : i <= n => f[i] = g[i]}
<1>1. 0 \in K
    BY DEF Accumulates
<1>2. ASSUME NEW i \in Nat, i \in K
      PROVE  i + 1 \in K
    <2> SUFFICES ASSUME i + 1 <= n PROVE f[i + 1] = g[i + 1]
        OBVIOUS
    <2>1. i + 1 \in 1..n /\ (i + 1) - 1 = i /\ f[i] = g[i]
        BY <1>2
    <2> QED BY <2>1 DEF Accumulates
<1> HIDE DEF K
<1>3. Nat \subseteq K
    BY <1>1, <1>2, Induction
<1> QED BY <1>3 DEF K

(* FlattenSeq is what any such function ends with. *)
LEMMA FlattenIs ==
    ASSUME NEW T, NEW ss \in Seq(Seq(T)), NEW f, Accumulates(f, ss, Len(ss))
    PROVE  FlattenSeq(ss) = f[Len(ss)]
<1>0. Len(ss) \in Nat
    BY LenProperties
<1>1. CASE Len(ss) = 0
    <2>1. ss = <<>>
        BY <1>1, EmptySeq
    <2> QED BY <1>1, <2>1 DEF FlattenSeq, Accumulates
<1>2. CASE Len(ss) # 0
    <2> DEFINE E(g) == g = [i \in 1..Len(ss) |-> IF i = 1 THEN ss[i] ELSE g[i - 1] \o ss[i]]
               h == CHOOSE g : E(g)
    <2>1. PICK g \in [0..Len(ss) -> Seq(T)] : Accumulates(g, ss, Len(ss))
        BY AccumulationExists
    <2> DEFINE g1 == [i \in 1..Len(ss) |-> g[i]]
    <2>2. ASSUME NEW i \in 1..Len(ss)
          PROVE  g1[i] = IF i = 1 THEN ss[i] ELSE g1[i - 1] \o ss[i]
        <3>1. g[i] = g[i - 1] \o ss[i] /\ ss[i] \in Seq(T)
            BY <2>1, <1>0, ElementOfSeq DEF Accumulates
        <3>2. CASE i = 1
            <4>1. g[i - 1] = <<>>
                BY <2>1, <3>2 DEF Accumulates
            <4> QED BY <3>1, <3>2, <4>1, ConcatEmptySeq
        <3>3. CASE i # 1
            <4>1. i - 1 \in 1..Len(ss)
                BY <1>0, <3>3
            <4> QED BY <3>1, <3>3, <4>1
        <3> QED BY <3>2, <3>3
    <2>3. E(g1)
        BY <2>2
    <2>4. E(h)
        BY <2>3
    <2> HIDE DEF h
    <2> DEFINE k == [i \in 0..Len(ss) |-> IF i = 0 THEN <<>> ELSE h[i]]
    <2>5. ASSUME NEW i \in 1..Len(ss)
          PROVE  k[i] = k[i - 1] \o ss[i]
        <3>1. h[i] = (IF i = 1 THEN ss[i] ELSE h[i - 1] \o ss[i]) /\ ss[i] \in Seq(T)
            BY <1>0, <2>4, ElementOfSeq
        <3>2. k[i] = h[i]
            BY <1>0
        <3>3. CASE i = 1
            <4>1. k[i - 1] = <<>>
                BY <1>0, <3>3
            <4> QED BY <3>1, <3>2, <3>3, <4>1, ConcatEmptySeq
        <3>4. CASE i # 1
            <4>1. k[i - 1] = h[i - 1]
                BY <1>0, <3>4
            <4> QED BY <3>1, <3>2, <3>4, <4>1
        <3> QED BY <3>3, <3>4
    <2>6. Accumulates(k, ss, Len(ss))
        <3>1. k[0] = <<>>
            BY <1>0
        <3> HIDE DEF k
        <3> QED BY <2>5, <3>1 DEF Accumulates
    <2>7. k[Len(ss)] = f[Len(ss)]
        <3> HIDE DEF k
        <3> QED BY <1>0, <2>6, AccumulationUnique
    <2>8. k[Len(ss)] = h[Len(ss)]
        BY <1>0, <1>2
    <2>9. FlattenSeq(ss) = h[Len(ss)]
        BY <1>2 DEF FlattenSeq, h
    <2> QED BY <2>7, <2>8, <2>9
<1> QED BY <1>1, <1>2

LEMMA FlattenType ==
    ASSUME NEW T, NEW ss \in Seq(Seq(T))
    PROVE  FlattenSeq(ss) \in Seq(T)
<1>1. PICK f \in [0..Len(ss) -> Seq(T)] : Accumulates(f, ss, Len(ss))
    BY AccumulationExists
<1> QED BY <1>1, FlattenIs, LenProperties

LEMMA FlattenAppend ==
    ASSUME NEW T, NEW ss \in Seq(Seq(T)), NEW x \in Seq(T)
    PROVE  FlattenSeq(Append(ss, x)) = FlattenSeq(ss) \o x
<1>1. PICK f \in [0..Len(ss) -> Seq(T)] : Accumulates(f, ss, Len(ss))
    BY AccumulationExists
<1> DEFINE n == Len(ss)
           tt == Append(ss, x)
           g == [i \in 0..(n + 1) |-> IF i <= n THEN f[i] ELSE f[n] \o x]
<1>2. /\ n \in Nat /\ tt \in Seq(Seq(T)) /\ Len(tt) = n + 1
      /\ \A i \in 1..n : tt[i] = ss[i]
      /\ tt[n + 1] = x
    BY LenProperties, AppendProperties
<1> HIDE DEF n, tt
<1>3. g[0] = <<>> /\ g[n + 1] = f[n] \o x
    BY <1>1, <1>2 DEF Accumulates
<1>4. ASSUME NEW i \in 1..(n + 1)
      PROVE  g[i] = g[i - 1] \o tt[i]
    <2>1. CASE i <= n
        <3>1. g[i] = f[i] /\ g[i - 1] = f[i - 1] /\ i \in 1..n
            BY <1>2, <2>1
        <3> QED BY <1>1, <1>2, <3>1 DEF Accumulates, n
    <2>2. CASE i = n + 1
        <3>1. g[i - 1] = f[n] /\ tt[i] = x
            BY <1>2, <2>2
        <3> QED BY <1>3, <2>2, <3>1
    <2>3. i <= n \/ i = n + 1
        BY <1>2
    <2> HIDE DEF g
    <2> QED BY <2>1, <2>2, <2>3
<1>5. FlattenSeq(tt) = g[n + 1]
    <2> HIDE DEF g
    <2>1. Accumulates(g, tt, Len(tt))
        BY <1>2, <1>3, <1>4 DEF Accumulates
    <2> QED BY <1>2, <2>1, FlattenIs
<1>6. FlattenSeq(ss) = f[n]
    BY <1>1, FlattenIs DEF n
<1> QED BY <1>3, <1>5, <1>6 DEF tt

LEMMA Reassociate ==
    ASSUME NEW T, NEW u \in Seq(T), NEW a \in Seq(T), NEW b \in Seq(T)
    PROVE  u \o (a \o b) = (u \o a) \o b
OBVIOUS

LEMMA FlattenHead ==
    ASSUME NEW T, NEW ss \in Seq(Seq(T)), ss # <<>>
    PROVE  FlattenSeq(ss) = ss[1] \o FlattenSeq(Tail(ss))
<1> DEFINE u == ss[1]
           tt == Tail(ss)
           m == Len(tt)
<1>1. /\ m \in Nat /\ tt \in Seq(Seq(T)) /\ Len(ss) = m + 1
      /\ u \in Seq(T)
      /\ \A i \in 1..m : ss[i + 1] = tt[i]
    BY LenProperties, HeadTailProperties, EmptySeq, ElementOfSeq
<1>2. m = Len(tt) /\ ss[1] = u
    OBVIOUS
<1> HIDE DEF m, tt, u
<1>3. PICK f \in [0..m -> Seq(T)] : Accumulates(f, tt, m)
    BY <1>1, <1>2, AccumulationExists
<1> DEFINE g == [i \in 0..(m + 1) |-> IF i = 0 THEN <<>> ELSE u \o f[i - 1]]
<1>4. g[0] = <<>>
    BY <1>1
<1>5. ASSUME NEW i \in 1..(m + 1)
      PROVE  g[i] = u \o f[i - 1]
    <2>1. i \in 0..(m + 1) /\ i # 0
        BY <1>1
    <2> QED BY <2>1
<1> HIDE DEF g
<1>6. ASSUME NEW i \in 1..(m + 1)
      PROVE  g[i] = g[i - 1] \o ss[i]
    <2>1. CASE i = 1
        <3>1. g[i] = u \o f[0] /\ g[i - 1] = <<>>
            BY <1>4, <1>5, <2>1
        <3>2. u \o f[0] = u /\ <<>> \o u = u
            BY <1>1, <1>3, ConcatEmptySeq DEF Accumulates
        <3> QED BY <1>2, <2>1, <3>1, <3>2
    <2>2. CASE i # 1
        <3> DEFINE j == i - 1
        <3>1. j \in 1..m /\ i = j + 1 /\ j - 1 \in 0..m /\ j \in 1..(m + 1)
            BY <1>1, <2>2
        <3> HIDE DEF j
        <3>2. g[j + 1] = u \o f[j] /\ g[j] = u \o f[j - 1]
            <4>1. j + 1 \in 1..(m + 1) /\ (j + 1) - 1 = j
                BY <1>1, <3>1
            <4>2. g[j + 1] = u \o f[(j + 1) - 1]
                BY <1>5, <4>1
            <4>3. g[j] = u \o f[j - 1]
                BY <1>5, <3>1
            <4> QED BY <4>1, <4>2, <4>3
        <3>3. f[j] = f[j - 1] \o tt[j]
            BY <1>3, <3>1 DEF Accumulates
        <3>4. f[j - 1] \in Seq(T) /\ tt[j] \in Seq(T)
            BY <1>1, <1>2, <3>1, ElementOfSeq
        <3>5. \A a, b \in Seq(T) : u \o (a \o b) = (u \o a) \o b
            BY <1>1, Reassociate, SMTT(30)
        <3>6. i - 1 = j /\ ss[i] = tt[j]
            BY <1>1, <3>1
        <3> QED BY <3>1, <3>2, <3>3, <3>4, <3>5, <3>6
    <2> QED BY <2>1, <2>2
<1>7. FlattenSeq(ss) = g[m + 1]
    <2>1. Accumulates(g, ss, Len(ss))
        BY <1>1, <1>4, <1>6 DEF Accumulates
    <2> QED BY <1>1, <2>1, FlattenIs
<1>8. g[m + 1] = u \o f[m]
    <2>1. m + 1 \in 1..(m + 1) /\ (m + 1) - 1 = m
        BY <1>1
    <2> QED BY <1>5, <2>1
<1>9. FlattenSeq(tt) = f[m]
    BY <1>1, <1>2, <1>3, FlattenIs
<1> QED BY <1>7, <1>8, <1>9 DEF u, tt

LEMMA FlattenEmpty == FlattenSeq(<<>>) = <<>>
BY DEF FlattenSeq

(* The same for sequences that are given element by element. *)
LEMMA FlattenOneMore ==
    ASSUME NEW T, NEW d \in Seq(Seq(T)), NEW e \in Seq(Seq(T)),
           NEW n \in Nat, Len(d) = n, Len(e) = n + 1,
           \A k \in 1..n : e[k] = d[k]
    PROVE  FlattenSeq(e) = FlattenSeq(d) \o e[n + 1]
<1> DEFINE x == e[n + 1]
<1>0. x \in Seq(T)
    BY ElementOfSeq
<1> HIDE DEF x
<1>1. /\ Append(d, x) \in Seq(Seq(T)) /\ Len(Append(d, x)) = n + 1
      /\ \A k \in 1..n : Append(d, x)[k] = d[k]
      /\ Append(d, x)[n + 1] = x
    BY <1>0, AppendProperties
<1>2. ASSUME NEW k \in 1..Len(e)
      PROVE  e[k] = Append(d, x)[k]
    <2>1. k \in 1..n \/ k = n + 1
        OBVIOUS
    <2> QED BY <1>1, <2>1 DEF x
<1>3. e = Append(d, x)
    BY <1>1, <1>2, SeqEqual
<1> QED BY <1>0, <1>3, FlattenAppend DEF x

LEMMA FlattenOneLess ==
    ASSUME NEW T, NEW d \in Seq(Seq(T)), NEW e \in Seq(Seq(T)),
           NEW n \in Nat, Len(e) = n, Len(d) = n + 1,
           \A k \in 1..n : e[k] = d[k + 1]
    PROVE  FlattenSeq(d) = d[1] \o FlattenSeq(e)
<1>1. d # <<>>
    BY EmptySeq
<1>2. /\ Tail(d) \in Seq(Seq(T)) /\ Len(Tail(d)) = n
      /\ \A k \in 1..n : Tail(d)[k] = d[k + 1]
    BY <1>1, HeadTailProperties
<1>3. \A k \in 1..Len(e) : e[k] = Tail(d)[k]
    BY <1>2
<1>4. e = Tail(d)
    BY <1>2, <1>3, SeqEqual
<1> QED BY <1>1, <1>4, FlattenHead

---------------------------------------------------------------------------
(* Packets and frames.  ps are the packets of a file, q the numbers of     *)
(* some of them.                                                           *)

Pieces == Nat \X Nat
PacketType == [stream : Streams, size : Nat \ {0}]

UnitsOf(ps, i) == [k \in 1..ps[i].size |-> <<i, k>>]
DataIn(ps, i, s) == IF ps[i].stream = s THEN UnitsOf(ps, i) ELSE <<>>

HeldIn(ps, q, s) == FlattenSeq([k \in 1..Len(q) |-> DataIn(ps, q[k], s)])
Weight(ps, q) == Len(FlattenSeq([k \in 1..Len(q) |-> UnitsOf(ps, q[k])]))
UnreadFrom(ps, p, s) ==
    FlattenSeq([k \in 1..(Len(ps) + 1 - p) |-> DataIn(ps, p + k - 1, s)])

LEMMA UnitsType ==
    ASSUME NEW ps \in Seq(PacketType), NEW i \in 1..Len(ps)
    PROVE  /\ ps[i].stream \in Streams /\ ps[i].size \in Nat \ {0}
           /\ UnitsOf(ps, i) \in Seq(Pieces)
           /\ Len(UnitsOf(ps, i)) = ps[i].size
           /\ UnitsOf(ps, i) # <<>>
           /\ \A s : DataIn(ps, i, s) \in Seq(Pieces)
<1>1. Len(ps) \in Nat /\ ps[i] \in PacketType
    BY LenProperties, ElementOfSeq
<1>2. ps[i].stream \in Streams /\ ps[i].size \in Nat \ {0} /\ i \in Nat
    BY <1>1 DEF PacketType
<1> DEFINE n == ps[i].size
           u == [k \in 1..n |-> <<i, k>>]
<1>3. \A k \in 1..n : <<i, k>> \in Pieces
    BY <1>2 DEF Pieces
<1>4. u \in Seq(Pieces) /\ Len(u) = n
    BY <1>2, <1>3
<1>5. u # <<>>
    BY <1>2, <1>4
<1>6. UnitsOf(ps, i) = u
    BY DEF UnitsOf
<1> HIDE DEF u
<1> QED BY <1>2, <1>4, <1>5, <1>6, EmptySeq DEF DataIn

(* One packet more, and one less. *)
LEMMA AppendedNumber ==
    ASSUME NEW K, NEW q \in Seq(K), NEW i \in K
    PROVE  /\ Append(q, i) \in Seq(K)
           /\ Len(q) \in Nat /\ Len(Append(q, i)) = Len(q) + 1
           /\ \A k \in 1..Len(q) : Append(q, i)[k] = q[k]
           /\ Append(q, i)[Len(q) + 1] = i
BY LenProperties, AppendProperties

LEMMA RemovedNumber ==
    ASSUME NEW K, NEW q \in Seq(K), q # <<>>
    PROVE  /\ Tail(q) \in Seq(K)
           /\ Len(Tail(q)) \in Nat /\ Len(q) = Len(Tail(q)) + 1
           /\ \A k \in 1..Len(Tail(q)) : Tail(q)[k] = q[k + 1]
           /\ 1 \in 1..Len(q)
BY LenProperties, HeadTailProperties, EmptySeq

LEMMA HeldType ==
    ASSUME NEW ps \in Seq(PacketType), NEW q \in Seq(1..Len(ps)), NEW s
    PROVE  /\ [k \in 1..Len(q) |-> DataIn(ps, q[k], s)] \in Seq(Seq(Pieces))
           /\ HeldIn(ps, q, s) \in Seq(Pieces)
<1>1. Len(q) \in Nat /\ \A k \in 1..Len(q) : DataIn(ps, q[k], s) \in Seq(Pieces)
    BY LenProperties, ElementOfSeq, UnitsType
<1> DEFINE d == [k \in 1..Len(q) |-> DataIn(ps, q[k], s)]
<1>2. d \in Seq(Seq(Pieces))
    BY <1>1
<1> HIDE DEF d
<1>3. FlattenSeq(d) \in Seq(Pieces)
    BY <1>2, FlattenType
<1> QED BY <1>2, <1>3 DEF d, HeldIn

LEMMA HeldAppend ==
    ASSUME NEW ps \in Seq(PacketType), NEW q \in Seq(1..Len(ps)), NEW i \in 1..Len(ps), NEW s
    PROVE  HeldIn(ps, Append(q, i), s) = HeldIn(ps, q, s) \o DataIn(ps, i, s)
<1> DEFINE d == [k \in 1..Len(q) |-> DataIn(ps, q[k], s)]
           x == DataIn(ps, i, s)
           e == [k \in 1..Len(Append(q, i)) |-> DataIn(ps, Append(q, i)[k], s)]
<1>0. Append(q, i) \in Seq(1..Len(ps)) /\ Len(q) \in Nat
    BY AppendedNumber
<1>1. d \in Seq(Seq(Pieces)) /\ e \in Seq(Seq(Pieces)) /\ x \in Seq(Pieces)
    <2>1. d \in Seq(Seq(Pieces))
        BY HeldType
    <2>2. e \in Seq(Seq(Pieces))
        BY <1>0, HeldType
    <2> QED BY <2>1, <2>2, UnitsType
<1>2. /\ Len(d) = Len(q) /\ Len(e) = Len(q) + 1
      /\ \A k \in 1..Len(q) : e[k] = d[k]
      /\ e[Len(q) + 1] = x
    BY AppendedNumber
<1> HIDE DEF d, e, x
<1>3. FlattenSeq(e) = FlattenSeq(d) \o x
    <2> DEFINE n == Len(q)
    <2>1. n \in Nat /\ Len(d) = n /\ Len(e) = n + 1 /\ (\A k \in 1..n : e[k] = d[k]) /\ e[n + 1] = x
        BY <1>0, <1>2
    <2> HIDE DEF n
    <2>2. FlattenSeq(e) = FlattenSeq(d) \o e[n + 1]
        BY <1>1, <2>1, FlattenOneMore
    <2> QED BY <2>1, <2>2
<1> QED BY <1>3 DEF d, e, x, HeldIn

LEMMA HeldTail ==
    ASSUME NEW ps \in Seq(PacketType), NEW q \in Seq(1..Len(ps)), q # <<>>, NEW s
    PROVE  HeldIn(ps, q, s) = DataIn(ps, q[1], s) \o HeldIn(ps, Tail(q), s)
<1> DEFINE d == [k \in 1..Len(q) |-> DataIn(ps, q[k], s)]
           e == [k \in 1..Len(Tail(q)) |-> DataIn(ps, Tail(q)[k], s)]
<1>1. d \in Seq(Seq(Pieces)) /\ e \in Seq(Seq(Pieces)) /\ Len(Tail(q)) \in Nat
    BY RemovedNumber, HeldType
<1>2. /\ Len(e) = Len(Tail(q)) /\ Len(d) = Len(Tail(q)) + 1
      /\ d[1] = DataIn(ps, q[1], s)
      /\ \A k \in 1..Len(Tail(q)) : e[k] = d[k + 1]
    BY RemovedNumber
<1> HIDE DEF d, e
<1>3. FlattenSeq(d) = d[1] \o FlattenSeq(e)
    BY <1>1, <1>2, FlattenOneLess
<1> QED BY <1>2, <1>3 DEF d, e, HeldIn

LEMMA WeightType ==
    ASSUME NEW ps \in Seq(PacketType), NEW q \in Seq(1..Len(ps))
    PROVE  /\ [k \in 1..Len(q) |-> UnitsOf(ps, q[k])] \in Seq(Seq(Pieces))
           /\ FlattenSeq([k \in 1..Len(q) |-> UnitsOf(ps, q[k])]) \in Seq(Pieces)
           /\ Weight(ps, q) \in Nat
<1>1. Len(q) \in Nat /\ \A k \in 1..Len(q) : UnitsOf(ps, q[k]) \in Seq(Pieces)
    BY LenProperties, ElementOfSeq, UnitsType
<1> DEFINE d == [k \in 1..Len(q) |-> UnitsOf(ps, q[k])]
<1>2. d \in Seq(Seq(Pieces))
    BY <1>1
<1> HIDE DEF d
<1>3. FlattenSeq(d) \in Seq(Pieces) /\ Len(FlattenSeq(d)) \in Nat
    BY <1>2, FlattenType, LenProperties
<1> QED BY <1>2, <1>3 DEF d, Weight

LEMMA WeightEmpty == ASSUME NEW ps PROVE Weight(ps, <<>>) = 0
<1>1. [k \in 1..Len(<<>>) |-> UnitsOf(ps, <<>>[k])] = <<>>
    OBVIOUS
<1> QED BY <1>1, FlattenEmpty DEF Weight

LEMMA WeightAppend ==
    ASSUME NEW ps \in Seq(PacketType), NEW q \in Seq(1..Len(ps)), NEW i \in 1..Len(ps)
    PROVE  Weight(ps, Append(q, i)) = Weight(ps, q) + ps[i].size
<1> DEFINE d == [k \in 1..Len(q) |-> UnitsOf(ps, q[k])]
           x == UnitsOf(ps, i)
           e == [k \in 1..Len(Append(q, i)) |-> UnitsOf(ps, Append(q, i)[k])]
<1>0. Append(q, i) \in Seq(1..Len(ps)) /\ Len(q) \in Nat
    BY AppendedNumber
<1>1. /\ d \in Seq(Seq(Pieces)) /\ e \in Seq(Seq(Pieces)) /\ x \in Seq(Pieces)
      /\ FlattenSeq(d) \in Seq(Pieces) /\ Len(x) = ps[i].size
    BY <1>0, WeightType, UnitsType
<1>2. /\ Len(d) = Len(q) /\ Len(e) = Len(q) + 1
      /\ \A k \in 1..Len(q) : e[k] = d[k]
      /\ e[Len(q) + 1] = x
    BY AppendedNumber
<1> HIDE DEF d, e, x
<1>3. FlattenSeq(e) = FlattenSeq(d) \o x
    <2> DEFINE n == Len(q)
    <2>1. n \in Nat /\ Len(d) = n /\ Len(e) = n + 1 /\ (\A k \in 1..n : e[k] = d[k]) /\ e[n + 1] = x
        BY <1>0, <1>2
    <2> HIDE DEF n
    <2>2. FlattenSeq(e) = FlattenSeq(d) \o e[n + 1]
        BY <1>1, <2>1, FlattenOneMore
    <2> QED BY <2>1, <2>2
<1>4. Len(FlattenSeq(e)) = Len(FlattenSeq(d)) + Len(x)
    BY <1>1, <1>3, ConcatProperties
<1> QED BY <1>1, <1>4 DEF d, e, Weight

LEMMA WeightTail ==
    ASSUME NEW ps \in Seq(PacketType), NEW q \in Seq(1..Len(ps)), q # <<>>
    PROVE  Weight(ps, q) = ps[q[1]].size + Weight(ps, Tail(q))
<1> DEFINE d == [k \in 1..Len(q) |-> UnitsOf(ps, q[k])]
           e == [k \in 1..Len(Tail(q)) |-> UnitsOf(ps, Tail(q)[k])]
<1>1. /\ d \in Seq(Seq(Pieces)) /\ e \in Seq(Seq(Pieces)) /\ Len(Tail(q)) \in Nat
      /\ FlattenSeq(e) \in Seq(Pieces)
    BY RemovedNumber, WeightType
<1>2. /\ Len(e) = Len(Tail(q)) /\ Len(d) = Len(Tail(q)) + 1
      /\ d[1] = UnitsOf(ps, q[1])
      /\ \A k \in 1..Len(Tail(q)) : e[k] = d[k + 1]
    BY RemovedNumber
<1>3. d[1] \in Seq(Pieces) /\ Len(d[1]) = ps[q[1]].size
    BY <1>2, RemovedNumber, ElementOfSeq, UnitsType
<1> HIDE DEF d, e
<1>4. FlattenSeq(d) = d[1] \o FlattenSeq(e)
    BY <1>1, <1>2, FlattenOneLess
<1>5. Len(FlattenSeq(d)) = Len(d[1]) + Len(FlattenSeq(e))
    BY <1>1, <1>3, <1>4, ConcatProperties
<1> QED BY <1>3, <1>5 DEF d, e, Weight

(* What the demuxer has not read yet. *)
LEMMA UnreadType ==
    ASSUME NEW ps \in Seq(PacketType), NEW p \in 1..(Len(ps) + 1), NEW s
    PROVE  /\ [k \in 1..(Len(ps) + 1 - p) |-> DataIn(ps, p + k - 1, s)] \in Seq(Seq(Pieces))
           /\ UnreadFrom(ps, p, s) \in Seq(Pieces)
<1> DEFINE n == Len(ps) + 1 - p
           d == [k \in 1..n |-> DataIn(ps, p + k - 1, s)]
<1>1. n \in Nat /\ \A k \in 1..n : p + k - 1 \in 1..Len(ps)
    BY LenProperties
<1>2. \A k \in 1..n : DataIn(ps, p + k - 1, s) \in Seq(Pieces)
    BY <1>1, UnitsType
<1>3. d \in Seq(Seq(Pieces))
    <2> HIDE DEF n
    <2> QED BY <1>1, <1>2
<1> HIDE DEF d
<1>4. FlattenSeq(d) \in Seq(Pieces)
    BY <1>3, FlattenType
<1> QED BY <1>3, <1>4 DEF d, UnreadFrom

LEMMA UnreadStep ==
    ASSUME NEW ps \in Seq(PacketType), NEW p \in 1..Len(ps), NEW s
    PROVE  UnreadFrom(ps, p, s) = DataIn(ps, p, s) \o UnreadFrom(ps, p + 1, s)
<1> DEFINE m == Len(ps) - p
           d == [k \in 1..(Len(ps) + 1 - p) |-> DataIn(ps, p + k - 1, s)]
           e == [k \in 1..(Len(ps) + 1 - (p + 1)) |-> DataIn(ps, p + 1 + k - 1, s)]
<1>1. p + 1 \in 1..(Len(ps) + 1) /\ p \in 1..(Len(ps) + 1) /\ m \in Nat
    BY LenProperties
<1>2. d \in Seq(Seq(Pieces)) /\ e \in Seq(Seq(Pieces))
    BY <1>1, UnreadType
<1>3. Len(ps) + 1 - p = m + 1 /\ Len(ps) + 1 - (p + 1) = m /\ p + 1 - 1 = p
      /\ \A k \in 1..m : p + 1 + k - 1 = p + (k + 1) - 1 /\ k + 1 \in 1..(m + 1)
    BY LenProperties
<1>4. Len(d) = m + 1 /\ Len(e) = m
    BY <1>1, <1>3
<1>5. d[1] = DataIn(ps, p, s)
    <2>1. 1 \in 1..(Len(ps) + 1 - p)
        BY LenProperties
    <2>2. d[1] = DataIn(ps, p + 1 - 1, s)
        BY <2>1
    <2> QED BY <1>3, <2>2
<1>6. \A k \in 1..m : e[k] = d[k + 1]
    <2> TAKE k \in 1..m
    <2>1. k \in 1..(Len(ps) + 1 - (p + 1)) /\ k + 1 \in 1..(Len(ps) + 1 - p)
        BY <1>3
    <2>2. e[k] = DataIn(ps, p + 1 + k - 1, s) /\ d[k + 1] = DataIn(ps, p + (k + 1) - 1, s)
        BY <2>1
    <2> QED BY <1>3, <2>2
<1> HIDE DEF d, e, m
<1>7. FlattenSeq(d) = d[1] \o FlattenSeq(e)
    BY <1>1, <1>2, <1>4, <1>6, FlattenOneLess
<1> QED BY <1>5, <1>7 DEF d, e, UnreadFrom

LEMMA UnreadEnd ==
    ASSUME NEW ps \in Seq(PacketType), NEW s
    PROVE  UnreadFrom(ps, Len(ps) + 1, s) = <<>>
<1> DEFINE p == Len(ps) + 1
           d == [k \in 1..(Len(ps) + 1 - p) |-> DataIn(ps, p + k - 1, s)]
<1>1. Len(ps) \in Nat /\ 1..(Len(ps) + 1 - p) = {}
    BY LenProperties
<1>2. d \in Seq(Seq(Pieces))
    BY <1>1, UnreadType
<1>3. d = <<>>
    <2>1. Len(d) = 0
        BY <1>1
    <2> HIDE DEF d
    <2> QED BY <1>2, <2>1, EmptySeq
<1> QED BY <1>3, FlattenEmpty DEF UnreadFrom

(* Frames. *)
FrameData(f, s) == IF f.stream = s THEN f.units ELSE <<>>

LEMMA FrameDataType ==
    ASSUME NEW f \in Frames, NEW s
    PROVE  FrameData(f, s) \in Seq(Pieces)
<1>1. f.units \in Seq(Pieces)
    BY DEF Frames, Pieces
<1> QED BY <1>1, EmptySeq DEF FrameData

LEMMA DataOfType ==
    ASSUME NEW fs \in Seq(Frames), NEW s
    PROVE  /\ [k \in 1..Len(fs) |-> FrameData(fs[k], s)] \in Seq(Seq(Pieces))
           /\ DataOf(s, fs) = FlattenSeq([k \in 1..Len(fs) |-> FrameData(fs[k], s)])
           /\ DataOf(s, fs) \in Seq(Pieces)
<1> DEFINE d == [k \in 1..Len(fs) |-> FrameData(fs[k], s)]
<1>1. Len(fs) \in Nat /\ \A k \in 1..Len(fs) : FrameData(fs[k], s) \in Seq(Pieces)
    BY LenProperties, ElementOfSeq, FrameDataType
<1>2. d \in Seq(Seq(Pieces))
    BY <1>1
<1>3. DataOf(s, fs) = FlattenSeq(d)
    BY DEF DataOf, FrameData
<1> HIDE DEF d
<1>4. FlattenSeq(d) \in Seq(Pieces)
    BY <1>2, FlattenType
<1> QED BY <1>2, <1>3, <1>4 DEF d

LEMMA DataOfNone == \A s : DataOf(s, <<>>) = <<>>
<1> TAKE s
<1>1. [k \in 1..Len(<<>>) |-> IF <<>>[k].stream = s THEN <<>>[k].units ELSE <<>>] = <<>>
    OBVIOUS
<1> QED BY <1>1, FlattenEmpty DEF DataOf

LEMMA DataOfAppend ==
    ASSUME NEW fs \in Seq(Frames), NEW f \in Frames, NEW s
    PROVE  DataOf(s, Append(fs, f)) = DataOf(s, fs) \o FrameData(f, s)
<1> DEFINE d == [k \in 1..Len(fs) |-> FrameData(fs[k], s)]
           x == FrameData(f, s)
           e == [k \in 1..Len(Append(fs, f)) |-> FrameData(Append(fs, f)[k], s)]
<1>0. Append(fs, f) \in Seq(Frames) /\ Len(fs) \in Nat
    BY AppendedNumber
<1>1. d \in Seq(Seq(Pieces)) /\ e \in Seq(Seq(Pieces)) /\ x \in Seq(Pieces)
    <2>1. d \in Seq(Seq(Pieces))
        BY DataOfType
    <2>2. e \in Seq(Seq(Pieces))
        BY <1>0, DataOfType
    <2> QED BY <2>1, <2>2, FrameDataType
<1>2. /\ Len(d) = Len(fs) /\ Len(e) = Len(fs) + 1
      /\ \A k \in 1..Len(fs) : e[k] = d[k]
      /\ e[Len(fs) + 1] = x
    BY AppendedNumber
<1>3. DataOf(s, fs) = FlattenSeq(d) /\ DataOf(s, Append(fs, f)) = FlattenSeq(e)
    <2>1. DataOf(s, fs) = FlattenSeq(d)
        BY DataOfType
    <2>2. DataOf(s, Append(fs, f)) = FlattenSeq(e)
        BY <1>0, DataOfType
    <2> QED BY <2>1, <2>2
<1> HIDE DEF d, e, x
<1>4. FlattenSeq(e) = FlattenSeq(d) \o x
    <2> DEFINE n == Len(fs)
    <2>1. n \in Nat /\ Len(d) = n /\ Len(e) = n + 1 /\ (\A k \in 1..n : e[k] = d[k]) /\ e[n + 1] = x
        BY <1>0, <1>2
    <2> HIDE DEF n
    <2>2. FlattenSeq(e) = FlattenSeq(d) \o e[n + 1]
        BY <1>1, <2>1, FlattenOneMore
    <2> QED BY <2>1, <2>2
<1> QED BY <1>3, <1>4 DEF x

LEMMA DataOfTail ==
    ASSUME NEW fs \in Seq(Frames), fs # <<>>, NEW s
    PROVE  DataOf(s, fs) = FrameData(fs[1], s) \o DataOf(s, Tail(fs))
<1> DEFINE d == [k \in 1..Len(fs) |-> FrameData(fs[k], s)]
           e == [k \in 1..Len(Tail(fs)) |-> FrameData(Tail(fs)[k], s)]
<1>1. d \in Seq(Seq(Pieces)) /\ e \in Seq(Seq(Pieces)) /\ Len(Tail(fs)) \in Nat
    BY RemovedNumber, DataOfType
<1>2. /\ Len(e) = Len(Tail(fs)) /\ Len(d) = Len(Tail(fs)) + 1
      /\ d[1] = FrameData(fs[1], s)
      /\ \A k \in 1..Len(Tail(fs)) : e[k] = d[k + 1]
    BY RemovedNumber
<1>3. DataOf(s, fs) = FlattenSeq(d) /\ DataOf(s, Tail(fs)) = FlattenSeq(e)
    BY RemovedNumber, DataOfType
<1> HIDE DEF d, e
<1>4. FlattenSeq(d) = d[1] \o FlattenSeq(e)
    BY <1>1, <1>2, FlattenOneLess
<1> QED BY <1>2, <1>3, <1>4

---------------------------------------------------------------------------
(* The invariant.                                                          *)

Parsing(s) == s \in parsing \cap parsers

(* Which function a call can have reached, and what it implies for what    *)
(* waits where: the caller of av_read_frame sees nothing of a scan, and    *)
(* gets what was read ahead before anything else.                          *)
Places ==
    /\ op \in {"closed", "idle"} => at = "top"
    /\ op = "info" => at \in {"top", "eof", "internal", "packet"}
    /\ op = "scan" => at \in {"flush", "top", "packet"} /\ file.mpeg
    /\ op = "frame" => at \in {"internal", "packet"} /\ buffer = <<>>
    /\ op \in {"closed", "info", "scan"} => out = <<>> /\ result = "none"
    /\ op = "frame" => result = "none"
    /\ at = "packet" => cur = NoCur

Empty ==
    /\ buffer = <<>>
    /\ \A s \in Streams : pending[s] = <<>>
    /\ cur = NoCur

(* A parser that has data is asked for it; a frame is never empty.         *)
Waiting ==
    /\ \A s \in Streams : pending[s] # <<>> => Parsing(s)
    /\ cur # NoCur => cur.stream \in Streams /\ (cur.rest # <<>> \/ HasParser)
    /\ \A k \in 1..Len(buffer) : buffer[k].units # <<>>
    /\ op = "closed" => file = NoFile /\ pos = 1 /\ raw = <<>> /\ Empty
    /\ op = "scan" /\ at # "flush" => Empty
    /\ probing \subseteq file.probed

DemuxInv ==
    /\ DemuxTypeOK
    /\ Places
    /\ Waiting
    /\ RawBufferBounded

LEMMA FileType ==
    ASSUME NEW f \in Files \cup {NoFile}
    PROVE  /\ f.packets \in Seq(PacketType)
           /\ f.probed \subseteq Streams /\ f.parsed \subseteq Streams
           /\ f.mpeg \in BOOLEAN
           /\ Len(f.packets) \in Nat
<1>1. CASE f = NoFile
    BY <1>1, EmptySeq DEF NoFile
<1>2. CASE f \in Files
    BY <1>2, FilesAssumption, LenProperties DEF PacketType
<1> QED BY <1>1, <1>2

LEMMA NoCurType == NoCur.stream = 0 /\ NoCur.rest = <<>> /\ 0 \notin Streams
BY StreamsAssumption DEF NoCur

(* The same in terms of the packets. *)
LEMMA InPackets ==
    /\ \A i : Packet(i) = file.packets[i] /\ Units(i) = UnitsOf(file.packets, i)
    /\ RawBufferBounded <=> /\ room = RawBufferSize - Weight(file.packets, raw)
                            /\ raw # <<>> => room > - file.packets[raw[Len(raw)]].size
    /\ RawBufferBounded' <=> /\ room' = RawBufferSize - Weight(file'.packets, raw')
                             /\ raw' # <<>> => room' > - file'.packets[raw'[Len(raw')]].size
BY DEF Packet, Units, UnitsOf, RawBufferBounded, Weight, Last

(* As long as nothing is kept or given out, the buffer stays as full. *)
LEMMA SameBuffer ==
    ASSUME RawBufferBounded, UNCHANGED <<file, raw, room>>
    PROVE  RawBufferBounded'
BY InPackets

LEMMA EmptiedBuffer ==
    ASSUME raw' = <<>>, room' = RawBufferSize
    PROVE  RawBufferBounded'
BY InPackets, WeightEmpty, NumbersAssumption

LEMMA MinIsLeast ==
    ASSUME NEW T \in SUBSET Nat, T # {}
    PROVE  Min(T) \in T /\ \A m \in T : Min(T) <= m
BY LeastNatural DEF Min

(* The demuxer goes on inside the file, or at its end. *)
LEMMA SeekType ==
    ASSUME DemuxTypeOK, NEW offset, SeekTo(offset)
    PROVE  pos' \in 1..(Len(file.packets) + 1)
<1> DEFINE T == {Len(file.packets) + 1} \cup
                {i \in 1..Len(file.packets) : Bytes(i - 1) >= offset}
<1>1. Len(file.packets) \in Nat
    BY FileType DEF DemuxTypeOK
<1>2. T \in SUBSET Nat /\ T # {} /\ T \subseteq 1..(Len(file.packets) + 1)
    BY <1>1
<1>3. pos' = Min(T)
    BY DEF SeekTo
<1> HIDE DEF T
<1> QED BY <1>2, <1>3, MinIsLeast

LEMMA BytesOfNone == Bytes(0) = 0
<1>1. [i \in 1..0 |-> Units(i)] = <<>>
    OBVIOUS
<1>2. Len(<<>>) = 0
    OBVIOUS
<1> QED BY <1>1, <1>2, FlattenEmpty DEF Bytes

(* Seeking to 0 goes back to the first packet. *)
LEMMA SeekToStart ==
    ASSUME DemuxTypeOK, SeekTo(0)
    PROVE  pos' = 1
<1> DEFINE n == Len(file.packets)
           T == {n + 1} \cup {i \in 1..n : Bytes(i - 1) >= 0}
<1>1. n \in Nat
    BY FileType DEF DemuxTypeOK
<1>2. T \in SUBSET Nat /\ T # {} /\ T \subseteq 1..(n + 1)
    BY <1>1
<1>3. 1 \in T
    <2>1. CASE n = 0
        BY <2>1
    <2>2. CASE n # 0
        <3>1. 1 - 1 = 0 /\ 1 \in 1..n
            BY <1>1, <2>2
        <3>2. Bytes(1 - 1) >= 0
            BY <3>1, BytesOfNone
        <3> QED BY <3>1, <3>2
    <2> QED BY <2>1, <2>2
<1>4. pos' = Min(T)
    BY DEF SeekTo
<1> HIDE DEF T, n
<1>5. Min(T) \in 1..(n + 1) /\ Min(T) <= 1
    BY <1>2, <1>3, MinIsLeast
<1> QED BY <1>1, <1>4, <1>5

---------------------------------------------------------------------------
(* Opening and closing.                                                    *)

LEMMA InitInv == DemuxInit => DemuxInv
<1> SUFFICES ASSUME DemuxInit PROVE DemuxInv
    OBVIOUS
<1>1. DemuxTypeOK
    BY FileType, NumbersAssumption, EmptySeq DEF DemuxInit, DemuxTypeOK, NoFile, NoCur, NoScan
<1>2. Places /\ Waiting
    BY DEF DemuxInit, Places, Waiting, Empty
<1>3. RawBufferBounded
    BY InPackets, WeightEmpty, NumbersAssumption DEF DemuxInit
<1> QED BY <1>1, <1>2, <1>3 DEF DemuxInv

LEMMA OpenInv ==
    ASSUME DemuxInv, NEW f \in Files, OpenFile(f)
    PROVE  DemuxInv'
<1> USE DEF DemuxInv, OpenFile
<1>1. DemuxTypeOK'
    <2>1. pos' = 1 /\ raw' = <<>> /\ file' = f
        BY DEF Waiting
    <2>2. pos' \in 1..(Len(file'.packets) + 1)
        BY <2>1, FileType
    <2>3. raw' \in Seq(1..Len(file'.packets))
        BY <2>1, EmptySeq
    <2>4. parsers' \subseteq Streams /\ parsing' \subseteq Streams /\ probing' \subseteq Streams
        BY FileType
    <2> QED BY <2>2, <2>3, <2>4, NumbersAssumption DEF DemuxTypeOK, answer
<1>2. Places'
    BY DEF Places, Waiting, Empty, answer
<1>3. Waiting'
    BY DEF Waiting, Empty, HasParser, Parsing, NoCur, answer
<1>4. RawBufferBounded'
    <2>1. raw' = <<>> /\ room' = RawBufferSize
        BY WeightEmpty, NumbersAssumption, InPackets DEF Waiting
    <2> QED BY <2>1, EmptiedBuffer
<1> QED BY <1>1, <1>2, <1>3, <1>4

LEMMA CloseInv == ASSUME CloseFile PROVE DemuxInv'
<1> USE DEF CloseFile
<1>1. DemuxTypeOK'
    BY FileType, NumbersAssumption, EmptySeq DEF DemuxTypeOK, NoFile, NoCur, NoScan
<1>2. Places' /\ Waiting'
    BY DEF Places, Waiting, Empty
<1>3. RawBufferBounded'
    BY EmptiedBuffer
<1> QED BY <1>1, <1>2, <1>3 DEF DemuxInv

LEMMA StutterInv == ASSUME DemuxInv, UNCHANGED demux PROVE DemuxInv'
<1> USE DEF DemuxInv, demux, source, probe, parse, answer
<1>1. DemuxTypeOK'
    BY DEF DemuxTypeOK
<1>2. Places' /\ Waiting'
    BY DEF Places, Waiting, Empty, HasParser, Parsing
<1>3. RawBufferBounded'
    BY SameBuffer
<1> QED BY <1>1, <1>2, <1>3

---------------------------------------------------------------------------
(* av_find_stream_info and the scan for the last timestamp.                *)

LEMMA InfoReadsInv == ASSUME DemuxInv, InfoReads PROVE DemuxInv'
<1> USE DEF DemuxInv, InfoReads, source, probe, parse, answer
<1>1. DemuxTypeOK'
    BY DEF DemuxTypeOK
<1>2. Places' /\ Waiting'
    BY DEF Places, Waiting, Empty, HasParser, Parsing
<1> QED BY <1>1, <1>2, SameBuffer

LEMMA InfoEndsInv == ASSUME DemuxInv, InfoEnds PROVE DemuxInv'
<1> USE DEF DemuxInv, InfoEnds, source, probe, parse, answer
<1>1. DemuxTypeOK'
    BY DEF DemuxTypeOK
<1>2. Places' /\ Waiting'
    BY DEF Places, Waiting, Empty, HasParser, Parsing
<1> QED BY <1>1, <1>2, SameBuffer

(* A pass of the scan ends. *)
LEMMA EndPassIs ==
    ASSUME DemuxTypeOK, op = "scan", EndPass
    PROVE  /\ scan' \in [retry : 0..ScanRetries, read : Nat]
           /\ pos' \in 1..(Len(file.packets) + 1)
           /\ at' = "top"
           /\ op' \in {"scan", "idle"}
           /\ op' = "idle" => pos' = 1
<1>1. CASE Rewind
    <2>1. SeekTo(0) /\ scan' = NoScan /\ op' = "idle" /\ at' = "top"
        BY <1>1 DEF Rewind
    <2> QED BY <2>1, SeekType, SeekToStart, NumbersAssumption DEF NoScan
<1>2. CASE scan.retry < ScanRetries /\ BeginPass(scan.retry + 1)
    <2>1. PICK offset : SeekTo(offset)
        BY <1>2 DEF BeginPass
    <2>2. scan.retry + 1 \in 0..ScanRetries
        BY <1>2, NumbersAssumption DEF DemuxTypeOK
    <2>3. scan' = [retry |-> scan.retry + 1, read |-> 0] /\ at' = "top" /\ op' = op
        BY <1>2 DEF BeginPass
    <2> QED BY <2>1, <2>2, <2>3, SeekType
<1> QED BY <1>1, <1>2 DEF EndPass

LEMMA ScanFlushInv == ASSUME DemuxInv, ScanFlush PROVE DemuxInv'
<1> USE DEF DemuxInv, ScanFlush
<1>1. PICK offset : SeekTo(offset)
    BY DEF BeginPass
<1>2. pos' \in 1..(Len(file.packets) + 1)
    BY <1>1, SeekType
<1>3. scan' \in [retry : 0..ScanRetries, read : Nat]
    BY NumbersAssumption DEF BeginPass
<1>4. at' = "top" /\ op' = op
    BY DEF BeginPass
<1>5. DemuxTypeOK'
    BY <1>2, <1>3, <1>4, EmptySeq, NumbersAssumption DEF DemuxTypeOK, NoCur, answer
<1>6. Places' /\ Waiting'
    BY <1>4 DEF Places, Waiting, Empty, answer
<1> QED BY <1>5, <1>6, EmptiedBuffer

(* How often a packet could not be read, by an error or for the moment. *)
LEMMA AgainType ==
    ASSUME DemuxInv, PacketFails \/ UNCHANGED source
    PROVE  again' \in 0..MaxAgain
<1>1. again \in 0..MaxAgain /\ MaxAgain \in Nat
    BY NumbersAssumption DEF DemuxInv, DemuxTypeOK
<1> QED BY <1>1 DEF PacketFails, source

LEMMA ScanReadsInv == ASSUME DemuxInv, ScanReads PROVE DemuxInv'
<1> USE DEF DemuxInv, ScanReads, source, probe, parse, answer
<1>1. DemuxTypeOK'
    BY DEF DemuxTypeOK
<1>2. Places' /\ Waiting'
    BY DEF Places, Waiting, Empty, HasParser, Parsing
<1> QED BY <1>1, <1>2, SameBuffer

LEMMA EndPassInv ==
    ASSUME DemuxInv, op = "scan", at # "flush", EndPass, again' \in 0..MaxAgain,
           UNCHANGED <<file, probe, parse, buffer, answer>>
    PROVE  DemuxInv'
<1> USE DEF DemuxInv, probe, parse, answer
<1>1. DemuxTypeOK'
    BY EndPassIs DEF DemuxTypeOK
<1>2. Places' /\ Waiting'
    BY EndPassIs DEF Places, Waiting, Empty, HasParser, Parsing
<1> QED BY <1>1, <1>2, SameBuffer

LEMMA ScanHasReadEnoughInv == ASSUME DemuxInv, ScanHasReadEnough PROVE DemuxInv'
BY EndPassInv, AgainType DEF ScanHasReadEnough, DemuxInv, DemuxTypeOK

---------------------------------------------------------------------------
(* av_read_packet.                                                         *)

(* Whatever packet it returns, its caller takes it in.                     *)
LEMMA HandInv ==
    ASSUME DemuxInv, at = "packet", NEW i \in 1..Len(file.packets), Hand(i),
           UNCHANGED <<file, again, op, probing, probePackets, buffer, answer>>,
           pos' \in 1..(Len(file.packets) + 1), raw' \in Seq(1..Len(file.packets)),
           room' \in Int
    PROVE  DemuxTypeOK' /\ Places' /\ Waiting'
<1> USE DEF DemuxInv
<1>1. /\ file.packets \in Seq(PacketType)
      /\ Packet(i).stream \in Streams /\ Packet(i).size \in Nat
      /\ Units(i) \in Seq(Nat \X Nat) /\ Units(i) # <<>>
    BY FileType, UnitsType, InPackets DEF DemuxTypeOK, Pieces
<1>2. op \in {"info", "scan", "frame"} /\ cur = NoCur
    BY DEF DemuxTypeOK, Places
<1>3. CASE op = "scan"
    <2>1. UNCHANGED parse /\ at' = "top" /\ scan' = [scan EXCEPT !.read = @ + Packet(i).size]
        BY <1>3 DEF Hand
    <2>2. scan' \in [retry : 0..ScanRetries, read : Nat]
        <3>1. scan \in [retry : 0..ScanRetries, read : Nat]
            BY DEF DemuxTypeOK
        <3>2. scan.read + Packet(i).size \in Nat
            BY <1>1, <3>1
        <3> QED BY <2>1, <3>1, <3>2
    <2>3. DemuxTypeOK'
        BY <2>1, <2>2 DEF DemuxTypeOK, parse, answer
    <2>4. Places' /\ Waiting'
        BY <1>3, <2>1 DEF Places, Waiting, Empty, HasParser, Parsing, parse, answer
    <2> QED BY <2>3, <2>4
<1>4. CASE op # "scan"
    <2> DEFINE new == ({Packet(i).stream} \cap parsing) \ parsers
    <2>1. /\ cur' = [stream |-> Packet(i).stream, rest |-> Units(i)]
          /\ at' = "internal"
          /\ parsers' = parsers \cup (new \ probing)
          /\ parsing' = parsing \ (new \cap probing)
          /\ UNCHANGED <<scan, pending>>
        BY <1>4 DEF Hand
    <2>2. DemuxTypeOK'
        BY <1>1, <2>1 DEF DemuxTypeOK, answer
    <2>3. Places'
        BY <1>2, <1>4, <2>1 DEF Places, answer
    <2>4. \A s \in Streams : Parsing(s) => Parsing(s)'
        BY <2>1 DEF Parsing
    <2>5. Waiting'
        BY <1>1, <1>2, <1>4, <2>1, <2>4 DEF Waiting
    <2> QED BY <2>2, <2>3, <2>5
<1> QED BY <1>3, <1>4

LEMMA HeadOfRaw ==
    ASSUME DemuxTypeOK, raw # <<>>
    PROVE  /\ raw[1] \in 1..Len(file.packets)
           /\ Tail(raw) \in Seq(1..Len(file.packets))
           /\ file.packets \in Seq(PacketType)
           /\ Packet(raw[1]).size \in Nat \ {0}
<1>1. file.packets \in Seq(PacketType) /\ raw \in Seq(1..Len(file.packets))
    BY FileType DEF DemuxTypeOK
<1>2. raw[1] \in 1..Len(file.packets)
    BY <1>1, RemovedNumber, ElementOfSeq
<1> QED BY <1>1, <1>2, RemovedNumber, UnitsType, InPackets

LEMMA TakeBufferedInv == ASSUME DemuxInv, TakeBuffered PROVE DemuxInv'
<1> USE DEF DemuxInv, TakeBuffered
<1>1. raw # <<>>
    BY DEF HeadIsReady
<1>2. /\ raw[1] \in 1..Len(file.packets) /\ Tail(raw) \in Seq(1..Len(file.packets))
      /\ file.packets \in Seq(PacketType) /\ Packet(raw[1]).size \in Nat \ {0}
    BY <1>1, HeadOfRaw
<1>3. room' \in Int /\ pos' = pos
    BY <1>2 DEF DemuxTypeOK, source
<1>4. DemuxTypeOK' /\ Places' /\ Waiting'
    BY <1>2, <1>3, HandInv DEF source, DemuxTypeOK
<1>5. RawBufferBounded'
    <2>1. Weight(file.packets, raw) = file.packets[raw[1]].size + Weight(file.packets, Tail(raw))
        BY <1>1, <1>2, WeightTail DEF DemuxTypeOK
    <2>2. file' = file /\ raw' = Tail(raw) /\ room' = room + file.packets[raw[1]].size
        BY InPackets DEF source
    <2>3. Weight(file.packets, Tail(raw)) \in Nat /\ file.packets[raw[1]].size \in Nat \ {0}
        BY <1>2, WeightType, InPackets
    <2>4. room' = RawBufferSize - Weight(file'.packets, raw')
        BY <2>1, <2>2, <2>3, InPackets, NumbersAssumption
    <2>5. ASSUME raw' # <<>>
          PROVE  raw'[Len(raw')] = raw[Len(raw)]
        <3>1. Tail(raw)[Len(Tail(raw))] = raw[Len(Tail(raw)) + 1]
            <4>1. Len(Tail(raw)) \in 1..Len(Tail(raw))
                BY <1>2, <2>2, <2>5, EmptySeq, LenProperties
            <4> QED BY <4>1, <1>1, RemovedNumber DEF DemuxTypeOK
        <3>2. Len(raw) = Len(Tail(raw)) + 1
            BY <1>1, RemovedNumber DEF DemuxTypeOK
        <3> QED BY <2>2, <3>1, <3>2
    <2>6. raw' # <<>> => room' > - file'.packets[raw'[Len(raw')]].size
        <3> SUFFICES ASSUME raw' # <<>> PROVE room' > - file'.packets[raw'[Len(raw')]].size
            OBVIOUS
        <3>1. room > - file.packets[raw[Len(raw)]].size
            BY <1>1, InPackets
        <3>2. raw[Len(raw)] \in 1..Len(file.packets)
            <4>1. raw \in Seq(1..Len(file.packets))
                BY DEF DemuxTypeOK
            <4>2. Len(raw) \in 1..Len(raw)
                BY <1>1, <4>1, EmptySeq, LenProperties
            <4> QED BY <4>1, <4>2, ElementOfSeq
        <3>3. file.packets[raw[Len(raw)]].size \in Nat
            BY <3>2, <1>2, UnitsType
        <3>4. room \in Int
            BY DEF DemuxTypeOK
        <3>5. room' > - file.packets[raw[Len(raw)]].size
            <4> DEFINE x == file.packets[raw[Len(raw)]].size
                       y == file.packets[raw[1]].size
            <4>1. x \in Nat /\ y \in Nat /\ room > -x /\ room' = room + y
                BY <2>2, <2>3, <3>1, <3>3
            <4> HIDE DEF x, y, DemuxInv, TakeBuffered
            <4>2. room' > -x
                BY <4>1, <3>4
            <4> QED BY <4>2 DEF x
        <3> QED BY <2>2, <2>5, <3>5
    <2> QED BY <2>4, <2>6, InPackets
<1> QED BY <1>4, <1>5

LEMMA NextPacket ==
    ASSUME DemuxTypeOK, ReadsPacket
    PROVE  /\ pos \in 1..Len(file.packets)
           /\ pos' \in 1..(Len(file.packets) + 1)
           /\ file.packets \in Seq(PacketType)
           /\ Packet(pos).stream \in Streams
           /\ Packet(pos).size \in Nat \ {0}
<1>1. file.packets \in Seq(PacketType) /\ Len(file.packets) \in Nat
    BY FileType DEF DemuxTypeOK
<1>2. pos \in 1..Len(file.packets) /\ pos' \in 1..(Len(file.packets) + 1)
    BY <1>1 DEF DemuxTypeOK, ReadsPacket
<1> QED BY <1>1, <1>2, UnitsType, InPackets

LEMMA PassOnInv == ASSUME DemuxInv, PassOn PROVE DemuxInv'
<1> USE DEF DemuxInv, PassOn
<1>1. pos \in 1..Len(file.packets) /\ pos' \in 1..(Len(file.packets) + 1) /\ at = "packet"
    BY NextPacket DEF ReadsPacket
<1>2. DemuxTypeOK' /\ Places' /\ Waiting'
    BY <1>1, HandInv DEF probe, DemuxTypeOK
<1> QED BY <1>2, SameBuffer DEF probe

(* A packet is held back when there is room for the first one, or none     *)
(* waits; so the buffer was not full.                                      *)
LEMMA HoldBackInv == ASSUME DemuxInv, HoldBack PROVE DemuxInv'
<1> USE DEF DemuxInv, HoldBack
<1>1. /\ pos \in 1..Len(file.packets) /\ pos' \in 1..(Len(file.packets) + 1)
      /\ file.packets \in Seq(PacketType)
      /\ Packet(pos).stream \in Streams /\ Packet(pos).size \in Nat \ {0}
    BY NextPacket
<1>2. raw' \in Seq(1..Len(file.packets)) /\ raw' # <<>> /\ raw'[Len(raw')] = pos
    <2>1. raw \in Seq(1..Len(file.packets))
        BY DEF DemuxTypeOK
    <2>2. /\ raw' \in Seq(1..Len(file.packets)) /\ Len(raw) \in Nat
          /\ Len(raw') = Len(raw) + 1 /\ raw'[Len(raw) + 1] = pos
        BY <1>1, <2>1, AppendedNumber
    <2> QED BY <2>2, EmptySeq
<1>3. room' \in Int
    BY <1>1 DEF DemuxTypeOK
<1>4. probing' \subseteq probing /\ probePackets' \in [Streams -> Int]
    <2>1. CASE Packet(pos).stream \in probing
        <3>1. probePackets' = [probePackets EXCEPT ![Packet(pos).stream] = @ - 1]
            BY <2>1
        <3>2. probing' \subseteq probing
            BY <2>1
        <3>3. probePackets \in [Streams -> Int]
            BY DEF DemuxTypeOK
        <3>4. probePackets[Packet(pos).stream] - 1 \in Int
            BY <1>1, <3>3
        <3>5. probePackets' \in [Streams -> Int]
            BY <3>1, <3>3, <3>4
        <3> QED BY <3>2, <3>5
    <2>2. CASE Packet(pos).stream \notin probing
        BY <2>2 DEF DemuxTypeOK
    <2> QED BY <2>1, <2>2
<1>5. DemuxTypeOK'
    BY <1>1, <1>2, <1>3, <1>4 DEF DemuxTypeOK, parse, answer
<1>6. Places' /\ Waiting'
    <2>1. op # "closed"
        BY DEF Places, ReadsPacket
    <2> QED BY <1>4, <2>1 DEF Places, Waiting, Empty, HasParser, Parsing, parse, answer
<1>7. RawBufferBounded'
    <2>1. Weight(file.packets, Append(raw, pos)) = Weight(file.packets, raw) + file.packets[pos].size
        BY <1>1, WeightAppend DEF DemuxTypeOK
    <2>2. file' = file /\ raw' = Append(raw, pos) /\ room' = room - file.packets[pos].size
        BY InPackets
    <2>3. Weight(file.packets, raw) \in Nat /\ file.packets[pos].size \in Nat \ {0}
        BY <1>1, WeightType, InPackets DEF DemuxTypeOK
    <2>4. room' = RawBufferSize - Weight(file'.packets, raw')
        BY <2>1, <2>2, <2>3, InPackets, NumbersAssumption
    <2>5. room > 0
        <3>1. CASE raw = <<>>
            BY <3>1, InPackets, WeightEmpty, NumbersAssumption
        <3>2. CASE raw # <<>>
            <4>1. ~(room < Packet(raw[1]).size)
                BY <3>2 DEF ReadsPacket, HeadIsReady
            <4>2. Packet(raw[1]).size \in Nat \ {0} /\ room \in Int
                BY <3>2, HeadOfRaw DEF DemuxTypeOK
            <4> QED BY <4>1, <4>2
        <3> QED BY <3>1, <3>2
    <2>6. room' > - file'.packets[raw'[Len(raw')]].size
        <3>1. room \in Int
            BY DEF DemuxTypeOK
        <3> HIDE DEF DemuxInv, HoldBack
        <3> QED BY <1>2, <2>2, <2>3, <2>5, <3>1
    <2> QED BY <2>4, <2>6, InPackets
<1> QED BY <1>5, <1>6, <1>7

LEMMA GiveUpProbingInv == ASSUME DemuxInv, GiveUpProbing PROVE DemuxInv'
<1>0. at = "packet" /\ again' \in 0..MaxAgain
    BY AgainType DEF GiveUpProbing, PacketFails
<1> USE <1>0 DEF DemuxInv, GiveUpProbing, parse, answer
<1>1. DemuxTypeOK'
    BY DEF DemuxTypeOK
<1>2. Places' /\ Waiting'
    BY DEF Places, Waiting, Empty, HasParser, Parsing
<1> QED BY <1>1, <1>2, SameBuffer

---------------------------------------------------------------------------
(* av_read_frame_internal and av_read_frame.                               *)

(* A frame of all a stream has been collected of, and nothing else.        *)
LEMMA GiveFrameInv ==
    ASSUME DemuxInv, at \in {"internal", "packet"}, NEW frame \in Frames, frame.units # <<>>,
           GiveFrame(frame),
           UNCHANGED <<file, pos, probe, parsing, parsers, scan>>,
           again' \in 0..MaxAgain,
           pending' \in [Streams -> Seq(Nat \X Nat)],
           \A s \in Streams : pending'[s] # <<>> => Parsing(s),
           cur' \in [stream : Streams \cup {0}, rest : Seq(Nat \X Nat)],
           cur' # NoCur => cur'.stream \in Streams /\ (cur'.rest # <<>> \/ HasParser')
    PROVE  DemuxInv'
<1> USE DEF DemuxInv, probe
<1>1. CASE op = "info"
    <2>1. at' = "top" /\ buffer' = Append(buffer, frame) /\ UNCHANGED <<op, answer>>
        BY <1>1 DEF GiveFrame
    <2>2. /\ buffer' \in Seq(Frames) /\ Len(buffer) \in Nat /\ Len(buffer') = Len(buffer) + 1
          /\ \A k \in 1..Len(buffer) : buffer'[k] = buffer[k]
          /\ buffer'[Len(buffer) + 1] = frame
        BY <2>1, AppendedNumber DEF DemuxTypeOK
    <2>3. \A k \in 1..Len(buffer') : buffer'[k].units # <<>>
        <3> TAKE k \in 1..Len(buffer')
        <3>1. k \in 1..Len(buffer) \/ k = Len(buffer) + 1
            BY <2>2
        <3> QED BY <2>2, <3>1 DEF Waiting
    <2>4. DemuxTypeOK'
        BY <2>1, <2>2 DEF DemuxTypeOK, answer
    <2>5. Places'
        BY <1>1, <2>1 DEF Places, answer
    <2>6. Waiting'
        BY <1>1, <2>1, <2>3 DEF Waiting, Parsing
    <2> QED BY <2>4, <2>5, <2>6, SameBuffer
<1>2. CASE op = "frame"
    <2>1. /\ at' = "top" /\ op' = "idle" /\ out' = Append(out, frame) /\ result' = "frame"
          /\ UNCHANGED buffer
        BY <1>2 DEF GiveFrame
    <2>2. out' \in Seq(Frames)
        BY <2>1, AppendedNumber DEF DemuxTypeOK
    <2>3. DemuxTypeOK'
        BY <2>1, <2>2 DEF DemuxTypeOK
    <2>4. Places'
        BY <2>1 DEF Places
    <2>5. Waiting'
        BY <2>1 DEF Waiting, Parsing
    <2> QED BY <2>3, <2>4, <2>5, SameBuffer
<1> QED BY <1>1, <1>2 DEF GiveFrame

LEMMA FlushParserInv == ASSUME DemuxInv, FlushParser PROVE DemuxInv'
<1>1. PICK s \in parsing \cap parsers :
        /\ pending[s] # <<>>
        /\ GiveFrame([stream |-> s, units |-> pending[s]])
        /\ pending' = [pending EXCEPT ![s] = <<>>]
    BY DEF FlushParser
<1> DEFINE frame == [stream |-> s, units |-> pending[s]]
<1>2. /\ at = "packet"
      /\ UNCHANGED <<file, pos, probe, parsing, parsers, cur, scan>>
      /\ again' \in 0..MaxAgain
    BY AgainType DEF FlushParser, NoPacket, PacketFails
<1>3. s \in Streams /\ pending \in [Streams -> Seq(Nat \X Nat)]
    BY DEF DemuxInv, DemuxTypeOK
<1>4. frame \in Frames /\ frame.units # <<>>
    BY <1>1, <1>3 DEF Frames
<1>5. pending' \in [Streams -> Seq(Nat \X Nat)]
    BY <1>1, <1>3, EmptySeq
<1>6. \A u \in Streams : pending'[u] # <<>> => Parsing(u)
    BY <1>1, <1>3 DEF DemuxInv, Waiting
<1>7. /\ cur' \in [stream : Streams \cup {0}, rest : Seq(Nat \X Nat)]
      /\ cur' = NoCur
    BY <1>2 DEF DemuxInv, DemuxTypeOK, Places
<1> HIDE DEF frame
<1> QED BY <1>1, <1>2, <1>4, <1>5, <1>6, <1>7, GiveFrameInv DEF frame

(* av_read_frame ends with an error, av_find_stream_info goes on.          *)
LEMMA GiveErrorInv ==
    ASSUME DemuxInv, at = "packet", NEW error \in {"end", "error", "again"}, GiveError(error),
           again' \in 0..MaxAgain,
           UNCHANGED <<file, pos, probe, parse, buffer, scan>>
    PROVE  DemuxInv'
<1> USE DEF DemuxInv, GiveError, probe, parse, answer
<1>1. DemuxTypeOK'
    BY DEF DemuxTypeOK
<1>2. Places' /\ Waiting'
    BY DEF Places, Waiting, Empty, HasParser, Parsing
<1> QED BY <1>1, <1>2, SameBuffer

LEMMA ReturnsErrorInv == ASSUME DemuxInv, ReturnsError PROVE DemuxInv'
<1>1. /\ at = "packet" /\ UNCHANGED <<file, probe, parse, buffer>>
      /\ again' \in 0..MaxAgain
    BY AgainType DEF ReturnsError, NoPacket, PacketFails
<1>2. CASE op = "scan" /\ EndPass /\ UNCHANGED answer
    BY <1>1, <1>2, EndPassInv
<1>3. ASSUME NEW error \in {"end", "error"}, GiveError(error), UNCHANGED <<pos, scan>>
      PROVE  DemuxInv'
    BY <1>1, <1>3, GiveErrorInv
<1> QED BY <1>2, <1>3 DEF ReturnsError

LEMMA NotReadyInv == ASSUME DemuxInv, NotReady PROVE DemuxInv'
<1>1. /\ at = "packet" /\ again' \in 0..MaxAgain
      /\ UNCHANGED <<file, pos, probe, parse, buffer, scan>>
    BY NumbersAssumption DEF NotReady, DemuxInv, DemuxTypeOK
<1>2. CASE GiveError("again")
    BY <1>1, <1>2, GiveErrorInv
<1>3. CASE op = "scan" /\ UNCHANGED <<op, at, answer>>
    <2> USE DEF DemuxInv, probe, parse, answer
    <2>1. DemuxTypeOK'
        BY <1>1, <1>3 DEF DemuxTypeOK
    <2>2. Places' /\ Waiting'
        BY <1>1, <1>3 DEF Places, Waiting, Empty, HasParser, Parsing
    <2> QED BY <1>1, <2>1, <2>2, SameBuffer
<1> QED BY <1>2, <1>3 DEF NotReady

LEMMA WantsPacketInv == ASSUME DemuxInv, WantsPacket PROVE DemuxInv'
<1> USE DEF DemuxInv, WantsPacket, source, probe, parse, answer
<1>1. DemuxTypeOK'
    BY DEF DemuxTypeOK
<1>2. Places' /\ Waiting'
    BY DEF Places, Waiting, Empty, HasParser, Parsing
<1> QED BY <1>1, <1>2, SameBuffer

LEMMA AsItIsInv == ASSUME DemuxInv, AsItIs PROVE DemuxInv'
<1> DEFINE frame == [stream |-> cur.stream, units |-> cur.rest]
<1>1. /\ at = "internal" /\ cur # NoCur /\ ~HasParser /\ cur' = NoCur /\ pending' = pending
      /\ GiveFrame(frame)
      /\ UNCHANGED <<file, pos, probe, parsing, parsers, scan>>
      /\ again' \in 0..MaxAgain
    BY AgainType DEF AsItIs, source
<1>2. frame \in Frames /\ frame.units # <<>>
    BY <1>1 DEF DemuxInv, DemuxTypeOK, Waiting, Frames
<1>3. /\ pending' \in [Streams -> Seq(Nat \X Nat)]
      /\ \A s \in Streams : pending'[s] # <<>> => Parsing(s)
    BY <1>1 DEF DemuxInv, DemuxTypeOK, Waiting
<1>4. cur' \in [stream : Streams \cup {0}, rest : Seq(Nat \X Nat)]
    BY <1>1, EmptySeq DEF NoCur
<1> HIDE DEF frame
<1> QED BY <1>1, <1>2, <1>3, <1>4, GiveFrameInv

(* The parser's part of the current packet, and the rest. *)
LEMMA Taken ==
    ASSUME DemuxInv, HasParser, NEW n \in 0..Len(cur.rest)
    PROVE  /\ cur.stream \in Streams
           /\ pending[cur.stream] \in Seq(Pieces)
           /\ cur.rest \in Seq(Pieces)
           /\ SubSeq(cur.rest, 1, n) \in Seq(Pieces)
           /\ SubSeq(cur.rest, n + 1, Len(cur.rest)) \in Seq(Pieces)
           /\ pending[cur.stream] \o SubSeq(cur.rest, 1, n) \in Seq(Pieces)
           /\ SubSeq(cur.rest, 1, n) \o SubSeq(cur.rest, n + 1, Len(cur.rest)) = cur.rest
<1>1. cur.stream \in Streams
    BY DEF HasParser, DemuxInv, DemuxTypeOK
<1>2. pending[cur.stream] \in Seq(Pieces) /\ cur.rest \in Seq(Pieces)
    BY <1>1 DEF DemuxInv, DemuxTypeOK, Pieces
<1> DEFINE r == cur.rest
           m == Len(r)
<1>3. r \in Seq(Pieces) /\ m \in Nat /\ n \in Nat /\ n <= m
    BY <1>2, LenProperties
<1> HIDE DEF r
<1>4. \A i \in 1..m : r[i] \in Pieces
    BY <1>3, ElementOfSeq
<1>5. SubSeq(r, 1, n) \in Seq(Pieces) /\ SubSeq(r, n + 1, m) \in Seq(Pieces)
    BY <1>3, <1>4, SubSeqProperties
<1>6. SubSeq(r, 1, n) \o SubSeq(r, n + 1, m) = r
    <2>1. SubSeq(r, 1, m) = r
        BY <1>3, SubSeqFull
    <2>2. SubSeq(r, 1, n) \o SubSeq(r, n + 1, m) = SubSeq(r, 1, m)
        <3>1. /\ 1 \in 1..(Len(r) + 1) /\ n \in (1 - 1)..Len(r) /\ Len(r) \in n..Len(r)
              /\ r \in Seq(Pieces)
            BY <1>3
        <3> QED BY <3>1, ConcatAdjacentSubSeq
    <2> QED BY <2>1, <2>2
<1>7. pending[cur.stream] \o SubSeq(r, 1, n) \in Seq(Pieces)
    BY <1>2, <1>5, ConcatProperties
<1> QED BY <1>1, <1>2, <1>5, <1>6, <1>7 DEF r

LEMMA ParseInv == ASSUME DemuxInv, Parse PROVE DemuxInv'
<1>1. PICK n \in 0..Len(cur.rest) :
        LET taken == pending[cur.stream] \o SubSeq(cur.rest, 1, n) IN
        /\ cur' = [cur EXCEPT !.rest = SubSeq(@, n + 1, Len(@))]
        /\ \/ /\ n > 0
              /\ pending' = [pending EXCEPT ![cur.stream] = taken]
              /\ UNCHANGED <<op, at, buffer, answer>>
           \/ /\ taken # <<>>
              /\ pending' = [pending EXCEPT ![cur.stream] = <<>>]
              /\ GiveFrame([stream |-> cur.stream, units |-> taken])
    BY DEF Parse
<1>2. /\ at = "internal" /\ HasParser
      /\ UNCHANGED <<source, probe, parsing, parsers, scan>>
    BY DEF Parse
<1> DEFINE taken == pending[cur.stream] \o SubSeq(cur.rest, 1, n)
           rest == SubSeq(cur.rest, n + 1, Len(cur.rest))
<1>3. /\ cur.stream \in Streams /\ rest \in Seq(Nat \X Nat) /\ taken \in Seq(Nat \X Nat)
      /\ cur' = [cur EXCEPT !.rest = rest]
    BY <1>1, <1>2, Taken DEF Pieces
<1>4. pending \in [Streams -> Seq(Nat \X Nat)]
    BY DEF DemuxInv, DemuxTypeOK
<1>5. \/ /\ pending' = [pending EXCEPT ![cur.stream] = taken]
         /\ UNCHANGED <<op, at, buffer, answer>>
      \/ /\ taken # <<>>
         /\ pending' = [pending EXCEPT ![cur.stream] = <<>>]
         /\ GiveFrame([stream |-> cur.stream, units |-> taken])
    BY <1>1
<1> HIDE DEF taken, rest
<1>6. pending' \in [Streams -> Seq(Nat \X Nat)]
    BY <1>3, <1>4, <1>5, EmptySeq
<1>7. \A s \in Streams : pending'[s] # <<>> => Parsing(s)
    <2> TAKE s \in Streams
    <2>1. CASE s = cur.stream
        BY <1>2, <2>1 DEF HasParser, Parsing
    <2>2. CASE s # cur.stream
        <3>1. pending'[s] = pending[s]
            BY <1>4, <1>5, <2>2
        <3> QED BY <3>1 DEF DemuxInv, Waiting
    <2> QED BY <2>1, <2>2
<1>8. cur' \in [stream : Streams \cup {0}, rest : Seq(Nat \X Nat)]
    BY <1>3 DEF DemuxInv, DemuxTypeOK
<1>9. cur'.stream = cur.stream /\ HasParser'
    <2>1. cur'.stream = cur.stream
        BY <1>3 DEF DemuxInv, DemuxTypeOK
    <2> QED BY <1>2, <2>1 DEF HasParser
<1>10. CASE UNCHANGED <<op, at, buffer, answer>>
    <2> USE <1>10 DEF DemuxInv, source, probe, answer
    <2>1. DemuxTypeOK'
        BY <1>2, <1>6, <1>8 DEF DemuxTypeOK
    <2>2. Places'
        BY <1>2, <1>10 DEF Places
    <2>3. op # "scan" /\ op # "closed"
        BY <1>2 DEF Places
    <2>4. Waiting'
        BY <1>2, <1>3, <1>7, <1>9, <2>3 DEF Waiting, Parsing
    <2> QED BY <1>2, <2>1, <2>2, <2>4, SameBuffer
<1>11. CASE taken # <<>> /\ GiveFrame([stream |-> cur.stream, units |-> taken])
    <2> DEFINE frame == [stream |-> cur.stream, units |-> taken]
    <2>1. frame \in Frames /\ frame.units # <<>>
        BY <1>3, <1>11 DEF Frames
    <2>2. GiveFrame(frame) /\ UNCHANGED <<file, pos>> /\ again' \in 0..MaxAgain
        BY <1>2, <1>11, AgainType DEF source
    <2> HIDE DEF frame
    <2> QED BY <1>2, <1>3, <1>6, <1>7, <1>8, <1>9, <2>1, <2>2, GiveFrameInv
<1> QED BY <1>5, <1>10, <1>11

LEMMA ParsedInv == ASSUME DemuxInv, Parsed PROVE DemuxInv'
<1> USE DEF DemuxInv, Parsed, source, probe, answer
<1>1. DemuxTypeOK'
    BY EmptySeq DEF DemuxTypeOK, NoCur
<1>2. Places' /\ Waiting'
    BY DEF Places, Waiting, Empty, Parsing
<1> QED BY <1>1, <1>2, SameBuffer

LEMMA ReadFrameInv == ASSUME DemuxInv, ReadFrame PROVE DemuxInv'
<1> USE DEF DemuxInv, source, probe, parse
<1>1. op = "idle" /\ UNCHANGED <<source, probe, parse, scan>>
    BY DEF ReadFrame
<1>2. CASE buffer # <<>>
    <2>1. /\ out' = Append(out, Head(buffer)) /\ buffer' = Tail(buffer) /\ result' = "frame"
          /\ UNCHANGED <<op, at>>
        BY <1>2 DEF ReadFrame
    <2>2. /\ buffer' \in Seq(Frames) /\ Len(buffer') \in Nat /\ Len(buffer) = Len(buffer') + 1
          /\ \A k \in 1..Len(buffer') : buffer'[k] = buffer[k + 1]
        BY <1>2, <2>1, RemovedNumber DEF DemuxTypeOK
    <2>3. Head(buffer) \in Frames
        BY <1>2, HeadTailProperties DEF DemuxTypeOK
    <2>4. out' \in Seq(Frames)
        BY <2>1, <2>3, AppendedNumber DEF DemuxTypeOK
    <2>5. \A k \in 1..Len(buffer') : buffer'[k].units # <<>>
        <3> TAKE k \in 1..Len(buffer')
        <3>1. k + 1 \in 1..Len(buffer)
            BY <2>2
        <3> QED BY <2>2, <3>1 DEF Waiting
    <2>6. DemuxTypeOK'
        BY <1>1, <2>1, <2>2, <2>4 DEF DemuxTypeOK
    <2>7. Places'
        BY <1>1, <2>1 DEF Places
    <2>8. Waiting'
        BY <1>1, <2>1, <2>5 DEF Waiting, Parsing, HasParser
    <2> QED BY <1>1, <2>6, <2>7, <2>8, SameBuffer
<1>3. CASE buffer = <<>>
    <2>1. op' = "frame" /\ at' = "internal" /\ result' = "none" /\ UNCHANGED <<out, buffer>>
        BY <1>3 DEF ReadFrame
    <2>2. DemuxTypeOK'
        BY <1>1, <2>1 DEF DemuxTypeOK
    <2>3. Places'
        BY <1>1, <1>3, <2>1 DEF Places
    <2>4. Waiting'
        BY <1>1, <2>1 DEF Waiting, Parsing, HasParser
    <2> QED BY <1>1, <2>2, <2>3, <2>4, SameBuffer
<1> QED BY <1>2, <1>3

LEMMA StepInv == ASSUME DemuxInv, Step PROVE DemuxInv'
BY InfoReadsInv, InfoEndsInv, ScanFlushInv, ScanReadsInv, ScanHasReadEnoughInv,
   TakeBufferedInv, PassOnInv, HoldBackInv, GiveUpProbingInv,
   FlushParserInv, ReturnsErrorInv, NotReadyInv,
   WantsPacketInv, AsItIsInv, ParseInv, ParsedInv DEF Step

---------------------------------------------------------------------------
(* No byte of a stream is lost, repeated or overtaken.                     *)

(* When the scan goes back to the beginning nothing is held back: the code *)
(* does not see to it, and without it PositionKept is not true.            *)
CleanRewind == op = "scan" /\ op' # "scan" => raw = <<>>

(* It is so where every stream of an MPEG file is known at once.           *)
NoneProbedInMPEG == \A f \in Files : f.mpeg => f.probed = {}
ScansDirectly == op = "scan" /\ at # "flush" => raw = <<>>

(* Concatenation, as an operator of its own: what follows only needs that  *)
(* it is associative and that <<>> is neutral.                             *)
Cat(a, b) == a \o b

LEMMA CatLaws ==
    ASSUME NEW T
    PROVE  /\ <<>> \in Seq(T)
           /\ \A a, b \in Seq(T) : Cat(a, b) \in Seq(T)
           /\ \A a \in Seq(T) : Cat(a, <<>>) = a /\ Cat(<<>>, a) = a
<1>1. <<>> \in Seq(T)
    BY EmptySeq
<1>2. ASSUME NEW a \in Seq(T), NEW b \in Seq(T)
      PROVE  Cat(a, b) \in Seq(T)
    BY ConcatProperties DEF Cat
<1>3. ASSUME NEW a \in Seq(T)
      PROVE  Cat(a, <<>>) = a /\ Cat(<<>>, a) = a
    BY ConcatEmptySeq DEF Cat
<1> QED BY <1>1, <1>2, <1>3

LEMMA CatAssociative ==
    ASSUME NEW T, NEW a \in Seq(T), NEW b \in Seq(T), NEW c \in Seq(T)
    PROVE  Cat(Cat(a, b), c) = Cat(a, Cat(b, c))
BY Reassociate, SMTT(30) DEF Cat

(* A stream in the order in which it is returned, and as it is in the file. *)
CurrentOf(c, s) == IF c.stream = s THEN c.rest ELSE <<>>
Line(ps, o, b, m, q, i, s) ==
    Cat(DataOf(s, o), Cat(Cat(DataOf(s, b), m), Cat(HeldIn(ps, q, s), UnreadFrom(ps, i, s))))
FileOf(ps, s) == FlattenSeq([k \in 1..Len(ps) |-> DataIn(ps, k, s)])

LEMMA PositionKeptIs ==
    /\ PositionKept <=>
         (op # "scan" => \A s \in Streams :
            Line(file.packets, out, buffer, Cat(pending[s], CurrentOf(cur, s)), raw, pos, s)
              = FileOf(file.packets, s))
    /\ PositionKept' <=>
         (op' # "scan" => \A s \in Streams :
            Line(file'.packets, out', buffer', Cat(pending'[s], CurrentOf(cur', s)), raw', pos', s)
              = FileOf(file'.packets, s))
<1>1. \A s : /\ Held(s) = HeldIn(file.packets, raw, s)
             /\ Held(s)' = HeldIn(file'.packets, raw', s)
    BY DEF Held, HeldIn, Data, DataIn, Packet, Units, UnitsOf
<1>2. \A s : /\ Unread(s) = UnreadFrom(file.packets, pos, s)
             /\ Unread(s)' = UnreadFrom(file'.packets, pos', s)
    BY DEF Unread, UnreadFrom, Data, DataIn, Packet, Units, UnitsOf
<1>3. \A s : /\ FileData(s) = FileOf(file.packets, s)
             /\ FileData(s)' = FileOf(file'.packets, s)
    BY DEF FileData, FileOf, Data, DataIn, Packet, Units, UnitsOf
<1>4. \A s : /\ DataOf(s, out) \o Ahead(s) =
                Line(file.packets, out, buffer, Cat(pending[s], CurrentOf(cur, s)), raw, pos, s)
             /\ (DataOf(s, out) \o Ahead(s))' =
                Line(file'.packets, out', buffer', Cat(pending'[s], CurrentOf(cur', s)), raw', pos', s)
    BY <1>1, <1>2 DEF Line, Cat, Ahead, Current, CurrentOf, DataOf
<1> QED BY <1>3, <1>4 DEF PositionKept

LEMMA LineType ==
    ASSUME DemuxInv, NEW s \in Streams
    PROVE  /\ file.packets \in Seq(PacketType) /\ raw \in Seq(1..Len(file.packets))
           /\ DataOf(s, out) \in Seq(Pieces) /\ DataOf(s, buffer) \in Seq(Pieces)
           /\ pending[s] \in Seq(Pieces) /\ CurrentOf(cur, s) \in Seq(Pieces)
           /\ HeldIn(file.packets, raw, s) \in Seq(Pieces)
           /\ UnreadFrom(file.packets, pos, s) \in Seq(Pieces)
<1>1. /\ file.packets \in Seq(PacketType) /\ raw \in Seq(1..Len(file.packets))
      /\ pos \in 1..(Len(file.packets) + 1)
      /\ out \in Seq(Frames) /\ buffer \in Seq(Frames)
      /\ pending \in [Streams -> Seq(Pieces)] /\ cur.rest \in Seq(Pieces)
    BY FileType DEF DemuxInv, DemuxTypeOK, Pieces
<1>2. DataOf(s, out) \in Seq(Pieces) /\ DataOf(s, buffer) \in Seq(Pieces)
    BY <1>1, DataOfType
<1>3. pending[s] \in Seq(Pieces) /\ CurrentOf(cur, s) \in Seq(Pieces)
    BY <1>1, EmptySeq DEF CurrentOf
<1>4. HeldIn(file.packets, raw, s) \in Seq(Pieces)
    BY <1>1, HeldType
<1>5. UnreadFrom(file.packets, pos, s) \in Seq(Pieces)
    BY <1>1, UnreadType
<1> QED BY <1>1, <1>2, <1>3, <1>4, <1>5

LEMMA NoCurrent == \A s \in Streams : CurrentOf(NoCur, s) = <<>>
BY NoCurType DEF CurrentOf

(* At the beginning everything is still to be read. *)
LEMMA FreshLine ==
    ASSUME NEW ps \in Seq(PacketType), NEW s \in Streams
    PROVE  Line(ps, <<>>, <<>>, Cat(<<>>, CurrentOf(NoCur, s)), <<>>, 1, s) = FileOf(ps, s)
<1> DEFINE d == [k \in 1..Len(ps) |-> DataIn(ps, k, s)]
           e == [k \in 1..(Len(ps) + 1 - 1) |-> DataIn(ps, 1 + k - 1, s)]
<1>1. Len(ps) \in Nat
    BY LenProperties
<1>2. 1 \in 1..(Len(ps) + 1) /\ Len(ps) + 1 - 1 = Len(ps)
      /\ \A k \in 1..Len(ps) : 1 + k - 1 = k
    BY <1>1
<1>3. d = e
    BY <1>2
<1>4. UnreadFrom(ps, 1, s) = FileOf(ps, s) /\ UnreadFrom(ps, 1, s) \in Seq(Pieces)
    BY <1>2, <1>3, UnreadType DEF UnreadFrom, FileOf
<1>5. HeldIn(ps, <<>>, s) = <<>>
    <2>1. [k \in 1..Len(<<>>) |-> DataIn(ps, <<>>[k], s)] = <<>>
        OBVIOUS
    <2> QED BY <2>1, FlattenEmpty DEF HeldIn
<1>6. \A u \in Seq(Pieces) : Cat(<<>>, Cat(Cat(<<>>, Cat(<<>>, <<>>)), Cat(<<>>, u))) = u
    BY CatLaws
<1> QED BY <1>4, <1>5, <1>6, DataOfNone, NoCurrent DEF Line

LEMMA FreshKept ==
    ASSUME file'.packets \in Seq(PacketType), out' = <<>>, buffer' = <<>>, cur' = NoCur,
           \A s \in Streams : pending'[s] = <<>>, raw' = <<>>, pos' = 1
    PROVE  PositionKept'
BY FreshLine, PositionKeptIs

LEMMA InitKept == DemuxInit => PositionKept
<1> SUFFICES ASSUME DemuxInit PROVE PositionKept
    OBVIOUS
<1>1. file.packets \in Seq(PacketType)
    BY FileType DEF DemuxInit
<1> QED BY <1>1, FreshLine, PositionKeptIs DEF DemuxInit

LEMMA OpenKept ==
    ASSUME DemuxInv, NEW f \in Files, OpenFile(f)
    PROVE  PositionKept'
<1>1. file'.packets \in Seq(PacketType)
    BY FileType DEF OpenFile
<1> QED BY <1>1, FreshKept DEF OpenFile, DemuxInv, Waiting, Empty, Places, answer

LEMMA CloseKept == ASSUME CloseFile PROVE PositionKept'
<1>1. file'.packets \in Seq(PacketType)
    BY FileType DEF CloseFile
<1> QED BY <1>1, FreshKept DEF CloseFile

(* Nothing happens to what there is to read. *)
LEMMA SameKept ==
    ASSUME PositionKept, UNCHANGED <<file, pos, raw, pending, cur, buffer, out>>,
           op = "scan" => op' = "scan"
    PROVE  PositionKept'
BY PositionKeptIs

(* How concatenations are regrouped. *)
LEMMA Regroup ==
    ASSUME NEW T, NEW o \in Seq(T), NEW b \in Seq(T), NEW m \in Seq(T), NEW x \in Seq(T),
           NEW h \in Seq(T), NEW u \in Seq(T)
    PROVE  /\ Cat(h, Cat(x, u)) = Cat(Cat(h, x), u)
           /\ Cat(Cat(b, Cat(m, <<>>)), Cat(Cat(x, h), u)) = Cat(Cat(b, Cat(m, x)), Cat(h, u))
           /\ Cat(Cat(b, Cat(x, m)), h) = Cat(Cat(Cat(b, x), m), h)
           /\ Cat(o, Cat(Cat(<<>>, Cat(x, m)), h)) = Cat(Cat(o, x), Cat(Cat(<<>>, m), h))
           /\ Cat(o, Cat(Cat(Cat(x, b), m), h)) = Cat(Cat(o, x), Cat(Cat(b, m), h))
<1>1. \A a, c \in Seq(T) : Cat(a, c) \in Seq(T)
    BY CatLaws
<1>2. ASSUME NEW a \in Seq(T), NEW c \in Seq(T), NEW d \in Seq(T)
      PROVE  Cat(Cat(a, c), d) = Cat(a, Cat(c, d))
    BY CatAssociative
<1>3. \A a \in Seq(T) : Cat(a, <<>>) = a /\ Cat(<<>>, a) = a
    BY CatLaws
<1>4. Cat(h, Cat(x, u)) = Cat(Cat(h, x), u)
    BY <1>2
<1>5. Cat(Cat(b, m), Cat(Cat(x, h), u)) = Cat(Cat(b, Cat(m, x)), Cat(h, u))
    BY <1>1, <1>2
<1>6. Cat(Cat(b, Cat(x, m)), h) = Cat(Cat(Cat(b, x), m), h)
    BY <1>1, <1>2
<1>7. Cat(o, Cat(Cat(x, m), h)) = Cat(Cat(o, x), Cat(m, h))
    BY <1>1, <1>2
<1>8. Cat(o, Cat(Cat(Cat(x, b), m), h)) = Cat(Cat(o, x), Cat(Cat(b, m), h))
    BY <1>1, <1>2
<1> QED BY <1>1, <1>3, <1>4, <1>5, <1>6, <1>7, <1>8

---------------------------------------------------------------------------

(* A packet moves from what is held or unread to what is current. *)
LEMMA HandedOn ==
    ASSUME NEW i, Hand(i), op # "scan", NEW s \in Streams
    PROVE  CurrentOf(cur', s) = DataIn(file.packets, i, s) /\ pending' = pending
BY InPackets DEF Hand, CurrentOf, DataIn

LEMMA TakeBufferedKept == ASSUME DemuxInv, PositionKept, TakeBuffered PROVE PositionKept'
<1>1. /\ at = "packet" /\ raw # <<>> /\ Hand(raw[1]) /\ raw' = Tail(raw)
      /\ UNCHANGED <<source, op, buffer, answer>>
    BY DEF TakeBuffered, HeadIsReady
<1>2. CASE op = "scan"
    BY <1>1, <1>2 DEF PositionKept
<1>3. cur = NoCur /\ DemuxTypeOK
    BY <1>1 DEF DemuxInv, Places
<1>4. ASSUME op # "scan", NEW s \in Streams
      PROVE  Line(file'.packets, out', buffer', Cat(pending'[s], CurrentOf(cur', s)), raw', pos', s)
               = FileOf(file'.packets, s)
    <2> DEFINE x == DataIn(file.packets, raw[1], s)
               h == HeldIn(file.packets, Tail(raw), s)
               m == pending[s]
               b == DataOf(s, buffer)
               u == UnreadFrom(file.packets, pos, s)
    <2>1. /\ CurrentOf(cur', s) = x /\ CurrentOf(cur, s) = <<>> /\ pending' = pending
          /\ file' = file /\ pos' = pos /\ out' = out /\ buffer' = buffer
        BY <1>1, <1>3, <1>4, HandedOn, NoCurrent DEF source, answer
    <2>2. HeldIn(file.packets, raw, s) = Cat(x, h)
        BY <1>1, HeldTail, LineType DEF Cat
    <2>3. x \in Seq(Pieces) /\ h \in Seq(Pieces)
        BY <1>1, <1>3, HeadOfRaw, UnitsType, HeldType
    <2>4. m \in Seq(Pieces) /\ b \in Seq(Pieces) /\ u \in Seq(Pieces)
        BY LineType
    <2>5. Line(file.packets, out, buffer, Cat(m, <<>>), raw, pos, s) = FileOf(file.packets, s)
        BY <1>4, <2>1, PositionKeptIs
    <2> HIDE DEF x, h, m, b, u
    <2>7. Cat(Cat(b, Cat(m, <<>>)), Cat(Cat(x, h), u)) = Cat(Cat(b, Cat(m, x)), Cat(h, u))
        BY <2>3, <2>4, Regroup
    <2>8. Line(file.packets, out, buffer, Cat(m, x), Tail(raw), pos, s) = FileOf(file.packets, s)
        BY <2>2, <2>5, <2>7 DEF Line, h, b, u
    <2> QED BY <1>1, <2>1, <2>8 DEF m
<1> QED BY <1>1, <1>2, <1>4, PositionKeptIs

LEMMA PassOnKept == ASSUME DemuxInv, PositionKept, PassOn PROVE PositionKept'
<1>1. /\ at = "packet" /\ raw = <<>> /\ Hand(pos) /\ pos' = pos + 1
      /\ UNCHANGED <<file, op, raw, buffer, out>>
    BY DEF PassOn, ReadsPacket, probe, answer
<1>2. cur = NoCur /\ DemuxTypeOK
    BY <1>1 DEF DemuxInv, Places
<1>3. CASE op = "scan"
    BY <1>1, <1>3 DEF PositionKept
<1>4. CASE op # "scan"
    <2>1. ASSUME NEW s \in Streams
          PROVE  Line(file'.packets, out', buffer', Cat(pending'[s], CurrentOf(cur', s)), raw', pos', s)
                   = FileOf(file'.packets, s)
        <3> DEFINE x == DataIn(file.packets, pos, s)
                   h == HeldIn(file.packets, raw, s)
                   m == pending[s]
                   b == DataOf(s, buffer)
                   u == UnreadFrom(file.packets, pos + 1, s)
        <3>1. CurrentOf(cur', s) = x /\ CurrentOf(cur, s) = <<>> /\ pending' = pending
            BY <1>1, <1>2, <1>4, HandedOn, NoCurrent
        <3>2. pos \in 1..Len(file.packets) /\ file.packets \in Seq(PacketType)
              /\ pos + 1 \in 1..(Len(file.packets) + 1)
            BY <1>1, <1>2, NextPacket DEF PassOn
        <3>3. UnreadFrom(file.packets, pos, s) = Cat(x, u)
            BY <3>2, UnreadStep DEF Cat
        <3>4. x \in Seq(Pieces) /\ u \in Seq(Pieces)
            BY <3>2, UnitsType, UnreadType
        <3>5. m \in Seq(Pieces) /\ b \in Seq(Pieces) /\ h \in Seq(Pieces)
            BY LineType
        <3>6. Line(file.packets, out, buffer, Cat(m, <<>>), raw, pos, s) = FileOf(file.packets, s)
            BY <1>4, <3>1, PositionKeptIs
        <3>7. h = <<>>
            <4>1. [k \in 1..Len(<<>>) |-> DataIn(file.packets, <<>>[k], s)] = <<>>
                OBVIOUS
            <4> QED BY <1>1, <4>1, FlattenEmpty DEF HeldIn
        <3> HIDE DEF x, h, m, b, u
        <3>8. Cat(Cat(b, Cat(m, <<>>)), Cat(h, Cat(x, u))) = Cat(Cat(b, Cat(m, x)), Cat(h, u))
            <4>1. Cat(Cat(b, Cat(m, <<>>)), Cat(Cat(x, h), u)) = Cat(Cat(b, Cat(m, x)), Cat(h, u))
                BY <3>4, <3>5, Regroup
            <4>2. Cat(x, <<>>) = x /\ Cat(<<>>, Cat(x, u)) = Cat(x, u)
                <5>1. Cat(x, u) \in Seq(Pieces)
                    BY <3>4, CatLaws
                <5> QED BY <3>4, <5>1, CatLaws
            <4> QED BY <3>7, <4>1, <4>2
        <3>10. Line(file.packets, out, buffer, Cat(m, x), raw, pos + 1, s) = FileOf(file.packets, s)
            BY <3>3, <3>6, <3>8 DEF Line, h, b, u
        <3> QED BY <1>1, <3>1, <3>10 DEF m
    <2> QED BY <1>1, <1>4, <2>1, PositionKeptIs
<1> QED BY <1>3, <1>4

LEMMA HoldBackKept == ASSUME DemuxInv, PositionKept, HoldBack PROVE PositionKept'
<1>1. /\ at = "packet" /\ raw' = Append(raw, pos) /\ pos' = pos + 1
      /\ raw # <<>> \/ Probed(Packet(pos).stream)
      /\ UNCHANGED <<file, op, at, pending, cur, buffer, out>>
    BY DEF HoldBack, ReadsPacket, parse, answer
<1>2. CASE op = "scan"
    BY <1>1, <1>2 DEF PositionKept
<1>3. ASSUME op # "scan", NEW s \in Streams
      PROVE  Line(file'.packets, out', buffer', Cat(pending'[s], CurrentOf(cur', s)), raw', pos', s)
               = FileOf(file'.packets, s)
    <2> DEFINE x == DataIn(file.packets, pos, s)
               h == HeldIn(file.packets, raw, s)
               u == UnreadFrom(file.packets, pos + 1, s)
    <2>1. pos \in 1..Len(file.packets) /\ file.packets \in Seq(PacketType)
          /\ pos + 1 \in 1..(Len(file.packets) + 1) /\ raw \in Seq(1..Len(file.packets))
        <3>1. DemuxTypeOK /\ ReadsPacket
            BY DEF HoldBack, DemuxInv
        <3>2. /\ pos \in 1..Len(file.packets) /\ pos' \in 1..(Len(file.packets) + 1)
              /\ file.packets \in Seq(PacketType)
            BY <3>1, NextPacket
        <3>3. raw \in Seq(1..Len(file.packets))
            BY LineType
        <3> QED BY <1>1, <3>2, <3>3
    <2>2. UnreadFrom(file.packets, pos, s) = Cat(x, u)
        BY <2>1, UnreadStep DEF Cat
    <2>3. HeldIn(file.packets, Append(raw, pos), s) = Cat(h, x)
        BY <2>1, HeldAppend DEF Cat
    <2>4. x \in Seq(Pieces) /\ h \in Seq(Pieces) /\ u \in Seq(Pieces)
        BY <2>1, UnitsType, UnreadType, HeldType
    <2>5. Line(file.packets, out, buffer, Cat(pending[s], CurrentOf(cur, s)), raw, pos, s)
            = FileOf(file.packets, s)
        BY <1>3, PositionKeptIs
    <2> HIDE DEF x, h, u
    <2>6. Cat(h, Cat(x, u)) = Cat(Cat(h, x), u)
        BY <2>4, Regroup
    <2>7. h = HeldIn(file.packets, raw, s) /\ u = UnreadFrom(file.packets, pos + 1, s)
        BY DEF h, u
    <2>8. Line(file.packets, out, buffer, Cat(pending[s], CurrentOf(cur, s)), Append(raw, pos), pos + 1, s)
            = FileOf(file.packets, s)
        BY <2>2, <2>3, <2>5, <2>6, <2>7 DEF Line
    <2> QED BY <1>1, <2>8
<1> QED BY <1>1, <1>2, <1>3, PositionKeptIs

(* A frame is the beginning of what its stream holds of the current        *)
(* packets; in av_find_stream_info it joins the frames read ahead, else    *)
(* there are none and it is returned.                                      *)
LEMMA GiveFrameKept ==
    ASSUME DemuxInv, PositionKept, NEW frame \in Frames, GiveFrame(frame),
           UNCHANGED <<file, pos, raw>>,
           \A s \in Streams :
             /\ Cat(pending'[s], CurrentOf(cur', s)) \in Seq(Pieces)
             /\ Cat(pending[s], CurrentOf(cur, s)) =
                  Cat(FrameData(frame, s), Cat(pending'[s], CurrentOf(cur', s)))
    PROVE  PositionKept'
<1>1. op \in {"info", "frame"} /\ op # "scan" /\ op' # "scan"
    BY DEF GiveFrame
<1>2. ASSUME NEW s \in Streams
      PROVE  Line(file'.packets, out', buffer', Cat(pending'[s], CurrentOf(cur', s)), raw', pos', s)
               = FileOf(file'.packets, s)
    <2> DEFINE x == FrameData(frame, s)
               m == Cat(pending'[s], CurrentOf(cur', s))
               o == DataOf(s, out)
               b == DataOf(s, buffer)
               r == Cat(HeldIn(file.packets, raw, s), UnreadFrom(file.packets, pos, s))
    <2>1. x \in Seq(Pieces) /\ m \in Seq(Pieces)
        BY FrameDataType
    <2>2. o \in Seq(Pieces) /\ b \in Seq(Pieces) /\ r \in Seq(Pieces)
        BY LineType, CatLaws
    <2>3. Cat(pending[s], CurrentOf(cur, s)) = Cat(x, m)
        OBVIOUS
    <2>4. Line(file.packets, out, buffer, Cat(x, m), raw, pos, s) = FileOf(file.packets, s)
        BY <1>1, <2>3, PositionKeptIs
    <2>5. Cat(o, Cat(Cat(b, Cat(x, m)), r)) = FileOf(file.packets, s)
        BY <2>4 DEF Line
    <2>6. buffer \in Seq(Frames) /\ out \in Seq(Frames)
        BY DEF DemuxInv, DemuxTypeOK
    <2>7. CASE op = "info"
        <3>1. buffer' = Append(buffer, frame) /\ out' = out
            BY <2>7 DEF GiveFrame, answer
        <3>2. DataOf(s, buffer') = Cat(b, x)
            BY <2>6, <3>1, DataOfAppend DEF Cat
        <3> HIDE DEF x, m, o, b, r
        <3>3. Cat(Cat(b, Cat(x, m)), r) = Cat(Cat(Cat(b, x), m), r)
            BY <2>1, <2>2, Regroup
        <3>4. Cat(o, Cat(Cat(Cat(b, x), m), r)) = FileOf(file.packets, s)
            BY <2>5, <3>3
        <3> QED BY <3>1, <3>2, <3>4 DEF Line, m, o, r
    <2>8. CASE op = "frame"
        <3>1. buffer' = <<>> /\ buffer = <<>> /\ out' = Append(out, frame)
            BY <2>8 DEF GiveFrame, DemuxInv, Places
        <3>2. DataOf(s, out') = Cat(o, x) /\ b = <<>> /\ DataOf(s, buffer') = <<>>
            BY <2>6, <3>1, DataOfAppend, DataOfNone DEF Cat
        <3> HIDE DEF x, m, o, b, r
        <3>3. Cat(o, Cat(Cat(<<>>, Cat(x, m)), r)) = Cat(Cat(o, x), Cat(Cat(<<>>, m), r))
            BY <2>1, <2>2, Regroup
        <3>4. Cat(Cat(o, x), Cat(Cat(<<>>, m), r)) = FileOf(file.packets, s)
            BY <2>5, <3>2, <3>3
        <3> QED BY <3>2, <3>4 DEF Line, m, r
    <2> QED BY <1>1, <2>7, <2>8
<1> QED BY <1>1, <1>2, PositionKeptIs

LEMMA FlushParserKept == ASSUME DemuxInv, PositionKept, FlushParser PROVE PositionKept'
<1>1. PICK s \in parsing \cap parsers :
        /\ GiveFrame([stream |-> s, units |-> pending[s]])
        /\ pending' = [pending EXCEPT ![s] = <<>>]
    BY DEF FlushParser
<1>2. UNCHANGED <<file, pos, raw, cur>> /\ cur = NoCur
    BY DEF FlushParser, NoPacket, PacketFails, source, probe, DemuxInv, Places
<1>3. s \in Streams /\ pending \in [Streams -> Seq(Pieces)]
    BY DEF DemuxInv, DemuxTypeOK, Pieces
<1> DEFINE frame == [stream |-> s, units |-> pending[s]]
<1>4. frame \in Frames
    BY <1>3 DEF Frames, Pieces
<1>5. ASSUME NEW t \in Streams
      PROVE  /\ Cat(pending'[t], CurrentOf(cur', t)) \in Seq(Pieces)
             /\ Cat(pending[t], CurrentOf(cur, t)) =
                  Cat(FrameData(frame, t), Cat(pending'[t], CurrentOf(cur', t)))
    <2>1. CurrentOf(cur, t) = <<>> /\ CurrentOf(cur', t) = <<>>
        BY <1>2, NoCurrent
    <2>2. /\ pending[t] \in Seq(Pieces) /\ pending'[t] \in Seq(Pieces)
          /\ t = s => FrameData(frame, t) = pending[t] /\ pending'[t] = <<>>
          /\ t # s => FrameData(frame, t) = <<>> /\ pending'[t] = pending[t]
        BY <1>1, <1>3, EmptySeq DEF FrameData
    <2> QED BY <2>1, <2>2, CatLaws
<1> HIDE DEF frame
<1>6. GiveFrame(frame)
    BY <1>1 DEF frame
<1> QED BY <1>2, <1>4, <1>5, <1>6, GiveFrameKept

LEMMA AsItIsKept == ASSUME DemuxInv, PositionKept, AsItIs PROVE PositionKept'
<1> DEFINE frame == [stream |-> cur.stream, units |-> cur.rest]
<1>1. /\ cur # NoCur /\ ~HasParser /\ cur' = NoCur /\ pending' = pending
      /\ GiveFrame(frame)
      /\ UNCHANGED <<file, pos, raw>>
    BY DEF AsItIs, source, probe
<1>2. frame \in Frames /\ cur.stream \in Streams /\ pending[cur.stream] = <<>>
    BY <1>1 DEF DemuxInv, DemuxTypeOK, Waiting, Frames, Parsing, HasParser
<1>3. ASSUME NEW t \in Streams
      PROVE  /\ Cat(pending'[t], CurrentOf(cur', t)) \in Seq(Pieces)
             /\ Cat(pending[t], CurrentOf(cur, t)) =
                  Cat(FrameData(frame, t), Cat(pending'[t], CurrentOf(cur', t)))
    <2>1. CurrentOf(cur', t) = <<>> /\ FrameData(frame, t) = CurrentOf(cur, t)
        BY <1>1, NoCurrent DEF FrameData, CurrentOf
    <2>2. /\ pending[t] \in Seq(Pieces) /\ pending'[t] = pending[t]
          /\ CurrentOf(cur, t) \in Seq(Pieces)
          /\ t = cur.stream => pending[t] = <<>>
          /\ t # cur.stream => CurrentOf(cur, t) = <<>>
        BY <1>1, <1>2, LineType DEF CurrentOf
    <2>3. CASE t = cur.stream
        BY <2>1, <2>2, <2>3, CatLaws
    <2>4. CASE t # cur.stream
        BY <2>1, <2>2, <2>4, CatLaws
    <2> QED BY <2>3, <2>4
<1> HIDE DEF frame
<1> QED BY <1>1, <1>2, <1>3, GiveFrameKept

(* The parser takes data over, and gives a frame of all it has, or nothing. *)
LEMMA ParseKept == ASSUME DemuxInv, PositionKept, Parse PROVE PositionKept'
<1>1. PICK n \in 0..Len(cur.rest) :
        LET taken == pending[cur.stream] \o SubSeq(cur.rest, 1, n) IN
        /\ cur' = [cur EXCEPT !.rest = SubSeq(@, n + 1, Len(@))]
        /\ \/ /\ n > 0
              /\ pending' = [pending EXCEPT ![cur.stream] = taken]
              /\ UNCHANGED <<op, at, buffer, answer>>
           \/ /\ taken # <<>>
              /\ pending' = [pending EXCEPT ![cur.stream] = <<>>]
              /\ GiveFrame([stream |-> cur.stream, units |-> taken])
    BY DEF Parse
<1>2. HasParser /\ at = "internal" /\ UNCHANGED <<file, pos, raw>>
    BY DEF Parse, source, probe
<1> DEFINE c == cur.stream
           a == SubSeq(cur.rest, 1, n)
           rest == SubSeq(cur.rest, n + 1, Len(cur.rest))
           taken == Cat(pending[c], a)
           frame == [stream |-> c, units |-> taken]
<1>3. /\ c \in Streams /\ pending \in [Streams -> Seq(Pieces)]
      /\ a \in Seq(Pieces) /\ rest \in Seq(Pieces) /\ Cat(a, rest) = cur.rest
      /\ taken \in Seq(Pieces)
    BY <1>2, Taken DEF Cat, DemuxInv, DemuxTypeOK, Pieces
<1>4. /\ cur' = [cur EXCEPT !.rest = rest]
      /\ \/ pending' = [pending EXCEPT ![c] = taken] /\ UNCHANGED <<op, at, buffer, answer>>
         \/ pending' = [pending EXCEPT ![c] = <<>>] /\ GiveFrame(frame)
    BY <1>1 DEF Cat
<1>5. cur.rest \in Seq(Pieces) /\ cur' = [stream |-> c, rest |-> rest]
    BY <1>4 DEF DemuxInv, DemuxTypeOK, Pieces
<1>6. frame \in Frames
    BY <1>3 DEF Frames, Pieces
<1>7. CurrentOf(cur, c) = Cat(a, rest) /\ CurrentOf(cur', c) = rest
    BY <1>3, <1>5 DEF CurrentOf
<1>8. \A t \in Streams : t # c => CurrentOf(cur, t) = <<>> /\ CurrentOf(cur', t) = <<>>
    BY <1>5 DEF CurrentOf
<1>9. Cat(pending[c], Cat(a, rest)) = Cat(taken, rest) /\ pending[c] \in Seq(Pieces)
    <2>1. pending[c] \in Seq(Pieces)
        BY <1>3
    <2> HIDE DEF a, rest
    <2> QED BY <1>3, <2>1, CatAssociative
<1> HIDE DEF a, rest, taken, c
<1>10. CASE pending' = [pending EXCEPT ![c] = taken] /\ UNCHANGED <<op, at, buffer, answer>>
    <2>1. ASSUME NEW s \in Streams
          PROVE  Cat(pending'[s], CurrentOf(cur', s)) = Cat(pending[s], CurrentOf(cur, s))
        <3>1. CASE s = c
            <4>1. pending'[s] = taken
                BY <1>3, <1>10, <3>1
            <4> QED BY <1>7, <1>9, <3>1, <4>1
        <3>2. CASE s # c
            <4>1. pending'[s] = pending[s]
                BY <1>3, <1>10, <3>2
            <4> QED BY <1>8, <3>2, <4>1
        <3> QED BY <3>1, <3>2
    <2>2. UNCHANGED <<file, pos, raw, buffer, out, op, at>>
        BY <1>2, <1>10 DEF answer
    <2> QED BY <2>1, <2>2, PositionKeptIs
<1>11. CASE pending' = [pending EXCEPT ![c] = <<>>] /\ GiveFrame(frame)
    <2>1. ASSUME NEW t \in Streams
          PROVE  /\ Cat(pending'[t], CurrentOf(cur', t)) \in Seq(Pieces)
                 /\ Cat(pending[t], CurrentOf(cur, t)) =
                      Cat(FrameData(frame, t), Cat(pending'[t], CurrentOf(cur', t)))
        <3>1. CASE t = c
            <4>1. pending'[t] = <<>> /\ FrameData(frame, t) = taken
                BY <1>3, <1>11, <3>1 DEF FrameData
            <4>2. Cat(pending'[t], CurrentOf(cur', t)) = rest
                BY <1>3, <1>7, <3>1, <4>1, CatLaws
            <4> QED BY <1>3, <1>7, <1>9, <3>1, <4>1, <4>2
        <3>2. CASE t # c
            <4>1. pending'[t] = pending[t] /\ FrameData(frame, t) = <<>>
                BY <1>3, <1>11, <3>2 DEF FrameData
            <4>2. pending[t] \in Seq(Pieces) /\ CurrentOf(cur, t) = <<>> /\ CurrentOf(cur', t) = <<>>
                BY <1>3, <1>8, <3>2
            <4> QED BY <4>1, <4>2, CatLaws
        <3> QED BY <3>1, <3>2
    <2> HIDE DEF frame
    <2> QED BY <1>2, <1>6, <1>11, <2>1, GiveFrameKept
<1> QED BY <1>4, <1>10, <1>11

LEMMA ParsedKept == ASSUME DemuxInv, PositionKept, Parsed PROVE PositionKept'
<1>1. cur.rest = <<>> /\ cur' = NoCur
      /\ UNCHANGED <<file, pos, op, at, raw, pending, buffer, out>>
    BY DEF Parsed, source, probe, answer
<1>2. \A s \in Streams : CurrentOf(cur', s) = CurrentOf(cur, s)
    BY <1>1, NoCurrent DEF CurrentOf
<1> QED BY <1>1, <1>2, PositionKeptIs

(* The first frame that was read ahead is the next one. *)
LEMMA ReadFrameKept == ASSUME DemuxInv, PositionKept, ReadFrame PROVE PositionKept'
<1>1. op = "idle" /\ UNCHANGED <<file, pos, raw, pending, cur>>
    BY DEF ReadFrame, source, probe, parse
<1>2. CASE buffer = <<>>
    BY <1>1, <1>2, SameKept DEF ReadFrame
<1>3. CASE buffer # <<>>
    <2>1. out' = Append(out, Head(buffer)) /\ buffer' = Tail(buffer) /\ op' = op
        BY <1>3 DEF ReadFrame
    <2>2. buffer \in Seq(Frames) /\ out \in Seq(Frames)
        BY DEF DemuxInv, DemuxTypeOK
    <2>3. Head(buffer) \in Frames /\ Head(buffer) = buffer[1] /\ Tail(buffer) \in Seq(Frames)
        BY <1>3, <2>2, HeadTailProperties
    <2>4. ASSUME NEW s \in Streams
          PROVE  Line(file'.packets, out', buffer', Cat(pending'[s], CurrentOf(cur', s)), raw', pos', s)
                   = FileOf(file'.packets, s)
        <3> DEFINE x == FrameData(buffer[1], s)
                   m == Cat(pending[s], CurrentOf(cur, s))
                   o == DataOf(s, out)
                   b == DataOf(s, Tail(buffer))
                   r == Cat(HeldIn(file.packets, raw, s), UnreadFrom(file.packets, pos, s))
        <3>1. x \in Seq(Pieces) /\ b \in Seq(Pieces)
            BY <2>3, FrameDataType, DataOfType
        <3>2. m \in Seq(Pieces) /\ o \in Seq(Pieces) /\ r \in Seq(Pieces)
            BY LineType, CatLaws
        <3>3. DataOf(s, buffer) = Cat(x, b)
            BY <1>3, <2>2, DataOfTail DEF Cat
        <3>4. DataOf(s, out') = Cat(o, x)
            BY <2>1, <2>2, <2>3, DataOfAppend DEF Cat
        <3>5. Line(file.packets, out, buffer, m, raw, pos, s) = FileOf(file.packets, s)
            BY <1>1, PositionKeptIs
        <3>6. Cat(o, Cat(Cat(Cat(x, b), m), r)) = FileOf(file.packets, s)
            BY <3>3, <3>5 DEF Line
        <3> HIDE DEF x, m, o, b, r
        <3>7. Cat(Cat(o, x), Cat(Cat(b, m), r)) = FileOf(file.packets, s)
            <4>1. Cat(o, Cat(Cat(Cat(x, b), m), r)) = Cat(Cat(o, x), Cat(Cat(b, m), r))
                BY <3>1, <3>2, Regroup
            <4> QED BY <3>6, <4>1
        <3> QED BY <1>1, <2>1, <3>4, <3>7 DEF Line, m, b, r
    <2> QED BY <1>1, <2>1, <2>4, PositionKeptIs
<1> QED BY <1>2, <1>3

(* The scan goes back to the beginning. *)
LEMMA EndPassKept ==
    ASSUME DemuxInv, CleanRewind, op = "scan", at # "flush", EndPass,
           UNCHANGED <<file, probe, parse, buffer, answer>>
    PROVE  PositionKept'
<1>1. CASE op' = "scan"
    BY <1>1 DEF PositionKept
<1>2. CASE op' = "idle"
    <2>1. pos' = 1 /\ file'.packets \in Seq(PacketType)
        BY <1>2, EndPassIs, FileType DEF DemuxInv, DemuxTypeOK
    <2>2. out' = <<>> /\ buffer' = <<>> /\ cur' = NoCur /\ raw' = <<>>
          /\ \A s \in Streams : pending'[s] = <<>>
        BY <1>2 DEF DemuxInv, Places, Waiting, Empty, CleanRewind, probe, parse, answer
    <2> QED BY <2>1, <2>2, FreshKept
<1> QED BY <1>1, <1>2, EndPassIs DEF DemuxInv

LEMMA ReturnsErrorKept == ASSUME DemuxInv, PositionKept, CleanRewind, ReturnsError PROVE PositionKept'
<1>1. /\ at = "packet" /\ UNCHANGED <<file, probe, parse, buffer>>
    BY DEF ReturnsError, NoPacket, PacketFails
<1>2. CASE op = "scan" /\ EndPass /\ UNCHANGED answer
    BY <1>1, <1>2, EndPassKept
<1>3. ASSUME op # "scan", NEW error, GiveError(error), UNCHANGED <<pos, scan>>
      PROVE  PositionKept'
    <2>1. UNCHANGED <<file, pos, raw, pending, cur, buffer, out>> /\ op' # "scan"
        BY <1>1, <1>3 DEF GiveError, probe, parse, answer
    <2> QED BY <1>3, <2>1, SameKept
<1> QED BY <1>2, <1>3 DEF ReturnsError

LEMMA NotReadyKept == ASSUME DemuxInv, PositionKept, NotReady PROVE PositionKept'
<1>1. UNCHANGED <<file, pos, raw, pending, cur, buffer, out>>
    BY DEF NotReady, GiveError, probe, parse, answer
<1>2. (op' = op /\ at' = at) \/ (op # "scan" /\ op' # "scan")
    BY DEF NotReady, GiveError
<1> QED BY <1>1, <1>2, SameKept

LEMMA StepKept == ASSUME DemuxInv, PositionKept, CleanRewind, Step PROVE PositionKept'
<1>1. CASE InfoReads \/ InfoEnds
    BY <1>1, SameKept DEF InfoReads, InfoEnds, source, probe, parse, answer
<1>2. CASE ScanFlush
    BY <1>2 DEF ScanFlush, BeginPass, PositionKept
<1>3. CASE ScanReads
    BY <1>3 DEF ScanReads, PositionKept
<1>4. CASE ScanHasReadEnough
    BY <1>4, EndPassKept DEF ScanHasReadEnough
<1>5. CASE GiveUpProbing
    <2>1. UNCHANGED <<file, pos, raw, pending, cur, buffer, out, op, at>>
        BY <1>5 DEF GiveUpProbing, parse, answer
    <2> QED BY <2>1, SameKept
<1>6. CASE WantsPacket
    <2>1. op # "scan"
        BY <1>6 DEF WantsPacket, DemuxInv, Places
    <2> QED BY <1>6, <2>1, SameKept DEF WantsPacket, source, probe, parse, answer
<1> QED
    BY <1>1, <1>2, <1>3, <1>4, <1>5, <1>6, TakeBufferedKept, PassOnKept, HoldBackKept,
       FlushParserKept, ReturnsErrorKept, NotReadyKept, AsItIsKept, ParseKept, ParsedKept DEF Step

LEMMA StutterKept == ASSUME PositionKept, UNCHANGED demux PROVE PositionKept'
BY SameKept DEF demux, source, probe, parse, answer

---------------------------------------------------------------------------
(* Where nothing is probed a scan holds nothing back.                      *)

LEMMA NothingProbed ==
    ASSUME NoneProbedInMPEG, DemuxInv, op = "scan"
    PROVE  \A s : ~Probed(s)
<1>1. file.mpeg /\ probing \subseteq file.probed /\ file \in Files \cup {NoFile}
    BY DEF DemuxInv, DemuxTypeOK, Places, Waiting
<1>2. file.probed = {}
    BY <1>1 DEF NoneProbedInMPEG, NoFile
<1> QED BY <1>1, <1>2 DEF Probed

LEMMA ScanSteps ==
    ASSUME DemuxInv, op = "scan", Step
    PROVE  \/ at = "flush" /\ ScanFlush
           \/ at # "flush" /\ raw' = raw
           \/ at # "flush" /\ (TakeBuffered \/ HoldBack)
<1>1. at \in {"flush", "top", "packet"}
    BY DEF DemuxInv, Places
<1>2. CASE InfoReads \/ InfoEnds \/ WantsPacket \/ AsItIs \/ Parse \/ Parsed
    BY <1>1, <1>2 DEF InfoReads, InfoEnds, WantsPacket, AsItIs, Parse, Parsed
<1>3. CASE ScanReads \/ ScanHasReadEnough \/ ReturnsError \/ NotReady \/ GiveUpProbing
    BY <1>3 DEF ScanReads, ScanHasReadEnough, ReturnsError, NoPacket, PacketFails, NotReady,
                GiveUpProbing, probe
<1>4. CASE FlushParser \/ PassOn
    BY <1>4 DEF FlushParser, PassOn, ReadsPacket, probe
<1>5. CASE ScanFlush \/ TakeBuffered \/ HoldBack
    BY <1>5 DEF ScanFlush, TakeBuffered, HoldBack, ReadsPacket
<1> QED BY <1>2, <1>3, <1>4, <1>5 DEF Step

LEMMA StepScans ==
    ASSUME NoneProbedInMPEG, DemuxInv, ScansDirectly, Step
    PROVE  ScansDirectly'
<1>1. CASE op # "scan"
    <2>1. op' = "scan" => at' = "flush"
        <3>1. CASE InfoReads \/ InfoEnds \/ ScanFlush \/ ScanReads \/ ScanHasReadEnough
            BY <1>1, <3>1 DEF InfoReads, InfoEnds, ScanFlush, ScanReads, ScanHasReadEnough
        <3>2. CASE TakeBuffered \/ PassOn \/ HoldBack \/ GiveUpProbing \/ WantsPacket \/ Parsed
            BY <1>1, <3>2 DEF TakeBuffered, PassOn, HoldBack, GiveUpProbing, WantsPacket, Parsed
        <3>3. CASE FlushParser \/ ReturnsError \/ NotReady \/ AsItIs \/ Parse
            BY <1>1, <3>3 DEF FlushParser, ReturnsError, NotReady, AsItIs, Parse, GiveFrame, GiveError
        <3> QED BY <3>1, <3>2, <3>3 DEF Step
    <2> QED BY <2>1 DEF ScansDirectly
<1>2. CASE op = "scan" /\ ScanFlush
    BY <1>2 DEF ScanFlush, ScansDirectly
<1>3. CASE op = "scan" /\ at # "flush" /\ raw' = raw
    BY <1>3 DEF ScansDirectly
<1>4. CASE op = "scan" /\ at # "flush" /\ (TakeBuffered \/ HoldBack)
    BY <1>4, NothingProbed DEF ScansDirectly, TakeBuffered, HeadIsReady, HoldBack
<1> QED BY <1>1, <1>2, <1>3, <1>4, ScanSteps

---------------------------------------------------------------------------
(* The container is read as PacketSource promises.                         *)

LeftOf ==
    [s \in Streams |-> SubSeq(FileData(s), Len(DataOf(s, out)) + 1, Len(FileData(s)))]

LEMMA SplitAt ==
    ASSUME NEW T, NEW d \in Seq(T), NEW a \in Seq(T)
    PROVE  /\ SubSeq(d \o a, 1, Len(d)) = d
           /\ SubSeq(d \o a, Len(d) + 1, Len(d \o a)) = a
<1> DEFINE f == d \o a
           m == Len(d)
           n == Len(f)
<1>1. /\ m \in Nat /\ Len(a) \in Nat /\ f \in Seq(T) /\ n = m + Len(a)
      /\ \A i \in 1..m : f[i] = d[i]
      /\ \A i \in 1..Len(a) : f[m + i] = a[i]
    <2>1. /\ m \in Nat /\ Len(a) \in Nat /\ f \in Seq(T) /\ n = m + Len(a)
          /\ \A i \in 1..(m + Len(a)) : f[i] = IF i <= m THEN d[i] ELSE a[i - m]
        BY ConcatProperties, LenProperties
    <2> HIDE DEF f, m, n
    <2>2. \A i \in 1..m : f[i] = d[i]
        BY <2>1
    <2>3. \A i \in 1..Len(a) : f[m + i] = a[i]
        <3> TAKE i \in 1..Len(a)
        <3>1. m + i \in 1..(m + Len(a)) /\ ~(m + i <= m) /\ (m + i) - m = i
            BY <2>1
        <3> QED BY <2>1, <3>1
    <2> QED BY <2>1, <2>2, <2>3
<1>2. m = Len(d)
    OBVIOUS
<1> HIDE DEF f, m, n
<1>3. \A i \in 1..n : f[i] \in T
    BY <1>1, ElementOfSeq DEF n
<1>4. /\ SubSeq(f, 1, m) \in Seq(T) /\ Len(SubSeq(f, 1, m)) = m
      /\ \A i \in 1..m : SubSeq(f, 1, m)[i] = f[i]
    <2>1. \A i \in 1..m : f[i] \in T
        BY <1>1, <1>3
    <2>2. /\ SubSeq(f, 1, m) \in Seq(T)
          /\ Len(SubSeq(f, 1, m)) = IF 1 <= m THEN m - 1 + 1 ELSE 0
          /\ \A i \in 1..(m - 1 + 1) : SubSeq(f, 1, m)[i] = f[1 + i - 1]
        BY <1>1, <2>1, SubSeqProperties
    <2> QED BY <1>1, <2>2
<1>5. SubSeq(f, 1, m) = d
    BY <1>1, <1>2, <1>4, SeqEqual
<1>6. /\ SubSeq(f, m + 1, n) \in Seq(T) /\ Len(SubSeq(f, m + 1, n)) = Len(a)
      /\ \A i \in 1..Len(a) : SubSeq(f, m + 1, n)[i] = f[m + i]
    <2>1. \A i \in (m + 1)..n : f[i] \in T
        BY <1>1, <1>3
    <2>2. /\ SubSeq(f, m + 1, n) \in Seq(T)
          /\ Len(SubSeq(f, m + 1, n)) = IF m + 1 <= n THEN n - (m + 1) + 1 ELSE 0
          /\ \A i \in 1..(n - (m + 1) + 1) : SubSeq(f, m + 1, n)[i] = f[(m + 1) + i - 1]
        BY <1>1, <2>1, SubSeqProperties
    <2>3. n - (m + 1) + 1 = Len(a)
        BY <1>1
    <2>4. Len(SubSeq(f, m + 1, n)) = Len(a)
        BY <1>1, <2>2
    <2>5. \A i \in 1..Len(a) : (m + 1) + i - 1 = m + i
        BY <1>1
    <2> QED BY <2>2, <2>3, <2>4, <2>5
<1>7. SubSeq(f, m + 1, n) = a
    BY <1>1, <1>6, SeqEqual
<1> QED BY <1>5, <1>7 DEF f, m, n

(* What is left of a stream is what libavformat holds of it, and what it   *)
(* has not read.                                                           *)
AheadIn(ps, b, m, q, i, s) ==
    Cat(Cat(DataOf(s, b), m), Cat(HeldIn(ps, q, s), UnreadFrom(ps, i, s)))

AheadNow(s) == AheadIn(file.packets, buffer, Cat(pending[s], CurrentOf(cur, s)), raw, pos, s)

LEMMA LeftIsAhead ==
    DemuxInv /\ PositionKept /\ op # "scan" =>
      \A s \in Streams :
        /\ DataOf(s, out) \in Seq(Pieces) /\ AheadNow(s) \in Seq(Pieces)
        /\ FileOf(file.packets, s) = Cat(DataOf(s, out), AheadNow(s))
        /\ LeftOf[s] = AheadNow(s)
<1> SUFFICES ASSUME DemuxInv, PositionKept, op # "scan", NEW s \in Streams
             PROVE  /\ DataOf(s, out) \in Seq(Pieces) /\ AheadNow(s) \in Seq(Pieces)
                    /\ FileOf(file.packets, s) = Cat(DataOf(s, out), AheadNow(s))
                    /\ LeftOf[s] = AheadNow(s)
    OBVIOUS
<1> DEFINE d == DataOf(s, out)
           a == AheadNow(s)
           f == FileOf(file.packets, s)
<1>1. d \in Seq(Pieces) /\ a \in Seq(Pieces)
    BY LineType, CatLaws DEF AheadNow, AheadIn
<1>2. f = Cat(d, a)
    BY PositionKeptIs DEF AheadNow, AheadIn, Line
<1>3. LeftOf[s] = SubSeq(f, Len(d) + 1, Len(f))
    <2>1. FileData(s) = f
        BY DEF FileData, FileOf, Data, DataIn, Packet, Units, UnitsOf
    <2> QED BY <2>1 DEF LeftOf
<1> HIDE DEF d, a, f
<1>4. SubSeq(f, Len(d) + 1, Len(f)) = a
    BY <1>1, <1>2, SplitAt DEF Cat
<1> QED BY <1>1, <1>2, <1>3, <1>4 DEF d, a, f

LEMMA LeftIsAheadNext ==
    DemuxInv' /\ PositionKept' /\ op' # "scan" =>
      \A s \in Streams :
        /\ AheadNow(s)' \in Seq(Pieces)
        /\ FileOf(file'.packets, s) = Cat(DataOf(s, out'), AheadNow(s)')
        /\ LeftOf'[s] = AheadNow(s)'
<1>1. (DemuxInv /\ PositionKept /\ op # "scan" =>
        \A s \in Streams :
          /\ DataOf(s, out) \in Seq(Pieces) /\ AheadNow(s) \in Seq(Pieces)
          /\ FileOf(file.packets, s) = Cat(DataOf(s, out), AheadNow(s))
          /\ LeftOf[s] = AheadNow(s))'
    BY LeftIsAhead, PTL
<1> QED BY <1>1 DEF Cat, DataOf, FileOf, DataIn, UnitsOf

LEMMA SameLeft == ASSUME UNCHANGED <<file, out>> PROVE LeftOf' = LeftOf
BY DEF LeftOf, FileData, Data, Packet, Units, DataOf

LEMMA Stutters == ASSUME UNCHANGED <<file, answer>> PROVE UNCHANGED S!vars
BY SameLeft DEF S!vars, LeftOf, answer

(* A frame is returned. *)
LEMMA Returned ==
    ASSUME DemuxInv, PositionKept, DemuxInv', PositionKept', op # "scan", op' # "scan", UNCHANGED file,
           NEW f \in Frames, f.units # <<>>, out' = Append(out, f), result' = "frame"
    PROVE  S!Next
<1> DEFINE D(s) == DataOf(s, out)
           A(s) == AheadNow(s)
           AA(s) == AheadNow(s)'
           F(s) == FileOf(file.packets, s)
           x(s) == FrameData(f, s)
<1>1. f.stream \in Streams /\ f.units \in Seq(Pieces) /\ Len(f.units) \in Nat \ {0}
      /\ f = [stream |-> f.stream, units |-> f.units]
    BY EmptySeq, LenProperties DEF Frames, Pieces
<1>2. ASSUME NEW s \in Streams
      PROVE  /\ A(s) = x(s) \o AA(s)
             /\ LeftOf[s] = A(s) /\ LeftOf'[s] = AA(s)
             /\ x(s) \in Seq(Pieces) /\ AA(s) \in Seq(Pieces) /\ A(s) \in Seq(Pieces)
    <2>1. D(s) \in Seq(Pieces) /\ x(s) \in Seq(Pieces)
        BY LeftIsAhead, FrameDataType
    <2>2. A(s) \in Seq(Pieces) /\ F(s) = Cat(D(s), A(s)) /\ LeftOf[s] = A(s)
        BY LeftIsAhead
    <2>3. DataOf(s, out') = Cat(D(s), x(s))
        <3>1. out \in Seq(Frames)
            BY DEF DemuxInv, DemuxTypeOK
        <3> QED BY <3>1, DataOfAppend DEF Cat
    <2>4. AA(s) \in Seq(Pieces) /\ F(s) = Cat(Cat(D(s), x(s)), AA(s)) /\ LeftOf'[s] = AA(s)
        BY <2>3, LeftIsAheadNext
    <2> HIDE DEF D, A, AA, F, x
    <2>5. F(s) = Cat(D(s), Cat(x(s), AA(s))) /\ Cat(x(s), AA(s)) \in Seq(Pieces)
        BY <2>1, <2>4, CatAssociative, CatLaws
    <2>6. A(s) = SubSeq(F(s), Len(D(s)) + 1, Len(F(s)))
        BY <2>1, <2>2, SplitAt DEF Cat
    <2>7. Cat(x(s), AA(s)) = SubSeq(F(s), Len(D(s)) + 1, Len(F(s)))
        <3> DEFINE y == Cat(x(s), AA(s))
        <3>1. F(s) = D(s) \o y /\ y \in Seq(Pieces)
            BY <2>5 DEF Cat
        <3> HIDE DEF y
        <3>2. y = SubSeq(F(s), Len(D(s)) + 1, Len(F(s)))
            BY <2>1, <3>1, SplitAt
        <3> QED BY <3>2 DEF y
    <2> QED BY <2>1, <2>2, <2>4, <2>6, <2>7 DEF Cat
<1> DEFINE t == f.stream
           n == Len(f.units)
<1>3. x(t) = f.units /\ \A s \in Streams : s # t => x(s) = <<>>
    BY DEF FrameData
<1> HIDE DEF D, A, AA, F, x
<1>4. SubSeq(LeftOf[t], 1, n) = f.units /\ SubSeq(LeftOf[t], n + 1, Len(LeftOf[t])) = LeftOf'[t]
    <2>1. LeftOf[t] = f.units \o LeftOf'[t] /\ LeftOf'[t] \in Seq(Pieces)
        BY <1>1, <1>2, <1>3
    <2> QED BY <1>1, <2>1, SplitAt
<1>5. \A s \in Streams : s # t => LeftOf'[s] = LeftOf[s]
    <2> SUFFICES ASSUME NEW s \in Streams, s # t PROVE LeftOf'[s] = LeftOf[s]
        OBVIOUS
    <2>1. A(s) = Cat(<<>>, AA(s)) /\ AA(s) \in Seq(Pieces)
        BY <1>2, <1>3 DEF Cat
    <2> QED BY <1>2, <2>1, CatLaws
<1>6. n \in 1..Len(LeftOf[t])
    <2>1. LeftOf[t] = f.units \o LeftOf'[t] /\ LeftOf'[t] \in Seq(Pieces)
        BY <1>1, <1>2, <1>3
    <2>2. Len(LeftOf[t]) = n + Len(LeftOf'[t]) /\ Len(LeftOf'[t]) \in Nat
        BY <1>1, <2>1, ConcatProperties, LenProperties
    <2> QED BY <1>1, <2>2
<1>7. LeftOf' = [LeftOf EXCEPT ![t] = SubSeq(@, n + 1, Len(@))]
    <2>1. LeftOf = [s \in Streams |-> LeftOf[s]] /\ LeftOf' = [s \in Streams |-> LeftOf'[s]]
        BY DEF LeftOf
    <2> HIDE DEF t, n
    <2> QED BY <1>1, <1>4, <1>5, <2>1
<1>8. out' = Append(out, [stream |-> t, units |-> SubSeq(LeftOf[t], 1, n)])
    BY <1>1, <1>4
<1>9. S!Return(t, n)
    BY <1>7, <1>8 DEF S!Return, LeftOf
<1> QED BY <1>1, <1>6, <1>9 DEF S!Next, LeftOf

(* Nothing is left where nothing is held and everything has been read. *)
LEMMA NothingLeft ==
    ASSUME DemuxInv, PositionKept, op # "scan", buffer = <<>>, cur = NoCur,
           \A s \in Streams : pending[s] = <<>>, raw = <<>>, pos = Len(file.packets) + 1
    PROVE  LeftOf = S!Nothing
<1>1. ASSUME NEW s \in Streams
      PROVE  LeftOf[s] = <<>>
    <2>1. HeldIn(file.packets, raw, s) = <<>>
        <3>1. [k \in 1..Len(<<>>) |-> DataIn(file.packets, <<>>[k], s)] = <<>>
            OBVIOUS
        <3> QED BY <3>1, FlattenEmpty DEF HeldIn
    <2>2. UnreadFrom(file.packets, pos, s) = <<>>
        BY LineType, UnreadEnd
    <2>3. CurrentOf(cur, s) = <<>> /\ DataOf(s, buffer) = <<>> /\ pending[s] = <<>>
        BY NoCurrent, DataOfNone
    <2>4. AheadNow(s) = Cat(Cat(<<>>, Cat(<<>>, <<>>)), Cat(<<>>, <<>>))
        BY <2>1, <2>2, <2>3 DEF AheadNow, AheadIn
    <2> QED BY <2>4, LeftIsAhead, CatLaws
<1>2. LeftOf = [s \in Streams |-> LeftOf[s]]
    BY DEF LeftOf
<1> QED BY <1>1, <1>2 DEF S!Nothing

LEMMA InitImplements == DemuxInit => S!Init
<1> SUFFICES ASSUME DemuxInit PROVE S!Init
    OBVIOUS
<1>1. DemuxInv /\ PositionKept
    BY InitInv, InitKept
<1>2. Len(file.packets) = 0
    BY DEF DemuxInit, NoFile
<1>3. LeftOf = S!Nothing
    BY <1>1, <1>2, NothingLeft DEF DemuxInit
<1> QED BY <1>3 DEF S!Init, LeftOf, DemuxInit

LEMMA ClosedIsNothing ==
    DemuxInv /\ PositionKept /\ op = "closed" =>
      LeftOf = S!Nothing /\ out = <<>> /\ result = "none"
<1> SUFFICES ASSUME DemuxInv, PositionKept, op = "closed"
             PROVE  LeftOf = S!Nothing /\ out = <<>> /\ result = "none"
    OBVIOUS
<1>1. Len(file.packets) = 0
    BY DEF DemuxInv, Waiting, NoFile
<1>2. LeftOf = S!Nothing
    BY <1>1, NothingLeft DEF DemuxInv, Waiting, Empty
<1> QED BY <1>2 DEF DemuxInv, Places

LEMMA CloseImplements == ASSUME CloseFile PROVE S!Close
<1>1. DemuxInv' /\ PositionKept' /\ op' = "closed"
    BY CloseInv, CloseKept DEF CloseFile
<1>2. (DemuxInv /\ PositionKept /\ op = "closed" =>
         LeftOf = S!Nothing /\ out = <<>> /\ result = "none")'
    BY ClosedIsNothing, PTL
<1>3. LeftOf' = S!Nothing /\ out' = <<>> /\ result' = "none"
    BY <1>1, <1>2 DEF S!Nothing
<1> QED BY <1>3 DEF S!Close, LeftOf

LEMMA OpenImplements ==
    ASSUME DemuxInv, PositionKept, NEW f \in Files, OpenFile(f)
    PROVE  S!Open
<1>1. LeftOf = S!Nothing /\ out = <<>> /\ result = "none"
    BY ClosedIsNothing DEF OpenFile
<1>2. DemuxInv' /\ PositionKept' /\ op' # "scan"
    BY OpenInv, OpenKept DEF OpenFile
<1>3. \A s \in Streams : LeftOf'[s] \in Seq(Pieces)
    BY <1>2, LeftIsAheadNext
<1>4. LeftOf' = [s \in Streams |-> LeftOf'[s]]
    BY DEF LeftOf
<1>5. LeftOf' \in [Streams -> Seq(Nat \X Nat)]
    BY <1>3, <1>4 DEF Pieces
<1>6. out' = <<>> /\ result' = "none"
    BY <1>1 DEF OpenFile, answer
<1> QED BY <1>1, <1>5, <1>6 DEF S!Open, S!Nothing, LeftOf

(* av_read_frame returns what was read ahead, or goes on reading. *)
LEMMA ReadFrameImplements ==
    ASSUME DemuxInv, PositionKept, DemuxInv', PositionKept', ReadFrame
    PROVE  S!Next
<1>1. CASE buffer # <<>>
    <2>1. /\ out' = Append(out, Head(buffer)) /\ result' = "frame" /\ UNCHANGED file
          /\ op # "scan" /\ op' # "scan"
        BY <1>1 DEF ReadFrame, source
    <2>2. buffer \in Seq(Frames) /\ Head(buffer) = buffer[1]
        BY <1>1, HeadTailProperties DEF DemuxInv, DemuxTypeOK
    <2>3. Head(buffer) \in Frames /\ 1 \in 1..Len(buffer)
        BY <1>1, <2>2, HeadTailProperties, EmptySeq, LenProperties
    <2>4. Head(buffer).units # <<>>
        BY <2>2, <2>3 DEF DemuxInv, Waiting
    <2> QED BY <2>1, <2>3, <2>4, Returned
<1>2. CASE buffer = <<>>
    <2>1. result' = "none" /\ UNCHANGED <<file, out>>
        BY <1>2 DEF ReadFrame, source
    <2>2. S!Call
        BY <2>1, SameLeft DEF S!Call, LeftOf
    <2> QED BY <2>2 DEF S!Next
<1> QED BY <1>1, <1>2

LEMMA GiveFrameImplements ==
    ASSUME DemuxInv, PositionKept, DemuxInv', PositionKept', UNCHANGED file,
           NEW frame \in Frames, frame.units # <<>>, GiveFrame(frame)
    PROVE  S!Next \/ UNCHANGED S!vars
<1>1. CASE op = "info" /\ UNCHANGED <<op, answer>>
    BY <1>1, Stutters
<1>2. CASE op = "frame" /\ op' = "idle" /\ out' = Append(out, frame) /\ result' = "frame"
    BY <1>2, Returned
<1> QED BY <1>1, <1>2 DEF GiveFrame

(* The end is reported when nothing is left. *)
LEMMA ReturnsErrorImplements ==
    ASSUME DemuxInv, PositionKept, ReturnsError
    PROVE  S!Next \/ UNCHANGED S!vars
<1>1. UNCHANGED file
    BY DEF ReturnsError
<1>2. CASE UNCHANGED answer
    BY <1>1, <1>2, Stutters
<1>3. CASE op = "frame" /\ result' = "end" /\ UNCHANGED out /\ pos > Len(file.packets)
           /\ \A s \in parsing \cap parsers : pending[s] = <<>>
    <2>1. raw = <<>> /\ cur = NoCur /\ buffer = <<>>
        BY <1>3 DEF ReturnsError, NoPacket, PacketFails, DemuxInv, Places
    <2>2. pos = Len(file.packets) + 1
        <3>1. Len(file.packets) \in Nat /\ pos \in 1..(Len(file.packets) + 1)
            BY FileType DEF DemuxInv, DemuxTypeOK
        <3> QED BY <1>3, <3>1
    <2>3. \A s \in Streams : pending[s] = <<>>
        BY <1>3 DEF DemuxInv, Waiting, Parsing
    <2>4. LeftOf = S!Nothing
        BY <1>3, <2>1, <2>2, <2>3, NothingLeft
    <2>5. S!ReportEnd
        BY <1>1, <1>3, <2>4, SameLeft DEF S!ReportEnd, LeftOf
    <2> QED BY <2>5 DEF S!Next
<1>4. CASE op = "frame" /\ result' = "error" /\ UNCHANGED out
    <2>1. S!ReportAgain
        BY <1>1, <1>4, SameLeft DEF S!ReportAgain, LeftOf
    <2> QED BY <2>1 DEF S!Next
<1> QED BY <1>2, <1>3, <1>4 DEF ReturnsError, GiveError

LEMMA NotReadyImplements == ASSUME NotReady PROVE S!Next \/ UNCHANGED S!vars
<1>1. UNCHANGED file
    BY DEF NotReady
<1>2. CASE UNCHANGED answer
    BY <1>1, <1>2, Stutters
<1>3. CASE result' = "again" /\ UNCHANGED out
    <2>1. S!ReportAgain
        BY <1>1, <1>3, SameLeft DEF S!ReportAgain, LeftOf
    <2> QED BY <2>1 DEF S!Next
<1> QED BY <1>2, <1>3 DEF NotReady, GiveError

LEMMA ParseImplements ==
    ASSUME DemuxInv, PositionKept, DemuxInv', PositionKept', Parse
    PROVE  S!Next \/ UNCHANGED S!vars
<1>1. PICK n \in 0..Len(cur.rest) :
        LET taken == pending[cur.stream] \o SubSeq(cur.rest, 1, n) IN
        \/ UNCHANGED answer
        \/ taken # <<>> /\ GiveFrame([stream |-> cur.stream, units |-> taken])
    BY DEF Parse
<1>2. HasParser /\ UNCHANGED file
    BY DEF Parse, source
<1> DEFINE taken == pending[cur.stream] \o SubSeq(cur.rest, 1, n)
           frame == [stream |-> cur.stream, units |-> taken]
<1>3. taken \in Seq(Pieces) /\ cur.stream \in Streams
    BY <1>2, Taken
<1> HIDE DEF taken
<1>4. frame \in Frames
    BY <1>3 DEF Frames, Pieces
<1>5. CASE UNCHANGED answer
    BY <1>2, <1>5, Stutters
<1>6. CASE taken # <<>> /\ GiveFrame(frame)
    BY <1>2, <1>4, <1>6, GiveFrameImplements
<1> QED BY <1>1, <1>5, <1>6 DEF taken

LEMMA StepImplements ==
    ASSUME DemuxInv, PositionKept, DemuxInv', PositionKept', Step
    PROVE  S!Next \/ UNCHANGED S!vars
<1>1. CASE FlushParser
    <2>1. PICK s \in parsing \cap parsers :
            pending[s] # <<>> /\ GiveFrame([stream |-> s, units |-> pending[s]])
        BY <1>1 DEF FlushParser
    <2> DEFINE frame == [stream |-> s, units |-> pending[s]]
    <2>2. frame \in Frames /\ frame.units # <<>>
        BY <2>1 DEF DemuxInv, DemuxTypeOK, Frames
    <2>3. GiveFrame(frame) /\ UNCHANGED file
        BY <1>1, <2>1 DEF FlushParser
    <2> HIDE DEF frame
    <2> QED BY <2>2, <2>3, GiveFrameImplements
<1>2. CASE AsItIs
    <2> DEFINE frame == [stream |-> cur.stream, units |-> cur.rest]
    <2>1. frame \in Frames /\ frame.units # <<>>
        BY <1>2 DEF AsItIs, DemuxInv, DemuxTypeOK, Waiting, Frames
    <2>2. GiveFrame(frame) /\ UNCHANGED file
        BY <1>2 DEF AsItIs, source
    <2> HIDE DEF frame
    <2> QED BY <2>1, <2>2, GiveFrameImplements
<1>3. CASE InfoReads \/ InfoEnds
    BY <1>3, Stutters DEF InfoReads, InfoEnds, source
<1>4. CASE ScanFlush \/ ScanReads \/ ScanHasReadEnough
    BY <1>4, Stutters DEF ScanFlush, ScanReads, ScanHasReadEnough, source
<1>5. CASE TakeBuffered \/ PassOn \/ HoldBack \/ GiveUpProbing
    BY <1>5, Stutters DEF TakeBuffered, PassOn, HoldBack, GiveUpProbing, source, answer
<1>6. CASE WantsPacket \/ Parsed
    BY <1>6, Stutters DEF WantsPacket, Parsed, source
<1> QED
    BY <1>1, <1>2, <1>3, <1>4, <1>5, <1>6, ReturnsErrorImplements, NotReadyImplements,
       ParseImplements DEF Step
=============================================================================
