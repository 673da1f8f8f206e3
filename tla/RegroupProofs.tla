--------------------------- MODULE RegroupProofs ---------------------------
(***************************************************************************)
(* Proofs about the byte and the text iterator of Regroup, for every body, *)
(* every chunk_size and every way the network cuts the body up.            *)
(*                                                                         *)
(* What the iterators regroup is described by FlattenSeq and FoldLeft,     *)
(* which are defined by recursion: CHOOSE of a function with an equation.  *)
(* That such a function exists, and what it returns, is shown by least     *)
(* counterexample (LeastOf, Climb).  The rest is then algebra of \o:       *)
(* what was handed out, followed by what is held back, is what a decoder   *)
(* that is given all the delivered bytes at once would have yielded.       *)
(***************************************************************************)
EXTENDS Regroup, SequenceTheorems, WellFoundedInduction, TLAPS

\* What is handed out is made of bytes or of the characters they decode to.
Chars == Bytes \cup {"?", "e"}

-----------------------------------------------------------------------------
(* Sequences                                                               *)

LEMMA EmptyChars ==
    /\ <<>> \in Seq(Chars) /\ Len(<<>>) = 0
    /\ \A s \in Seq(Chars) : Len(s) \in Nat /\ s \o <<>> = s /\ <<>> \o s = s
    /\ \A s \in Seq(Chars) : Len(s) = 0 => s = <<>>
BY EmptySeq, LenProperties, ConcatEmptySeq

LEMMA ConcatChars ==
    \A s, t \in Seq(Chars) : s \o t \in Seq(Chars) /\ Len(s \o t) = Len(s) + Len(t)
BY ConcatProperties, Zenon

LEMMA AssocChars == \A s, t, v \in Seq(Chars) : (s \o t) \o v = s \o (t \o v)
<1> SUFFICES ASSUME NEW s \in Seq(Chars), NEW t \in Seq(Chars), NEW v \in Seq(Chars)
             PROVE  (s \o t) \o v = s \o (t \o v)
    OBVIOUS
<1> QED
    BY ConcatAssociative, SMTT(30)

LEMMA AssocBytes == \A s, t, v \in Seq(Bytes) : (s \o t) \o v = s \o (t \o v)
<1> SUFFICES ASSUME NEW s \in Seq(Bytes), NEW t \in Seq(Bytes), NEW v \in Seq(Bytes)
             PROVE  (s \o t) \o v = s \o (t \o v)
    OBVIOUS
<1> QED
    BY ConcatAssociative, SMTT(30)

LEMMA TakeSkip ==
    ASSUME NEW S, NEW s \in Seq(S), NEW n \in 0..Len(s)
    PROVE  /\ Take(s, n) \in Seq(S) /\ Len(Take(s, n)) = n
           /\ Skip(s, n) \in Seq(S) /\ Len(Skip(s, n)) = Len(s) - n
           /\ Take(s, n) \o Skip(s, n) = s
<1>1. Len(s) \in Nat /\ n \in Int /\ \A i \in 1..Len(s) : s[i] \in S
    BY LenProperties
<1>2. /\ SubSeq(s, 1, n) \in Seq(S)
      /\ Len(SubSeq(s, 1, n)) = IF 1 <= n THEN n - 1 + 1 ELSE 0
    BY <1>1, SubSeqProperties
<1>3. /\ SubSeq(s, n + 1, Len(s)) \in Seq(S)
      /\ Len(SubSeq(s, n + 1, Len(s))) = IF n + 1 <= Len(s) THEN Len(s) - (n + 1) + 1 ELSE 0
    BY <1>1, SubSeqProperties
<1>4. SubSeq(s, 1, n) \o SubSeq(s, n + 1, Len(s)) = SubSeq(s, 1, Len(s))
    <2>1. 1 \in 1..(Len(s) + 1) /\ n \in (1 - 1)..Len(s) /\ Len(s) \in n..Len(s)
        BY <1>1
    <2> QED
        BY <2>1, ConcatAdjacentSubSeq
<1>5. SubSeq(s, 1, Len(s)) = s
    BY SubSeqFull
<1>6. Len(SubSeq(s, 1, n)) = n /\ Len(SubSeq(s, n + 1, Len(s))) = Len(s) - n
    BY <1>1, <1>2, <1>3
<1> QED
    BY <1>2, <1>3, <1>4, <1>5, <1>6 DEF Take, Skip

\* The chunk that follows what has been delivered.
LEMMA TakeMore ==
    ASSUME NEW S, NEW s \in Seq(S), NEW m \in Nat, NEW n \in Nat, m + n <= Len(s)
    PROVE  Take(s, m) \o SubSeq(s, m + 1, m + n) = Take(s, m + n)
<1>1. PICK k : k = m + n
    OBVIOUS
<1>2. 1 \in 1..(Len(s) + 1) /\ m \in (1 - 1)..Len(s) /\ k \in m..Len(s)
    BY <1>1, LenProperties
<1>3. SubSeq(s, 1, m) \o SubSeq(s, m + 1, k) = SubSeq(s, 1, k)
    BY <1>2, ConcatAdjacentSubSeq
<1> QED
    BY <1>1, <1>3 DEF Take

\* One element more.
LEMMA TakeOne ==
    ASSUME NEW S, NEW s \in Seq(S), NEW k \in 1..Len(s)
    PROVE  /\ Take(s, k) = Append(Take(s, k - 1), s[k]) /\ s[k] \in S
           /\ k - 1 \in 0..Len(s)
<1>0. Len(s) \in Nat /\ \A i \in 1..Len(s) : s[i] \in S
    BY LenProperties
<1>1. /\ k - 1 \in 0..Len(s) /\ k \in 0..Len(s)
    BY <1>0
<1>2. /\ Take(s, k - 1) \in Seq(S) /\ Len(Take(s, k - 1)) = k - 1
      /\ Take(s, k) \in Seq(S) /\ Len(Take(s, k)) = k
    BY <1>1, TakeSkip
<1>3. 1 \in 1..Len(s) /\ k \in 1..Len(s)
    BY <1>0
<1>4. SubSeq(s, 1, k) = SubSeq(s, 1, k - 1) \o <<s[k]>>
    BY <1>3, SubSeqRecursiveSecond
<1>5. Append(Take(s, k - 1), s[k]) = Take(s, k - 1) \o <<s[k]>>
    BY <1>0, <1>2, AppendIsConcat
<1> QED
    BY <1>0, <1>1, <1>4, <1>5 DEF Take

LEMMA PrefixOfConcat ==
    ASSUME NEW S, NEW s \in Seq(S), NEW t \in Seq(S)
    PROVE  IsPrefix(s, s \o t)
<1>1. /\ Len(s) \in Nat /\ Len(t) \in Nat /\ s \o t \in Seq(S) /\ Len(s \o t) = Len(s) + Len(t)
      /\ \A i \in 1..(Len(s) + Len(t)) : (s \o t)[i] = IF i <= Len(s) THEN s[i] ELSE t[i - Len(s)]
    BY LenProperties, ConcatProperties
<1>2. \A i \in 1..Len(s) : (s \o t)[i] = s[i] /\ s[i] \in S
    BY <1>1, LenProperties
<1>3. SubSeq(s, 1, Len(s)) = s
    BY SubSeqFull
<1> DEFINE u == SubSeq(s \o t, 1, Len(s))
<1>4. u \in Seq(S) /\ Len(u) = Len(s) /\ \A i \in 1..Len(s) : u[i] = s[i]
    <2>1. Len(s) \in Int /\ 1 \in Int /\ \A i \in 1..Len(s) : (s \o t)[i] \in S
        BY <1>1, <1>2
    <2>2. /\ u \in Seq(S)
          /\ Len(u) = IF 1 <= Len(s) THEN Len(s) - 1 + 1 ELSE 0
          /\ \A i \in 1..(Len(s) - 1 + 1) : u[i] = (s \o t)[1 + i - 1]
        BY <2>1, SubSeqProperties
    <2> QED
        BY <1>1, <1>2, <2>2
<1> HIDE DEF u
<1>5. u = s
    BY <1>4, SeqEqual
<1> QED
    BY <1>1, <1>3, <1>5 DEF IsPrefix, u

\* Induction: a set of numbers that is not empty has a least one.
LEMMA LeastOf ==
    ASSUME NEW T, T \subseteq Nat, T # {}
    PROVE  \E i \in T : \A j \in T : i <= j
<1>1. PICK x \in T : \A y \in T : ~ (<<y, x>> \in OpToRel(<, Nat))
    BY NatLessThanWellFounded, WFMin
<1>2. \A y \in T : ~(y < x)
    BY <1>1 DEF OpToRel
<1> QED
    BY <1>2

\* A set of numbers with 0 and, for each but the last, the next one.
LEMMA Climb ==
    ASSUME NEW n \in Nat, NEW T, 0 \in T, \A k \in 1..n : k - 1 \in T => k \in T
    PROVE  0..n \subseteq T
<1> DEFINE Bad == (0..n) \ T
<1>1. SUFFICES ASSUME Bad # {} PROVE FALSE
    OBVIOUS
<1>2. PICK k \in Bad : \A j \in Bad : k <= j
    <2>1. Bad \subseteq Nat
        OBVIOUS
    <2> HIDE DEF Bad
    <2> QED
        BY <1>1, <2>1, LeastOf
<1>3. k \in 0..n /\ k \notin T /\ k # 0
    BY <1>2
<1>4. k \in 1..n /\ k - 1 \in 0..n /\ ~(k <= k - 1)
    BY <1>3
<1>5. k - 1 \notin T
    BY <1>3, <1>4
<1>6. k - 1 \in Bad
    BY <1>4, <1>5
<1> HIDE DEF Bad
<1> QED
    BY <1>2, <1>4, <1>6

-----------------------------------------------------------------------------
(* FlattenSeq: its recursive function exists, so that it has its equation  *)

FlatBody(s, f, i) == IF i = 1 THEN s[i] ELSE f[i - 1] \o s[i]
Flattened(s, m, f) == f = [i \in 1..m |-> FlatBody(s, f, i)]
FlatFn(s) == CHOOSE f : Flattened(s, Len(s), f)

LEMMA FlattenedExists ==
    ASSUME NEW s, NEW n \in Nat
    PROVE  \E f : Flattened(s, n, f)
<1> DEFINE T == {m \in Nat : \E f : Flattened(s, m, f)}
<1>1. 0 \in T
    <2>1. Flattened(s, 0, [i \in 1..0 |-> <<>>])
        BY DEF Flattened
    <2> QED
        BY <2>1
<1>2. ASSUME NEW k \in 1..n, k - 1 \in T PROVE k \in T
    <2>1. PICK g : Flattened(s, k - 1, g)
        BY <1>2
    <2>2. PICK f : f = [i \in 1..k |-> IF i = k THEN FlatBody(s, g, k) ELSE g[i]]
        OBVIOUS
    <2>3. \A i \in 1..(k - 1) : i \in 1..k /\ i # k /\ f[i] = g[i]
        BY <2>2
    <2>4. ASSUME NEW i \in 1..k PROVE f[i] = FlatBody(s, f, i)
        <3>1. i # 1 => i - 1 \in 1..(k - 1)
            OBVIOUS
        <3>2. FlatBody(s, f, i) = FlatBody(s, g, i)
            BY <2>3, <3>1 DEF FlatBody
        <3>3. CASE i = k
            BY <2>2, <3>2, <3>3
        <3>4. CASE i # k
            <4>1. i \in 1..(k - 1)
                BY <3>4
            <4>2. g[i] = FlatBody(s, g, i)
                BY <2>1, <4>1 DEF Flattened
            <4> QED
                BY <2>3, <3>2, <4>1, <4>2
        <3> QED
            BY <3>3, <3>4
    <2>5. Flattened(s, k, f)
        <3>1. f = [i \in 1..k |-> f[i]]
            BY <2>2
        <3> QED
            BY <2>4, <3>1, Zenon DEF Flattened
    <2> QED
        BY <2>5
<1> HIDE DEF T
<1>3. n \in T
    BY <1>1, <1>2, Climb
<1> QED
    BY <1>3 DEF T

Agree(f, g, n) == \A i \in 1..n : f[i] = g[i]

\* What is flattened of one sequence does not depend on what follows.
LEMMA FlattenedAgree ==
    ASSUME NEW s, NEW t, NEW m \in Nat, NEW n \in Nat, n <= m,
           Agree(s, t, n),
           NEW f, Flattened(s, m, f), NEW g, Flattened(t, n, g)
    PROVE  Agree(f, g, n)
<1> USE DEF Agree
<1> DEFINE T == {k \in Nat : k \in 1..n => f[k] = g[k]}
<1>1. 0 \in T
    OBVIOUS
<1>2. ASSUME NEW k \in 1..n, k - 1 \in T PROVE k \in T
    <2>1. k \in 1..m
        OBVIOUS
    <2>2. f[k] = FlatBody(s, f, k) /\ g[k] = FlatBody(t, g, k)
        BY <2>1 DEF Flattened
    <2>3. k # 1 => k - 1 \in 1..n
        OBVIOUS
    <2>4. k # 1 => f[k - 1] = g[k - 1]
        BY <1>2, <2>3
    <2>5. f[k] = g[k]
        BY <2>2, <2>4 DEF FlatBody
    <2> QED
        BY <2>5
<1> HIDE DEF T
<1>3. 0..n \subseteq T
    BY <1>1, <1>2, Climb
<1> QED
    BY <1>3 DEF T

LEMMA FlattenSeqIs ==
    ASSUME NEW S, NEW s \in Seq(S)
    PROVE  /\ Flattened(s, Len(s), FlatFn(s))
           /\ Flat(s) = IF Len(s) = 0 THEN s ELSE FlatFn(s)[Len(s)]
<1>1. Flattened(s, Len(s), FlatFn(s))
    BY LenProperties, FlattenedExists DEF FlatFn
<1>2. FlatFn(s) = CHOOSE f : f = [i \in 1..Len(s) |-> IF i = 1 THEN s[i] ELSE f[i - 1] \o s[i]]
    BY DEF FlatFn, Flattened, FlatBody
<1>3. FlattenSeq(s) = IF Len(s) = 0 THEN s ELSE FlatFn(s)[Len(s)]
    BY <1>2 DEF FlattenSeq
<1> QED
    BY <1>1, <1>3 DEF Flat

\* Flattening follows each piece that is handed out.
LEMMA FlatAppend ==
    /\ Flat(<<>>) = <<>>
    /\ \A s \in Seq(Seq(Chars)), p \in Seq(Chars) : Flat(Append(s, p)) = Flat(s) \o p
<1>1. Flat(<<>>) = <<>>
    BY EmptySeq, FlattenSeqIs
<1>2. ASSUME NEW s \in Seq(Seq(Chars)), NEW p \in Seq(Chars)
      PROVE  Flat(Append(s, p)) = Flat(s) \o p
    <2> DEFINE t == Append(s, p)
               n == Len(s)
    <2>1. /\ n \in Nat /\ t \in Seq(Seq(Chars)) /\ Len(t) = n + 1
          /\ t[n + 1] = p /\ \A i \in 1..n : t[i] = s[i]
        BY LenProperties, AppendProperties
    <2> HIDE DEF t, n
    <2>2. Flattened(t, n + 1, FlatFn(t)) /\ Flat(t) = FlatFn(t)[n + 1]
        <3>1. n + 1 # 0
            BY <2>1
        <3> QED
            BY <2>1, <3>1, FlattenSeqIs
    <2>3. FlatFn(t)[n + 1] = FlatBody(t, FlatFn(t), n + 1)
        <3>1. n + 1 \in 1..(n + 1)
            BY <2>1
        <3> QED
            BY <2>2, <3>1 DEF Flattened
    <2>4. CASE n = 0
        <3>1. s = <<>>
            <4>1. Len(s) = 0
                BY <2>4 DEF n
            <4> QED
                BY <4>1, EmptySeq
        <3>2. FlatBody(t, FlatFn(t), n + 1) = p
            <4>1. n + 1 = 1
                BY <2>4
            <4> QED
                BY <2>1, <4>1 DEF FlatBody
        <3> QED
            BY <1>1, <2>2, <2>3, <3>1, <3>2, EmptyChars DEF t
    <2>5. CASE n # 0
        <3>1. Flattened(s, n, FlatFn(s)) /\ Flat(s) = FlatFn(s)[n]
            BY <2>5, FlattenSeqIs DEF n
        <3>2. n \in 1..n /\ n <= n + 1 /\ n + 1 \in Nat /\ n + 1 # 1 /\ n + 1 - 1 = n
            BY <2>1, <2>5
        <3>3. Agree(FlatFn(t), FlatFn(s), n)
            <4>1. Agree(t, s, n)
                BY <2>1 DEF Agree
            <4> QED
                BY <2>1, <2>2, <3>1, <3>2, <4>1, FlattenedAgree
        <3>4. FlatBody(t, FlatFn(t), n + 1) = FlatFn(s)[n] \o p
            <4>1. FlatBody(t, FlatFn(t), n + 1) = FlatFn(t)[n] \o t[n + 1]
                <5>1. PICK k, f : k = n + 1 /\ f = FlatFn(t)
                    OBVIOUS
                <5>2. k # 1 /\ k - 1 = n
                    BY <3>2, <5>1
                <5>3. FlatBody(t, f, k) = f[k - 1] \o t[k]
                    BY <5>2, Zenon DEF FlatBody
                <5> QED
                    BY <5>1, <5>2, <5>3, Zenon
            <4>2. FlatFn(t)[n] = FlatFn(s)[n]
                BY <3>2, <3>3 DEF Agree
            <4> QED
                BY <2>1, <4>1, <4>2
        <3> QED
            BY <2>2, <2>3, <3>1, <3>4 DEF t
    <2> QED
        BY <2>4, <2>5
<1> QED
    BY <1>1, <1>2

-----------------------------------------------------------------------------
(* FoldLeft of DecodeByte: its recursive function exists, too              *)

Fold(b, base) == FoldLeft(DecodeByte, base, b)

FoldBody(b, base, g, s) ==
    IF s = {} THEN base ELSE DecodeByte(g[s \ {Max(s)}], b[Max(s)])
Folded(b, base, m, g) == g = [s \in SUBSET (1..m) |-> FoldBody(b, base, g, s)]
FoldFn(b, base) == CHOOSE g : Folded(b, base, Len(b), g)

LEMMA MaxOf ==
    ASSUME NEW m \in Nat, NEW s, s \subseteq 1..m, m \in s
    PROVE  Max(s) = m
<1>1. m \in s /\ \A y \in s : m >= y
    OBVIOUS
<1>2. PICK x : x = Max(s)
    OBVIOUS
<1>3. x \in s /\ \A y \in s : x >= y
    BY <1>1, <1>2 DEF Max
<1>4. x \in 1..m
    BY <1>3
<1>5. x >= m /\ m >= x
    BY <1>1, <1>3
<1> QED
    BY <1>2, <1>4, <1>5

LEMMA FoldedExists ==
    ASSUME NEW b, NEW base, NEW n \in Nat
    PROVE  \E g : Folded(b, base, n, g)
<1> DEFINE T == {m \in Nat : \E g : Folded(b, base, m, g)}
<1>1. 0 \in T
    <2>1. PICK g : g = [s \in SUBSET (1..0) |-> base]
        OBVIOUS
    <2>2. \A s \in SUBSET (1..0) : s = {}
        OBVIOUS
    <2>3. [s \in SUBSET (1..0) |-> FoldBody(b, base, g, s)] = [s \in SUBSET (1..0) |-> base]
        BY <2>2 DEF FoldBody
    <2>4. Folded(b, base, 0, g)
        BY <2>1, <2>3 DEF Folded
    <2> QED
        BY <2>4
<1>2. ASSUME NEW k \in 1..n, k - 1 \in T PROVE k \in T
    <2>0. k \in Nat /\ k - 1 \in Nat
        OBVIOUS
    <2>1. PICK g : Folded(b, base, k - 1, g)
        BY <1>2
    <2>2. PICK f : f = [s \in SUBSET (1..k) |-> IF k \in s THEN FoldBody(b, base, g, s) ELSE g[s]]
        OBVIOUS
    <2>3. \A s \in SUBSET (1..(k - 1)) : s \in SUBSET (1..k) /\ k \notin s /\ f[s] = g[s]
        <3>1. 1..(k - 1) \subseteq 1..k /\ k \notin 1..(k - 1)
            BY <2>0
        <3>2. \A s \in SUBSET (1..(k - 1)) : s \in SUBSET (1..k) /\ k \notin s
            BY <3>1
        <3> QED
            BY <2>2, <3>2
    <2>4. ASSUME NEW s \in SUBSET (1..k) PROVE f[s] = FoldBody(b, base, f, s)
        <3>1. CASE k \in s
            <4>1. Max(s) = k
                BY <2>0, <3>1, MaxOf
            <4>2. s \ {k} \in SUBSET (1..(k - 1))
                BY <2>0
            <4>3. FoldBody(b, base, f, s) = FoldBody(b, base, g, s)
                BY <2>3, <4>1, <4>2 DEF FoldBody
            <4> QED
                BY <2>2, <3>1, <4>3
        <3>2. CASE k \notin s
            <4>1. s \in SUBSET (1..(k - 1))
                BY <2>0, <3>2
            <4>2. g[s] = FoldBody(b, base, g, s) /\ f[s] = g[s]
                BY <2>1, <2>3, <4>1 DEF Folded
            <4>3. s \ {Max(s)} \in SUBSET (1..(k - 1))
                BY <4>1
            <4>4. FoldBody(b, base, f, s) = FoldBody(b, base, g, s)
                BY <2>3, <4>3 DEF FoldBody
            <4> QED
                BY <4>2, <4>4
        <3> QED
            BY <3>1, <3>2
    <2>5. Folded(b, base, k, f)
        <3>1. f = [s \in SUBSET (1..k) |-> f[s]]
            BY <2>2
        <3> QED
            BY <2>4, <3>1, Zenon DEF Folded
    <2> QED
        BY <2>0, <2>5
<1> HIDE DEF T
<1>3. n \in T
    BY <1>1, <1>2, Climb
<1> QED
    BY <1>3 DEF T

\* The states that a decoder runs through.
Run(b, base, d, n) == d[0] = base /\ \A k \in 1..n : d[k] = DecodeByte(d[k - 1], b[k])

LEMMA FoldIsRun ==
    ASSUME NEW S, NEW b \in Seq(S), NEW base
    PROVE  \E d : Run(b, base, d, Len(b)) /\ Fold(b, base) = d[Len(b)]
<1>0. Len(b) \in Nat /\ DOMAIN b = 1..Len(b)
    BY LenProperties
<1>1. PICK n, g : n = Len(b) /\ g = FoldFn(b, base)
    OBVIOUS
<1>2. Folded(b, base, n, g)
    BY <1>0, <1>1, FoldedExists DEF FoldFn
<1>3. Fold(b, base) = g[1..n]
    <2>1. g = CHOOSE f : f = [s \in SUBSET DOMAIN b |->
                IF s = {} THEN base ELSE DecodeByte(f[s \ {Max(s)}], b[Max(s)])]
        BY <1>0, <1>1 DEF FoldFn, Folded, FoldBody
    <2>2. Fold(b, base) = g[DOMAIN b]
        BY <2>1 DEF Fold, FoldLeft, MapThenFoldSet
    <2> QED
        BY <1>0, <1>1, <2>2
<1>4. PICK d : d = [k \in 0..n |-> g[1..k]]
    OBVIOUS
<1>5. d[0] = base
    <2>1. 1..0 = {} /\ {} \in SUBSET (1..n) /\ 0 \in 0..n
        BY <1>0, <1>1
    <2>2. g[{}] = base
        BY <1>2, <2>1 DEF Folded, FoldBody
    <2> QED
        BY <1>4, <2>1, <2>2
<1>6. ASSUME NEW k \in 1..n PROVE d[k] = DecodeByte(d[k - 1], b[k])
    <2>1. /\ k \in Nat /\ k \in 0..n /\ k - 1 \in 0..n
          /\ k \in 1..k /\ 1..k \in SUBSET (1..n)
        BY <1>0, <1>1
    <2>2. Max(1..k) = k
        BY <2>1, MaxOf
    <2>3. (1..k) \ {k} = 1..(k - 1)
        BY <2>1
    <2>4. g[1..k] = FoldBody(b, base, g, 1..k)
        BY <1>2, <2>1 DEF Folded
    <2>5. g[1..k] = DecodeByte(g[(1..k) \ {k}], b[k])
        BY <2>1, <2>2, <2>4 DEF FoldBody
    <2> QED
        BY <1>4, <2>1, <2>3, <2>5
<1>7. d[n] = g[1..n]
    BY <1>0, <1>1, <1>4
<1> QED
    BY <1>1, <1>3, <1>5, <1>6, <1>7 DEF Run

LEMMA RunsAgree ==
    ASSUME NEW b, NEW c, NEW base, NEW m \in Nat, NEW n \in Nat, n <= m, Agree(b, c, n),
           NEW d, Run(b, base, d, m), NEW e, Run(c, base, e, n)
    PROVE  d[n] = e[n]
<1> DEFINE T == {k \in Nat : k \in 0..n => d[k] = e[k]}
<1>1. 0 \in T
    BY DEF Run
<1>2. ASSUME NEW k \in 1..n, k - 1 \in T PROVE k \in T
    <2>1. k \in 1..m /\ k - 1 \in 0..n /\ b[k] = c[k] /\ k \in Nat
        BY DEF Agree
    <2>2. d[k - 1] = e[k - 1]
        BY <1>2, <2>1
    <2>3. d[k] = DecodeByte(d[k - 1], b[k]) /\ e[k] = DecodeByte(e[k - 1], c[k])
        BY <2>1 DEF Run
    <2> QED
        BY <2>1, <2>2, <2>3
<1> HIDE DEF T
<1>3. n \in T /\ n \in 0..n
    BY <1>1, <1>2, Climb
<1> QED
    BY <1>3 DEF T

\* The equations of the fold.
LEMMA FoldSteps ==
    /\ \A base : Fold(<<>>, base) = base
    /\ \A base : \A b \in Seq(Bytes), x \in Bytes :
          Fold(Append(b, x), base) = DecodeByte(Fold(b, base), x)
<1>1. ASSUME NEW base PROVE Fold(<<>>, base) = base
    <2>1. <<>> \in Seq(Bytes) /\ Len(<<>>) = 0
        BY EmptySeq
    <2>2. PICK d : Run(<<>>, base, d, Len(<<>>)) /\ Fold(<<>>, base) = d[Len(<<>>)]
        BY <2>1, FoldIsRun
    <2> QED
        BY <2>1, <2>2 DEF Run
<1>2. ASSUME NEW b \in Seq(Bytes), NEW x \in Bytes, NEW base
      PROVE  Fold(Append(b, x), base) = DecodeByte(Fold(b, base), x)
    <2>1. PICK c, n, m : c = Append(b, x) /\ n = Len(b) /\ m = n + 1
        OBVIOUS
    <2>2. /\ n \in Nat /\ m \in Nat /\ n <= m /\ m \in 1..m /\ m - 1 = n
          /\ c \in Seq(Bytes) /\ Len(c) = m
          /\ c[m] = x /\ \A i \in 1..n : c[i] = b[i]
        BY <2>1, LenProperties, AppendProperties
    <2>3. PICK d : Run(c, base, d, m) /\ Fold(c, base) = d[m]
        BY <2>2, FoldIsRun
    <2>4. PICK e : Run(b, base, e, n) /\ Fold(b, base) = e[n]
        BY <2>1, FoldIsRun
    <2>5. d[n] = e[n]
        <3>1. Agree(c, b, n)
            BY <2>2 DEF Agree
        <3> QED
            BY <2>2, <2>3, <2>4, <3>1, RunsAgree
    <2>6. d[m] = DecodeByte(d[m - 1], c[m])
        BY <2>2, <2>3 DEF Run
    <2> QED
        BY <2>1, <2>2, <2>3, <2>4, <2>5, <2>6
<1> QED
    BY <1>1, <1>2

-----------------------------------------------------------------------------
(* The decoder                                                             *)

States == [out : Seq(Chars), half : BOOLEAN]
From(held) == [out |-> <<>>, half |-> held]

LEMMA FromState == \A held \in BOOLEAN : From(held) \in States
BY EmptyChars DEF From, States

\* Two decoders with the same half character, of which one has yielded p more.
Ahead(p, d, e) == d.half = e.half /\ d.out = p \o e.out

LEMMA AppendChar ==
    \A s \in Seq(Chars) : \A x \in Chars :
        /\ Append(s, x) \in Seq(Chars)
        /\ \A p \in Seq(Chars) : Append(p \o s, x) = p \o Append(s, x)
<1> SUFFICES ASSUME NEW s \in Seq(Chars), NEW x \in Chars
             PROVE  /\ Append(s, x) \in Seq(Chars)
                    /\ \A p \in Seq(Chars) : Append(p \o s, x) = p \o Append(s, x)
    OBVIOUS
<1>1. Append(s, x) \in Seq(Chars) /\ Append(s, x) = s \o <<x>> /\ <<x>> \in Seq(Chars)
    BY AppendProperties, AppendIsConcat
<1>2. ASSUME NEW p \in Seq(Chars) PROVE Append(p \o s, x) = p \o Append(s, x)
    <2>1. p \o s \in Seq(Chars)
        BY ConcatChars
    <2>2. Append(p \o s, x) = (p \o s) \o <<x>>
        BY <2>1, AppendIsConcat
    <2>3. (p \o s) \o <<x>> = p \o (s \o <<x>>)
        BY <1>1, AssocChars
    <2> QED
        BY <1>1, <2>2, <2>3
<1> QED
    BY <1>1, <1>2

LEMMA DecodeByteKeeps ==
    ASSUME NEW x \in Bytes, NEW e \in States
    PROVE  /\ DecodeByte(e, x) \in States
           /\ \A p \in Seq(Chars) : \A d \in States :
                Ahead(p, d, e) => Ahead(p, DecodeByte(d, x), DecodeByte(e, x))
<1>1. x \in Chars /\ "?" \in Chars /\ "e" \in Chars
    BY DEF Chars
<1>2. e.out \in Seq(Chars) /\ e.half \in BOOLEAN
    BY DEF States
<1>3. PICK o, q : o = e.out /\ q = Append(o, "?")
    OBVIOUS
<1>4. o \in Seq(Chars) /\ q \in Seq(Chars)
    BY <1>1, <1>2, <1>3, AppendChar
<1>5. /\ Append(o, "e") \in Seq(Chars) /\ Append(o, x) \in Seq(Chars)
      /\ Append(q, x) \in Seq(Chars)
    BY <1>1, <1>4, AppendChar
<1>6. DecodeByte(e, x) \in States
    BY <1>2, <1>3, <1>4, <1>5 DEF DecodeByte, States
<1>7. ASSUME NEW p \in Seq(Chars), NEW d \in States, Ahead(p, d, e)
      PROVE  Ahead(p, DecodeByte(d, x), DecodeByte(e, x))
    <2>1. d.half = e.half /\ d.out = p \o o
        BY <1>3, <1>7 DEF Ahead
    <2>2. Append(d.out, "?") = p \o q
        <3>1. Append(p \o o, "?") = p \o Append(o, "?")
            BY <1>1, <1>4, AppendChar, Zenon
        <3> QED
            BY <1>3, <2>1, <3>1, Zenon
    <2>3. /\ Append(d.out, "e") = p \o Append(o, "e")
          /\ Append(d.out, x) = p \o Append(o, x)
          /\ Append(p \o q, x) = p \o Append(q, x)
        <3>1. /\ Append(p \o o, "e") = p \o Append(o, "e")
              /\ Append(p \o o, x) = p \o Append(o, x)
              /\ Append(p \o q, x) = p \o Append(q, x)
            BY <1>1, <1>4, AppendChar, Zenon
        <3> QED
            BY <2>1, <3>1, Zenon
    <2> QED
        BY <1>2, <1>3, <2>1, <2>2, <2>3 DEF Ahead, DecodeByte
<1> QED
    BY <1>6, <1>7

LEMMA FoldTypes == \A b \in Seq(Bytes), d \in States : Fold(b, d) \in States
<1> SUFFICES ASSUME NEW b \in Seq(Bytes), NEW d \in States PROVE Fold(b, d) \in States
    OBVIOUS
<1> DEFINE T == {k \in Nat : k \in 0..Len(b) => Fold(Take(b, k), d) \in States}
<1>0. Len(b) \in Nat
    BY LenProperties
<1>1. 0 \in T
    <2>1. Take(b, 0) = <<>>
        BY SubSeqEmpty DEF Take
    <2> QED
        BY <2>1, FoldSteps
<1>2. ASSUME NEW k \in 1..Len(b), k - 1 \in T PROVE k \in T
    <2>1. /\ Take(b, k) = Append(Take(b, k - 1), b[k]) /\ b[k] \in Bytes
          /\ k - 1 \in 0..Len(b)
        BY TakeOne
    <2>2. Take(b, k - 1) \in Seq(Bytes)
        BY <2>1, TakeSkip
    <2>3. Fold(Take(b, k - 1), d) \in States
        BY <1>2, <2>1
    <2>4. Fold(Take(b, k), d) = DecodeByte(Fold(Take(b, k - 1), d), b[k])
        BY <2>1, <2>2, FoldSteps
    <2>5. Fold(Take(b, k), d) \in States
        BY <2>1, <2>3, <2>4, DecodeByteKeeps
    <2> QED
        BY <1>0, <2>5
<1> HIDE DEF T
<1>3. 0..Len(b) \subseteq T
    BY <1>0, <1>1, <1>2, Climb
<1>5. Len(b) \in 0..Len(b)
    BY <1>0
<1>4. Take(b, Len(b)) = b
    BY SubSeqFull DEF Take
<1> QED
    BY <1>3, <1>4, <1>5 DEF T

\* Decoding in two parts is decoding at once.
LEMMA FoldConcat ==
    ASSUME NEW a \in Seq(Bytes), NEW b \in Seq(Bytes), NEW h \in BOOLEAN,
           NEW d, d = Fold(a, From(h))
    PROVE  Ahead(d.out, Fold(a \o b, From(h)), Fold(b, From(d.half)))
<1> DEFINE F(k) == Fold(a \o Take(b, k), From(h))
           G(k) == Fold(Take(b, k), From(d.half))
           T == {k \in Nat : k \in 0..Len(b) => Ahead(d.out, F(k), G(k))}
<1>0. /\ Len(b) \in Nat /\ d \in States /\ d.out \in Seq(Chars) /\ d.half \in BOOLEAN
      /\ From(h) \in States /\ From(d.half) \in States
    BY FoldTypes, FromState, LenProperties DEF States
<1>1. 0 \in T
    <2>1. Take(b, 0) = <<>> /\ a \o <<>> = a
        BY SubSeqEmpty, ConcatEmptySeq DEF Take
    <2>2. F(0) = d /\ G(0) = From(d.half)
        BY <2>1, FoldSteps
    <2>3. Ahead(d.out, d, From(d.half))
        <3>1. From(d.half).half = d.half /\ From(d.half).out = <<>>
            BY DEF From
        <3> QED
            BY <1>0, <3>1, EmptyChars DEF Ahead
    <2> HIDE DEF F, G
    <2> QED
        BY <2>2, <2>3
<1>2. ASSUME NEW k \in 1..Len(b), k - 1 \in T PROVE k \in T
    <2>1. PICK t, x : t = Take(b, k - 1) /\ x = b[k]
        OBVIOUS
    <2>2. Take(b, k) = Append(t, x) /\ x \in Bytes /\ k - 1 \in 0..Len(b)
        BY <2>1, TakeOne
    <2>3. t \in Seq(Bytes) /\ a \o t \in Seq(Bytes)
        <3>1. t \in Seq(Bytes)
            BY <2>1, <2>2, TakeSkip
        <3> QED
            BY <3>1, ConcatProperties
    <2>4. a \o Append(t, x) = Append(a \o t, x)
        <3>1. Append(t, x) = t \o <<x>> /\ Append(a \o t, x) = (a \o t) \o <<x>>
            BY <2>2, <2>3, AppendIsConcat
        <3>2. <<x>> \in Seq(Bytes)
            BY <2>2
        <3>3. (a \o t) \o <<x>> = a \o (t \o <<x>>)
            BY <2>3, <3>2, AssocBytes, Zenon
        <3> QED
            BY <3>1, <3>3
    <2>5. Ahead(d.out, F(k - 1), G(k - 1))
        BY <1>2, <2>2
    <2>6. F(k) = DecodeByte(F(k - 1), x) /\ G(k) = DecodeByte(G(k - 1), x)
        <3>1. /\ Fold(Append(a \o t, x), From(h)) = DecodeByte(Fold(a \o t, From(h)), x)
              /\ Fold(Append(t, x), From(d.half)) = DecodeByte(Fold(t, From(d.half)), x)
            BY <2>2, <2>3, FoldSteps
        <3> QED
            BY <2>1, <2>2, <2>4, <3>1
    <2>7. F(k - 1) \in States /\ G(k - 1) \in States
        BY <1>0, <2>1, <2>3, FoldTypes
    <2> HIDE DEF F, G
    <2>8. Ahead(d.out, F(k), G(k))
        BY <1>0, <2>2, <2>5, <2>6, <2>7, DecodeByteKeeps
    <2> QED
        BY <1>0, <2>8
<1> HIDE DEF T
<1>3. 0..Len(b) \subseteq T
    BY <1>0, <1>1, <1>2, Climb
<1>5. Len(b) \in 0..Len(b)
    BY <1>0
<1>4. Take(b, Len(b)) = b
    BY SubSeqFull DEF Take
<1> QED
    BY <1>3, <1>4, <1>5 DEF T

\* TextDecoder::decode of a chunk, whatever came before it.
LEMMA DecodeChunk ==
    ASSUME NEW a \in Seq(Bytes), NEW b \in Seq(Bytes), NEW h \in BOOLEAN
    PROVE  LET d == Decode(a, h, FALSE)
               e == Decode(b, d.half, FALSE)
               f == Decode(a \o b, h, FALSE)
           IN  /\ d.out \in Seq(Chars) /\ d.half \in BOOLEAN
               /\ e.out \in Seq(Chars) /\ e.half \in BOOLEAN
               /\ f.half = e.half /\ f.out = d.out \o e.out
<1>1. \A c, held : Decode(c, held, FALSE) = Fold(c, From(held))
    BY DEF Decode, Fold, From
<1>2. PICK d : d = Fold(a, From(h))
    OBVIOUS
<1>3. d \in States /\ d.out \in Seq(Chars) /\ d.half \in BOOLEAN
    BY <1>2, FoldTypes, FromState DEF States
<1>4. PICK e : e = Fold(b, From(d.half))
    OBVIOUS
<1>5. e.out \in Seq(Chars) /\ e.half \in BOOLEAN
    BY <1>3, <1>4, FoldTypes, FromState DEF States
<1>6. Ahead(d.out, Fold(a \o b, From(h)), e)
    BY <1>2, <1>4, FoldConcat
<1> QED
    BY <1>1, <1>2, <1>3, <1>4, <1>5, <1>6 DEF Ahead

\* The last call flushes a lead byte.
Flush(held) == IF held THEN <<"?">> ELSE <<>>

LEMMA DecodeLast ==
    ASSUME NEW a \in Seq(Bytes), NEW h \in BOOLEAN
    PROVE  LET d == Decode(a, h, FALSE)
           IN  /\ Decode(a, h, TRUE).out = d.out \o Flush(d.half)
               /\ Decode(a, h, TRUE).half = FALSE
               /\ Decode(<<>>, h, TRUE).out = Flush(h)
               /\ Decode(<<>>, h, FALSE) = From(h)
               /\ Flush(h) \in Seq(Chars) /\ Flush(d.half) \in Seq(Chars)
<1>1. \A c, held : Decode(c, held, FALSE) = Fold(c, From(held))
    BY DEF Decode, Fold, From
<1>2. \A c, held : Decode(c, held, TRUE) =
          IF Fold(c, From(held)).half
          THEN [out |-> Append(Fold(c, From(held)).out, "?"), half |-> FALSE]
          ELSE Fold(c, From(held))
    BY DEF Decode, Fold, From
<1>3. PICK d : d = Fold(a, From(h))
    OBVIOUS
<1>4. d.out \in Seq(Chars) /\ d.half \in BOOLEAN
    BY <1>3, FoldTypes, FromState DEF States
<1>5. "?" \in Chars /\ <<"?">> \in Seq(Chars) /\ <<>> \in Seq(Chars)
    BY EmptyChars DEF Chars
<1>6. /\ Append(d.out, "?") = d.out \o <<"?">> /\ d.out \o <<>> = d.out
      /\ Append(<<>>, "?") = <<"?">>
    BY <1>4, <1>5, AppendIsConcat, EmptyChars
<1>7. Fold(<<>>, From(h)) = From(h)
    BY FoldSteps
<1>8. Decode(a, h, TRUE).out = d.out \o Flush(d.half) /\ Decode(a, h, TRUE).half = FALSE
    <2>1. Decode(a, h, TRUE) =
             IF d.half THEN [out |-> Append(d.out, "?"), half |-> FALSE] ELSE d
        BY <1>2, <1>3
    <2>2. CASE d.half
        <3>0. PICK y : y = Append(d.out, "?")
            OBVIOUS
        <3>z. PICK z : z = Decode(a, h, TRUE)
            BY Zenon
        <3>1. z = [out |-> y, half |-> FALSE]
            BY <2>1, <2>2, <3>0, <3>z, Zenon
        <3>2. Flush(d.half) = <<"?">>
            BY <2>2, Zenon DEF Flush
        <3>3. z.out = y /\ z.half = FALSE
            BY <3>1
        <3> QED
            BY <1>6, <3>0, <3>z, <3>2, <3>3, Zenon
    <2>3. CASE ~d.half
        BY <1>4, <1>6, <2>1, <2>3 DEF Flush
    <2> QED
        BY <2>2, <2>3
<1>9. Decode(<<>>, h, TRUE).out = Flush(h)
    <2>1. Decode(<<>>, h, TRUE) =
             IF From(h).half THEN [out |-> Append(From(h).out, "?"), half |-> FALSE] ELSE From(h)
        BY <1>2, <1>7
    <2>2. From(h).half = h /\ From(h).out = <<>>
        BY DEF From
    <2>3. CASE h
        <3>0. PICK y : y = Append(<<>>, "?")
            OBVIOUS
        <3>z. PICK z : z = Decode(<<>>, h, TRUE)
            BY Zenon
        <3>1. z = [out |-> y, half |-> FALSE]
            BY <2>1, <2>2, <2>3, <3>0, <3>z, Zenon
        <3>2. Flush(h) = <<"?">>
            BY <2>3, Zenon DEF Flush
        <3>3. z.out = y
            BY <3>1
        <3> QED
            BY <1>6, <3>0, <3>z, <3>2, <3>3, Zenon
    <2>4. CASE ~h
        BY <2>1, <2>2, <2>4 DEF Flush
    <2> QED
        BY <2>3, <2>4
<1> QED
    BY <1>1, <1>3, <1>5, <1>7, <1>8, <1>9 DEF Flush

-----------------------------------------------------------------------------
(* ByteChunker                                                             *)

\* What next_full relies on: the carry never outgrows a piece, and there is a
\* head only next to an empty or a complete carry.
Fit(c, h) ==
    /\ c \in Seq(Chars) /\ h \in Seq(Chars)
    /\ size = 0 => c = <<>>
    /\ size > 0 => Len(c) <= size /\ (h = <<>> \/ c = <<>> \/ Len(c) = size)

\* What next_full leaves when it finds no piece, and what feed relies on.
Short(c) ==
    /\ c \in Seq(Chars)
    /\ size = 0 => c = <<>>
    /\ size > 0 => Len(c) < size

\* next_full takes a piece off the front, or finds that there is none.
Taken(p, d, g, c, h) ==
    /\ p \in Seq(Chars) /\ d \in Seq(Chars) /\ g \in Seq(Chars)
    /\ p \o (d \o g) = c \o h
    /\ p # <<>> => Fit(d, g) /\ (size > 0 => Len(p) = size)
    /\ p = <<>> => Short(d) /\ g = <<>>

LEMMA NextFullTakes ==
    ASSUME size \in Nat
    PROVE  \A c, h : Fit(c, h) =>
              LET r == ByteNextFull([carry |-> c, head |-> h])
              IN  Taken(r.piece, r.carry, r.head, c, h)
<1> SUFFICES ASSUME NEW c, NEW h, Fit(c, h),
                    NEW r, r = ByteNextFull([carry |-> c, head |-> h]),
                    NEW p, p = r.piece, NEW d, d = r.carry, NEW g, g = r.head
             PROVE  Taken(p, d, g, c, h)
    OBVIOUS
<1> USE DEF Taken
<1>1. c \in Seq(Chars) /\ h \in Seq(Chars) /\ Len(c) \in Nat /\ Len(h) \in Nat
    BY EmptyChars DEF Fit
<1>2. CASE size = 0
    <2>1. p = h /\ d = c /\ g = <<>>
        BY <1>2 DEF ByteNextFull
    <2>2. c = <<>>
        BY <1>2 DEF Fit
    <2>3. ~(size > 0)
        BY <1>2
    <2>4. Fit(d, g) /\ Short(d)
        BY <2>1, <2>2, <2>3, EmptyChars DEF Fit, Short
    <2>5. p \o (d \o g) = c \o h
        BY <1>1, <2>1, <2>2, EmptyChars
    <2> QED
        BY <1>1, <2>1, <2>2, <2>3, <2>4, <2>5, EmptyChars
<1>3. CASE size > 0 /\ Len(c) >= size
    <2>1. p = Take(c, size) /\ d = Skip(c, size) /\ g = h
        BY <1>3 DEF ByteNextFull
    <2>2. Len(c) = size /\ size \in 0..Len(c)
        BY <1>1, <1>3 DEF Fit
    <2>3. /\ Take(c, size) \in Seq(Chars) /\ Len(Take(c, size)) = size
          /\ Skip(c, size) \in Seq(Chars) /\ Len(Skip(c, size)) = Len(c) - size
          /\ Take(c, size) \o Skip(c, size) = c
        BY <1>1, <2>2, TakeSkip
    <2>4. d = <<>>
        <3>1. d \in Seq(Chars) /\ Len(d) = Len(c) - size
            BY <2>1, <2>3, Zenon
        <3>2. Len(d) = 0
            BY <1>1, <2>2, <3>1
        <3> QED
            BY <3>1, <3>2, EmptyChars
    <2>5. p = c
        BY <2>1, <2>3, <2>4, EmptyChars
    <2>6. Fit(d, g)
        <3>1. size \in Nat /\ ~(size = 0)
            BY <1>3
        <3>2. Len(d) <= size
            BY <2>4, <3>1, EmptyChars
        <3> QED
            BY <1>1, <2>1, <2>4, <3>1, <3>2, EmptyChars, Zenon DEF Fit
    <2>7. p # <<>>
        BY <1>3, <2>2, <2>5, EmptyChars
    <2>8. d \o g = h
        BY <1>1, <2>1, <2>4, EmptyChars
    <2> QED
        BY <1>1, <2>1, <2>2, <2>4, <2>5, <2>6, <2>7, <2>8, EmptyChars
<1>4. CASE size > 0 /\ ~(Len(c) >= size) /\ Len(h) >= size /\ c = <<>>
    <2>1. p = Take(h, size) /\ d = <<>> /\ g = Skip(h, size)
        BY <1>4 DEF ByteNextFull
    <2>2. size \in 0..Len(h)
        BY <1>1, <1>4
    <2>3. /\ Take(h, size) \in Seq(Chars) /\ Len(Take(h, size)) = size
          /\ Skip(h, size) \in Seq(Chars)
          /\ Take(h, size) \o Skip(h, size) = h
        BY <1>1, <2>2, TakeSkip
    <2>4. p # <<>>
        BY <1>4, <2>1, <2>3, EmptyChars
    <2>5. Fit(d, g)
        BY <1>4, <2>1, <2>3, EmptyChars DEF Fit
    <2> QED
        BY <1>1, <1>4, <2>1, <2>3, <2>4, <2>5, EmptyChars
<1>5. CASE size > 0 /\ ~(Len(c) >= size) /\ ~(Len(h) >= size /\ c = <<>>)
    <2>1. ~(size = 0)
        BY <1>5
    <2>2. p = <<>> /\ d = c \o h /\ g = <<>>
        BY <1>5, <2>1 DEF ByteNextFull
    <2>3. c \o h \in Seq(Chars) /\ Len(c \o h) = Len(c) + Len(h)
        BY <1>1, ConcatProperties
    <2>4. h = <<>> \/ c = <<>>
        BY <1>1, <1>5 DEF Fit
    <2>5. Len(d) < size
        <3>1. CASE h = <<>>
            BY <1>1, <1>5, <2>2, <3>1, EmptyChars
        <3>2. CASE c = <<>>
            BY <1>1, <1>5, <2>2, <3>2, EmptyChars
        <3> QED
            BY <2>4, <3>1, <3>2
    <2>6. Short(d)
        BY <2>1, <2>2, <2>3, <2>5 DEF Short
    <2> QED
        BY <2>2, <2>3, <2>6, EmptyChars
<1>6. size = 0 \/ size > 0
    OBVIOUS
<1> QED
    BY <1>2, <1>3, <1>4, <1>5, <1>6

\* feed appends the chunk to what there was.
Fed(d, g, c, b) == Fit(d, g) /\ d \o g = c \o b

LEMMA FeedAppends ==
    ASSUME size \in Nat
    PROVE  \A c, b : Short(c) /\ b \in Seq(Chars) =>
              LET f == ByteFeed([carry |-> c, head |-> <<>>], b)
              IN  Fed(f.carry, f.head, c, b)
<1> SUFFICES ASSUME NEW c, NEW b, Short(c), b \in Seq(Chars),
                    NEW f, f = ByteFeed([carry |-> c, head |-> <<>>], b),
                    NEW d, d = f.carry, NEW g, g = f.head
             PROVE  Fed(d, g, c, b)
    OBVIOUS
<1> DEFINE need == size - Len(c)
           take == IF size = 0 \/ c = <<>> THEN 0
                   ELSE IF need < Len(b) THEN need ELSE Len(b)
<1>1. c \in Seq(Chars) /\ Len(c) \in Nat /\ Len(b) \in Nat
    BY EmptyChars DEF Short
<1>2. d = c \o Take(b, take) /\ g = Skip(b, take)
    BY DEF ByteFeed
<1>3. take \in 0..Len(b)
    BY <1>1 DEF Short
<1>4. size > 0 => take <= size - Len(c)
    BY <1>1 DEF Short
<1>5. c = <<>> \/ size = 0 \/ take = size - Len(c) \/ take = Len(b)
    OBVIOUS
<1>6. size = 0 \/ c = <<>> => take = 0
    OBVIOUS
<1> HIDE DEF take, need
<1>7. /\ Take(b, take) \in Seq(Chars) /\ Len(Take(b, take)) = take
      /\ Skip(b, take) \in Seq(Chars) /\ Len(Skip(b, take)) = Len(b) - take
      /\ Take(b, take) \o Skip(b, take) = b
    BY <1>3, TakeSkip
<1>8. c \o Take(b, take) \in Seq(Chars) /\ Len(c \o Take(b, take)) = Len(c) + take
    BY <1>1, <1>7, ConcatProperties
<1>9. d \o g = c \o b
    <2>1. (c \o Take(b, take)) \o Skip(b, take) = c \o (Take(b, take) \o Skip(b, take))
        BY <1>1, <1>7, AssocChars, Zenon
    <2> QED
        BY <1>2, <1>7, <2>1
<1>10. ASSUME take = 0, c = <<>> PROVE d = <<>>
    <2>1. d \in Seq(Chars) /\ Len(d) = 0
        BY <1>2, <1>8, <1>10, EmptyChars
    <2> QED
        BY <2>1, EmptyChars
<1>11. ASSUME take = Len(b) PROVE g = <<>>
    <2>1. g \in Seq(Chars) /\ Len(g) = Len(b) - take
        BY <1>2, <1>7, Zenon
    <2>2. Len(g) = 0
        BY <1>1, <1>11, <2>1
    <2> QED
        BY <2>1, <2>2, EmptyChars
<1>12. d \in Seq(Chars) /\ g \in Seq(Chars) /\ Len(d) = Len(c) + take
    BY <1>2, <1>7, <1>8
<1>13. size = 0 => d = <<>>
    BY <1>6, <1>10 DEF Short
<1>14. size > 0 => Len(d) <= size
    BY <1>1, <1>3, <1>4, <1>12
<1>15. size > 0 => g = <<>> \/ d = <<>> \/ Len(d) = size
    <2>1. take \in Nat
        BY <1>1, <1>3
    <2> QED
        BY <1>1, <1>5, <1>6, <1>10, <1>11, <1>12, <2>1
<1> QED
    BY <1>9, <1>12, <1>13, <1>14, <1>15 DEF Fit, Fed

-----------------------------------------------------------------------------
(* Pieces                                                                  *)

\* What was handed out and what is held back make up what is due; only the last
\* piece may be shorter than size, and then nothing is left.
Pieces(o, rest, due, end) ==
    /\ o \in Seq(Seq(Chars)) /\ Flat(o) \in Seq(Chars) /\ rest \in Seq(Chars)
    /\ Flat(o) \o rest = due
    /\ \A i \in 1..Len(o) :
          /\ o[i] # <<>>
          /\ size > 0 => \/ Len(o[i]) = size
                         \/ i = Len(o) /\ Len(o[i]) < size /\ end /\ rest = <<>>

\* A piece is taken off the front of what is held back.
LEMMA HandPiece ==
    \A o, rest, due, end : \A p, r \in Seq(Chars) :
        /\ Pieces(o, rest, due, end)
        /\ p # <<>> /\ p \o r = rest
        /\ size > 0 => Len(p) = size \/ (Len(p) < size /\ end /\ r = <<>>)
        => Pieces(Append(o, p), r, due, end)
<1> SUFFICES ASSUME NEW o, NEW rest, NEW due, NEW end, NEW p \in Seq(Chars), NEW r \in Seq(Chars),
                    Pieces(o, rest, due, end), p # <<>>, p \o r = rest,
                    size > 0 => Len(p) = size \/ (Len(p) < size /\ end /\ r = <<>>)
             PROVE  Pieces(Append(o, p), r, due, end)
    OBVIOUS
<1>1. PICK q, n : q = Append(o, p) /\ n = Len(o)
    OBVIOUS
<1>2. /\ o \in Seq(Seq(Chars)) /\ Flat(o) \in Seq(Chars)
      /\ rest \in Seq(Chars) /\ Flat(o) \o rest = due
    BY DEF Pieces
<1>3. /\ n \in Nat /\ q \in Seq(Seq(Chars)) /\ Len(q) = n + 1
      /\ q[n + 1] = p /\ \A i \in 1..n : q[i] = o[i]
    BY <1>1, <1>2, LenProperties, AppendProperties
<1>4. Flat(q) = Flat(o) \o p
    BY <1>1, <1>2, FlatAppend
<1>5. Flat(q) \in Seq(Chars) /\ Flat(q) \o r = due
    <2>1. (Flat(o) \o p) \o r = Flat(o) \o (p \o r)
        BY <1>2, AssocChars, Zenon
    <2> QED
        BY <1>2, <1>4, <2>1, ConcatChars
<1>6. rest # <<>>
    BY EmptyChars, ConcatEqualIffEmpty
<1>7. ASSUME NEW i \in 1..(n + 1)
      PROVE  /\ q[i] # <<>>
             /\ size > 0 => \/ Len(q[i]) = size
                            \/ i = n + 1 /\ Len(q[i]) < size /\ end /\ r = <<>>
    <2>1. CASE i = n + 1
        BY <1>3, <2>1
    <2>2. CASE i \in 1..n
        <3>1. /\ o[i] # <<>>
              /\ size > 0 => \/ Len(o[i]) = size
                             \/ i = Len(o) /\ Len(o[i]) < size /\ end /\ rest = <<>>
            BY <1>1, <2>2 DEF Pieces
        <3> QED
            BY <1>3, <1>6, <2>2, <3>1
    <2> QED
        BY <1>3, <2>1, <2>2
<1> QED
    BY <1>1, <1>3, <1>5, <1>7 DEF Pieces

\* More is delivered.
LEMMA MoreDue ==
    \A o, rest, due, end, last : \A m \in Seq(Chars) :
        Pieces(o, rest, due, end) /\ ~end => Pieces(o, rest \o m, due \o m, last)
<1> SUFFICES ASSUME NEW o, NEW rest, NEW due, NEW end, NEW last, NEW m \in Seq(Chars),
                    Pieces(o, rest, due, end), ~end
             PROVE  Pieces(o, rest \o m, due \o m, last)
    OBVIOUS
<1>1. /\ o \in Seq(Seq(Chars)) /\ Flat(o) \in Seq(Chars)
      /\ rest \in Seq(Chars) /\ Flat(o) \o rest = due
    BY DEF Pieces
<1>2. rest \o m \in Seq(Chars) /\ Flat(o) \o (rest \o m) = due \o m
    <2>1. (Flat(o) \o rest) \o m = Flat(o) \o (rest \o m)
        BY <1>1, AssocChars, Zenon
    <2> QED
        BY <1>1, <2>1, ConcatChars
<1>3. \A i \in 1..Len(o) : o[i] # <<>> /\ (size > 0 => Len(o[i]) = size)
    BY DEF Pieces
<1> QED
    BY <1>1, <1>2, <1>3 DEF Pieces

-----------------------------------------------------------------------------
(* The inductive invariant                                                 *)

VarTypes ==
    /\ kind \in {"bytes", "text", "lines"} /\ size \in Nat
    /\ body \in Seq(Bytes) /\ pos \in 0..Len(body)
    /\ finished \in BOOLEAN /\ stopped \in BOOLEAN
    /\ half \in BOOLEAN /\ trailingCr \in BOOLEAN
    /\ text \in Seq(Chars) /\ consumed \in 0..Len(text)
    /\ finished => pos = Len(body)

\* The byte iterator owes what was delivered.
ByteInv ==
    /\ Fit(carry, head)
    /\ Pieces(out, carry \o head, Take(body, pos), finished)
    /\ stopped => finished /\ carry \o head = <<>>

\* The text iterator owes what a decoder makes of what was delivered, all at
\* once, and holds the half character that this decoder holds.
Part(bytes, held) == Decode(bytes, held, FALSE)
SoFar(n) == Part(Take(body, n), FALSE)

TextInv ==
    /\ Pieces(out, Skip(text, consumed), IF finished THEN WholeText ELSE SoFar(pos).out, finished)
    /\ ~finished => half = SoFar(pos).half
    /\ stopped => finished /\ Skip(text, consumed) = <<>>

IInv ==
    /\ VarTypes
    /\ kind = "bytes" => ByteInv
    /\ kind = "text" => TextInv

LEMMA NoPieces ==
    \A end : \A rest \in Seq(Chars) : Pieces(<<>>, rest, rest, end)
<1>1. /\ <<>> \in Seq(Seq(Chars)) /\ Len(<<>>) = 0 /\ 1..Len(<<>>) = {}
      /\ Flat(<<>>) = <<>>
    BY EmptySeq, FlatAppend
<1> QED
    BY <1>1, EmptyChars DEF Pieces

LEMMA TakeNothing ==
    /\ \A s : Take(s, 0) = <<>>
    /\ Skip(<<>>, 0) = <<>>
BY SubSeqEmpty, EmptySeq DEF Take, Skip

LEMMA SkipNothing == \A s \in Seq(Chars) : Skip(s, 0) = s
BY SubSeqFull DEF Skip

LEMMA InvInit == Init => IInv
<1> SUFFICES ASSUME Init PROVE IInv
    OBVIOUS
<1>1. body \in Seq(Bytes) /\ Len(body) \in Nat
    <2>1. PICK m \in 0..MaxLen : body \in [1..m -> Bytes]
        BY DEF Init, BoundedSeq, SeqOf
    <2>2. m \in Nat
        BY RegroupAssumption
    <2> QED
        BY <2>1, <2>2, SeqDef, LenProperties
<1>2. size \in Nat /\ kind \in {"bytes", "text", "lines"}
    BY RegroupAssumption DEF Init
<1>3. VarTypes
    <2>1. text \in Seq(Chars) /\ consumed \in 0..Len(text)
        BY EmptyChars DEF Init
    <2>2. pos \in 0..Len(body)
        BY <1>1 DEF Init
    <2>3. /\ finished \in BOOLEAN /\ stopped \in BOOLEAN /\ half \in BOOLEAN
          /\ trailingCr \in BOOLEAN /\ finished = FALSE
        BY DEF Init
    <2> QED
        BY <1>1, <1>2, <2>1, <2>2, <2>3 DEF VarTypes
<1>4. carry = <<>> /\ head = <<>> /\ <<>> \o <<>> = <<>> /\ <<>> \in Seq(Chars)
    BY EmptyChars DEF Init
<1>5. Fit(carry, head)
    BY <1>2, <1>4, EmptyChars DEF Fit
<1>6. Pieces(<<>>, <<>>, <<>>, finished)
    BY <1>4, NoPieces
<1>7. ByteInv
    <2>1. Take(body, pos) = <<>> /\ out = <<>> /\ ~stopped
        BY TakeNothing DEF Init
    <2>2. carry \o head = <<>>
        BY <1>4
    <2> QED
        BY <1>5, <1>6, <2>1, <2>2 DEF ByteInv
<1>8. TextInv
    <2>1. Take(body, pos) = <<>> /\ Skip(text, consumed) = <<>> /\ out = <<>>
        BY TakeNothing DEF Init
    <2>2. finished = FALSE /\ stopped = FALSE /\ half = FALSE
        BY DEF Init
    <2>3. Part(<<>>, FALSE) = From(FALSE)
        <3>1. <<>> \in Seq(Bytes)
            BY EmptySeq
        <3> QED
            BY <3>1, DecodeLast, Zenon DEF Part
    <2>4. SoFar(pos).out = <<>> /\ SoFar(pos).half = FALSE
        <3>1. SoFar(pos) = From(FALSE)
            BY <2>1, <2>3, Zenon DEF SoFar
        <3>2. \A held : From(held).out = <<>> /\ From(held).half = held
            BY DEF From
        <3> QED
            BY <3>1, <3>2, Zenon
    <2> QED
        BY <1>6, <2>1, <2>2, <2>4, Zenon DEF TextInv
<1> QED
    BY <1>3, <1>7, <1>8 DEF IInv

-----------------------------------------------------------------------------
(* What is delivered                                                       *)

LEMMA DeliverTypes ==
    ASSUME VarTypes, NEW n, Deliver(n)
    PROVE  /\ n \in Nat /\ pos \in Nat /\ pos + n \in 0..Len(body) /\ pos + n <= Len(body)
           /\ pos' = pos + n /\ finished = FALSE /\ finished' \in BOOLEAN
           /\ (finished' <=> n = 0)
           /\ finished' => pos' = Len(body)
           /\ stopped' = stopped
           /\ Chunk(n) \in Seq(Bytes) /\ Chunk(n) \in Seq(Chars)
           /\ Take(body, pos) \in Seq(Bytes)
           /\ Take(body, pos) \o Chunk(n) = Take(body, pos')
<1>1. /\ Len(body) \in Nat /\ pos \in Nat /\ pos <= Len(body)
      /\ \A i \in 1..Len(body) : body[i] \in Bytes
      /\ body \in Seq(Bytes) /\ pos \in 0..Len(body)
    BY LenProperties DEF VarTypes
<1>2. /\ n \in Nat /\ pos + n \in 0..Len(body) /\ pos + n <= Len(body)
      /\ n = 0 => pos = Len(body)
    <2>1. CASE pos = Len(body)
        <3>1. n = 0
            BY <2>1 DEF Deliver
        <3> QED
            BY <1>1, <2>1, <3>1
    <2>2. CASE pos # Len(body)
        <3>1. n \in 1..(Len(body) - pos)
            BY <2>2 DEF Deliver
        <3> QED
            BY <1>1, <3>1
    <2> QED
        BY <2>1, <2>2
<1>3. /\ pos' = pos + n /\ finished = FALSE /\ finished' \in BOOLEAN /\ (finished' <=> n = 0)
      /\ stopped' = stopped
    BY DEF Deliver, VarTypes
<1>4. finished' => pos' = Len(body)
    BY <1>1, <1>2, <1>3
<1>5. Chunk(n) \in Seq(Bytes)
    <2>1. \A i \in (pos + 1)..(pos + n) : body[i] \in Bytes
        BY <1>1, <1>2
    <2>2. pos + 1 \in Int /\ pos + n \in Int
        BY <1>1, <1>2
    <2> QED
        BY <2>1, <2>2, SubSeqProperties DEF Chunk
<1>6. Chunk(n) \in Seq(Chars)
    BY <1>5, SeqMonotonic DEF Chars
<1>7. Take(body, pos) \in Seq(Bytes)
    BY <1>1, TakeSkip
<1>8. Take(body, pos) \o Chunk(n) = Take(body, pos')
    <2>1. Take(body, pos) \o SubSeq(body, pos + 1, pos + n) = Take(body, pos + n)
        BY <1>1, <1>2, TakeMore
    <2> QED
        BY <1>3, <2>1 DEF Chunk
<1> QED
    BY <1>1, <1>2, <1>3, <1>4, <1>5, <1>6, <1>7, <1>8

LEMMA DecodeTypes ==
    \A b \in Seq(Bytes) : \A held \in BOOLEAN : \A last \in BOOLEAN :
        Decode(b, held, last).out \in Seq(Chars) /\ Decode(b, held, last).half \in BOOLEAN
<1> SUFFICES ASSUME NEW b \in Seq(Bytes), NEW held \in BOOLEAN, NEW last \in BOOLEAN
             PROVE  /\ Decode(b, held, last).out \in Seq(Chars)
                    /\ Decode(b, held, last).half \in BOOLEAN
    OBVIOUS
<1>1. PICK d : d = Fold(b, From(held))
    OBVIOUS
<1>2. d \in States /\ d.out \in Seq(Chars) /\ d.half \in BOOLEAN
    BY <1>1, FoldTypes, FromState DEF States
<1>3. PICK q : q = Append(d.out, "?")
    OBVIOUS
<1>4. q \in Seq(Chars)
    <2>1. "?" \in Chars
        BY DEF Chars
    <2> QED
        BY <1>2, <1>3, <2>1, AppendChar
<1>5. Decode(b, held, last) = IF last /\ d.half THEN [out |-> q, half |-> FALSE] ELSE d
    BY <1>1, <1>3, Zenon DEF Decode, Fold, From
<1>6. PICK e : e = [out |-> q, half |-> FALSE]
    OBVIOUS
<1>7. e.out = q /\ e.half = FALSE
    BY <1>6
<1>8. Decode(b, held, last) = e \/ Decode(b, held, last) = d
    BY <1>5, <1>6, Zenon
<1> QED
    BY <1>2, <1>4, <1>7, <1>8, Zenon

\* TextChunker::next_full takes no more than there is.
LEMMA TextFullFits ==
    ASSUME VarTypes
    PROVE  /\ Skip(text, consumed) \in Seq(Chars)
           /\ Len(Skip(text, consumed)) = Len(text) - consumed
           /\ TextFull \in 0..Len(Skip(text, consumed))
           /\ consumed + TextFull \in 0..Len(text)
           /\ size > 0 /\ TextFull > 0 => TextFull = size
           /\ size > 0 /\ TextFull = 0 => Len(Skip(text, consumed)) < size
<1>1. /\ text \in Seq(Chars) /\ consumed \in 0..Len(text) /\ Len(text) \in Nat /\ size \in Nat
      /\ consumed \in Nat
    BY LenProperties DEF VarTypes
<1>2. Skip(text, consumed) \in Seq(Chars) /\ Len(Skip(text, consumed)) = Len(text) - consumed
    BY <1>1, TakeSkip
<1>3. PICK n : n = Len(text) - consumed
    OBVIOUS
<1>4. n \in Nat /\ consumed + n = Len(text)
    BY <1>1, <1>3
<1>5. TextFull = IF size = 0 THEN n ELSE IF n >= size THEN size ELSE 0
    BY <1>1, <1>3 DEF TextFull
<1> QED
    BY <1>1, <1>2, <1>3, <1>4, <1>5

-----------------------------------------------------------------------------
(* The steps keep the types                                                *)

LEMMA ByteTypes ==
    ASSUME VarTypes, ByteStep, UNCHANGED <<kind, size, body>> PROVE VarTypes'
<1>1. UNCHANGED <<half, trailingCr, text, consumed>>
    BY DEF ByteStep, textVars, lineVars
<1>2. CASE UNCHANGED <<pos, finished>> /\ stopped' \in BOOLEAN
    BY <1>1, <1>2 DEF VarTypes
<1>3. ASSUME NEW n, Deliver(n) PROVE VarTypes'
    BY <1>1, <1>3, DeliverTypes DEF VarTypes
<1> QED
    BY <1>2, <1>3 DEF ByteStep, Hand, Stop, VarTypes

\* What feed makes of the text chunker.
LEMMA TextFeedHolds ==
    ASSUME VarTypes, NEW m \in Seq(Chars), TextFeed(m)
    PROVE  /\ text' \in Seq(Chars) /\ consumed' \in 0..Len(text')
           /\ Skip(text', consumed') = Skip(text, consumed) \o m
<1>1. text' = Skip(text, consumed) \o m /\ consumed' = 0
    BY DEF TextFeed
<1>2. text' \in Seq(Chars) /\ Len(text') \in Nat
    BY <1>1, TextFullFits, ConcatChars, EmptyChars
<1>3. Skip(text', 0) = text'
    BY <1>2, SkipNothing
<1> QED
    BY <1>1, <1>2, <1>3

LEMMA TextTypes ==
    ASSUME VarTypes, TextStep, UNCHANGED <<kind, size, body>> PROVE VarTypes'
<1>1. UNCHANGED <<kind, size, body, trailingCr>>
    BY DEF TextStep, lineVars
<1>2. ASSUME UNCHANGED <<pos, finished, half>>, stopped' \in BOOLEAN,
             text' \in Seq(Chars), consumed' \in 0..Len(text')
      PROVE  VarTypes'
    BY <1>1, <1>2 DEF VarTypes
<1>3. stopped \in BOOLEAN /\ half \in BOOLEAN
    BY DEF VarTypes
<1>4. CASE /\ Hand(Take(Skip(text, consumed), TextFull))
           /\ consumed' = consumed + TextFull
           /\ UNCHANGED <<text, half>>
    <2>1. text' \in Seq(Chars) /\ consumed' \in 0..Len(text')
        BY <1>4, TextFullFits DEF VarTypes
    <2>2. UNCHANGED <<pos, finished, half, stopped>>
        BY <1>4 DEF Hand
    <2> QED
        BY <1>2, <1>3, <2>1, <2>2
<1>5. ASSUME NEW n, Deliver(n), NEW d, d = Decode(Chunk(n), half, n = 0),
             half' = d.half, TextFeed(d.out)
      PROVE  VarTypes'
    <2>1. PICK last \in BOOLEAN : last = (n = 0)
        OBVIOUS
    <2>2. Chunk(n) \in Seq(Bytes)
        BY <1>5, DeliverTypes
    <2>3. d.out \in Seq(Chars) /\ d.half \in BOOLEAN
        BY <1>3, <1>5, <2>1, <2>2, DecodeTypes, Zenon
    <2>4. text' \in Seq(Chars) /\ consumed' \in 0..Len(text')
        BY <1>5, <2>3, TextFeedHolds
    <2> QED
        BY <1>1, <1>5, <2>3, <2>4, DeliverTypes DEF VarTypes
<1>6. CASE /\ Hand(Skip(text, consumed))
           /\ text' = <<>> /\ consumed' = 0
           /\ UNCHANGED half
    <2>1. text' \in Seq(Chars) /\ consumed' \in 0..Len(text')
        BY <1>6, EmptyChars
    <2>2. UNCHANGED <<pos, finished, half, stopped>>
        BY <1>6 DEF Hand
    <2> QED
        BY <1>2, <1>3, <2>1, <2>2
<1>7. CASE Stop /\ UNCHANGED <<half, textVars>>
    BY <1>2, <1>7 DEF Stop, textVars, VarTypes
<1> QED
    BY <1>4, <1>5, <1>6, <1>7 DEF TextStep

LEMMA LineTypes ==
    ASSUME VarTypes, LineStep, UNCHANGED <<kind, size, body>> PROVE VarTypes'
<1>1. UNCHANGED <<kind, size, body, text, consumed>>
    BY DEF LineStep, textVars
<1>2. stopped \in BOOLEAN /\ half \in BOOLEAN
    BY DEF VarTypes
<1>3. CASE /\ Hand(pending[1])
           /\ UNCHANGED <<half, buffer, trailingCr>>
    BY <1>1, <1>3 DEF Hand, VarTypes
<1>4. ASSUME NEW n, Deliver(n), NEW d, d = Decode(Chunk(n), half, n = 0),
             half' = d.half, trailingCr' \in BOOLEAN
      PROVE  VarTypes'
    <2>1. PICK last \in BOOLEAN : last = (n = 0)
        OBVIOUS
    <2>2. Chunk(n) \in Seq(Bytes)
        BY <1>4, DeliverTypes
    <2>3. d.half \in BOOLEAN
        BY <1>2, <1>4, <2>1, <2>2, DecodeTypes, Zenon
    <2> QED
        BY <1>1, <1>4, <2>3, DeliverTypes DEF VarTypes
<1>5. CASE Stop /\ UNCHANGED <<half, lineVars>>
    BY <1>1, <1>5 DEF Stop, lineVars, VarTypes
<1>6. ASSUME NEW n, NEW l, trailingCr' = (l.cr /\ n # 0) PROVE trailingCr' \in BOOLEAN
    BY <1>6
<1> QED
    BY <1>3, <1>4, <1>5, <1>6 DEF LineStep

LEMMA VarTypesStep == VarTypes /\ [Next]_vars => VarTypes'
<1> SUFFICES ASSUME VarTypes, [Next]_vars PROVE VarTypes'
    OBVIOUS
<1>1. CASE UNCHANGED vars
    BY <1>1 DEF vars, textVars, lineVars, VarTypes
<1>2. CASE Next
    BY <1>2, ByteTypes, TextTypes, LineTypes DEF Next
<1> QED
    BY <1>1, <1>2

-----------------------------------------------------------------------------
(* The steps of the byte iterator                                          *)

LEMMA ByteStepInv ==
    ASSUME VarTypes, ByteInv, ~stopped, ByteStep, UNCHANGED <<kind, size, body>>
    PROVE  ByteInv'
<1> DEFINE r == ByteNextFull([carry |-> carry, head |-> head])
<1>1. PICK p, d, g, rest : p = r.piece /\ d = r.carry /\ g = r.head /\ rest = carry \o head
    OBVIOUS
<1>2. /\ size \in Nat /\ Fit(carry, head)
      /\ carry \in Seq(Chars) /\ head \in Seq(Chars)
      /\ Pieces(out, rest, Take(body, pos), finished)
      /\ rest \in Seq(Chars)
    BY <1>1, ConcatChars DEF VarTypes, ByteInv, Fit
<1>3. /\ p \in Seq(Chars) /\ d \in Seq(Chars) /\ g \in Seq(Chars)
      /\ p \o (d \o g) = rest
      /\ p # <<>> => Fit(d, g) /\ (size > 0 => Len(p) = size)
      /\ p = <<>> => Short(d) /\ g = <<>>
    <2>1. Taken(r.piece, r.carry, r.head, carry, head)
        BY <1>2, NextFullTakes
    <2> QED
        BY <1>1, <2>1 DEF Taken
<1> HIDE DEF r
\* The invariant of the next state, part by part.
<1>4. ASSUME NEW c, NEW h, NEW o, NEW due, NEW end, Fit(c, h), Pieces(o, c \o h, due, end),
             carry' = c, head' = h, out' = o, finished' = end, Take(body, pos') = due,
             stopped' => end /\ c \o h = <<>>
      PROVE  ByteInv'
    <2>1. Fit(carry, head)'
        BY <1>4 DEF Fit
    <2>2. Pieces(out, carry \o head, Take(body, pos), finished)'
        BY <1>4 DEF Pieces
    <2> QED
        BY <1>4, <2>1, <2>2 DEF ByteInv
<1>5. CASE /\ p # <<>>
           /\ Hand(p)
           /\ carry' = d /\ head' = g
    <2>1. Fit(d, g) /\ d \o g \in Seq(Chars)
        BY <1>3, <1>5, ConcatChars
    <2>2. Pieces(Append(out, p), d \o g, Take(body, pos), finished)
        BY <1>2, <1>3, <1>5, <2>1, HandPiece
    <2>3. /\ out' = Append(out, p) /\ finished' = finished /\ pos' = pos /\ ~stopped'
        BY <1>5 DEF Hand
    <2> QED
        BY <1>4, <1>5, <2>1, <2>2, <2>3
<1>6. ASSUME p = <<>>, NEW n, Deliver(n), UNCHANGED out,
             n = 0 => carry' = d /\ head' = g,
             n # 0 => LET f == ByteFeed([carry |-> d, head |-> g], Chunk(n))
                      IN  carry' = f.carry /\ head' = f.head
      PROVE  ByteInv'
    <2>1. Short(d) /\ g = <<>> /\ rest = d
        BY <1>3, <1>6, EmptyChars
    <2>2. PICK b : b = Chunk(n)
        OBVIOUS
    <2>3. /\ n \in Nat /\ finished = FALSE /\ (finished' <=> n = 0) /\ stopped' = stopped
          /\ b \in Seq(Chars) /\ Take(body, pos) \o b = Take(body, pos')
        BY <1>6, <2>2, DeliverTypes
    <2>4. Pieces(out, d \o b, Take(body, pos'), finished')
        BY <1>2, <2>1, <2>3, MoreDue
    <2>5. CASE n = 0
        <3>1. carry' = d /\ head' = <<>>
            BY <1>6, <2>1, <2>5
        <3>2. Fit(d, <<>>)
            BY <1>2, <2>1, EmptyChars DEF Fit, Short
        <3>3. b = <<>>
            <4>1. pos + n < pos + 1 /\ pos + 1 \in Int /\ pos + n \in Int
                BY <2>5 DEF VarTypes
            <4> QED
                BY <2>2, <4>1, SubSeqEmpty DEF Chunk
        <3>4. d \o b = d \o <<>>
            BY <3>3
        <3> QED
            BY <1>4, <1>6, <2>3, <2>4, <3>1, <3>2, <3>4
    <2>6. CASE n # 0
        <3>1. PICK f : f = ByteFeed([carry |-> d, head |-> <<>>], b)
            OBVIOUS
        <3>2. carry' = f.carry /\ head' = f.head
            BY <1>6, <2>1, <2>2, <2>6, <3>1
        <3>3. PICK x, y : x = f.carry /\ y = f.head
            OBVIOUS
        <3>4. Fit(x, y) /\ x \o y = d \o b
            <4>1. Fed(f.carry, f.head, d, b)
                BY <1>2, <2>1, <2>3, <3>1, FeedAppends
            <4> QED
                BY <3>3, <4>1 DEF Fed
        <3> QED
            BY <1>4, <1>6, <2>3, <2>4, <3>2, <3>3, <3>4
    <2> QED
        BY <2>5, <2>6
<1>7. CASE /\ p = <<>> /\ finished
           /\ rest # <<>>
           /\ Hand(rest)
           /\ carry' = <<>> /\ head' = <<>>
    <2>1. rest = d /\ Short(d) /\ rest \o <<>> = rest /\ <<>> \o <<>> = <<>> /\ <<>> \in Seq(Chars)
        BY <1>3, <1>7, EmptyChars
    <2>2. Fit(<<>>, <<>>)
        BY <1>2, EmptyChars DEF Fit
    <2>3. size > 0 => Len(rest) < size
        BY <2>1 DEF Short
    <2>4. Pieces(Append(out, rest), <<>>, Take(body, pos), finished)
        BY <1>2, <1>7, <2>1, <2>3, HandPiece
    <2>5. out' = Append(out, rest) /\ finished' = finished /\ pos' = pos /\ ~stopped'
        BY <1>7 DEF Hand
    <2> QED
        BY <1>4, <1>7, <2>1, <2>2, <2>4, <2>5
<1>8. CASE /\ rest = <<>>
           /\ Stop
           /\ UNCHANGED <<carry, head>>
    <2>1. out' = out /\ finished' = finished /\ pos' = pos /\ finished
        BY <1>8 DEF Stop
    <2> QED
        BY <1>1, <1>2, <1>4, <1>8, <2>1
<1> QED
    BY <1>1, <1>5, <1>6, <1>7, <1>8 DEF ByteStep, byteVars, r

-----------------------------------------------------------------------------
(* The steps of the text iterator                                          *)

LEMMA SkipSkip ==
    ASSUME NEW S, NEW s \in Seq(S), NEW m \in Nat, NEW n \in Nat, m + n <= Len(s)
    PROVE  Skip(s, m + n) = Skip(Skip(s, m), n)
<1>0. Len(s) \in Nat /\ \A i \in 1..Len(s) : s[i] \in S
    BY LenProperties
<1>1. PICK t, k : t = Skip(s, m) /\ k = Len(s) - m
    OBVIOUS
<1>2. k \in Nat /\ n <= k /\ m + k = Len(s)
    BY <1>0, <1>1
<1>3. t \in Seq(S) /\ Len(t) = k /\ \A i \in 1..k : t[i] = s[m + i] /\ t[i] \in S
    <2>1. \A i \in (m + 1)..Len(s) : s[i] \in S
        BY <1>0
    <2>2. m + 1 \in Int /\ Len(s) \in Int
        BY <1>0
    <2>3. /\ t \in Seq(S)
          /\ Len(t) = IF m + 1 <= Len(s) THEN Len(s) - (m + 1) + 1 ELSE 0
          /\ \A i \in 1..(Len(s) - (m + 1) + 1) : t[i] = s[m + 1 + i - 1]
        BY <1>1, <2>1, <2>2, SubSeqProperties DEF Skip
    <2>4. Len(t) = k
        BY <1>0, <1>2, <2>3
    <2>5. \A i \in 1..k : m + 1 + i - 1 = m + i /\ i \in 1..(Len(s) - (m + 1) + 1)
        BY <1>0, <1>2
    <2>6. \A i \in 1..k : t[i] = s[m + i]
        BY <2>3, <2>5
    <2>7. \A i \in 1..k : t[i] \in S
        BY <2>3, <2>4, LenProperties
    <2> QED
        BY <2>3, <2>4, <2>6, <2>7
<1>4. PICK u, v : u = Skip(s, m + n) /\ v = Skip(t, n)
    OBVIOUS
<1>5. v \in Seq(S) /\ Len(v) = k - n /\ \A i \in 1..(k - n) : v[i] = t[n + i]
    <2>1. \A i \in (n + 1)..k : t[i] \in S
        BY <1>3
    <2>2. n + 1 \in Int /\ k \in Int
        BY <1>2
    <2>3. /\ v \in Seq(S)
          /\ Len(v) = IF n + 1 <= k THEN k - (n + 1) + 1 ELSE 0
          /\ \A i \in 1..(k - (n + 1) + 1) : v[i] = t[n + 1 + i - 1]
        BY <1>3, <1>4, <2>1, <2>2, SubSeqProperties DEF Skip
    <2>4. \A i \in 1..(k - n) : n + 1 + i - 1 = n + i /\ i \in 1..(k - (n + 1) + 1)
        BY <1>2
    <2>5. Len(v) = k - n
        BY <1>2, <2>3
    <2> QED
        BY <2>3, <2>4, <2>5
<1>6. u \in Seq(S) /\ Len(u) = k - n /\ \A i \in 1..(k - n) : u[i] = s[m + n + i]
    <2>1. \A i \in (m + n + 1)..Len(s) : s[i] \in S
        BY <1>0
    <2>2. m + n + 1 \in Int /\ Len(s) \in Int
        BY <1>0
    <2>3. /\ u \in Seq(S)
          /\ Len(u) = IF m + n + 1 <= Len(s) THEN Len(s) - (m + n + 1) + 1 ELSE 0
          /\ \A i \in 1..(Len(s) - (m + n + 1) + 1) : u[i] = s[m + n + 1 + i - 1]
        BY <1>4, <2>1, <2>2, SubSeqProperties DEF Skip
    <2>4. \A i \in 1..(k - n) : m + n + 1 + i - 1 = m + n + i /\ i \in 1..(Len(s) - (m + n + 1) + 1)
        BY <1>0, <1>2
    <2>5. Len(u) = k - n
        BY <1>0, <1>2, <2>3
    <2> QED
        BY <2>3, <2>4, <2>5
<1>7. \A i \in 1..(k - n) : u[i] = v[i]
    <2> SUFFICES ASSUME NEW i \in 1..(k - n) PROVE u[i] = v[i]
        OBVIOUS
    <2>1. n + i \in 1..k /\ m + (n + i) = m + n + i
        BY <1>2
    <2>2. t[n + i] = s[m + (n + i)]
        BY <1>3, <2>1
    <2> QED
        BY <1>5, <1>6, <2>1, <2>2
<1>8. u = v
    BY <1>5, <1>6, <1>7, SeqEqual
<1> QED
    BY <1>1, <1>4, <1>8

\* What the decoder makes of one more chunk, and of the end.
LEMMA SoFarStep ==
    ASSUME VarTypes, NEW n, Deliver(n), half = SoFar(pos).half,
           NEW d, d = Decode(Chunk(n), half, n = 0)
    PROVE  /\ d.out \in Seq(Chars)
           /\ n # 0 => /\ SoFar(pos').out = SoFar(pos).out \o d.out
                       /\ SoFar(pos').half = d.half
           /\ n = 0 => WholeText = SoFar(pos).out \o d.out
<1>1. /\ n \in Nat /\ pos \in Nat /\ Chunk(n) \in Seq(Bytes) /\ Take(body, pos) \in Seq(Bytes)
      /\ Take(body, pos) \o Chunk(n) = Take(body, pos')
      /\ finished' => pos' = Len(body)
      /\ (finished' <=> n = 0) /\ pos' = pos + n
    BY DeliverTypes
<1>2. PICK a, b : a = Take(body, pos) /\ b = Chunk(n)
    OBVIOUS
<1>3. PICK s : s = SoFar(pos)
    OBVIOUS
<1>4. half \in BOOLEAN /\ body \in Seq(Bytes) /\ FALSE \in BOOLEAN
    BY DEF VarTypes
<1>5. d.out \in Seq(Chars)
    <2>1. PICK last \in BOOLEAN : last = (n = 0)
        OBVIOUS
    <2> QED
        BY <1>1, <1>4, <2>1, DecodeTypes, Zenon
<1>6. ASSUME n # 0
      PROVE  SoFar(pos').out = SoFar(pos).out \o d.out /\ SoFar(pos').half = d.half
    <2>1. (n = 0) = FALSE
        BY <1>6
    <2>2. d = Part(b, half)
        BY <1>2, <2>1, Zenon DEF Part
    <2>3. s = Part(a, FALSE) /\ SoFar(pos') = Part(a \o b, FALSE) /\ half = s.half
        BY <1>1, <1>2, <1>3, Zenon DEF SoFar
    <2>4. PICK f : f = Part(a \o b, FALSE)
        BY Zenon
    <2>5. f.half = d.half /\ f.out = s.out \o d.out
        <3>1. a \in Seq(Bytes) /\ b \in Seq(Bytes)
            BY <1>1, <1>2
        <3>2. LET x == Part(a, FALSE)
                  y == Part(b, x.half)
                  z == Part(a \o b, FALSE)
              IN  z.half = y.half /\ z.out = x.out \o y.out
            BY <1>4, <3>1, DecodeChunk, Zenon DEF Part
        <3> QED
            BY <2>2, <2>3, <2>4, <3>2, Zenon
    <2> QED
        BY <1>3, <2>3, <2>4, <2>5, Zenon
<1>7. ASSUME n = 0 PROVE WholeText = SoFar(pos).out \o d.out
    <2>1. (n = 0) = TRUE
        BY <1>7
    <2>2. b = <<>>
        <3>1. pos + n < pos + 1 /\ pos + 1 \in Int /\ pos + n \in Int
            BY <1>1, <1>7
        <3> QED
            BY <1>2, <3>1, SubSeqEmpty DEF Chunk
    <2>3. d.out = Flush(half)
        <3>1. d = Decode(<<>>, half, TRUE)
            BY <1>2, <2>1, <2>2, Zenon
        <3> QED
            BY <1>1, <1>4, <3>1, DecodeLast, Zenon
    <2>4. a = body
        <3>1. pos = Len(body)
            BY <1>1, <1>7
        <3> QED
            BY <1>2, <1>4, <3>1, SubSeqFull DEF Take
    <2>5. WholeText = s.out \o Flush(s.half)
        <3>1. s = Decode(body, FALSE, FALSE)
            BY <1>2, <1>3, <2>4, Zenon DEF SoFar, Part
        <3> QED
            BY <1>4, <3>1, DecodeLast, Zenon DEF WholeText
    <2> QED
        BY <1>3, <2>3, <2>5
<1> QED
    BY <1>5, <1>6, <1>7

LEMMA TextStepInv ==
    ASSUME VarTypes, TextInv, ~stopped, TextStep, UNCHANGED <<kind, size, body>>
    PROVE  TextInv'
<1>1. PICK rest, due : /\ rest = Skip(text, consumed)
                       /\ due = IF finished THEN WholeText ELSE SoFar(pos).out
    OBVIOUS
<1>2. /\ size \in Nat /\ text \in Seq(Chars) /\ consumed \in Nat
      /\ rest \in Seq(Chars)
      /\ Pieces(out, rest, due, finished)
      /\ TextFull \in 0..Len(rest) /\ Len(rest) \in Nat
      /\ size > 0 /\ TextFull > 0 => TextFull = size
      /\ size > 0 /\ TextFull = 0 => Len(rest) < size
      /\ consumed + TextFull <= Len(text) /\ consumed + TextFull \in 0..Len(text)
    BY <1>1, TextFullFits, EmptyChars DEF TextInv, VarTypes
<1>3. WholeText' = WholeText
    BY DEF WholeText
<1>4. ASSUME pos' = pos PROVE SoFar(pos)' = SoFar(pos)
    BY <1>4 DEF SoFar
\* The invariant of the next state when nothing was delivered.
<1>5. ASSUME NEW o, NEW r, Pieces(o, r, due, finished), out' = o, r = Skip(text', consumed'),
             finished' = finished, pos' = pos, half' = half,
             stopped' => finished /\ r = <<>>
      PROVE  TextInv'
    <2>1. due = IF finished' THEN WholeText' ELSE SoFar(pos)'.out
        BY <1>1, <1>3, <1>4, <1>5
    <2>2. Pieces(o, r, due, finished)'
        BY <1>5 DEF Pieces
    <2> QED
        BY <1>4, <1>5, <2>1, <2>2 DEF TextInv
<1>6. CASE /\ TextFull > 0
           /\ Hand(Take(rest, TextFull))
           /\ consumed' = consumed + TextFull
           /\ UNCHANGED <<text, half>>
    <2>1. PICK p, r : p = Take(rest, TextFull) /\ r = Skip(rest, TextFull)
        OBVIOUS
    <2>2. p \in Seq(Chars) /\ r \in Seq(Chars) /\ p \o r = rest /\ Len(p) = TextFull
        BY <1>2, <2>1, TakeSkip
    <2>3. p # <<>> /\ (size > 0 => Len(p) = size)
        BY <1>2, <1>6, <2>2, EmptyChars
    <2>4. Pieces(Append(out, p), r, due, finished)
        BY <1>2, <2>2, <2>3, HandPiece
    <2>5. r = Skip(text', consumed')
        <3>1. TextFull \in Nat
            BY <1>2
        <3>2. Skip(text, consumed + TextFull) = Skip(Skip(text, consumed), TextFull)
            BY <1>2, <3>1, SkipSkip
        <3> QED
            BY <1>1, <1>6, <2>1, <3>2
    <2> QED
        BY <1>5, <1>6, <2>1, <2>4, <2>5 DEF Hand
<1>7. ASSUME NEW n, Deliver(n), NEW d, d = Decode(Chunk(n), half, n = 0),
             half' = d.half, TextFeed(d.out), UNCHANGED out
      PROVE  TextInv'
    <2>1. /\ n \in Nat /\ finished = FALSE /\ (finished' <=> n = 0) /\ stopped' = stopped
          /\ finished' \in BOOLEAN
        BY <1>7, DeliverTypes
    <2>2. half = SoFar(pos).half /\ due = SoFar(pos).out
        BY <1>1, <2>1 DEF TextInv
    <2>3. /\ d.out \in Seq(Chars)
          /\ n # 0 => SoFar(pos').out = due \o d.out /\ SoFar(pos').half = d.half
          /\ n = 0 => WholeText = due \o d.out
        BY <1>7, <2>2, SoFarStep
    <2>4. Skip(text', consumed') = rest \o d.out
        BY <1>1, <1>7, <2>3, TextFeedHolds
    <2>5. Pieces(out, rest \o d.out, due \o d.out, finished')
        BY <1>2, <2>1, <2>3, MoreDue
    <2>6. SoFar(pos)' = SoFar(pos')
        BY DEF SoFar
    <2>7. due \o d.out = IF finished' THEN WholeText' ELSE SoFar(pos)'.out
        BY <1>3, <2>1, <2>3, <2>6
    <2>8. Pieces(out, Skip(text, consumed),
                 IF finished THEN WholeText ELSE SoFar(pos).out, finished)'
        BY <1>7, <2>4, <2>5, <2>7 DEF Pieces
    <2>9. (~finished => half = SoFar(pos).half)'
        BY <1>7, <2>1, <2>3, <2>6
    <2> QED
        BY <2>1, <2>8, <2>9 DEF TextInv
<1>8. CASE /\ TextFull = 0 /\ finished
           /\ rest # <<>>
           /\ Hand(rest)
           /\ text' = <<>> /\ consumed' = 0
           /\ UNCHANGED half
    <2>1. rest \o <<>> = rest /\ <<>> \in Seq(Chars) /\ Skip(text', consumed') = <<>>
        BY <1>2, <1>8, EmptyChars, TakeNothing
    <2>2. size > 0 => Len(rest) < size
        BY <1>2, <1>8
    <2>3. Pieces(Append(out, rest), <<>>, due, finished)
        BY <1>2, <1>8, <2>1, <2>2, HandPiece
    <2> QED
        BY <1>5, <1>8, <2>1, <2>3 DEF Hand
<1>9. CASE rest = <<>> /\ Stop /\ UNCHANGED <<half, textVars>>
    BY <1>1, <1>2, <1>5, <1>9 DEF Stop, textVars
<1> QED
    BY <1>1, <1>6, <1>7, <1>8, <1>9 DEF TextStep

LEMMA InvStep == IInv /\ [Next]_vars => IInv'
<1> SUFFICES ASSUME IInv, [Next]_vars PROVE IInv'
    OBVIOUS
<1>1. VarTypes /\ VarTypes'
    BY VarTypesStep DEF IInv
<1>2. ASSUME kind' = "bytes" PROVE ByteInv'
    <2>1. kind = "bytes" /\ ByteInv
        BY <1>2 DEF Next, vars, IInv
    <2>2. CASE UNCHANGED vars
        BY <2>1, <2>2 DEF vars, byteVars, ByteInv, Fit, Pieces
    <2>3. CASE Next
        <3>1. ByteStep /\ ~stopped /\ UNCHANGED <<kind, size, body>>
            BY <2>1, <2>3 DEF Next, TextStep, LineStep
        <3> QED
            BY <1>1, <2>1, <3>1, ByteStepInv
    <2> QED
        BY <2>2, <2>3
<1>3. ASSUME kind' = "text" PROVE TextInv'
    <2>1. kind = "text" /\ TextInv
        BY <1>3 DEF Next, vars, IInv
    <2>2. CASE UNCHANGED vars
        BY <2>1, <2>2 DEF vars, textVars, TextInv, Pieces, SoFar, WholeText
    <2>3. CASE Next
        <3>1. TextStep /\ ~stopped /\ UNCHANGED <<kind, size, body>>
            BY <2>1, <2>3 DEF Next, ByteStep, LineStep
        <3> QED
            BY <1>1, <2>1, <3>1, TextStepInv
    <2> QED
        BY <2>2, <2>3
<1> QED
    BY <1>1, <1>2, <1>3 DEF IInv

-----------------------------------------------------------------------------
(* The theorems                                                            *)

\* The invariant holds in every reachable state.
LEMMA Invariant == Spec => []IInv
BY InvInit, InvStep, PTL DEF Spec

\* What was handed out is a prefix of what is due in the end, and all of it once
\* the iterator has stopped.
LEMMA PiecesExactOf ==
    ASSUME NEW o, NEW rest, NEW due, NEW more \in Seq(Chars), NEW whole,
           NEW end \in BOOLEAN, NEW halted \in BOOLEAN,
           Pieces(o, rest, due, end), due \o more = whole,
           halted => rest = <<>> /\ more = <<>>
    PROVE  /\ IsPrefix(Flat(o), whole)
           /\ halted => Flat(o) = whole
           /\ \A i \in DOMAIN o : o[i] # <<>>
           /\ size > 0 => \A i \in DOMAIN o :
                 Len(o[i]) = size \/ (i = Len(o) /\ end /\ Len(o[i]) < size)
<1>1. PICK f : f = Flat(o)
    OBVIOUS
<1>2. f \in Seq(Chars) /\ rest \in Seq(Chars) /\ f \o rest = due /\ o \in Seq(Seq(Chars))
    BY <1>1 DEF Pieces
<1>3. rest \o more \in Seq(Chars) /\ f \o (rest \o more) = whole
    <2>1. (f \o rest) \o more = f \o (rest \o more)
        BY <1>2, AssocChars, Zenon
    <2> QED
        BY <1>2, <2>1, ConcatChars
<1>4. IsPrefix(f, whole)
    BY <1>2, <1>3, PrefixOfConcat
<1>5. halted => f = whole
    BY <1>2, <1>3, EmptyChars
<1>6. DOMAIN o = 1..Len(o)
    BY <1>2, LenProperties
<1>7. /\ \A i \in DOMAIN o : o[i] # <<>>
      /\ size > 0 => \A i \in DOMAIN o :
            Len(o[i]) = size \/ (i = Len(o) /\ end /\ Len(o[i]) < size)
    BY <1>6 DEF Pieces
<1> QED
    BY <1>1, <1>4, <1>5, <1>7

\* What is still to come.
LEMMA BytesToCome ==
    ASSUME VarTypes
    PROVE  /\ Take(body, pos) \in Seq(Bytes) /\ Skip(body, pos) \in Seq(Bytes)
           /\ Skip(body, pos) \in Seq(Chars) /\ Len(Take(body, pos)) = pos
           /\ Take(body, pos) \o Skip(body, pos) = body
           /\ finished => Skip(body, pos) = <<>>
<1>1. /\ Take(body, pos) \in Seq(Bytes) /\ Len(Take(body, pos)) = pos
      /\ Skip(body, pos) \in Seq(Bytes) /\ Len(Skip(body, pos)) = Len(body) - pos
      /\ Take(body, pos) \o Skip(body, pos) = body
    BY TakeSkip DEF VarTypes
<1>2. Skip(body, pos) \in Seq(Chars)
    <2>1. Bytes \subseteq Chars
        BY DEF Chars
    <2> QED
        BY <1>1, <2>1
<1>3. ASSUME finished PROVE Skip(body, pos) = <<>>
    <2>1. pos = Len(body) /\ Len(body) \in Nat
        BY <1>3, LenProperties DEF VarTypes
    <2>2. Len(Skip(body, pos)) = 0
        BY <1>1, <2>1
    <2> QED
        BY <1>2, <2>2, EmptyChars
<1> QED
    BY <1>1, <1>2, <1>3

\* The text of the rest of the body follows the text of what was delivered.
LEMMA TextToCome ==
    ASSUME VarTypes
    PROVE  \E more \in Seq(Chars) : SoFar(pos).out \o more = WholeText
<1>1. PICK a, b : a = Take(body, pos) /\ b = Skip(body, pos)
    OBVIOUS
<1>2. a \in Seq(Bytes) /\ b \in Seq(Bytes) /\ a \o b = body /\ body \in Seq(Bytes)
    BY <1>1, BytesToCome DEF VarTypes
<1>3. FALSE \in BOOLEAN
    OBVIOUS
<1>4. PICK s : s = Part(a, FALSE)
    BY Zenon
<1>5. PICK e : e = Part(b, s.half)
    OBVIOUS
<1>6. PICK f : f = Part(body, FALSE)
    BY Zenon
<1>7. /\ s.out \in Seq(Chars) /\ e.out \in Seq(Chars) /\ f.half \in BOOLEAN
      /\ f.out = s.out \o e.out
    <2>1. LET d == Part(a, FALSE)
              g == Part(b, d.half)
              h == Part(a \o b, FALSE)
          IN  /\ d.out \in Seq(Chars) /\ g.out \in Seq(Chars) /\ g.half \in BOOLEAN
              /\ h.half = g.half /\ h.out = d.out \o g.out
        BY <1>2, <1>3, DecodeChunk, Zenon DEF Part
    <2> QED
        BY <1>2, <1>4, <1>5, <1>6, <2>1, Zenon
<1>8. WholeText = f.out \o Flush(f.half) /\ Flush(f.half) \in Seq(Chars)
    BY <1>2, <1>3, <1>6, DecodeLast, Zenon DEF WholeText, Part
<1>9. SoFar(pos) = s
    BY <1>1, <1>4, Zenon DEF SoFar
<1>10. (s.out \o e.out) \o Flush(f.half) = s.out \o (e.out \o Flush(f.half))
    BY <1>7, <1>8, AssocChars, Zenon
<1>11. e.out \o Flush(f.half) \in Seq(Chars)
    BY <1>7, <1>8, ConcatChars
<1>12. SoFar(pos).out \o (e.out \o Flush(f.half)) = WholeText
    BY <1>7, <1>8, <1>9, <1>10, Zenon
<1> QED
    BY <1>11, <1>12, Zenon

LEMMA InvImpliesExact == IInv => PiecesAreExact
<1> SUFFICES ASSUME IInv PROVE PiecesAreExact
    OBVIOUS
<1>0. VarTypes /\ finished \in BOOLEAN /\ stopped \in BOOLEAN
    BY DEF IInv, VarTypes
<1>1. ASSUME kind = "bytes"
      PROVE  /\ IsPrefix(Flat(out), body)
             /\ stopped => Flat(out) = body
             /\ \A i \in DOMAIN out : out[i] # <<>>
             /\ size > 0 => \A i \in DOMAIN out :
                   Len(out[i]) = size \/ (i = Len(out) /\ finished /\ Len(out[i]) < size)
    <2>1. PICK rest, due, more :
            rest = carry \o head /\ due = Take(body, pos) /\ more = Skip(body, pos)
        OBVIOUS
    <2>2. /\ Pieces(out, rest, due, finished)
          /\ stopped => finished /\ rest = <<>>
        BY <1>1, <2>1 DEF IInv, ByteInv
    <2>3. more \in Seq(Chars) /\ due \o more = body /\ (finished => more = <<>>)
        BY <1>0, <2>1, BytesToCome
    <2> QED
        BY <1>0, <2>2, <2>3, PiecesExactOf
<1>2. ASSUME kind = "text"
      PROVE  /\ IsPrefix(Flat(out), WholeText)
             /\ stopped => Flat(out) = WholeText
             /\ \A i \in DOMAIN out : out[i] # <<>>
             /\ size > 0 => \A i \in DOMAIN out :
                   Len(out[i]) = size \/ (i = Len(out) /\ finished /\ Len(out[i]) < size)
    <2>1. PICK rest, due :
            /\ rest = Skip(text, consumed)
            /\ due = IF finished THEN WholeText ELSE SoFar(pos).out
        OBVIOUS
    <2>2. /\ Pieces(out, rest, due, finished)
          /\ stopped => finished /\ rest = <<>>
        BY <1>2, <2>1 DEF IInv, TextInv
    <2>3. \E more \in Seq(Chars) : due \o more = WholeText /\ (finished => more = <<>>)
        <3>1. CASE finished
            <4>1. due \in Seq(Chars)
                BY <2>2, ConcatChars DEF Pieces
            <4> QED
                BY <2>1, <3>1, <4>1, EmptyChars
        <3>2. CASE ~finished
            BY <1>0, <2>1, <3>2, TextToCome
        <3> QED
            BY <3>1, <3>2
    <2>4. PICK more \in Seq(Chars) : due \o more = WholeText /\ (finished => more = <<>>)
        BY <2>3
    <2> QED
        BY <1>0, <2>2, <2>4, PiecesExactOf
<1> QED
    BY <1>1, <1>2 DEF PiecesAreExact

LEMMA InvImpliesTypes == IInv => TypeOK
<1> SUFFICES ASSUME IInv PROVE TypeOK
    OBVIOUS
<1>1. VarTypes
    BY DEF IInv
<1>2. ASSUME kind = "bytes"
      PROVE  /\ size > 0 => Len(carry) <= size
             /\ Len(carry) + Len(head) + Len(FlattenSeq(out)) = pos
    <2>1. Fit(carry, head) /\ Pieces(out, carry \o head, Take(body, pos), finished)
        BY <1>2 DEF IInv, ByteInv
    <2>2. PICK f : f = FlattenSeq(out)
        OBVIOUS
    <2>3. f \in Seq(Chars) /\ f \o (carry \o head) = Take(body, pos)
        BY <2>1, <2>2 DEF Pieces, Flat
    <2>4. carry \in Seq(Chars) /\ head \in Seq(Chars) /\ (size > 0 => Len(carry) <= size)
        BY <2>1 DEF Fit
    <2>5. carry \o head \in Seq(Chars) /\ Len(carry \o head) = Len(carry) + Len(head)
        BY <2>4, ConcatChars
    <2>6. Len(f \o (carry \o head)) = Len(f) + Len(carry \o head)
        BY <2>3, <2>5, ConcatChars
    <2>7. Len(f) \in Nat /\ Len(carry) \in Nat /\ Len(head) \in Nat
        BY <2>3, <2>4, EmptyChars
    <2>8. Len(Take(body, pos)) = pos
        BY <1>1, BytesToCome
    <2>9. Len(f) + (Len(carry) + Len(head)) = pos
        BY <2>3, <2>5, <2>6, <2>8, Zenon
    <2> QED
        BY <2>2, <2>4, <2>7, <2>9
<1> QED
    BY <1>1, <1>2 DEF TypeOK, VarTypes

\* The buffers have their types; the carry of ByteChunker never outgrows one
\* piece, so the unsigned size - carry.len() of feed does not wrap; and every
\* byte that was delivered was handed out or is in exactly one buffer.
THEOREM RegroupTypes == Spec => []TypeOK
<1>1. Spec => []IInv
    BY Invariant
<1>2. IInv => TypeOK
    BY InvImpliesTypes
<1> QED
    BY <1>1, <1>2, PTL

\* iter_bytes yields the body and iter_text its text, in pieces of exactly
\* chunk_size units with the remainder last, for every body, every chunk_size
\* and every way the network cuts the body up, also inside a character.
THEOREM PiecesExact == Spec => []PiecesAreExact
<1>1. Spec => []IInv
    BY Invariant
<1>2. IInv => PiecesAreExact
    BY InvImpliesExact
<1> QED
    BY <1>1, <1>2, PTL

=============================================================================
