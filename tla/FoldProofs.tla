----------------------------- MODULE FoldProofs -----------------------------
(***************************************************************************)
(* What FoldLeft computes, for any operator: the facts about folds that    *)
(* the proofs about sizes and offsets need.  The provers instantiate no    *)
(* operator in a lemma, so the operator is a constant here, and a module   *)
(* that folds with one of its own is an instance:                          *)
(* F == INSTANCE FoldProofs WITH Op <- ...                                 *)
(***************************************************************************)
EXTENDS Integers, SequencesExt, WellFoundedInduction, TLAPS

CONSTANT Op(_, _)

LEMMA LeastNatural ==
  ASSUME NEW S \in SUBSET Nat, S # {}
  PROVE  \E n \in S : \A m \in S : n <= m
<1>1. IsWellFoundedOn(OpToRel(<, Nat), Nat)
  BY NatLessThanWellFounded
<1>2. PICK n \in S : \A m \in S : <<m, n>> \notin OpToRel(<, Nat)
  BY <1>1, WFMin
<1>3. \A m \in S : ~(m < n)
  BY <1>2 DEF OpToRel
<1> QED BY <1>3

LEMMA TopOfInterval ==
  ASSUME NEW n \in Nat, NEW T \in SUBSET (1..n), T # {}
  PROVE  Max(T) \in T /\ \A t \in T : t <= Max(T)
<1> DEFINE Depths == {n - t : t \in T}
<1>1. Depths \in SUBSET Nat /\ Depths # {}
  <2>1. \A t \in T : t \in 1..n /\ n - t \in Nat
    OBVIOUS
  <2> QED BY <2>1
<1>2. PICK d \in Depths : \A e \in Depths : d <= e
  BY <1>1, LeastNatural
<1>3. PICK t \in T : d = n - t
  OBVIOUS
<1>4. \A u \in T : t >= u
  <2> TAKE u \in T
  <2>1. d <= n - u
    BY <1>2
  <2> QED BY <1>3, <2>1
<1> QED BY <1>4 DEF Max

LEMMA TopIsLast == ASSUME NEW n \in Nat \ {0} PROVE Max(1..n) = n
<1>1. n \in 1..n
  OBVIOUS
<1>2. Max(1..n) \in 1..n /\ n <= Max(1..n)
  BY <1>1, TopOfInterval
<1> QED BY <1>2

\* Induction up to n, over a set of the numbers reached.
LEMMA UpTo ==
  ASSUME NEW n \in Nat, NEW S, 0 \in S,
         \A k \in 1..n : k - 1 \in S => k \in S
  PROVE  \A k \in 0..n : k \in S
<1> DEFINE Missing == {k \in 0..n : k \notin S}
<1> SUFFICES ASSUME Missing # {} PROVE FALSE
  OBVIOUS
<1>1. PICK k \in Missing : \A i \in Missing : k <= i
  BY LeastNatural, Missing \in SUBSET Nat
<1>2. k # 0
  OBVIOUS
<1>3. k \in 1..n /\ k - 1 \in 0..n /\ k - 1 \notin Missing
  BY <1>1, <1>2
<1> QED BY <1>3

\* The recursive function that the library's fold is defined by, on the sets
\* of indices up to n.
Iterates(F, base, seq, n) ==
  F = [s \in SUBSET (1..n) |-> IF s = {} THEN base
                               ELSE Op(F[s \ {Max(s)}], seq[Max(s)])]

LEMMA IteratesExists ==
  ASSUME NEW base, NEW seq, NEW n \in Nat
  PROVE  \E F : Iterates(F, base, seq, n)
<1> DEFINE Missing == {m \in Nat : ~\E F : Iterates(F, base, seq, m)}
<1> SUFFICES ASSUME Missing # {} PROVE FALSE
  OBVIOUS
<1>1. PICK m \in Missing : \A k \in Missing : m <= k
  BY LeastNatural, Missing \in SUBSET Nat
<1>2. m # 0
  <2> DEFINE F == [s \in SUBSET (1..0) |-> base]
  <2>1. Iterates(F, base, seq, 0)
    BY 1..0 = {} DEF Iterates
  <2> QED BY <2>1, <1>1
<1>3. m - 1 \in Nat /\ m - 1 \notin Missing
  BY <1>1, <1>2
<1>4. PICK G : Iterates(G, base, seq, m - 1)
  BY <1>3
<1> DEFINE F == [s \in SUBSET (1..m) |->
                   IF s = {} THEN base
                   ELSE Op(G[s \ {Max(s)}], seq[Max(s)])]
<1>5. \A s \in SUBSET (1..m - 1) : F[s] = G[s]
  <2> TAKE s \in SUBSET (1..m - 1)
  <2>1. s \in SUBSET (1..m)
    BY <1>3
  <2> QED BY <1>4, <2>1 DEF Iterates
<1>6. \A s \in SUBSET (1..m) : s # {} => s \ {Max(s)} \in SUBSET (1..m - 1)
  <2> TAKE s \in SUBSET (1..m)
  <2> HAVE s # {}
  <2>1. Max(s) \in s /\ \A t \in s : t <= Max(s)
    BY TopOfInterval
  <2>2. PICK top \in s : top = Max(s)
    BY <2>1
  <2>3. top \in 1..m /\ \A t \in s : t \in 1..m /\ t <= top
    BY <2>1, <2>2
  <2>4. \A t \in s \ {top} : t \in 1..m - 1
    BY <2>3
  <2> QED BY <2>2, <2>4
<1>7. \A s \in SUBSET (1..m) :
        s # {} => F[s] = Op(F[s \ {Max(s)}], seq[Max(s)])
  BY <1>5, <1>6
<1>8. F = [s \in SUBSET (1..m) |->
             IF s = {} THEN base ELSE Op(F[s \ {Max(s)}], seq[Max(s)])]
  BY <1>7
<1>9. Iterates(F, base, seq, m)
  BY <1>8 DEF Iterates
<1> QED BY <1>9, <1>1

-----------------------------------------------------------------------------
\* The intermediate results of a fold over seq, from base on.
Steps(h, base, seq, n) ==
  /\ h[0] = base
  /\ \A k \in 1..n : h[k] = Op(h[k - 1], seq[k])

\* A fold takes the elements from the first to the last.
LEMMA FoldSteps ==
  ASSUME NEW base, NEW seq, NEW n \in Nat, DOMAIN seq = 1..n
  PROVE  \E h : Steps(h, base, seq, n) /\ h[n] = FoldLeft(Op, base, seq)
<1> DEFINE F == CHOOSE F : Iterates(F, base, seq, n)
           h == [k \in 0..n |-> F[1..k]]
<1>1. Iterates(F, base, seq, n)
  BY IteratesExists
<1>2. FoldLeft(Op, base, seq) = F[1..n]
  BY DEF FoldLeft, MapThenFoldSet, Iterates
<1>3. h[0] = base
  <2>1. 1..0 = {} /\ {} \in SUBSET (1..n) /\ 0 \in 0..n
    OBVIOUS
  <2>2. F[{}] = base
    BY <1>1, <2>1, Zenon DEF Iterates
  <2> QED BY <2>1, <2>2
<1>4. \A k \in 1..n : h[k] = Op(h[k - 1], seq[k])
  <2> TAKE k \in 1..n
  <2>1. 1..k \in SUBSET (1..n) /\ 1..k # {} /\ Max(1..k) = k
    <3>1. k \in Nat \ {0} /\ k \in 1..k /\ k <= n
      OBVIOUS
    <3>2. Max(1..k) = k
      BY <3>1, TopIsLast
    <3>3. \A i \in 1..k : i \in 1..n
      BY <3>1
    <3> QED BY <3>1, <3>2, <3>3
  <2>2. (1..k) \ {k} = 1..k - 1
    OBVIOUS
  <2>3. F[1..k] = Op(F[1..k - 1], seq[k])
    BY <1>1, <2>1, <2>2 DEF Iterates
  <2> QED BY <2>3
<1>5. h[n] = F[1..n]
  OBVIOUS
<1> HIDE DEF h
<1>6. Steps(h, base, seq, n)
  BY <1>3, <1>4, <1>5 DEF Steps
<1> QED BY <1>2, <1>5, <1>6

LEMMA StepsAreUnique ==
  ASSUME NEW base, NEW seq, NEW n \in Nat,
         NEW h, Steps(h, base, seq, n), NEW g, Steps(g, base, seq, n)
  PROVE  \A k \in 0..n : h[k] = g[k]
<1> DEFINE Differ == {k \in 0..n : h[k] # g[k]}
<1> SUFFICES ASSUME Differ # {} PROVE FALSE
  OBVIOUS
<1>1. PICK k \in Differ : \A i \in Differ : k <= i
  BY LeastNatural, Differ \in SUBSET Nat
<1>2. k # 0
  BY <1>1 DEF Steps
<1>3. k \in 1..n /\ k - 1 \in 0..n /\ k - 1 \notin Differ
  BY <1>1, <1>2
<1>4. h[k] = Op(h[k - 1], seq[k]) /\ g[k] = Op(g[k - 1], seq[k])
  BY <1>3 DEF Steps
<1> QED BY <1>1, <1>3, <1>4

\* The same, read from the steps to the fold.
LEMMA StepsFold ==
  ASSUME NEW base, NEW seq, NEW n \in Nat, DOMAIN seq = 1..n,
         NEW h, Steps(h, base, seq, n)
  PROVE  FoldLeft(Op, base, seq) = h[n]
<1>1. PICK g : Steps(g, base, seq, n) /\ g[n] = FoldLeft(Op, base, seq)
  BY FoldSteps
<1>2. \A k \in 0..n : g[k] = h[k]
  BY <1>1, StepsAreUnique
<1> QED BY <1>1, <1>2

LEMMA FoldNil ==
  ASSUME NEW base
  PROVE  FoldLeft(Op, base, <<>>) = base
<1>1. DOMAIN <<>> = 1..0
  OBVIOUS
<1>2. PICK h : Steps(h, base, <<>>, 0) /\ h[0] = FoldLeft(Op, base, <<>>)
  BY <1>1, FoldSteps
<1> QED BY <1>2 DEF Steps

LEMMA FoldAppend ==
  ASSUME NEW S, NEW seq \in Seq(S), NEW x \in S, NEW base
  PROVE  FoldLeft(Op, base, Append(seq, x)) = Op(FoldLeft(Op, base, seq), x)
<1> DEFINE n == Len(seq)
           longer == Append(seq, x)
<1>1. /\ n \in Nat /\ DOMAIN seq = 1..n /\ DOMAIN longer = 1..n + 1
      /\ longer[n + 1] = x /\ \A k \in 1..n : longer[k] = seq[k]
  OBVIOUS
<1> HIDE DEF n, longer
<1>2. PICK h : Steps(h, base, seq, n) /\ h[n] = FoldLeft(Op, base, seq)
  BY <1>1, FoldSteps
<1>3. PICK g : Steps(g, base, longer, n + 1) /\ g[n + 1] = FoldLeft(Op, base, longer)
  BY <1>1, FoldSteps, n + 1 \in Nat
<1>4. h[n] = g[n]
  <2>1. Steps(g, base, seq, n)
    BY <1>1, <1>3 DEF Steps
  <2>2. n \in Nat /\ n \in 0..n /\ Steps(h, base, seq, n)
    BY <1>1, <1>2
  <2> QED BY <2>1, <2>2, StepsAreUnique
<1>5. g[n + 1] = Op(g[n], longer[n + 1])
  BY <1>1, <1>3, n + 1 \in 1..n + 1, (n + 1) - 1 = n DEF Steps
<1> QED BY <1>1, <1>2, <1>3, <1>4, <1>5 DEF longer

\* Folding over two sequences, one after the other.
LEMMA FoldConcat ==
  ASSUME NEW S, NEW s \in Seq(S), NEW t \in Seq(S), NEW base
  PROVE  FoldLeft(Op, base, s \o t) = FoldLeft(Op, FoldLeft(Op, base, s), t)
<1> DEFINE n == Len(s)
           m == Len(t)
           both == s \o t
<1>1. /\ n \in Nat /\ m \in Nat /\ DOMAIN s = 1..n /\ DOMAIN t = 1..m
      /\ DOMAIN both = 1..n + m /\ \A k \in 1..n : both[k] = s[k]
      /\ \A k \in 1..m : both[n + k] = t[k]
  OBVIOUS
<1> HIDE DEF n, m, both
<1>2. PICK h : Steps(h, base, s, n) /\ h[n] = FoldLeft(Op, base, s)
  BY <1>1, FoldSteps
<1>3. PICK f : Steps(f, base, both, n + m) /\ f[n + m] = FoldLeft(Op, base, both)
  BY <1>1, FoldSteps, n + m \in Nat
<1>4. f[n] = h[n]
  <2>1. Steps(f, base, s, n)
    BY <1>1, <1>3 DEF Steps
  <2>2. n \in Nat /\ n \in 0..n /\ Steps(h, base, s, n)
    BY <1>1, <1>2
  <2> QED BY <2>1, <2>2, StepsAreUnique
<1> DEFINE g == [k \in 0..m |-> f[n + k]]
<1>5. Steps(g, f[n], t, m)
  <2>1. g[0] = f[n]
    BY <1>1
  <2>2. \A k \in 1..m : g[k] = Op(g[k - 1], t[k])
    <3> TAKE k \in 1..m
    <3>1. /\ n + k \in 1..n + m /\ k \in 0..m /\ k - 1 \in 0..m
          /\ (n + k) - 1 = n + (k - 1)
      BY <1>1
    <3>2. f[n + k] = Op(f[n + (k - 1)], both[n + k])
      BY <1>3, <3>1 DEF Steps
    <3> QED BY <1>1, <3>1, <3>2
  <2> QED BY <2>1, <2>2 DEF Steps
<1>6. FoldLeft(Op, f[n], t) = g[m]
  BY <1>1, <1>5, StepsFold
<1> QED BY <1>1, <1>2, <1>3, <1>4, <1>6 DEF both

\* A fold stays in a set that no step leaves.
LEMMA FoldInvariant ==
  ASSUME NEW T, NEW base \in T, NEW seq, NEW n \in Nat, DOMAIN seq = 1..n,
         \A t \in T, k \in 1..n : Op(t, seq[k]) \in T
  PROVE  FoldLeft(Op, base, seq) \in T
<1>1. PICK h : Steps(h, base, seq, n) /\ h[n] = FoldLeft(Op, base, seq)
  BY FoldSteps
<1> DEFINE Outside == {k \in 0..n : h[k] \notin T}
<1> SUFFICES ASSUME Outside # {} PROVE FALSE
  BY <1>1
<1>2. PICK k \in Outside : \A i \in Outside : k <= i
  BY LeastNatural, Outside \in SUBSET Nat
<1>3. k # 0
  BY <1>1, <1>2 DEF Steps
<1>4. k \in 1..n /\ k - 1 \in 0..n /\ k - 1 \notin Outside
  BY <1>2, <1>3
<1> QED BY <1>1, <1>2, <1>4 DEF Steps

-----------------------------------------------------------------------------
\* Sequences put together one after the other are folded together.
LEMMA FlattenIsFold ==
  ASSUME NEW S, NEW seqs \in Seq(Seq(S)),
         \A s, t \in Seq(S) : Op(s, t) = s \o t
  PROVE  FlattenSeq(seqs) = FoldLeft(Op, <<>>, seqs)
<1> DEFINE n == Len(seqs)
           IsFlatten(f) == f = [i \in 1..n |->
                                  IF i = 1 THEN seqs[i] ELSE f[i - 1] \o seqs[i]]
<1>1. n \in Nat /\ DOMAIN seqs = 1..n /\ \A i \in 1..n : seqs[i] \in Seq(S)
  OBVIOUS
<1> HIDE DEF n
<1>2. PICK h : Steps(h, <<>>, seqs, n) /\ h[n] = FoldLeft(Op, <<>>, seqs)
  BY <1>1, FoldSteps
<1>3. \A k \in 0..n : h[k] \in Seq(S)
  <2> DEFINE Reached == {k \in 0..n : h[k] \in Seq(S)}
  <2>1. 0 \in Reached
    <3>1. h[0] = <<>> /\ <<>> \in Seq(S) /\ 0 \in 0..n
      BY <1>1, <1>2 DEF Steps
    <3> QED BY <3>1
  <2>2. \A k \in 1..n : k - 1 \in Reached => k \in Reached
    <3> SUFFICES ASSUME NEW k \in 1..n, h[k - 1] \in Seq(S)
                 PROVE  h[k] \in Seq(S) /\ k \in 0..n
      OBVIOUS
    <3>1. h[k] = Op(h[k - 1], seqs[k])
      BY <1>2 DEF Steps
    <3>2. seqs[k] \in Seq(S)
      BY <1>1
    <3>3. h[k] = h[k - 1] \o seqs[k]
      BY <3>1, <3>2
    <3> QED BY <1>1, <3>2, <3>3
  <2> HIDE DEF Reached
  <2>3. \A k \in 0..n : k \in Reached
    BY <1>1, <2>1, <2>2, UpTo
  <2> QED BY <2>3 DEF Reached
<1>4. CASE n = 0
  <2>1. Len(seqs) = 0 /\ seqs = <<>>
    BY <1>4 DEF n
  <2> QED BY <1>2, <1>4, <2>1 DEF Steps, FlattenSeq
<1>5. CASE n # 0
  <2> DEFINE g == [i \in 1..n |-> h[i]]
  <2>1. \A i \in 1..n : h[i] = IF i = 1 THEN seqs[i] ELSE h[i - 1] \o seqs[i]
    <3> TAKE i \in 1..n
    <3>1. i - 1 \in 0..n /\ h[i - 1] \in Seq(S) /\ seqs[i] \in Seq(S)
      BY <1>1, <1>3
    <3>2. h[i] = h[i - 1] \o seqs[i]
      BY <1>2, <3>1 DEF Steps
    <3>3. i = 1 => h[i - 1] = <<>> /\ h[i] = seqs[i]
      <4>1. h[0] = <<>>
        BY <1>2 DEF Steps
      <4>2. \A u \in Seq(S) : <<>> \o u = u
        OBVIOUS
      <4>3. CASE i = 1
        <5>1. i - 1 = 0 /\ h[i - 1] = <<>>
          BY <4>1, <4>3
        <5>2. <<>> \o seqs[i] = seqs[i]
          BY <3>1, <4>2
        <5> QED BY <3>2, <5>1, <5>2
      <4> QED BY <4>3
    <3> QED BY <3>2, <3>3
  <2>2. IsFlatten(g)
    <3>1. \A i \in 1..n : i # 1 => i - 1 \in 1..n
      BY <1>1
    <3>2. \A i \in 1..n :
            h[i] = IF i = 1 THEN seqs[i] ELSE g[i - 1] \o seqs[i]
      BY <2>1, <3>1
    <3> QED BY <3>2, Zenon
  <2> DEFINE f == CHOOSE f : IsFlatten(f)
  <2>3. IsFlatten(f)
    BY <2>2
  <2>4. \A i \in 1..n : f[i] = IF i = 1 THEN seqs[i] ELSE f[i - 1] \o seqs[i]
    BY <2>3
  <2> HIDE DEF f
  <2>5. \A k \in 0..n : k = 0 \/ f[k] = h[k]
    <3> DEFINE Reached == {k \in 0..n : k = 0 \/ f[k] = h[k]}
    <3>1. 0 \in Reached /\ \A k \in 1..n : k - 1 \in Reached => k \in Reached
      BY <1>1, <2>1, <2>4
    <3> HIDE DEF Reached
    <3>2. \A k \in 0..n : k \in Reached
      BY <1>1, <3>1, UpTo
    <3> QED BY <3>2 DEF Reached
  <2>6. FlattenSeq(seqs) = f[n]
    BY <1>5 DEF FlattenSeq, f, n
  <2> QED BY <1>1, <1>2, <1>5, <2>5, <2>6
<1> QED BY <1>4, <1>5
=============================================================================
