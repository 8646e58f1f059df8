------------------------------- MODULE Lists --------------------------------
(***************************************************************************)
(* Facts about lists and numbers that the proofs of several components     *)
(* need.                                                                   *)
(***************************************************************************)
EXTENDS FiniteSetTheorems, SequenceTheorems, WellFoundedInduction, SequencesExt, TLAPS

IsList(s) == s \in Seq(Range(s))

(* Of the empty list.                                                      *)
LEMMA EmptyList ==
    IsList(<< >>) /\ Range(<< >>) = {} /\ Len(<< >>) = 0 /\ Len(<< >>) + 1 = 1
  BY DEF IsList, Range

(* What Append makes of a list.                                            *)
IsAppended(a, s, e) ==
    /\ IsList(a) /\ Range(a) = Range(s) \cup {e}
    /\ Len(s) \in Nat /\ DOMAIN s = 1 .. Len(s)
    /\ Len(a) = Len(s) + 1 /\ DOMAIN a = 1 .. Len(s) + 1
    /\ \A i \in 1 .. Len(s) : a[i] = s[i]
    /\ a[Len(s) + 1] = e

LEMMA Listed ==
    ASSUME NEW s, IsList(s), NEW e
    PROVE  IsAppended(Append(s, e), s, e)
  <1> DEFINE a == Append(s, e)
             T == Range(s) \cup {e}
  <1>1. s \in Seq(T)
    BY DEF IsList
  <1>2. /\ a \in Seq(T) /\ Len(a) = Len(s) + 1 /\ \A i \in 1 .. Len(s) : a[i] = s[i]
        /\ a[Len(s) + 1] = e
    BY <1>1, AppendProperties
  <1>3. Len(s) \in Nat /\ DOMAIN s = 1 .. Len(s) /\ DOMAIN a = 1 .. Len(a)
    BY <1>1, <1>2, LenProperties
  <1> HIDE DEF a
  <1>4. Range(a) = T
    BY <1>2, <1>3 DEF Range
  <1>5. IsList(a)
    BY <1>2, <1>4 DEF IsList
  <1>6. IsAppended(a, s, e)
    BY <1>2, <1>3, <1>4, <1>5 DEF IsAppended
  <1> QED
    BY <1>6 DEF a

(* What Tail leaves of a list.                                             *)
IsTail(t, s) ==
    /\ IsList(t) /\ Len(s) \in Nat \ {0} /\ DOMAIN s = 1 .. Len(s)
    /\ Len(t) = Len(s) - 1 /\ DOMAIN t = 1 .. Len(s) - 1
    /\ \A i \in 1 .. Len(s) - 1 : t[i] = s[i + 1]
    /\ Head(s) = s[1]

LEMMA Tailed ==
    ASSUME NEW s, IsList(s), s # << >>
    PROVE  IsTail(Tail(s), s)
  <1> DEFINE t == Tail(s)
             R == Range(s)
  <1>1. s \in Seq(R)
    BY DEF IsList
  <1>2. Len(s) \in Nat \ {0} /\ DOMAIN s = 1 .. Len(s)
    BY <1>1, EmptySeq, LenProperties
  <1>3. /\ t \in Seq(R) /\ Len(t) = Len(s) - 1 /\ Head(s) = s[1]
        /\ \A i \in 1 .. Len(s) - 1 : t[i] = s[i + 1]
    BY <1>1, HeadTailProperties
  <1>4. DOMAIN t = 1 .. Len(s) - 1
    BY <1>3, LenProperties
  <1> HIDE DEF t, R
  <1>5. t \in Seq(Range(t))
    <2>1. t = [i \in 1 .. Len(s) - 1 |-> t[i]] /\ Len(s) - 1 \in Nat
      BY <1>2, <1>3, <1>4, LenProperties
    <2> PICK n : n = Len(s) - 1 /\ n \in Nat
      BY <2>1
    <2>2. \A i \in 1 .. n : t[i] \in Range(t)
      BY <1>4 DEF Range
    <2>3. t \in [1 .. n -> Range(t)]
      BY <2>1, <2>2
    <2> QED BY <2>3, SeqDef
  <1>6. IsTail(t, s)
    BY <1>2, <1>3, <1>4, <1>5 DEF IsTail, IsList
  <1> QED
    BY <1>6 DEF t

(* What \o makes of two lists.                                             *)
IsJoined(c, s, t) ==
    /\ Len(s) \in Nat /\ Len(t) \in Nat
    /\ Len(c) = Len(s) + Len(t) /\ DOMAIN c = 1 .. Len(s) + Len(t)
    /\ \A i \in 1 .. Len(s) : c[i] = s[i]
    /\ \A i \in 1 .. Len(t) : c[Len(s) + i] = t[i]

LEMMA Joined ==
    ASSUME NEW S, NEW s \in Seq(S), NEW t \in Seq(S)
    PROVE  s \o t \in Seq(S) /\ IsJoined(s \o t, s, t)
  <1> DEFINE c == s \o t
  <1>1. Len(s) \in Nat /\ Len(t) \in Nat
    BY LenProperties
  <1>2. /\ c \in Seq(S) /\ Len(c) = Len(s) + Len(t)
        /\ \A i \in 1 .. Len(s) + Len(t) : c[i] = IF i <= Len(s) THEN s[i] ELSE t[i - Len(s)]
    BY ConcatProperties
  <1>3. DOMAIN c = 1 .. Len(s) + Len(t)
    BY <1>2, LenProperties
  <1> PICK m, n : m = Len(s) /\ n = Len(t) /\ m \in Nat /\ n \in Nat
    BY <1>1
  <1> HIDE DEF c
  <1>4. \A i \in 1 .. m : c[i] = s[i]
    BY <1>2
  <1>5. \A i \in 1 .. n : c[m + i] = t[i]
    BY <1>2
  <1>6. IsJoined(c, s, t)
    BY <1>1, <1>2, <1>3, <1>4, <1>5 DEF IsJoined
  <1> QED
    BY <1>2, <1>6 DEF c

(* A function on the first n numbers is a list.                            *)
LEMMA ListOf ==
    ASSUME NEW n \in Nat, NEW t, DOMAIN t = 1 .. n, t = [i \in 1 .. n |-> t[i]]
    PROVE  IsList(t)
  <1>1. t \in [1 .. n -> Range(t)]
    BY DEF Range
  <1>2. t \in Seq(Range(t))
    BY <1>1, SeqDef
  <1> QED
    BY <1>2 DEF IsList

(* What dropping the first d elements leaves of a list.                    *)
LEMMA Dropped ==
    ASSUME NEW s, IsList(s), NEW d \in 1 .. Len(s)
    PROVE  LET t == SubSeq(s, d + 1, Len(s))
           IN  /\ IsList(t) /\ Len(t) = Len(s) - d /\ DOMAIN t = 1 .. Len(s) - d
               /\ \A i \in 1 .. Len(s) - d : t[i] = s[i + d]
  <1> PICK R, m : R = Range(s) /\ m = Len(s)
    OBVIOUS
  <1> PICK t : t = SubSeq(s, d + 1, m)
    OBVIOUS
  <1>1. s \in Seq(R) /\ m \in Nat /\ DOMAIN s = 1 .. m /\ R = {s[i] : i \in 1 .. m}
    BY LenProperties DEF IsList, Range
  <1>2. \A i \in d + 1 .. m : s[i] \in R
    BY <1>1
  <1>3. /\ t \in Seq(R) /\ Len(t) = (IF d + 1 <= m THEN m - (d + 1) + 1 ELSE 0)
        /\ \A i \in 1 .. m - (d + 1) + 1 : t[i] = s[d + 1 + i - 1]
    BY <1>1, <1>2, SubSeqProperties
  <1>4. Len(t) = m - d /\ \A i \in 1 .. m - d : t[i] = s[i + d]
    BY <1>1, <1>3
  <1>5. DOMAIN t = 1 .. m - d /\ t = [i \in 1 .. m - d |-> t[i]]
    BY <1>3, <1>4, LenProperties
  <1>6. m - d \in Nat
    BY <1>1
  <1>7. IsList(t)
    BY <1>5, <1>6, ListOf
  <1> QED
    BY <1>4, <1>5, <1>7

(* A non-empty set of naturals has a least element.                        *)
LEMMA LeastOf ==
    ASSUME NEW T, T \subseteq Nat, T # {}
    PROVE  \E x \in T : \A y \in T : x <= y
  <1>1. IsWellFoundedOn({p \in Nat \X Nat : p[1] < p[2]}, Nat)
    BY NatLessThanWellFounded DEF OpToRel
  <1> PICK R : R = {p \in Nat \X Nat : p[1] < p[2]}
    OBVIOUS
  <1>2. PICK x \in T : \A y \in T : << y, x >> \notin R
    BY <1>1, WFMin
  <1>3. \A y \in T : ~(y < x)
    BY <1>2
  <1> QED
    BY <1>3

(* Ranks in a strict order of a finite set: every place is taken.          *)
LEMMA Ranking ==
    ASSUME NEW S, IsFiniteSet(S), NEW R,
           \A x \in S : << x, x >> \notin R,
           \A x, y \in S : x # y => << x, y >> \in R \/ << y, x >> \in R,
           \A x, y, z \in S : << x, y >> \in R /\ << y, z >> \in R => << x, z >> \in R
    PROVE  \A n \in 1 .. Cardinality(S) :
              \E x \in S : Cardinality({y \in S : << y, x >> \in R}) = n - 1
  <1> DEFINE Below(x) == {y \in S : << y, x >> \in R}
             rank == [x \in S |-> Cardinality(Below(x))]
             N == Cardinality(S)
             T == 0 .. N - 1
  <1>1. N \in Nat
    BY FS_CardinalityType
  <1>2. \A x \in S : IsFiniteSet(Below(x)) /\ Cardinality(Below(x)) \in Nat
    BY FS_Subset, FS_CardinalityType
  <1>3. \A x \in S : Cardinality(Below(x)) \in T
    <2> SUFFICES ASSUME NEW x \in S PROVE Cardinality(Below(x)) \in T
      OBVIOUS
    <2>1. Below(x) \subseteq S \ {x} /\ IsFiniteSet(S \ {x}) /\ Cardinality(S \ {x}) = N - 1
      BY FS_RemoveElement
    <2>2. Cardinality(Below(x)) \in Nat
      BY <1>2
    <2> HIDE DEF Below, N
    <2>3. Cardinality(Below(x)) <= Cardinality(S \ {x})
      BY <2>1, FS_Subset
    <2> QED BY <1>1, <2>1, <2>2, <2>3
  <1>4. ASSUME NEW x \in S, NEW y \in S, << x, y >> \in R PROVE Cardinality(Below(x)) # Cardinality(Below(y))
    <2>1. Below(x) \subseteq Below(y) /\ x \in Below(y) /\ x \notin Below(x)
      BY <1>4
    <2> HIDE DEF Below
    <2> QED BY <1>2, <2>1, FS_Subset
  <1>5. rank \in Injection(S, T)
    <2>1. rank \in [S -> T]
      BY <1>3
    <2>2. ASSUME NEW x \in S, NEW y \in S, rank[x] = rank[y] PROVE x = y
      <3>1. Cardinality(Below(x)) = Cardinality(Below(y))
        BY <2>2
      <3> HIDE DEF Below, rank
      <3> QED BY <1>4, <3>1
    <2> HIDE DEF rank
    <2> QED BY <2>1, <2>2 DEF Injection, IsInjective
  <1>6. IsFiniteSet(T) /\ Cardinality(T) = N
    <2>1. 0 \in Int /\ N - 1 \in Int /\ (IF 0 > N - 1 THEN 0 ELSE N - 1 - 0 + 1) = N
      BY <1>1
    <2> HIDE DEF N
    <2> QED BY <2>1, FS_Interval
  <1>7. rank \in Surjection(S, T)
    <2> HIDE DEF rank, T
    <2> QED BY <1>5, <1>6, FS_Injection
  <1>8. \A n \in 1 .. N : \E x \in S : rank[x] = n - 1
    <2>1. \A t \in T : \E x \in S : rank[x] = t
      BY <1>7 DEF Surjection
    <2>2. \A n \in 1 .. N : n - 1 \in T
      BY <1>1
    <2> HIDE DEF rank, T, N
    <2> QED BY <2>1, <2>2
  <1> QED
    BY <1>8

(* Lined up by rank, every element has one place, those before it first.   *)
LinedUp(q, S, R) ==
    /\ q \in Bijection(1 .. Cardinality(S), S)
    /\ \A m, n \in 1 .. Cardinality(S) : m < n => << q[m], q[n] >> \in R

LEMMA RankedList ==
    ASSUME NEW S, IsFiniteSet(S), NEW R,
           \A x, y \in S : x # y => << x, y >> \in R \/ << y, x >> \in R,
           \A x \in S : << x, x >> \notin R,
           \A x, y, z \in S : << x, y >> \in R /\ << y, z >> \in R => << x, z >> \in R,
           NEW q \in [1 .. Cardinality(S) -> S],
           \A n \in 1 .. Cardinality(S) : Cardinality({y \in S : << y, q[n] >> \in R}) = n - 1
    PROVE  LinedUp(q, S, R)
  <1> DEFINE Below(x) == {y \in S : << y, x >> \in R}
             N == Cardinality(S)
             rank == [x \in S |-> Cardinality(Below(x))]
  <1>1. N \in Nat /\ IsFiniteSet(1 .. N) /\ Cardinality(1 .. N) = N
    <2>1. N \in Nat
      BY FS_CardinalityType
    <2> HIDE DEF N
    <2>2. 1 \in Int /\ N \in Int /\ (IF 1 > N THEN 0 ELSE N - 1 + 1) = N
      BY <2>1
    <2> QED BY <2>1, <2>2, FS_Interval
  <1>2. \A x \in S : IsFiniteSet(Below(x)) /\ Cardinality(Below(x)) \in Nat
    BY FS_Subset, FS_CardinalityType
  <1>3. ASSUME NEW x \in S, NEW y \in S, << x, y >> \in R PROVE rank[x] < rank[y]
    <2>1. Below(x) \subseteq Below(y) /\ x \in Below(y) /\ x \notin Below(x)
      BY <1>3
    <2>2. rank[x] = Cardinality(Below(x)) /\ rank[y] = Cardinality(Below(y))
      OBVIOUS
    <2> HIDE DEF Below, rank
    <2>3. Cardinality(Below(x)) <= Cardinality(Below(y)) /\ Cardinality(Below(x)) # Cardinality(Below(y))
      BY <1>2, <2>1, FS_Subset
    <2> QED BY <1>2, <2>2, <2>3
  <1>4. \A n \in 1 .. N : q[n] \in S /\ rank[q[n]] = n - 1
    OBVIOUS
  <1>5. q \in [1 .. N -> S]
    OBVIOUS
  <1> HIDE DEF rank, N
  <1>6. q \in Bijection(1 .. N, S)
    <2>2. ASSUME NEW m \in 1 .. N, NEW n \in 1 .. N, q[m] = q[n] PROVE m = n
      <3>1. m - 1 = n - 1
        BY <1>4, <2>2
      <3> QED BY <1>1, <3>1
    <2>3. q \in Injection(1 .. N, S)
      BY <1>5, <2>2 DEF Injection, IsInjective
    <2>4. q \in Surjection(1 .. N, S)
      BY <1>1, <2>3, FS_Injection DEF N
    <2> QED BY <2>3, <2>4 DEF Bijection
  <1>7. ASSUME NEW m \in 1 .. N, NEW n \in 1 .. N, m < n PROVE << q[m], q[n] >> \in R
    <2>1. q[m] \in S /\ q[n] \in S /\ rank[q[m]] = m - 1 /\ rank[q[n]] = n - 1
      BY <1>4
    <2>2. q[m] # q[n] /\ ~(rank[q[n]] < rank[q[m]])
      BY <1>1, <1>7, <2>1
    <2> QED BY <1>3, <2>1, <2>2
  <1> QED
    BY <1>6, <1>7 DEF LinedUp, N

(* The elements of two lists joined.                                       *)
LEMMA RangeJoined ==
    ASSUME NEW T, NEW s \in Seq(T), NEW t \in Seq(T)
    PROVE  s \o t \in Seq(T) /\ Range(s \o t) = Range(s) \cup Range(t)
  <1> PICK c, m, n : c = s \o t /\ m = Len(s) /\ n = Len(t)
    OBVIOUS
  <1>1. c \in Seq(T) /\ IsJoined(c, s, t)
    BY Joined
  <1>2. DOMAIN s = 1 .. m /\ DOMAIN t = 1 .. n /\ m \in Nat /\ n \in Nat
    BY LenProperties
  <1>3. /\ DOMAIN c = 1 .. m + n
        /\ \A i \in 1 .. m : c[i] = s[i]
        /\ \A i \in 1 .. n : c[m + i] = t[i]
    BY <1>1 DEF IsJoined
  <1>4. ASSUME NEW i \in 1 .. m + n PROVE c[i] \in Range(s) \cup Range(t)
    <2>1. CASE i <= m
      BY <1>2, <1>3, <1>4, <2>1 DEF Range
    <2>2. CASE ~(i <= m)
      <3>1. i - m \in 1 .. n /\ m + (i - m) = i
        BY <1>2, <1>4, <2>2
      <3> QED BY <1>2, <1>3, <3>1 DEF Range
    <2> QED BY <2>1, <2>2
  <1>5. ASSUME NEW i \in 1 .. m PROVE s[i] \in Range(c)
    <2>1. i \in 1 .. m + n
      BY <1>2, <1>5
    <2> QED BY <1>3, <2>1 DEF Range
  <1>6. ASSUME NEW i \in 1 .. n PROVE t[i] \in Range(c)
    <2>1. m + i \in 1 .. m + n
      BY <1>2, <1>6
    <2> QED BY <1>3, <2>1 DEF Range
  <1>7. Range(c) = {c[i] : i \in 1 .. m + n} /\ Range(s) = {s[i] : i \in 1 .. m} /\ Range(t) = {t[i] : i \in 1 .. n}
    BY <1>2, <1>3 DEF Range
  <1>8. Range(c) \subseteq Range(s) \cup Range(t)
    BY <1>4, <1>7
  <1>9. Range(s) \subseteq Range(c) /\ Range(t) \subseteq Range(c)
    BY <1>5, <1>6, <1>7
  <1> QED BY <1>1, <1>8, <1>9

(* What FlattenSeq makes of lists is a list of all their elements.         *)
LEMMA Flattened ==
    ASSUME NEW T, NEW seqs \in Seq(Seq(T))
    PROVE  /\ FlattenSeq(seqs) \in Seq(T)
           /\ Range(FlattenSeq(seqs)) = UNION {Range(seqs[i]) : i \in DOMAIN seqs}
  <1> DEFINE n == Len(seqs)
             Joins(f, m) == f = [i \in 1 .. m |-> IF i = 1 THEN seqs[i] ELSE f[i - 1] \o seqs[i]]
  <1>1. n \in Nat /\ DOMAIN seqs = 1 .. n /\ \A i \in 1 .. n : seqs[i] \in Seq(T)
    BY LenProperties
  <1>2. CASE n = 0
    <2>1. seqs = << >>
      BY <1>2, EmptySeq
    <2>2. FlattenSeq(seqs) = seqs
      BY <1>2 DEF FlattenSeq
    <2>3. DOMAIN seqs = {} /\ Range(seqs) = {}
      BY <1>1, <1>2 DEF Range
    <2> QED BY <2>1, <2>2, <2>3, EmptySeq
  <1>3. CASE n # 0
    <2>1. \A m \in Nat : \E f : Joins(f, m)
      <3> HIDE DEF Joins
      <3> DEFINE bad == {m \in Nat : \A f : ~Joins(f, m)}
      <3>1. SUFFICES ASSUME bad # {} PROVE FALSE
        OBVIOUS
      <3>2. PICK m \in bad : \A y \in bad : m <= y
        BY <3>1, LeastOf
      <3>3. m \in Nat /\ \A f : ~Joins(f, m)
        OBVIOUS
      <3>4. m # 0
        <4> DEFINE f == [i \in 1 .. 0 |-> IF i = 1 THEN seqs[i] ELSE << >>]
        <4>1. f = [i \in 1 .. 0 |-> IF i = 1 THEN seqs[i] ELSE f[i - 1] \o seqs[i]]
          OBVIOUS
        <4> HIDE DEF f
        <4>2. Joins(f, 0)
          BY <4>1 DEF Joins
        <4> QED BY <3>3, <4>2
      <3>5. m - 1 \in Nat /\ m - 1 \notin bad
        <4> HIDE DEF bad
        <4> QED BY <3>2, <3>3, <3>4
      <3>6. PICK f : Joins(f, m - 1)
        BY <3>5
      <3> DEFINE g == [i \in 1 .. m |-> IF i = 1 THEN seqs[i] ELSE f[i - 1] \o seqs[i]]
      <3>7. \A i \in 1 .. m : i # 1 => g[i - 1] = f[i - 1]
        <4> SUFFICES ASSUME NEW i \in 1 .. m, i # 1 PROVE g[i - 1] = f[i - 1]
          OBVIOUS
        <4>1. i - 1 \in 1 .. m /\ i - 1 \in 1 .. m - 1
          BY <3>3
        <4>2. f[i - 1] = IF i - 1 = 1 THEN seqs[i - 1] ELSE f[i - 1 - 1] \o seqs[i - 1]
          BY <3>6, <4>1 DEF Joins
        <4> QED BY <4>1, <4>2
      <3>8. g = [i \in 1 .. m |-> IF i = 1 THEN seqs[i] ELSE g[i - 1] \o seqs[i]]
        BY <3>7
      <3> HIDE DEF g
      <3>9. Joins(g, m)
        BY <3>8 DEF Joins
      <3> QED BY <3>3, <3>9
    <2> DEFINE flat == CHOOSE f : Joins(f, n)
    <2>2. FlattenSeq(seqs) = flat[n]
      BY <1>3 DEF FlattenSeq
    <2>3. Joins(flat, n)
      <3>1. \E f : Joins(f, n)
        BY <1>1, <2>1
      <3> HIDE DEF Joins
      <3> QED BY <3>1
    <2>4. \A i \in 1 .. n : flat[i] \in Seq(T) /\ Range(flat[i]) = UNION {Range(seqs[j]) : j \in 1 .. i}
      <3> PICK flow : flow = flat
        OBVIOUS
      <3> HIDE DEF flat
      <3> DEFINE Good(i) == flow[i] \in Seq(T) /\ Range(flow[i]) = UNION {Range(seqs[j]) : j \in 1 .. i}
                 bad == {i \in 1 .. n : ~Good(i)}
      <3> SUFFICES ASSUME bad # {} PROVE FALSE
        OBVIOUS
      <3>1. PICK i \in bad : \A y \in bad : i <= y
        <4>1. bad \subseteq Nat
          OBVIOUS
        <4> HIDE DEF bad
        <4> QED BY <4>1, LeastOf
      <3>2. i \in 1 .. n /\ flow[i] = IF i = 1 THEN seqs[i] ELSE flow[i - 1] \o seqs[i]
        BY <2>3
      <3>3. i # 1
        <4>1. 1 .. 1 = {1}
          OBVIOUS
        <4>2. i = 1 => Good(i)
          BY <1>1, <3>2, <4>1
        <4> QED BY <4>2
      <3>4. i - 1 \in 1 .. n /\ i - 1 \notin bad
        <4> HIDE DEF bad
        <4> QED BY <1>1, <3>1, <3>2, <3>3
      <3>5. Good(i - 1) /\ seqs[i] \in Seq(T)
        BY <1>1, <3>2, <3>4
      <3>6. flow[i] \in Seq(T) /\ Range(flow[i]) = Range(flow[i - 1]) \cup Range(seqs[i])
        BY <3>2, <3>3, <3>5, RangeJoined
      <3>7. 1 .. i = (1 .. i - 1) \cup {i}
        BY <3>2
      <3>8. Good(i)
        BY <3>5, <3>6, <3>7
      <3> QED BY <3>8
    <2>5. n \in 1 .. n
      BY <1>1, <1>3
    <2> QED BY <1>1, <2>2, <2>4, <2>5
  <1> QED
    BY <1>2, <1>3
=============================================================================
