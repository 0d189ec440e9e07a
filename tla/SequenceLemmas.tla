--------------------------- MODULE SequenceLemmas ---------------------------
(***************************************************************************)
(* Lists as the swapchains keep them: what they hold (Range), whether a    *)
(* value is in one twice (IsInjective), and how long they are.             *)
(***************************************************************************)
EXTENDS Integers, Sequences, Functions, FiniteSetTheorems, SequenceTheorems, TLAPS

\* A value appended to a list.
LEMMA Appended ==
    ASSUME NEW S, NEW s \in Seq(S), NEW x \in S
    PROVE  /\ Append(s, x) \in Seq(S)
           /\ Range(Append(s, x)) = Range(s) \cup {x}
           /\ IsInjective(s) /\ x \notin Range(s) => IsInjective(Append(s, x))
<1>1. DOMAIN Append(s, x) = DOMAIN s \cup {Len(s) + 1} /\ DOMAIN s = 1..Len(s) /\ Len(s) \in Nat
  OBVIOUS
<1>2. /\ \A i \in 1..Len(s) : Append(s, x)[i] = s[i]
      /\ Append(s, x)[Len(s) + 1] = x
  OBVIOUS
<1>3. Range(Append(s, x)) = Range(s) \cup {x}
  BY <1>1, <1>2 DEF Range
<1>4. IsInjective(s) /\ x \notin Range(s) => IsInjective(Append(s, x))
  BY <1>1, <1>2 DEF Range, IsInjective
<1> QED BY <1>3, <1>4

\* The first value taken from a list.
LEMMA Taken ==
    ASSUME NEW S, NEW s \in Seq(S), s # <<>>
    PROVE  /\ Head(s) \in S /\ Tail(s) \in Seq(S)
           /\ Range(s) = Range(Tail(s)) \cup {Head(s)}
           /\ IsInjective(s) => IsInjective(Tail(s)) /\ Head(s) \notin Range(Tail(s))
<1>1. /\ Len(s) \in Nat \ {0} /\ DOMAIN s = 1..Len(s)
      /\ Tail(s) \in Seq(S) /\ DOMAIN Tail(s) = 1..(Len(s) - 1)
      /\ Head(s) = s[1] /\ s[1] \in S
  OBVIOUS
<1>2. \A i \in 1..(Len(s) - 1) : Tail(s)[i] = s[i + 1]
  OBVIOUS
<1>3. Range(s) = Range(Tail(s)) \cup {Head(s)}
  <2>1. ASSUME NEW i \in DOMAIN s PROVE s[i] \in Range(Tail(s)) \cup {Head(s)}
    <3>1. CASE i = 1
      BY <3>1, <1>1
    <3>2. CASE i # 1
      <4>1. i - 1 \in DOMAIN Tail(s) /\ Tail(s)[i - 1] = s[i]
        BY <3>2, <1>1, <1>2
      <4> QED BY <4>1 DEF Range
    <3> QED BY <3>1, <3>2
  <2>2. ASSUME NEW i \in DOMAIN Tail(s) PROVE Tail(s)[i] \in Range(s)
    <3>1. i + 1 \in DOMAIN s /\ Tail(s)[i] = s[i + 1]
      BY <1>1, <1>2
    <3> QED BY <3>1 DEF Range
  <2>3. Head(s) \in Range(s)
    BY <1>1 DEF Range
  <2> QED BY <2>1, <2>2, <2>3 DEF Range
<1>4. ASSUME IsInjective(s)
      PROVE  IsInjective(Tail(s)) /\ Head(s) \notin Range(Tail(s))
  <2>1. IsInjective(Tail(s))
    BY <1>1, <1>2, <1>4 DEF IsInjective
  <2>2. ASSUME NEW i \in DOMAIN Tail(s) PROVE Tail(s)[i] # Head(s)
    BY <1>1, <1>2, <1>4 DEF IsInjective
  <2> QED BY <2>1, <2>2 DEF Range
<1> QED BY <1>1, <1>3, <1>4

\* Lists of no and of one value.
LEMMA Short ==
    /\ Range(<<>>) = {} /\ IsInjective(<<>>)
    /\ \A x : Range(<<x>>) = {x}
  BY DEF Range, IsInjective

\* A list behind another.
LEMMA ConcatRange ==
    ASSUME NEW S, NEW s \in Seq(S), NEW u \in Seq(S)
    PROVE  Range(s \o u) = Range(s) \cup Range(u)
<1>1. /\ Len(s) \in Nat /\ DOMAIN s = 1..Len(s)
      /\ Len(u) \in Nat /\ DOMAIN u = 1..Len(u)
      /\ DOMAIN (s \o u) = 1..(Len(s) + Len(u))
      /\ \A i \in 1..(Len(s) + Len(u)) :
            (s \o u)[i] = IF i <= Len(s) THEN s[i] ELSE u[i - Len(s)]
  OBVIOUS
<1>2. ASSUME NEW i \in DOMAIN (s \o u) PROVE (s \o u)[i] \in Range(s) \cup Range(u)
  <2>1. CASE i <= Len(s)
    BY <1>1, <2>1 DEF Range
  <2>2. CASE i > Len(s)
    <3>1. i - Len(s) \in DOMAIN u /\ (s \o u)[i] = u[i - Len(s)]
      BY <1>1, <2>2
    <3> QED BY <3>1 DEF Range
  <2> QED BY <1>1, <2>1, <2>2
<1>3. ASSUME NEW i \in DOMAIN s PROVE s[i] \in Range(s \o u)
  <2>1. i \in DOMAIN (s \o u) /\ (s \o u)[i] = s[i]
    BY <1>1
  <2> QED BY <2>1 DEF Range
<1>4. ASSUME NEW i \in DOMAIN u PROVE u[i] \in Range(s \o u)
  <2>1. Len(s) + i \in DOMAIN (s \o u) /\ (s \o u)[Len(s) + i] = u[i]
    BY <1>1
  <2> QED BY <2>1 DEF Range
<1> QED BY <1>2, <1>3, <1>4 DEF Range

\* A value appended to the second of two lists.
LEMMA ConcatAppend ==
    ASSUME NEW S, NEW s \in Seq(S), NEW u \in Seq(S), NEW x \in S
    PROVE  s \o Append(u, x) = Append(s \o u, x)
<1>1. s \o u \in Seq(S) /\ <<x>> \in Seq(S)
  BY ConcatProperties
<1>2. Append(u, x) = u \o <<x>> /\ Append(s \o u, x) = (s \o u) \o <<x>>
  BY <1>1, AppendIsConcat
<1> QED BY <1>1, <1>2, ConcatAssociative

\* A function with a new value at one place.
LEMMA Updated ==
    ASSUME NEW S, NEW T, NEW f \in [S -> T], NEW x \in S, NEW v \in T, NEW g,
           g = [f EXCEPT ![x] = v]
    PROVE  g \in [S -> T] /\ g[x] = v /\ \A y \in S : y # x => g[y] = f[y]
  OBVIOUS

\* A list without repetition has as many values as elements.
LEMMA DistinctLength ==
    ASSUME NEW S, NEW s \in Seq(S), IsInjective(s)
    PROVE  Cardinality(Range(s)) = Len(s)
<1>1. Len(s) \in Nat /\ DOMAIN s = 1..Len(s) /\ s \in [1..Len(s) -> Range(s)]
  BY DEF Range
<1>2. s \in Injection(1..Len(s), Range(s))
  BY <1>1 DEF Injection
<1>3. s \in Surjection(1..Len(s), Range(s))
  BY <1>1 DEF Surjection, Range
<1>4. ExistsBijection(1..Len(s), Range(s))
  BY <1>2, <1>3 DEF Bijection, ExistsBijection
<1>5. IsFiniteSet(1..Len(s)) /\ Cardinality(1..Len(s)) = Len(s)
  BY <1>1, FS_Interval
<1> QED BY <1>4, <1>5, FS_Bijection

\* The first value of the first of two lists.
LEMMA ConcatTaken ==
    ASSUME NEW S, NEW s \in Seq(S), NEW u \in Seq(S), s # <<>>
    PROVE  /\ s \o u # <<>> /\ Head(s \o u) = Head(s)
           /\ Tail(s \o u) = Tail(s) \o u
<1>1. /\ Len(s) \in Nat \ {0} /\ Len(u) \in Nat /\ Head(s) \in S /\ Tail(s) \in Seq(S)
      /\ Len(Tail(s)) = Len(s) - 1
      /\ \A i \in 1..(Len(s) - 1) : Tail(s)[i] = s[i + 1]
  OBVIOUS
<1>2. /\ s \o u \in Seq(S) /\ Len(s \o u) = Len(s) + Len(u)
      /\ \A i \in 1..(Len(s) + Len(u)) :
            (s \o u)[i] = IF i <= Len(s) THEN s[i] ELSE u[i - Len(s)]
  BY ConcatProperties
<1>3. s \o u # <<>> /\ Head(s \o u) = Head(s)
  BY <1>1, <1>2
<1>4. /\ Tail(s \o u) \in Seq(S) /\ Len(Tail(s \o u)) = Len(s) + Len(u) - 1
      /\ \A i \in 1..(Len(s) + Len(u) - 1) : Tail(s \o u)[i] = (s \o u)[i + 1]
  BY <1>1, <1>2, <1>3, HeadTailProperties
<1>5. /\ Tail(s) \o u \in Seq(S) /\ Len(Tail(s) \o u) = Len(s) - 1 + Len(u)
      /\ \A i \in 1..(Len(s) - 1 + Len(u)) : (Tail(s) \o u)[i]
            = IF i <= Len(s) - 1 THEN Tail(s)[i] ELSE u[i - (Len(s) - 1)]
  BY <1>1, ConcatProperties
<1>6. ASSUME NEW i \in 1..(Len(s) + Len(u) - 1) PROVE Tail(s \o u)[i] = (Tail(s) \o u)[i]
  <2>1. i + 1 \in 1..(Len(s) + Len(u)) /\ i \in 1..(Len(s) - 1 + Len(u))
    BY <1>1
  <2>2. CASE i <= Len(s) - 1
    BY <1>1, <1>2, <1>4, <1>5, <2>1, <2>2
  <2>3. CASE i > Len(s) - 1
    <3>1. (i + 1) - Len(s) = i - (Len(s) - 1)
      BY <1>1
    <3> QED BY <1>1, <1>2, <1>4, <1>5, <2>1, <2>3, <3>1
  <2> QED BY <1>1, <2>2, <2>3
<1>7. Len(Tail(s \o u)) = Len(Tail(s) \o u)
  BY <1>1, <1>4, <1>5
<1>8. Tail(s \o u) = Tail(s) \o u
  BY <1>1, <1>4, <1>5, <1>6, <1>7, SeqEqual
<1> QED BY <1>3, <1>8

\* A value that goes from the head of the last of three lists to the middle, which
\* is empty.
LEMMA HeadMoved ==
    ASSUME NEW S, NEW s \in Seq(S), NEW u \in Seq(S), u # <<>>
    PROVE  (s \o <<Head(u)>>) \o Tail(u) = (s \o <<>>) \o u
<1>1. Head(u) \in S /\ Tail(u) \in Seq(S) /\ <<Head(u)>> \in Seq(S)
  OBVIOUS
<1>2. <<Head(u)>> \o Tail(u) = u
  OBVIOUS
<1> QED BY <1>1, <1>2, ConcatAssociative, ConcatEmptySeq

\* u is s without some elements that follow one another.
Shortened(s, u) ==
    \E m, n \in 0..Len(s) :
        m <= n /\ u = SubSeq(s, 1, m) \o SubSeq(s, n + 1, Len(s))

\* A part cut out of a list.
LEMMA CutOut ==
    ASSUME NEW S, NEW p \in Seq(S), NEW q \in Seq(S), NEW r \in Seq(S)
    PROVE  Shortened((p \o q) \o r, p \o r)
<1> DEFINE s == (p \o q) \o r
           m == Len(p)
           n == Len(p) + Len(q)
<1>1. /\ Len(p) \in Nat /\ Len(q) \in Nat /\ Len(r) \in Nat /\ p \o q \in Seq(S)
      /\ Len(p \o q) = Len(p) + Len(q) /\ s \in Seq(S) /\ Len(s) = n + Len(r)
  BY ConcatProperties
<1>2. \A i \in 1..m : s[i] = p[i]
  <2> TAKE i \in 1..m
  <2>1. s[i] = (p \o q)[i]
    BY <1>1, ConcatProperties
  <2> QED BY <1>1, <2>1, ConcatProperties
<1>3. \A i \in 1..Len(r) : s[n + i] = r[i]
  <2> TAKE i \in 1..Len(r)
  <2>1. n + i \in 1..(Len(p \o q) + Len(r)) /\ n + i > Len(p \o q) /\ n + i - Len(p \o q) = i
    BY <1>1
  <2> QED BY <1>1, <2>1, ConcatProperties
<1> HIDE DEF s
<1>4. SubSeq(s, 1, m) = p
  <2>1. \A i \in 1..m : s[i] \in S
    BY <1>1
  <2>2. /\ SubSeq(s, 1, m) \in Seq(S) /\ Len(SubSeq(s, 1, m)) = m
        /\ \A i \in 1..m : SubSeq(s, 1, m)[i] = s[i]
    BY <1>1, <2>1, SubSeqProperties
  <2> QED BY <1>1, <1>2, <2>2, SeqEqual
<1>5. SubSeq(s, n + 1, Len(s)) = r
  <2>1. \A i \in (n + 1)..Len(s) : s[i] \in S
    BY <1>1
  <2>2. /\ SubSeq(s, n + 1, Len(s)) \in Seq(S) /\ Len(SubSeq(s, n + 1, Len(s))) = Len(r)
        /\ \A i \in 1..Len(r) : SubSeq(s, n + 1, Len(s))[i] = s[n + i]
    BY <1>1, <2>1, SubSeqProperties
  <2> QED BY <1>1, <1>3, <2>2, SeqEqual
<1>6. m \in 0..Len(s) /\ n \in 0..Len(s) /\ m <= n
  BY <1>1
<1>7. \E k, l \in 0..Len(s) :
         k <= l /\ p \o r = SubSeq(s, 1, k) \o SubSeq(s, l + 1, Len(s))
  BY <1>4, <1>5, <1>6
<1>8. Shortened(s, p \o r)
  BY <1>7 DEF Shortened
<1> QED BY <1>8 DEF s
=============================================================================
