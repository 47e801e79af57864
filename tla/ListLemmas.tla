----------------------------- MODULE ListLemmas -----------------------------
(***************************************************************************)
(* Facts about sequences that the proofs of several modules use: what an   *)
(* append leaves and adds, what becomes of a stack whose top is replaced,  *)
(* taken off or put on, the least and the greatest of a set of numbers,    *)
(* and the members of a flattened list.                                    *)
(***************************************************************************)
EXTENDS Naturals, Sequences, SequencesExt, SequenceTheorems, WellFoundedInduction, TLAPS

\* A list of anything.
IsList(s) == s \in Seq({s[i] : i \in DOMAIN s})

LEMMA ListFacts ==
  ASSUME NEW s, IsList(s)
  PROVE  Len(s) \in Nat /\ DOMAIN s = 1..Len(s)
BY LenProperties DEF IsList

LEMMA EmptyList == IsList(<<>>) /\ Len(<<>>) = 0
BY EmptySeq DEF IsList

LEMMA ListAppend ==
  ASSUME NEW s, IsList(s), NEW e
  PROVE  /\ IsList(Append(s, e))
         /\ Len(Append(s, e)) = Len(s) + 1
         /\ DOMAIN Append(s, e) = 1..(Len(s) + 1)
         /\ \A i \in 1..Len(s) : Append(s, e)[i] = s[i]
         /\ Append(s, e)[Len(s) + 1] = e
<1> DEFINE S == {s[i] : i \in DOMAIN s} \cup {e}
           new == Append(s, e)
<1>1. s \in Seq(S)
  BY SeqMonotonic DEF IsList
<1>2. /\ new \in Seq(S) /\ Len(new) = Len(s) + 1
      /\ \A i \in 1..Len(s) : new[i] = s[i]
      /\ new[Len(s) + 1] = e
  BY <1>1, AppendProperties
<1>3. DOMAIN new = 1..(Len(s) + 1)
  BY <1>2, LenProperties
<1> HIDE DEF new
<1>4. \A i \in 1..Len(new) : new[i] \in {new[j] : j \in DOMAIN new}
  BY <1>2, <1>3
<1>5. new \in Seq({new[j] : j \in DOMAIN new})
  <2>1. new \in [1..Len(new) -> S] /\ Len(new) \in Nat
    BY <1>2, LenProperties
  <2>2. new = [i \in 1..Len(new) |-> new[i]]
    BY <2>1
  <2> QED
    BY <1>4, <2>1, <2>2, IsASeq
<1> QED
  BY <1>2, <1>3, <1>5 DEF new, IsList

\* The last element of a sequence is replaced.
LEMMA LastReplaced ==
  ASSUME NEW S, NEW s \in Seq(S), s # <<>>, NEW e \in S
  PROVE  LET new == Front(s) \o <<e>>
         IN  /\ new \in Seq(S)
             /\ Len(new) = Len(s)
             /\ \A i \in 1..(Len(s) - 1) : new[i] = s[i]
             /\ new[Len(s)] = e
<1>1. Len(s) \in Nat \ {0} /\ DOMAIN s = 1..Len(s)
  BY LenProperties, EmptySeq
<1>2. /\ Front(s) \in Seq(S) /\ Len(Front(s)) = Len(s) - 1
      /\ \A i \in 1..(Len(s) - 1) : Front(s)[i] = s[i]
  BY <1>1, SubSeqProperties, LenProperties, ElementOfSeq DEF Front
<1> HIDE DEF Front
<1> DEFINE front == Front(s)
           last == <<e>>
<1>3. last \in Seq(S) /\ Len(last) = 1 /\ last[1] = e
  OBVIOUS
<1>4. front \in Seq(S)
  BY <1>2
<1> HIDE DEF front, last
<1>5. /\ front \o last \in Seq(S) /\ Len(front \o last) = Len(front) + Len(last)
      /\ \A i \in 1..(Len(front) + Len(last)) :
            (front \o last)[i] = IF i <= Len(front) THEN front[i] ELSE last[i - Len(front)]
  BY <1>3, <1>4, ConcatProperties
<1>6. Len(front) = Len(s) - 1 /\ \A i \in 1..(Len(s) - 1) : front[i] = s[i]
  BY <1>2 DEF front
<1> DEFINE new == front \o last
<1>7. Len(front) + Len(last) = Len(s)
  BY <1>1, <1>3, <1>6
<1>8. /\ Len(new) = Len(s)
      /\ \A i \in 1..Len(s) : new[i] = IF i <= Len(s) - 1 THEN front[i] ELSE last[i - (Len(s) - 1)]
  BY <1>5, <1>6, <1>7
<1> HIDE DEF new
<1>9. /\ \A i \in 1..(Len(s) - 1) : new[i] = s[i]
      /\ new[Len(s)] = e
  BY <1>1, <1>3, <1>6, <1>8
<1> QED
  BY <1>5, <1>8, <1>9 DEF new, front, last

\* The last two elements are replaced by one.
LEMMA LastTwoReplaced ==
  ASSUME NEW S, NEW s \in Seq(S), Len(s) > 1, NEW e \in S
  PROVE  LET new == Front(Front(s)) \o <<e>>
         IN  /\ new \in Seq(S)
             /\ Len(new) = Len(s) - 1
             /\ \A i \in 1..(Len(s) - 2) : new[i] = s[i]
             /\ new[Len(s) - 1] = e
<1>1. Len(s) \in Nat \ {0} /\ DOMAIN s = 1..Len(s)
  BY LenProperties, EmptySeq
<1>2. /\ Front(s) \in Seq(S) /\ Len(Front(s)) = Len(s) - 1
      /\ \A i \in 1..(Len(s) - 1) : Front(s)[i] = s[i]
  BY <1>1, SubSeqProperties, LenProperties, ElementOfSeq DEF Front
<1> HIDE DEF Front
<1> DEFINE front == Front(s)
<1>3. /\ front \in Seq(S) /\ Len(front) = Len(s) - 1
      /\ \A i \in 1..(Len(s) - 1) : front[i] = s[i]
  BY <1>2
<1> HIDE DEF front
<1>4. front # <<>>
  BY <1>1, <1>3, EmptySeq
<1> DEFINE new == Front(front) \o <<e>>
<1>5. /\ new \in Seq(S) /\ Len(new) = Len(front)
      /\ \A i \in 1..(Len(front) - 1) : new[i] = front[i]
      /\ new[Len(front)] = e
  BY <1>3, <1>4, LastReplaced
<1> HIDE DEF new
<1>6. /\ new \in Seq(S) /\ Len(new) = Len(s) - 1
      /\ \A i \in 1..(Len(s) - 2) : new[i] = s[i]
      /\ new[Len(s) - 1] = e
  BY <1>1, <1>3, <1>5
<1> QED
  BY <1>6 DEF new, front

LEMMA OnTop ==
  ASSUME NEW S, NEW s \in Seq(S), NEW e \in S
  PROVE  /\ Append(s, e) \in Seq(S) /\ Append(s, e) # <<>>
         /\ Len(Append(s, e)) = Len(s) + 1
         /\ \A i \in 1..Len(s) : Append(s, e)[i] = s[i]
         /\ Append(s, e)[Len(s) + 1] = e
BY AppendProperties

LEMMA Pair ==
  ASSUME NEW a, NEW b
  PROVE  <<a>> \o <<b>> = <<a, b>>
<1> DEFINE S == {a, b}
           s == <<a>>
           t == <<b>>
           p == <<a, b>>
<1>1. s \in Seq(S) /\ t \in Seq(S) /\ Len(s) = 1 /\ Len(t) = 1 /\ s[1] = a /\ t[1] = b
  OBVIOUS
<1>2. p \in [1..2 -> S] /\ p[1] = a /\ p[2] = b
  OBVIOUS
<1> HIDE DEF s, t, p, S
<1>3. /\ s \o t \in Seq(S) /\ Len(s \o t) = 2
      /\ \A i \in 1..2 : (s \o t)[i] = IF i <= 1 THEN s[i] ELSE t[i - 1]
  BY <1>1, ConcatProperties
<1> DEFINE new == s \o t
<1>4. new \in [1..2 -> S] /\ new[1] = a /\ new[2] = b
  <2>1. new \in Seq(S) /\ Len(new) = 2
    BY <1>3
  <2>2. new \in [1..2 -> S]
    <3> HIDE DEF new
    <3> QED
      BY <2>1, LenProperties
  <2>3. new[1] = s[1] /\ new[2] = t[1]
    <3>1. 1 \in 1..2 /\ 2 \in 1..2 /\ 2 - 1 = 1
      OBVIOUS
    <3> QED
      BY <1>3, <3>1
  <2> QED
    BY <1>1, <2>2, <2>3
<1> HIDE DEF new
<1>5. new = p
  BY <1>2, <1>4
<1> QED
  BY <1>5 DEF new, s, t, p

\* The last element of a sequence is taken off.
LEMMA LastRemoved ==
  ASSUME NEW S, NEW s \in Seq(S), s # <<>>
  PROVE  /\ Front(s) \in Seq(S)
         /\ Len(Front(s)) = Len(s) - 1
         /\ \A i \in 1..(Len(s) - 1) : Front(s)[i] = s[i]
<1>1. Len(s) \in Nat \ {0} /\ DOMAIN s = 1..Len(s)
  BY LenProperties, EmptySeq
<1> QED
  BY <1>1, SubSeqProperties, LenProperties, ElementOfSeq DEF Front

\* One list after another.
LEMMA ListConcat ==
  ASSUME NEW s, IsList(s), NEW t, IsList(t)
  PROVE  /\ IsList(s \o t)
         /\ Len(s \o t) = Len(s) + Len(t)
         /\ \A i \in 1..Len(s) : (s \o t)[i] = s[i]
         /\ \A i \in 1..Len(t) : (s \o t)[Len(s) + i] = t[i]
<1> DEFINE S == {s[i] : i \in DOMAIN s} \cup {t[i] : i \in DOMAIN t}
           new == s \o t
<1>1. s \in Seq(S) /\ t \in Seq(S) /\ Len(s) \in Nat /\ Len(t) \in Nat
  BY SeqMonotonic, LenProperties DEF IsList
<1> HIDE DEF S
<1>2. /\ new \in Seq(S) /\ Len(new) = Len(s) + Len(t)
      /\ \A i \in 1..(Len(s) + Len(t)) : new[i] = IF i <= Len(s) THEN s[i] ELSE t[i - Len(s)]
  BY <1>1, ConcatProperties
<1> HIDE DEF new
<1>3. new \in Seq({new[j] : j \in DOMAIN new})
  <2>1. new \in [1..Len(new) -> S] /\ Len(new) \in Nat
    BY <1>2, LenProperties
  <2>2. new = [i \in 1..Len(new) |-> new[i]] /\ \A i \in 1..Len(new) : new[i] \in {new[j] : j \in DOMAIN new}
    BY <2>1
  <2> QED
    BY <2>1, <2>2, IsASeq
<1>4. \A i \in 1..Len(s) : new[i] = s[i]
  BY <1>1, <1>2
<1>5. ASSUME NEW i \in 1..Len(t) PROVE new[Len(s) + i] = t[i]
  <2>1. Len(s) + i \in 1..(Len(s) + Len(t)) /\ ~(Len(s) + i <= Len(s)) /\ (Len(s) + i) - Len(s) = i
    BY <1>1
  <2> QED
    BY <1>2, <2>1
<1> QED
  BY <1>2, <1>3, <1>4, <1>5 DEF new, IsList

\* One element, two or three after a list are one append, two or three.
LEMMA OneMore ==
  ASSUME NEW s, IsList(s), NEW a
  PROVE  s \o <<a>> = Append(s, a)
<1> DEFINE S == {s[i] : i \in DOMAIN s} \cup {a}
<1>1. s \in Seq(S) /\ a \in S
  BY SeqMonotonic DEF IsList
<1> QED
  BY <1>1, AppendIsConcat

LEMMA Associative ==
  ASSUME NEW s, IsList(s), NEW a, NEW t, IsList(t)
  PROVE  (s \o t) \o <<a>> = s \o (t \o <<a>>)
<1> DEFINE S == {s[i] : i \in DOMAIN s} \cup {t[i] : i \in DOMAIN t} \cup {a}
           u == <<a>>
<1>1. s \in Seq(S) /\ t \in Seq(S)
  BY SeqMonotonic DEF IsList
<1>2. u \in Seq(S)
  OBVIOUS
<1> HIDE DEF S, u
<1>3. (s \o t) \o u = s \o (t \o u)
  BY <1>1, <1>2, ConcatAssociative
<1> QED
  BY <1>3 DEF u

LEMMA ShortLists ==
  ASSUME NEW a, NEW b
  PROVE  IsList(<<a>>) /\ IsList(<<a, b>>)
<1> DEFINE s == <<a>>
           t == <<a, b>>
<1>1. s = Append(<<>>, a) /\ t = Append(s, b)
  <2>1. s = Append(<<>>, a)
    BY EmptySeq
  <2>2. IsList(s)
    <3> DEFINE n == Append(<<>>, a)
    <3>1. IsList(n)
      BY ListAppend, EmptyList
    <3> HIDE DEF n, s
    <3>2. s = n
      BY <2>1 DEF n
    <3> QED
      BY <3>1, <3>2
  <2>3. s \o <<b>> = Append(s, b)
    <3> HIDE DEF s
    <3> QED
      BY <2>2, OneMore
  <2> QED
    BY <2>1, <2>3, Pair
<1> HIDE DEF s, t
<1>2. IsList(s) /\ IsList(t)
  BY <1>1, ListAppend, EmptyList
<1> QED
  BY <1>2 DEF s, t

LEMMA OnlyOne ==
  ASSUME NEW a, NEW s, s = <<a>>
  PROVE  IsList(s) /\ s # <<>> /\ Len(s) = 1 /\ DOMAIN s = {1} /\ s[1] = a
<1>1. IsList(s)
  BY ShortLists
<1>2. Len(s) = 1 /\ s[1] = a
  OBVIOUS
<1>3. DOMAIN s = {1}
  BY <1>1, <1>2, ListFacts
<1>4. s # <<>>
  BY <1>2, EmptySeq
<1> QED
  BY <1>1, <1>2, <1>3, <1>4

LEMMA TwoMore ==
  ASSUME NEW s, IsList(s), NEW a, NEW b
  PROVE  s \o (<<a>> \o <<b>>) = Append(Append(s, a), b)
<1> DEFINE u == <<a>>
           n == Append(s, a)
<1>1. IsList(u) /\ IsList(n)
  BY ShortLists, ListAppend
<1>2. s \o u = n
  BY OneMore
<1> HIDE DEF u, n
<1>3. s \o (u \o <<b>>) = n \o <<b>>
  BY <1>1, <1>2, Associative
<1>4. n \o <<b>> = Append(n, b)
  BY <1>1, OneMore
<1> QED
  BY <1>3, <1>4 DEF u, n

LEMMA ThreeMore ==
  ASSUME NEW s, IsList(s), NEW a, NEW b, NEW c
  PROVE  s \o (<<a, b>> \o <<c>>) = Append(Append(Append(s, a), b), c)
<1> DEFINE u == <<a, b>>
           n == Append(Append(s, a), b)
<1>1. IsList(u) /\ IsList(n)
  BY ShortLists, ListAppend
<1>2. s \o u = n
  BY TwoMore, Pair
<1> HIDE DEF u, n
<1>3. s \o (u \o <<c>>) = n \o <<c>>
  BY <1>1, <1>2, Associative
<1>4. n \o <<c>> = Append(n, c)
  BY <1>1, OneMore
<1> QED
  BY <1>3, <1>4 DEF u, n

LEMMA NoMore ==
  ASSUME NEW s, IsList(s)
  PROVE  s \o <<>> = s
BY ConcatEmptySeq DEF IsList

LEMMA AnyList ==
  ASSUME NEW S, NEW s \in Seq(S)
  PROVE  IsList(s)
<1> DEFINE T == {s[j] : j \in DOMAIN s}
<1>1. s \in [1..Len(s) -> S] /\ Len(s) \in Nat
  BY LenProperties
<1>2. \A i \in 1..Len(s) : s[i] \in T
  BY <1>1
<1>3. s = [i \in 1..Len(s) |-> s[i]]
  BY <1>1
<1> HIDE DEF T
<1>4. s \in Seq(T)
  BY <1>1, <1>2, <1>3, IsASeq
<1> QED
  BY <1>4 DEF IsList, T

\* The same of a stack of anything.
LEMMA TopExchanged ==
  ASSUME NEW s, IsList(s), s # <<>>, NEW f, NEW n, n = Front(s) \o <<f>>
  PROVE  /\ IsList(n) /\ Len(n) = Len(s) /\ DOMAIN n = 1..Len(s)
         /\ \A i \in 1..(Len(s) - 1) : n[i] = s[i]
         /\ n[Len(s)] = f
<1> DEFINE S == {s[i] : i \in DOMAIN s} \cup {f}
<1>1. s \in Seq(S) /\ f \in S
  BY SeqMonotonic DEF IsList
<1> HIDE DEF S
<1>2. /\ n \in Seq(S) /\ Len(n) = Len(s)
      /\ \A i \in 1..(Len(s) - 1) : n[i] = s[i]
      /\ n[Len(s)] = f
  BY <1>1, LastReplaced
<1> QED
  BY <1>2, AnyList, LenProperties

LEMMA TopDropped ==
  ASSUME NEW s, IsList(s), Len(s) > 1, NEW f, NEW n, n = Front(Front(s)) \o <<f>>
  PROVE  /\ IsList(n) /\ Len(n) = Len(s) - 1 /\ DOMAIN n = 1..(Len(s) - 1)
         /\ \A i \in 1..(Len(s) - 2) : n[i] = s[i]
         /\ n[Len(s) - 1] = f
         /\ Last(Front(s)) = s[Len(s) - 1]
<1> DEFINE S == {s[i] : i \in DOMAIN s} \cup {f}
<1>1. s \in Seq(S) /\ f \in S
  BY SeqMonotonic DEF IsList
<1> HIDE DEF S
<1>2. /\ n \in Seq(S) /\ Len(n) = Len(s) - 1
      /\ \A i \in 1..(Len(s) - 2) : n[i] = s[i]
      /\ n[Len(s) - 1] = f
  BY <1>1, LastTwoReplaced
<1>3. Len(s) \in Nat /\ s # <<>>
  BY <1>1, LenProperties, EmptySeq
<1>4. Len(Front(s)) = Len(s) - 1 /\ \A i \in 1..(Len(s) - 1) : Front(s)[i] = s[i]
  BY <1>1, <1>3, LastRemoved
<1>5. Last(Front(s)) = s[Len(s) - 1]
  BY <1>3, <1>4 DEF Last
<1> QED
  BY <1>2, <1>5, AnyList, LenProperties

LEMMA BelowDropped ==
  ASSUME NEW s, IsList(s), Len(s) > 1, NEW f, NEW n, n = Front(Front(s)) \o <<f>>,
         NEW i \in 1..(Len(s) - 2)
  PROVE  n[i] = s[i]
<1>1. \A k \in 1..(Len(s) - 2) : n[k] = s[k]
  BY TopDropped
<1> QED
  BY <1>1

-----------------------------------------------------------------------------
\* Numbers.  That a set of them has a least member stands in for induction.
LEMMA LeastMember ==
  ASSUME NEW S \in SUBSET Nat, S # {}
  PROVE  \E m \in S : \A k \in S : m <= k
<1> DEFINE R == OpToRel(<, Nat)
<1>1. IsWellFoundedOn(R, Nat)
  BY NatLessThanWellFounded
<1>2. \A x, y \in Nat : x < y => <<x, y>> \in R
  BY DEF OpToRel
<1> HIDE DEF R
<1>3. \E m \in S : \A k \in S : ~(<<k, m>> \in R)
  BY <1>1, WFMin
<1>4. PICK m \in S : \A k \in S : ~(<<k, m>> \in R)
  BY <1>3
<1>5. \A k \in S : k \in Nat /\ m \in Nat /\ ~(k < m)
  BY <1>2, <1>4
<1> QED
  BY <1>4, <1>5

\* The greatest of some positions is one of them.
LEMMA MaxMember ==
  ASSUME NEW n \in Nat, NEW S \in SUBSET (1..n), S # {}
  PROVE  Max(S) \in S /\ \A k \in S : k <= Max(S)
<1> DEFINE U == {m \in Nat : \A k \in S : k <= m}
<1>1. U \in SUBSET Nat /\ n \in U
  OBVIOUS
<1>2. PICK m \in U : \A u \in U : m <= u
  BY <1>1, LeastMember
<1>3. m \in S
  <2> SUFFICES ASSUME m \notin S PROVE FALSE
    OBVIOUS
  <2>1. \A k \in S : k \in Nat /\ k >= 1 /\ k <= m /\ k # m /\ m \in Nat
    BY <1>2
  <2>2. m - 1 \in U
    <3>0. PICK i \in S : TRUE
      OBVIOUS
    <3>1. m \in Nat /\ m >= 1
      BY <2>1, <3>0
    <3>2. m - 1 \in Nat /\ \A k \in S : k <= m - 1
      BY <2>1, <3>1
    <3> QED
      BY <3>2
  <2>3. m <= m - 1
    BY <1>2, <2>2
  <2> QED
    BY <1>2, <2>3
<1>4. \E x \in S : \A y \in S : x >= y
  BY <1>2, <1>3
<1>5. Max(S) \in S /\ \A y \in S : Max(S) >= y
  BY <1>4 DEF Max
<1> QED
  BY <1>5

LEMMA MaxOfMore ==
  ASSUME NEW n \in Nat, NEW S \in SUBSET (1..n)
  PROVE  Max(S \cup {n + 1}) = n + 1
<1> DEFINE N == n + 1
           T == S \cup {N}
<1>1. N \in Nat /\ T \in SUBSET (1..N) /\ T # {} /\ N \in T
  OBVIOUS
<1> HIDE DEF N, T
<1>2. Max(T) \in T /\ \A k \in T : k <= Max(T)
  BY <1>1, MaxMember
<1>3. Max(T) \in 1..N /\ N <= Max(T)
  BY <1>1, <1>2
<1>4. Max(T) = N
  BY <1>1, <1>3
<1> QED
  BY <1>4 DEF N, T

\* What is put together from lists of some things is a list of such things.
LEMMA FlattenType ==
  ASSUME NEW S, NEW s \in Seq(Seq(S))
  PROVE  FlattenSeq(s) \in Seq(S)
<1> DEFINE Put(g, n) == [i \in 1..n |-> IF i = 1 THEN s[i] ELSE g[i - 1] \o s[i]]
           Good(n, g) == g = Put(g, n) /\ \A i \in 1..n : g[i] \in Seq(S)
           Bad == {n \in Nat : n <= Len(s) /\ ~\E g : Good(n, g)}
<1>1. Len(s) \in Nat /\ DOMAIN s = 1..Len(s) /\ \A i \in 1..Len(s) : s[i] \in Seq(S)
  BY LenProperties, ElementOfSeq
<1>2. Bad = {}
  <2> SUFFICES ASSUME Bad # {} PROVE FALSE
    OBVIOUS
  <2>1. PICK n \in Bad : \A k \in Bad : n <= k
    <3>1. Bad \in SUBSET Nat
      OBVIOUS
    <3> HIDE DEF Bad
    <3> QED
      BY <3>1, LeastMember
  <2>2. n \in Nat /\ n <= Len(s)
    OBVIOUS
  <2>3. CASE n = 0
    <3> DEFINE g == [i \in {} |-> i]
    <3>1. Good(0, g)
      OBVIOUS
    <3> QED
      BY <2>3, <3>1
  <2>4. CASE n # 0
    <3>1. n - 1 \in Nat /\ n - 1 <= Len(s) /\ ~(n <= n - 1)
      BY <1>1, <2>2, <2>4
    <3>2. PICK g : Good(n - 1, g)
      BY <2>1, <3>1
    <3> DEFINE h == [i \in 1..n |-> IF i < n THEN g[i] ELSE IF n = 1 THEN s[n] ELSE g[n - 1] \o s[n]]
    <3>3. \A i \in 1..n : h[i] = IF i = 1 THEN s[i] ELSE h[i - 1] \o s[i]
      <4> TAKE i \in 1..n
      <4>1. CASE i < n
        <5>1. i \in 1..(n - 1) /\ (i # 1 => i - 1 \in 1..(n - 1))
          BY <2>2, <4>1
        <5>2. g[i] = IF i = 1 THEN s[i] ELSE g[i - 1] \o s[i]
          BY <3>2, <5>1
        <5>3. h[i] = g[i] /\ (i # 1 => h[i - 1] = g[i - 1])
          BY <2>2, <4>1, <5>1
        <5> HIDE DEF h
        <5> QED
          BY <5>2, <5>3
      <4>2. CASE i = n
        <5>1. h[n] = IF n = 1 THEN s[n] ELSE g[n - 1] \o s[n]
          BY <2>2, <2>4
        <5>2. n # 1 => h[n - 1] = g[n - 1]
          BY <2>2, <2>4
        <5> HIDE DEF h
        <5> QED
          BY <4>2, <5>1, <5>2
      <4> QED
        BY <2>2, <4>1, <4>2
    <3>4. \A i \in 1..n : h[i] \in Seq(S)
      <4> TAKE i \in 1..n
      <4>1. CASE i < n
        BY <2>2, <3>2, <4>1
      <4>2. CASE i = n /\ n = 1
        <5>1. h[i] = s[n] /\ n \in 1..Len(s)
          BY <1>1, <2>2, <4>2
        <5> QED
          BY <1>1, <5>1
      <4>3. CASE i = n /\ n # 1
        <5>1. h[i] = g[n - 1] \o s[n] /\ n \in 1..Len(s) /\ n - 1 \in 1..(n - 1)
          BY <1>1, <2>2, <2>4, <4>3
        <5>2. g[n - 1] \in Seq(S) /\ s[n] \in Seq(S)
          BY <1>1, <3>2, <5>1
        <5>3. g[n - 1] \o s[n] \in Seq(S)
          BY <5>2, ConcatProperties
        <5> QED
          BY <5>1, <5>3
      <4> QED
        BY <2>2, <4>1, <4>2, <4>3
    <3>5. h = Put(h, n)
      <4>1. h = [i \in 1..n |-> h[i]]
        OBVIOUS
      <4> HIDE DEF h
      <4> QED
        BY <3>3, <4>1
    <3> HIDE DEF h
    <3>6. Good(n, h)
      BY <3>4, <3>5
    <3> QED
      BY <3>6
  <2> QED
    BY <2>2, <2>3, <2>4
<1> HIDE DEF Good
<1>3. \E g : Good(Len(s), g)
  BY <1>1, <1>2
<1>4. CASE Len(s) = 0
  <2>1. s = <<>>
    BY <1>4, EmptySeq
  <2> QED
    BY <1>4, <2>1, EmptySeq DEF FlattenSeq
<1>5. CASE Len(s) # 0
  <2> DEFINE f == CHOOSE g : g = Put(g, Len(s))
  <2>1. \E g : g = Put(g, Len(s))
    BY <1>3 DEF Good
  <2>2. f = Put(f, Len(s))
    BY <2>1
  <2>3. FlattenSeq(s) = f[Len(s)]
    BY <1>5 DEF FlattenSeq
  <2>4. PICK g : Good(Len(s), g)
    BY <1>3
  <2> HIDE DEF f
  <2>5. \A i \in 1..Len(s) : f[i] = g[i]
    <3> DEFINE Off == {i \in 1..Len(s) : f[i] # g[i]}
    <3> SUFFICES ASSUME Off # {} PROVE FALSE
      OBVIOUS
    <3>1. PICK i \in Off : \A k \in Off : i <= k
      <4>1. Off \in SUBSET Nat
        BY <1>1
      <4> HIDE DEF Off
      <4> QED
        BY <4>1, LeastMember
    <3>2. i \in 1..Len(s) /\ f[i] # g[i]
      OBVIOUS
    <3>3. /\ f[i] = IF i = 1 THEN s[i] ELSE f[i - 1] \o s[i]
          /\ g[i] = IF i = 1 THEN s[i] ELSE g[i - 1] \o s[i]
      BY <2>2, <2>4, <3>2 DEF Good
    <3>4. i # 1 => i - 1 \in 1..Len(s) /\ ~(i <= i - 1)
      BY <1>1, <3>2
    <3>5. i # 1 => f[i - 1] = g[i - 1]
      BY <3>1, <3>4
    <3> QED
      BY <3>2, <3>3, <3>5
  <2>6. Len(s) \in 1..Len(s)
    BY <1>1, <1>5
  <2>7. g[Len(s)] \in Seq(S)
    BY <2>4, <2>6 DEF Good
  <2> QED
    BY <2>3, <2>5, <2>6, <2>7
<1> QED
  BY <1>4, <1>5
=============================================================================
