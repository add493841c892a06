--------------------- MODULE SchedulerRefinementProofs ----------------------
(***************************************************************************)
(* The two tasks implement CommandSchedule, for every set of uploads, all  *)
(* lengths of the waits and of the file, and any number of requests and    *)
(* resets, whatever time the steps take: if no operation fails and the     *)
(* service starts in time.  If steps take no time either, the daemon never *)
(* oversleeps, which rests on the same lemmas.                             *)
(***************************************************************************)
EXTENDS SchedulerRefinement, SchedulerProofs, FiniteSetTheorems, FunctionTheorems

-----------------------------------------------------------------------------
(* Bags of sequences, by how often an element occurs.                      *)

Places(s, c) == {i \in DOMAIN s : s[i] = c}
Count(s, c) == Cardinality(Places(s, c))

LEMMA SeqFacts ==
  ASSUME NEW S, NEW s \in Seq(S)
  PROVE  Len(s) \in Nat /\ DOMAIN s = 1 .. Len(s) /\ s \in [1 .. Len(s) -> S]
BY LenProperties

LEMMA PlacesFinite ==
  ASSUME NEW S, NEW s \in Seq(S), NEW c
  PROVE  IsFiniteSet(Places(s, c)) /\ Count(s, c) \in Nat
<1>1. Len(s) \in Nat /\ DOMAIN s = 1 .. Len(s)
  BY SeqFacts
<1>2. IsFiniteSet(1 .. Len(s))
  BY <1>1, FS_Interval
<1>3. Places(s, c) \in SUBSET (1 .. Len(s))
  BY <1>1 DEF Places
<1>4. IsFiniteSet(Places(s, c))
  BY <1>2, <1>3, FS_Subset
<1> QED
  BY <1>4, FS_CardinalityType DEF Count

\* The bag of a sequence has what occurs in it, as often as it occurs.
LEMMA BagCounts ==
  ASSUME NEW S, NEW s \in Seq(S)
  PROVE  /\ \A c : c \in DOMAIN BagOf(s) <=> Count(s, c) > 0
         /\ \A c \in DOMAIN BagOf(s) : BagOf(s)[c] = Count(s, c)
         /\ BagOf(s) = [c \in DOMAIN BagOf(s) |-> Count(s, c)]
         /\ DOMAIN BagOf(s) \subseteq S
<1>1. DOMAIN BagOf(s) = {s[i] : i \in DOMAIN s}
  BY DEF BagOf
<1>2. ASSUME NEW c PROVE c \in DOMAIN BagOf(s) <=> Count(s, c) > 0
  <2>1. c \in DOMAIN BagOf(s) <=> Places(s, c) # {}
    BY <1>1 DEF Places
  <2>2. Count(s, c) = 0 <=> Places(s, c) = {}
    BY PlacesFinite, FS_EmptySet DEF Count
  <2> QED
    BY <2>1, <2>2, PlacesFinite
<1>3. BagOf(s) = [c \in DOMAIN BagOf(s) |-> Count(s, c)]
  BY <1>1 DEF BagOf, Count, Places
<1>4. DOMAIN BagOf(s) \subseteq S
  BY <1>1, SeqFacts
<1> QED
  BY <1>2, <1>3, <1>4

\* Sequences in which everything occurs equally often make the same bag.
LEMMA SameBag ==
  ASSUME NEW S, NEW s \in Seq(S), NEW t \in Seq(S), \A c \in S : Count(s, c) = Count(t, c)
  PROVE  BagOf(s) = BagOf(t)
<1>1. \A c \in S : c \in DOMAIN BagOf(s) <=> c \in DOMAIN BagOf(t)
  BY BagCounts
<1>2. DOMAIN BagOf(s) = DOMAIN BagOf(t) /\ DOMAIN BagOf(s) \subseteq S
  BY <1>1, BagCounts
<1>3. \A c \in DOMAIN BagOf(s) : Count(s, c) = Count(t, c)
  BY <1>2
<1>4. BagOf(s) = [c \in DOMAIN BagOf(s) |-> Count(s, c)]
  BY BagCounts
<1>5. BagOf(t) = [c \in DOMAIN BagOf(t) |-> Count(t, c)]
  BY BagCounts
<1> QED
  BY <1>2, <1>3, <1>4, <1>5

\* What occurs in a concatenation occurs in one part or the other.
LEMMA CountConcat ==
  ASSUME NEW S, NEW s \in Seq(S), NEW t \in Seq(S), NEW c
  PROVE  s \o t \in Seq(S) /\ Count(s \o t, c) = Count(s, c) + Count(t, c)
<1> DEFINE m == Len(s)
           n == Len(t)
           P == Places(s, c)
           Q == Places(t, c)
           R == {i + m : i \in Q}
           f == [i \in Q |-> i + m]
<1>1. m \in Nat /\ n \in Nat /\ DOMAIN s = 1 .. m /\ DOMAIN t = 1 .. n
  BY SeqFacts
<1>2. /\ s \o t \in Seq(S) /\ Len(s \o t) = m + n
      /\ \A i \in 1 .. m + n : (s \o t)[i] = IF i <= m THEN s[i] ELSE t[i - m]
  BY ConcatProperties
<1>3. DOMAIN (s \o t) = 1 .. m + n
  BY <1>2, SeqFacts
<1>4. P \subseteq 1 .. m /\ Q \subseteq 1 .. n
  BY <1>1 DEF Places
<1>5. Places(s \o t, c) = P \cup R
  <2>1. ASSUME NEW i \in Places(s \o t, c) PROVE i \in P \cup R
    <3>1. i \in 1 .. m + n /\ (s \o t)[i] = c
      BY <1>3 DEF Places
    <3>2. CASE i <= m
      BY <1>1, <1>2, <3>1, <3>2 DEF Places
    <3>3. CASE ~(i <= m)
      <4>1. i - m \in 1 .. n /\ t[i - m] = c /\ i = (i - m) + m
        BY <1>1, <1>2, <3>1, <3>3
      <4>2. i - m \in Q
        BY <1>1, <4>1 DEF Places
      <4> QED
        BY <4>1, <4>2
    <3> QED
      BY <3>2, <3>3
  <2>2. ASSUME NEW i \in P PROVE i \in Places(s \o t, c)
    <3>1. i \in 1 .. m /\ s[i] = c
      BY <1>1 DEF Places
    <3>2. i \in 1 .. m + n /\ i <= m
      BY <1>1, <3>1
    <3> QED
      BY <1>2, <1>3, <3>1, <3>2 DEF Places
  <2>3. ASSUME NEW j \in Q PROVE j + m \in Places(s \o t, c)
    <3>1. j \in 1 .. n /\ t[j] = c
      BY <1>1 DEF Places
    <3>2. j + m \in 1 .. m + n /\ ~(j + m <= m) /\ (j + m) - m = j
      BY <1>1, <3>1
    <3>3. (s \o t)[j + m] = c
      BY <1>2, <3>1, <3>2
    <3> QED
      BY <1>3, <3>2, <3>3 DEF Places
  <2> QED
    BY <2>1, <2>2, <2>3
<1>6. P \cap R = {}
  <2> SUFFICES ASSUME NEW i \in P, NEW j \in Q, i = j + m PROVE FALSE
    OBVIOUS
  <2> QED
    BY <1>1, <1>4
<1>7. f \in Bijection(Q, R)
  <2>1. f \in [Q -> R]
    OBVIOUS
  <2>2. \A a, b \in Q : f[a] = f[b] => a = b
    BY <1>1, <1>4
  <2>3. \A r \in R : \E q \in Q : f[q] = r
    OBVIOUS
  <2> QED
    BY <2>1, <2>2, <2>3, Fun_IsBij
<1>8. IsFiniteSet(P) /\ IsFiniteSet(Q) /\ Cardinality(P) \in Nat /\ Cardinality(Q) \in Nat
  BY PlacesFinite DEF Count
<1>9. IsFiniteSet(R) /\ Cardinality(R) = Cardinality(Q)
  BY <1>7, <1>8, FS_Bijection DEF ExistsBijection
<1>10. Cardinality(P \cup R) = Cardinality(P) + Cardinality(R) - Cardinality(P \cap R)
  BY <1>8, <1>9, FS_Union
<1>11. Cardinality(P \cap R) = 0
  BY <1>6, FS_EmptySet
<1>12. Cardinality(P \cup R) = Cardinality(P) + Cardinality(Q)
  BY <1>8, <1>9, <1>10, <1>11
<1> QED
  BY <1>2, <1>5, <1>12 DEF Count

\* Another order of the same elements makes the same bag.
LEMMA SameBagSorted ==
  ASSUME NEW s \in Seq(Cmd), NEW t \in SortedOrders(s)
  PROVE  t \in Seq(Cmd) /\ Len(t) = Len(s) /\ BagOf(t) = BagOf(s)
<1> DEFINE n == Len(s)
<1>1. n \in Nat /\ DOMAIN s = 1 .. n /\ s \in [1 .. n -> Cmd]
  BY SeqFacts
<1>2. PICK p \in [1 .. n -> 1 .. n] :
        /\ \A i, j \in 1 .. n : p[i] = p[j] => i = j
        /\ t = [i \in 1 .. n |-> s[p[i]]]
  BY DEF SortedOrders
<1>3. t \in [1 .. n -> Cmd]
  BY <1>1, <1>2
<1>4. t \in Seq(Cmd) /\ Len(t) = n /\ DOMAIN t = 1 .. n
  BY <1>1, <1>3, FunctionIsSeq
<1>5. p \in Injection(1 .. n, 1 .. n)
  BY <1>2, Fun_IsInj
<1>6. IsFiniteSet(1 .. n)
  BY <1>1, FS_Interval
<1>7. p \in Surjection(1 .. n, 1 .. n)
  BY <1>5, <1>6, FS_Injection
<1>8. \A k \in 1 .. n : \E i \in 1 .. n : p[i] = k
  BY <1>7 DEF Surjection
<1>9. ASSUME NEW c \in Cmd PROVE Count(t, c) = Count(s, c)
  <2> DEFINE P == Places(t, c)
             Q == Places(s, c)
             f == [i \in P |-> p[i]]
  <2>1. \A i \in P : i \in 1 .. n /\ p[i] \in Q
    BY <1>1, <1>2, <1>4 DEF Places
  <2>2. f \in [P -> Q]
    BY <2>1
  <2>3. \A a, b \in P : f[a] = f[b] => a = b
    BY <1>2, <2>1
  <2>4. ASSUME NEW q \in Q PROVE \E i \in P : f[i] = q
    <3>1. q \in 1 .. n /\ s[q] = c
      BY <1>1 DEF Places
    <3>2. PICK i \in 1 .. n : p[i] = q
      BY <1>8, <3>1
    <3>3. i \in P
      BY <1>2, <1>4, <3>1, <3>2 DEF Places
    <3> QED
      BY <3>2, <3>3
  <2>5. f \in Bijection(P, Q)
    BY <2>2, <2>3, <2>4, Fun_IsBij
  <2>6. IsFiniteSet(P)
    BY <1>4, PlacesFinite
  <2> QED
    BY <2>5, <2>6, FS_Bijection DEF ExistsBijection, Count
<1> QED
  BY <1>4, <1>9, SameBag

LEMMA CountSmall ==
  /\ \A c : Count(<< >>, c) = 0
  /\ \A c, d : Count(<<d>>, c) = IF d = c THEN 1 ELSE 0
<1>1. \A c : Places(<< >>, c) = {}
  BY DEF Places
<1>2. ASSUME NEW c, NEW d PROVE Places(<<d>>, c) = IF d = c THEN {1} ELSE {}
  BY DEF Places
<1> QED
  BY <1>1, <1>2, FS_EmptySet, FS_Singleton DEF Count

LEMMA EmptyBags ==
  BagOf(<< >>) = Abstract!EmptyBag
BY DEF BagOf, Abstract!EmptyBag, Abstract!SetToBag

\* A part of a sequence makes a part of the bag.
LEMMA PartOfBag ==
  ASSUME NEW S, NEW s \in Seq(S), NEW t \in Seq(S)
  PROVE  Abstract!\sqsubseteq(BagOf(s), BagOf(s \o t))
<1>1. s \o t \in Seq(S)
  BY CountConcat
<1>2. \A c : Count(s, c) \in Nat /\ Count(t, c) \in Nat /\ Count(s \o t, c) = Count(s, c) + Count(t, c)
  BY PlacesFinite, CountConcat
<1>3. \A c \in DOMAIN BagOf(s) : Count(s, c) > 0 /\ BagOf(s)[c] = Count(s, c)
  BY BagCounts
<1>4. \A c : c \in DOMAIN BagOf(s \o t) <=> Count(s \o t, c) > 0
  BY <1>1, BagCounts
<1>5. \A c \in DOMAIN BagOf(s \o t) : BagOf(s \o t)[c] = Count(s \o t, c)
  BY <1>1, BagCounts
<1>6. \A c \in DOMAIN BagOf(s) : c \in DOMAIN BagOf(s \o t) /\ BagOf(s)[c] <= BagOf(s \o t)[c]
  BY <1>2, <1>3, <1>4, <1>5
<1> QED
  BY <1>6 DEF Abstract!\sqsubseteq

LEMMA HeadAndTail ==
  ASSUME NEW S, NEW s \in Seq(S), s # << >>
  PROVE  /\ Head(s) \in S /\ <<Head(s)>> \in Seq(S) /\ Tail(s) \in Seq(S)
         /\ Len(Tail(s)) = Len(s) - 1 /\ s = <<Head(s)>> \o Tail(s)
<1>1. Head(s) \in S /\ <<Head(s)>> \in Seq(S) /\ Tail(s) \in Seq(S)
  BY HeadTailProperties
<1>2. Len(Tail(s)) = Len(s) - 1
  BY HeadTailProperties
<1> QED
  BY <1>1, <1>2

\* Two bags with the same elements, as often.
LEMMA BagIs ==
  ASSUME NEW S, NEW s \in Seq(S), NEW D, NEW f,
         f = [e \in D |-> f[e]],
         \A e : e \in D <=> Count(s, e) > 0,
         \A e \in D : f[e] = Count(s, e)
  PROVE  f = BagOf(s)
<1>1. D = DOMAIN BagOf(s)
  BY BagCounts
<1>2. f = [e \in D |-> Count(s, e)]
  OBVIOUS
<1> QED
  BY <1>1, <1>2, BagCounts

\* How often an element occurs after the first.
LEMMA CountFirst ==
  ASSUME NEW S, NEW s \in Seq(S), s # << >>, NEW e
  PROVE  /\ Count(Tail(s), e) \in Nat
         /\ Count(s, e) = (IF e = Head(s) THEN 1 ELSE 0) + Count(Tail(s), e)
<1>1. /\ Head(s) \in S /\ <<Head(s)>> \in Seq(S) /\ Tail(s) \in Seq(S)
      /\ s = <<Head(s)>> \o Tail(s)
  BY HeadAndTail
<1>2. PICK f \in Seq(S) : f = <<Head(s)>>
  BY <1>1
<1>3. PICK t \in Seq(S) : t = Tail(s)
  BY <1>1
<1>4. s = f \o t
  BY <1>1, <1>2, <1>3
<1>5. Count(f \o t, e) = Count(f, e) + Count(t, e)
  BY CountConcat
<1>6. Count(f, e) = IF e = Head(s) THEN 1 ELSE 0
  BY <1>2, CountSmall
<1>7. Count(t, e) \in Nat
  BY PlacesFinite
<1> QED
  BY <1>3, <1>4, <1>5, <1>6, <1>7

\* Taking away the first.
LEMMA TailBag ==
  ASSUME NEW S, NEW s \in Seq(S), s # << >>
  PROVE  Abstract!(-)(BagOf(s), Abstract!SetToBag({Head(s)})) = BagOf(Tail(s))
<1> DEFINE h == Head(s)
           t == Tail(s)
           B == BagOf(s)
           D == {d \in DOMAIN B : (IF d = h THEN B[d] - 1 ELSE B[d]) > 0}
           f == [e \in D |-> IF e = h THEN B[e] - 1 ELSE B[e]]
<1>1. Abstract!(-)(B, Abstract!SetToBag({h})) = f
  BY DEF Abstract!(-), Abstract!SetToBag
<1>2. h \in S /\ <<h>> \in Seq(S) /\ t \in Seq(S) /\ s = <<h>> \o t
  BY HeadAndTail
<1>3. \A e : Count(t, e) \in Nat /\ Count(s, e) = (IF e = h THEN 1 ELSE 0) + Count(t, e)
  BY CountFirst
<1>4. \A e : e \in DOMAIN B <=> Count(s, e) > 0
  BY BagCounts
<1>5. \A e \in DOMAIN B : B[e] = Count(s, e)
  BY BagCounts
<1>6. \A e : e \in D <=> Count(t, e) > 0
  BY <1>3, <1>4, <1>5
<1>7. \A e \in D : f[e] = Count(t, e)
  BY <1>3, <1>5
<1>8. f = [e \in D |-> f[e]]
  OBVIOUS
<1> HIDE DEF D, f
<1>9. f = BagOf(t)
  BY <1>2, <1>6, <1>7, <1>8, BagIs
<1> QED
  BY <1>1, <1>9

\* The bag of a concatenation.
LEMMA ConcatBag ==
  ASSUME NEW S, NEW s \in Seq(S), NEW t \in Seq(S)
  PROVE  Abstract!(+)(BagOf(s), BagOf(t)) = BagOf(s \o t)
<1> DEFINE A == BagOf(s)
           B == BagOf(t)
           D == DOMAIN A \cup DOMAIN B
           f == [e \in D |-> (IF e \in DOMAIN A THEN A[e] ELSE 0) + (IF e \in DOMAIN B THEN B[e] ELSE 0)]
<1>1. Abstract!(+)(A, B) = f
  BY DEF Abstract!(+)
<1>2. s \o t \in Seq(S)
  BY CountConcat
<1>3. \A e : Count(s, e) \in Nat /\ Count(t, e) \in Nat /\ Count(s \o t, e) = Count(s, e) + Count(t, e)
  BY CountConcat, PlacesFinite
<1>4. /\ \A e : e \in DOMAIN A <=> Count(s, e) > 0
      /\ \A e \in DOMAIN A : A[e] = Count(s, e)
  BY BagCounts
<1>5. /\ \A e : e \in DOMAIN B <=> Count(t, e) > 0
      /\ \A e \in DOMAIN B : B[e] = Count(t, e)
  BY BagCounts
<1>6. \A e : e \in D <=> Count(s \o t, e) > 0
  BY <1>3, <1>4, <1>5
<1>7. \A e \in D : f[e] = Count(s \o t, e)
  BY <1>3, <1>4, <1>5
<1>8. f = [e \in D |-> f[e]]
  OBVIOUS
<1> HIDE DEF D, f
<1>9. f = BagOf(s \o t)
  BY <1>2, <1>6, <1>7, <1>8, BagIs
<1> QED
  BY <1>1, <1>9

\* The order of the parts does not matter.
LEMMA ConcatSwaps ==
  ASSUME NEW S, NEW s \in Seq(S), NEW t \in Seq(S)
  PROVE  BagOf(s \o t) = BagOf(t \o s)
<1>1. s \o t \in Seq(S) /\ t \o s \in Seq(S)
  BY CountConcat
<1>2. \A c \in S : Count(s \o t, c) = Count(t \o s, c)
  BY CountConcat, PlacesFinite
<1> QED
  BY <1>1, <1>2, SameBag

\* What is left of a command is what CommandSchedule leaves.
LEMMA AgainIs ==
  ASSUME NEW c \in Cmd
  PROVE  /\ NextOccurrence(c) \in Seq(Cmd) /\ Len(NextOccurrence(c)) <= 1
         /\ Abstract!Again(c) = BagOf(NextOccurrence(c))
<1> DEFINE n == (c.next + c.period) % TimeWrap
           d == [c EXCEPT !.next = n]
<1>1. c.next \in Nat /\ c.period \in Nat /\ c.last \in Nat /\ TimeWrap \in Nat \ {0}
  BY BoundsAssumption DEF Cmd
<1>2. n \in Nat
  BY <1>1
<1>3. d \in Cmd
  BY <1>2 DEF Cmd
<1>4. BagOf(<<d>>) = Abstract!SetToBag({d})
  <2>1. Abstract!SetToBag({d}) = [e \in {d} |-> 1]
    BY DEF Abstract!SetToBag
  <2>2. DOMAIN <<d>> = {1} /\ <<d>>[1] = d
    OBVIOUS
  <2>3. DOMAIN BagOf(<<d>>) = {d}
    BY <2>2 DEF BagOf
  <2>4. BagOf(<<d>>) = [e \in {d} |-> Count(<<d>>, e)]
    <3>1. <<d>> \in Seq(Cmd)
      BY <1>3
    <3>2. BagOf(<<d>>) = [e \in DOMAIN BagOf(<<d>>) |-> Count(<<d>>, e)]
      BY <3>1, BagCounts
    <3> QED
      BY <2>3, <3>2
  <2>5. \A e \in {d} : Count(<<d>>, e) = 1
    BY CountSmall
  <2> QED
    BY <2>1, <2>4, <2>5
<1>5. CASE c.period = 0 \/ (c.last # 0 /\ n > c.last)
  <2>1. NextOccurrence(c) = << >>
    BY <1>5 DEF NextOccurrence
  <2>2. ~(c.period > 0 /\ (c.last = 0 \/ n <= c.last))
    BY <1>1, <1>2, <1>5
  <2>3. Abstract!Again(c) = Abstract!EmptyBag
    BY <2>2 DEF Abstract!Again
  <2> QED
    BY <2>1, <2>3, EmptyBags, EmptySeq
<1>6. CASE ~(c.period = 0 \/ (c.last # 0 /\ n > c.last))
  <2>1. NextOccurrence(c) = <<d>>
    BY <1>6 DEF NextOccurrence
  <2>2. c.period > 0 /\ (c.last = 0 \/ n <= c.last)
    BY <1>1, <1>2, <1>6
  <2>3. Abstract!Again(c) = Abstract!SetToBag({d})
    BY <2>2 DEF Abstract!Again
  <2> QED
    BY <1>3, <1>4, <2>1, <2>3
<1> QED
  BY <1>5, <1>6

\* A command is fired by putting what is left of it in its place.
LEMMA FiredBag ==
  ASSUME NEW s \in Seq(Cmd), s # << >>
  PROVE  BagOf(NextOccurrence(Head(s)) \o Tail(s)) =
           Abstract!(+)(Abstract!(-)(BagOf(s), Abstract!SetToBag({Head(s)})),
                        Abstract!Again(Head(s)))
<1>1. Head(s) \in Cmd /\ Tail(s) \in Seq(Cmd)
  BY HeadAndTail
<1>2. NextOccurrence(Head(s)) \in Seq(Cmd) /\ Abstract!Again(Head(s)) = BagOf(NextOccurrence(Head(s)))
  BY <1>1, AgainIs
<1>3. Abstract!(-)(BagOf(s), Abstract!SetToBag({Head(s)})) = BagOf(Tail(s))
  BY TailBag
<1>4. Abstract!(+)(BagOf(Tail(s)), BagOf(NextOccurrence(Head(s))))
        = BagOf(Tail(s) \o NextOccurrence(Head(s)))
  BY <1>1, <1>2, ConcatBag
<1>5. BagOf(Tail(s) \o NextOccurrence(Head(s))) = BagOf(NextOccurrence(Head(s)) \o Tail(s))
  BY <1>1, <1>2, ConcatSwaps
<1> QED
  BY <1>2, <1>3, <1>4, <1>5

\* Writing the next command moves it from what is to be written to the file.
LEMMA WriteMoves ==
  ASSUME NEW w \in Seq(Cmd), NEW l \in Seq(Cmd), l # << >>
  PROVE  /\ WriteAt(w, Len(w) + 1, Head(l)) \o Tail(l) = w \o l
         /\ Len(WriteAt(w, Len(w) + 1, Head(l))) = Len(w) + 1
<1> DEFINE m == Len(w)
           n == Len(l)
           v == WriteAt(w, m + 1, Head(l))
           t == Tail(l)
<1>1. /\ m \in Nat /\ DOMAIN w = 1 .. m /\ n \in Nat \ {0} /\ DOMAIN l = 1 .. n
      /\ \A i \in 1 .. m : w[i] \in Cmd
      /\ \A i \in 1 .. n : l[i] \in Cmd
  BY LenProperties, EmptySeq, ElementOfSeq
<1>2. /\ Head(l) = l[1] /\ t \in Seq(Cmd) /\ Len(t) = n - 1
      /\ \A i \in 1 .. n - 1 : t[i] = l[i + 1]
  BY HeadTailProperties
<1>3. v = [i \in 1 .. m + 1 |-> IF i = m + 1 THEN l[1] ELSE w[i]]
  BY <1>1, <1>2 DEF WriteAt
<1>4. v \in [1 .. m + 1 -> Cmd]
  BY <1>1, <1>3
<1>5. v \in Seq(Cmd) /\ Len(v) = m + 1
  BY <1>1, <1>4, FunctionIsSeq
<1> HIDE DEF v, t
<1>6. /\ v \o t \in Seq(Cmd) /\ Len(v \o t) = m + n
      /\ \A i \in 1 .. m + n : (v \o t)[i] = IF i <= m + 1 THEN v[i] ELSE t[i - (m + 1)]
  <2>1. Len(v) + Len(t) = m + n /\ Len(v) = m + 1
    BY <1>1, <1>2, <1>5
  <2>2. /\ v \o t \in Seq(Cmd) /\ Len(v \o t) = Len(v) + Len(t)
        /\ \A i \in 1 .. Len(v) + Len(t) : (v \o t)[i] = IF i <= Len(v) THEN v[i] ELSE t[i - Len(v)]
    BY <1>2, <1>5, ConcatProperties
  <2> QED
    BY <2>1, <2>2
<1>7. /\ w \o l \in Seq(Cmd) /\ Len(w \o l) = m + n
      /\ \A i \in 1 .. m + n : (w \o l)[i] = IF i <= m THEN w[i] ELSE l[i - m]
  BY ConcatProperties
<1>8. ASSUME NEW i \in 1 .. m + n PROVE (v \o t)[i] = (w \o l)[i]
  <2>1. CASE i <= m
    <3>1. (v \o t)[i] = v[i] /\ (w \o l)[i] = w[i]
      BY <1>1, <1>6, <1>7, <2>1
    <3>2. v[i] = w[i]
      BY <1>1, <1>3, <2>1
    <3> QED
      BY <3>1, <3>2
  <2>2. CASE i = m + 1
    <3>1. (v \o t)[i] = v[i] /\ (w \o l)[i] = l[i - m]
      BY <1>1, <1>6, <1>7, <2>2
    <3>2. v[i] = l[1] /\ i - m = 1
      BY <1>1, <1>3, <2>2
    <3> QED
      BY <3>1, <3>2
  <2>3. CASE i > m + 1
    <3>1. (v \o t)[i] = t[i - (m + 1)] /\ (w \o l)[i] = l[i - m]
      BY <1>1, <1>6, <1>7, <2>3
    <3>2. i - (m + 1) \in 1 .. n - 1 /\ (i - (m + 1)) + 1 = i - m
      BY <1>1, <2>3
    <3> QED
      BY <1>2, <3>1, <3>2
  <2>4. i \in Int /\ m \in Int
    BY <1>1
  <2>5. i <= m \/ i = m + 1 \/ i > m + 1
    BY <2>4
  <2> QED
    BY <2>1, <2>2, <2>3, <2>5
<1>9. v \o t = w \o l
  BY <1>6, <1>7, <1>8, SeqEqual
<1> QED
  BY <1>5, <1>9 DEF v, t

-----------------------------------------------------------------------------
(* The file never holds more commands than the array of the daemon, so     *)
(* that rewriting it cuts nothing off.                                     *)

FitsInv ==
  /\ faults = {}
  /\ Len(file.cmds) <= MaxNumCmds /\ Len(disk.cmds) <= MaxNumCmds
  /\ spc \in {"take", "open", "truncate"} => Len(scmds) <= MaxNumCmds
  /\ spc = "write" => Len(file.cmds) + Len(scmds) <= MaxNumCmds
  /\ dpc = "rewrite" => Len(file.cmds) + Len(dcmds) <= MaxNumCmds

\* When nothing may fail, nothing fails.
LEMMA NothingFails ==
  ASSUME MaxFaults = 0, faults = {}, NEW kind
  PROVE  ~Fault(kind)
BY FS_EmptySet DEF Fault

LEMMA AtMostLength ==
  ASSUME NEW S, NEW s \in Seq(S), NEW n \in Nat
  PROVE  /\ AtMost(s, n) \in Seq(S) /\ Len(AtMost(s, n)) <= n
         /\ Len(s) <= n => AtMost(s, n) = s
<1> DEFINE m == IF Len(s) < n THEN Len(s) ELSE n
<1>1. Len(s) \in Nat /\ m \in Nat /\ m <= Len(s) /\ m <= n /\ (Len(s) <= n => m = Len(s))
  BY LenProperties
<1>2. \A i \in 1 .. m : s[i] \in S
  BY <1>1, ElementOfSeq
<1>3. /\ SubSeq(s, 1, m) \in Seq(S) /\ Len(SubSeq(s, 1, m)) = m
      /\ \A i \in 1 .. m : SubSeq(s, 1, m)[i] = s[i]
  BY <1>1, <1>2, SubSeqProperties
<1>4. AtMost(s, n) = SubSeq(s, 1, m)
  BY DEF AtMost
<1>5. ASSUME Len(s) <= n PROVE SubSeq(s, 1, m) = s
  <2>1. m = Len(s)
    BY <1>1, <1>5
  <2> HIDE DEF m
  <2> QED
    BY <1>1, <1>3, <2>1, SeqEqual
<1> QED
  BY <1>1, <1>3, <1>4, <1>5

\* What the daemon writes back in a file that fits is the next occurrence of the
\* command and the other commands, all of them.
LEMMA UpdateKeeps ==
  ASSUME TypeOK, FitsInv, MaxFaults = 0, CommandStillScheduled, DUpdate
  PROVE  /\ file' = Holding(<< >>) /\ dcmds' \in Seq(Cmd) /\ Len(dcmds') <= MaxNumCmds
         /\ BagOf(dcmds') = BagOf(NextOccurrence(dcmd) \o Tail(file.cmds))
<1> DEFINE s == file.cmds
           next == NextOccurrence(dcmd)
           rest == AtMost(next \o Remaining(Len(s)), MaxNumCmds)
<1>1. \A kind : ~Fault(kind)
  BY NothingFails DEF FitsInv
<1>2. file' = Holding(<< >>) /\ dcmds' \in SortedOrders(rest)
  BY <1>1 DEF DUpdate
<1>3. dcmd = Head(s) /\ s # << >> /\ s \in Seq(Cmd) /\ dcmd \in Cmd
  BY DEF CommandStillScheduled, DUpdate, TypeOK, File
<1>4. Tail(s) \in Seq(Cmd) /\ Len(Tail(s)) = Len(s) - 1 /\ Len(s) \in Nat
  BY <1>3, HeadAndTail, LenProperties
<1>5. Remaining(Len(s)) = Tail(s)
  BY <1>3 DEF Remaining
<1>6. next \in Seq(Cmd) /\ Len(next) <= 1 /\ Len(next) \in Nat
  BY <1>3, AgainIs, LenProperties
<1> HIDE DEF next
<1>7. next \o Tail(s) \in Seq(Cmd) /\ Len(next \o Tail(s)) = Len(next) + Len(Tail(s))
  BY <1>4, <1>6, ConcatProperties
<1>8. Len(next \o Tail(s)) <= MaxNumCmds /\ MaxNumCmds \in Nat
  BY <1>4, <1>6, <1>7, BoundsAssumption DEF FitsInv
<1>9. rest = next \o Tail(s)
  BY <1>5, <1>7, <1>8, AtMostLength
<1>10. /\ dcmds' \in Seq(Cmd) /\ Len(dcmds') = Len(next \o Tail(s))
       /\ BagOf(dcmds') = BagOf(next \o Tail(s))
  BY <1>2, <1>7, <1>9, SameBagSorted
<1> QED
  BY <1>2, <1>8, <1>10 DEF next

\* An upload is cut to what fits.
LEMMA ParsedLength ==
  ASSUME NEW u \in Uploads, NEW cmds \in Parsed(u)
  PROVE  Len(cmds) <= MaxNumCmds
<1> DEFINE w == AtMost(u, MaxNumCmds)
<1>1. u \in Seq(WireCmd) /\ MaxNumCmds \in Nat
  BY UploadsAssumption, BoundsAssumption
<1>2. w \in Seq(WireCmd) /\ Len(w) <= MaxNumCmds
  BY <1>1, AtMostLength
<1>3. DOMAIN cmds = DOMAIN w
  BY DEF Parsed
<1>4. cmds \in Seq(Cmd)
  BY ParsedType
<1>5. DOMAIN cmds = 1 .. Len(cmds) /\ DOMAIN w = 1 .. Len(w) /\ Len(cmds) \in Nat /\ Len(w) \in Nat
  BY <1>2, <1>4, LenProperties
<1>6. Len(cmds) = Len(w)
  <2>1. \A n \in Nat : Cardinality(1 .. n) = n
    BY FS_Interval
  <2> QED
    BY <1>3, <1>5, <2>1
<1> QED
  BY <1>2, <1>6

LEMMA FitsInvariant == MaxFaults = 0 /\ StartupInTime => (Spec => []FitsInv)
<1> SUFFICES ASSUME MaxFaults = 0, StartupInTime PROVE Spec => []FitsInv
  OBVIOUS
<1>1. Init => FitsInv
  BY BoundsAssumption DEF Init, FitsInv, NoFile
<1>2. TypeOK /\ LockInv /\ SortInv /\ CommandStillScheduled /\ FitsInv /\ [Next]_vars => FitsInv'
  <2> SUFFICES ASSUME TypeOK, LockInv, SortInv, CommandStillScheduled, FitsInv, [Next]_vars
               PROVE  FitsInv'
    OBVIOUS
  <2>0. \A kind : ~Fault(kind)
    BY NothingFails DEF FitsInv
  <2>. USE <2>0 DEF FitsInv, time, storage, service, daemon, bounds
  <2>1. CASE SStart
    BY <2>1, EmptySeq, BoundsAssumption DEF SStart
  <2>2. CASE AcceptSelf
    BY <2>2, EmptySeq, BoundsAssumption DEF AcceptSelf
  <2>3. CASE STake
    BY <2>3, EmptySeq, BoundsAssumption DEF STake
  <2>4. CASE STakeTimeout
    BY <2>4, EmptySeq, BoundsAssumption DEF STakeTimeout
  <2>5. CASE SOpen
    BY <2>5, EmptySeq, BoundsAssumption DEF SOpen, Holding
  <2>6. CASE SOpenFails
    BY <2>6, EmptySeq, BoundsAssumption DEF SOpenFails
  <2>7. CASE STruncate
    <3>1. Len(scmds) \in Nat /\ Len(<< >>) = 0
      BY EmptySeq, LenProperties DEF TypeOK
    <3>2. spc = "truncate" /\ dpc # "rewrite" /\ file' = Holding(<< >>)
      BY <2>7 DEF STruncate, LockInv, ServiceInside, DaemonInside
    <3> QED
      BY <2>7, <3>1, <3>2, BoundsAssumption DEF STruncate, Holding
  <2>8. CASE SWrite
    <3>1. scmds \in Seq(Cmd) /\ file.cmds \in Seq(Cmd) /\ scmds # << >> /\ scmds' = Tail(scmds)
      BY <2>8 DEF SWrite, TypeOK, File
    <3>2. spc = "write" /\ dpc # "rewrite"
      BY <2>8 DEF SWrite, LockInv, ServiceInside, DaemonInside
    <3>3. file'.cmds = WriteAt(file.cmds, soff, Head(scmds)) /\ soff = Len(file.cmds) + 1
      BY <2>8, <3>2 DEF SWrite, Holding, SortInv
    <3>4. /\ Len(file'.cmds) = Len(file.cmds) + 1 /\ Len(Tail(scmds)) = Len(scmds) - 1
          /\ Len(scmds) \in Nat \ {0} /\ Len(file.cmds) \in Nat
      BY <3>1, <3>3, WriteMoves, HeadAndTail, LenProperties, EmptySeq
    <3>5. Len(file'.cmds) + Len(scmds') <= MaxNumCmds /\ Len(file'.cmds) <= MaxNumCmds
      BY <3>1, <3>2, <3>4, BoundsAssumption
    <3> QED
      BY <2>8, <3>2, <3>5 DEF SWrite
  <2>9. CASE SClose
    BY <2>9, EmptySeq, BoundsAssumption DEF SClose, CloseFile
  <2>10. CASE SUnlink
    BY <2>10, EmptySeq, BoundsAssumption DEF SUnlink, NoFile, LockInv, ServiceInside, DaemonInside
  <2>11. CASE SRead
    BY <2>11, EmptySeq, BoundsAssumption DEF SRead, CloseFile
  <2>12. CASE SGive
    BY <2>12, EmptySeq, BoundsAssumption DEF SGive
  <2>13. CASE SNotify
    BY <2>13, EmptySeq, BoundsAssumption DEF SNotify
  <2>14. CASE SReply
    BY <2>14, EmptySeq, BoundsAssumption DEF SReply
  <2>15. CASE AcceptSet
    <3>1. Len(scmds') <= MaxNumCmds
      BY <2>15, ParsedLength, ParsedType, SameBagSorted DEF AcceptSet
    <3> QED
      BY <2>15, <3>1 DEF AcceptSet, GroundRequest
  <2>16. CASE AcceptSetNoMemory
    BY <2>16, EmptySeq, BoundsAssumption DEF AcceptSetNoMemory, GroundRequest
  <2>17. CASE AcceptSetOverrun
    BY <2>17, EmptySeq, BoundsAssumption DEF AcceptSetOverrun, ResetTo
  <2>18. ASSUME NEW op \in {"delete", "get"}, AcceptOther(op) PROVE FitsInv'
    BY <2>18, EmptySeq, BoundsAssumption DEF AcceptOther, GroundRequest
  <2>19. CASE DBoot
    BY <2>19, EmptySeq, BoundsAssumption DEF DBoot
  <2>20. CASE DReceive
    BY <2>20, EmptySeq, BoundsAssumption DEF DReceive
  <2>21. CASE DTake
    BY <2>21, EmptySeq, BoundsAssumption DEF DTake
  <2>22. CASE DTakeTimeout
    BY <2>22, EmptySeq, BoundsAssumption DEF DTakeTimeout
  <2>23. CASE DOpenFails
    BY <2>23, EmptySeq, BoundsAssumption DEF DOpenFails
  <2>24. CASE DNothing
    BY <2>24, EmptySeq, BoundsAssumption DEF DNothing
  <2>25. CASE DTooEarly
    BY <2>25, EmptySeq, BoundsAssumption DEF DTooEarly
  <2>26. CASE DLook
    BY <2>26, EmptySeq, BoundsAssumption DEF DLook
  <2>38. CASE DPrepare
    BY <2>38, EmptySeq, BoundsAssumption DEF DPrepare
  <2>27. CASE DSend
    BY <2>27, EmptySeq, BoundsAssumption DEF DSend
  <2>28. CASE DSendFails
    BY <2>28, EmptySeq, BoundsAssumption DEF DSendFails
  <2>29. CASE DReply
    BY <2>29, EmptySeq, BoundsAssumption DEF DReply
  <2>30. CASE DUpdate
    <3>1. /\ file' = Holding(<< >>) /\ dcmds' \in Seq(Cmd) /\ Len(dcmds') <= MaxNumCmds
          /\ Len(<< >>) = 0
      BY <2>30, UpdateKeeps, EmptySeq
    <3>2. Len(dcmds') \in Nat
      BY <3>1, LenProperties
    <3>3. spc \notin {"open", "truncate", "write"}
      BY <2>30 DEF DUpdate, LockInv, ServiceInside, DaemonInside
    <3> QED
      BY <2>30, <3>1, <3>2, <3>3, BoundsAssumption DEF DUpdate, Holding
  <2>31. CASE DRewrite
    <3>1. dcmds \in Seq(Cmd) /\ file.cmds \in Seq(Cmd) /\ dcmds # << >> /\ dcmds' = Tail(dcmds)
      BY <2>31 DEF DRewrite, TypeOK, File
    <3>2. dpc = "rewrite" /\ spc \notin {"open", "truncate", "write"}
      BY <2>31 DEF DRewrite, LockInv, ServiceInside, DaemonInside
    <3>3. file'.cmds = WriteAt(file.cmds, doff, Head(dcmds)) /\ doff = Len(file.cmds) + 1
      BY <2>31, <3>2 DEF DRewrite, Holding, SortInv
    <3>4. /\ Len(file'.cmds) = Len(file.cmds) + 1 /\ Len(Tail(dcmds)) = Len(dcmds) - 1
          /\ Len(dcmds) \in Nat \ {0} /\ Len(file.cmds) \in Nat
      BY <3>1, <3>3, WriteMoves, HeadAndTail, LenProperties, EmptySeq
    <3>5. Len(file'.cmds) + Len(dcmds') <= MaxNumCmds /\ Len(file'.cmds) <= MaxNumCmds
      <4>1. Len(file.cmds) + Len(dcmds) <= MaxNumCmds /\ MaxNumCmds \in Nat
        BY <3>2, BoundsAssumption
      <4>2. Len(dcmds') = Len(dcmds) - 1
        BY <3>1, <3>4
      <4> QED
        BY <3>4, <4>1, <4>2
    <3> QED
      BY <2>31, <3>2, <3>5 DEF DRewrite
  <2>32. CASE DClose
    BY <2>32, EmptySeq, BoundsAssumption DEF DClose, CloseFile
  <2>33. CASE DGive
    BY <2>33, EmptySeq, BoundsAssumption DEF DGive
  <2>34. CASE Transact
    BY <2>34, EmptySeq, BoundsAssumption DEF Transact
  <2>35. CASE Reset
    BY <2>35, EmptySeq, BoundsAssumption DEF Reset, ResetTo
  <2>36. CASE Tick
    BY <2>36, EmptySeq, BoundsAssumption DEF Tick
  <2>37. CASE UNCHANGED vars
    BY <2>37 DEF vars
  <2>. QED
    BY <2>1, <2>2, <2>3, <2>4, <2>5, <2>6, <2>7, <2>8, <2>9, <2>10, <2>11, <2>12, <2>13, <2>14,
       <2>15, <2>16, <2>17, <2>18, <2>19, <2>20, <2>21, <2>22, <2>23, <2>24, <2>25, <2>26,
       <2>27, <2>28, <2>29, <2>30, <2>31, <2>32, <2>33, <2>34, <2>35, <2>36, <2>37, <2>38
    DEF Next, Service, Ground, Daemon, DaemonProgress
<1>. QED BY <1>1, <1>2, TypeCorrect, LockInvariant, SortInvariant, DispatchedFromSchedule, PTL DEF Spec

-----------------------------------------------------------------------------
(* The steps of the two tasks, as steps of CommandSchedule.                *)

\* What the schedule is and which update is under way, by the places of the
\* tasks, of which only one is writing.
Mapped ==
  /\ spc = "write" /\ dpc \notin {"await", "update", "rewrite"} =>
       Effective = file.cmds \o scmds /\ UnderWay = "upload"
  /\ spc # "write" /\ dpc \in {"await", "update"} =>
       Effective = NextOccurrence(dcmd) \o Tail(file.cmds) /\ UnderWay = "dispatch"
  /\ spc # "write" /\ dpc = "rewrite" =>
       Effective = file.cmds \o dcmds /\ UnderWay = "dispatch"
  /\ spc # "write" /\ dpc \notin {"await", "update", "rewrite"} =>
       Effective = file.cmds /\ UnderWay = "none"

LEMMA MappedAlways == Mapped /\ Mapped'
BY DEF Mapped, Effective, UnderWay

RefInv == TypeOK /\ LockInv /\ SortInv /\ CommitInv /\ CommandStillScheduled /\ FitsInv

\* The sequences are sequences of commands.
LEMMA Sequences ==
  ASSUME TypeOK
  PROVE  /\ file.cmds \in Seq(Cmd) /\ disk.cmds \in Seq(Cmd)
         /\ scmds \in Seq(Cmd) /\ dcmds \in Seq(Cmd) /\ dcmd \in Cmd
BY DEF TypeOK, File

\* A step that changes neither the file nor who is writing it, and nothing that
\* is still to be written, is no step of CommandSchedule.
LEMMA Stutters ==
  ASSUME RefInv, file'.cmds = file.cmds, disk'.cmds = disk.cmds,
         spc' = "write" <=> spc = "write",
         dpc' \in {"await", "update"} <=> dpc \in {"await", "update"},
         dpc' = "rewrite" <=> dpc = "rewrite",
         spc = "write" => scmds' = scmds,
         dpc \in {"await", "update"} => dcmd' = dcmd,
         dpc = "rewrite" => dcmds' = dcmds
  PROVE  UNCHANGED Abstract!avars
<1>1. BagOf(disk'.cmds) = BagOf(disk.cmds)
  OBVIOUS
<1>2. Effective' = Effective /\ UnderWay' = UnderWay
  <2>1. ~(spc = "write" /\ dpc \in {"await", "update", "rewrite"})
    BY DEF RefInv, LockInv, ServiceInside, DaemonInside
  <2> QED
    BY <2>1, MappedAlways DEF Mapped
<1>3. BagOf(Effective)' = BagOf(Effective)
  BY <1>2 DEF BagOf
<1> QED
  BY <1>1, <1>2, <1>3 DEF Abstract!avars

\* The upload takes effect when the file is truncated.
LEMMA TruncateReplaces ==
  ASSUME MaxFaults = 0, RefInv, STruncate
  PROVE  Abstract!Replace
<1>1. \A kind : ~Fault(kind)
  BY NothingFails DEF FitsInv, RefInv
<1>2. /\ spc = "truncate" /\ spc' = "write" /\ dpc' = dpc
      /\ disk' = disk /\ file'.cmds = << >> /\ scmds' = scmds
  BY <1>1 DEF STruncate, Holding, daemon
<1>3. dpc \notin {"await", "update", "rewrite"}
  BY <1>2 DEF RefInv, LockInv, ServiceInside, DaemonInside
<1>4. UnderWay = "none" /\ UnderWay' = "upload" /\ Effective' = << >> \o scmds
  BY <1>2, <1>3, MappedAlways DEF Mapped
<1>5. Effective' \in Seq(Cmd)
  BY <1>4, Sequences, EmptySeq, ConcatProperties DEF RefInv
<1>6. DOMAIN BagOf(Effective') \subseteq Cmd
  BY <1>5, BagCounts
<1> QED
  BY <1>2, <1>4, <1>6 DEF Abstract!Replace, Abstract!BagToSet

\* Writing the next command is no step of CommandSchedule.
LEMMA WriteStutters ==
  ASSUME MaxFaults = 0, RefInv, SWrite \/ DRewrite
  PROVE  UNCHANGED Abstract!avars
<1>1. \A kind : ~Fault(kind)
  BY NothingFails DEF FitsInv, RefInv
<1>2. CASE SWrite
  <2>1. /\ spc = "write" /\ spc' = "write" /\ scmds # << >> /\ scmds' = Tail(scmds)
        /\ disk' = disk /\ file'.cmds = WriteAt(file.cmds, soff, Head(scmds))
    BY <1>1, <1>2 DEF SWrite, Holding
  <2>2. soff = Len(file.cmds) + 1 /\ dpc \notin {"await", "update", "rewrite"} /\ dpc' = dpc
    BY <1>2, <2>1 DEF SWrite, daemon, RefInv, SortInv, FitsInv, LockInv, ServiceInside, DaemonInside
  <2>3. file'.cmds \o scmds' = file.cmds \o scmds
    BY <2>1, <2>2, Sequences, WriteMoves DEF RefInv
  <2>4. Effective' = Effective /\ UnderWay' = UnderWay
    BY <2>1, <2>2, <2>3, MappedAlways DEF Mapped
  <2> QED
    BY <2>1, <2>4 DEF Abstract!avars, BagOf
<1>3. CASE DRewrite
  <2>1. /\ dpc = "rewrite" /\ dpc' = "rewrite" /\ dcmds # << >> /\ dcmds' = Tail(dcmds)
        /\ disk' = disk /\ file'.cmds = WriteAt(file.cmds, doff, Head(dcmds)) /\ spc' = spc
    BY <1>1, <1>3 DEF DRewrite, Holding, service
  <2>2. doff = Len(file.cmds) + 1 /\ spc # "write"
    BY <2>1 DEF RefInv, SortInv, FitsInv, LockInv, ServiceInside, DaemonInside
  <2>3. file'.cmds \o dcmds' = file.cmds \o dcmds
    BY <2>1, <2>2, Sequences, WriteMoves DEF RefInv
  <2>4. Effective' = Effective /\ UnderWay' = UnderWay
    BY <2>1, <2>2, <2>3, MappedAlways DEF Mapped
  <2> QED
    BY <2>1, <2>4 DEF Abstract!avars, BagOf
<1> QED
  BY <1>2, <1>3

\* Closing what was written settles the update; closing what was only read
\* changes nothing.
LEMMA CloseSettles ==
  ASSUME MaxFaults = 0, RefInv, SClose \/ DClose
  PROVE  Abstract!Settle \/ UNCHANGED Abstract!avars
<1>1. \A kind : ~Fault(kind)
  BY NothingFails DEF FitsInv, RefInv
<1>2. /\ disk' = file /\ file' = file
  BY <1>1 DEF SClose, DClose, CloseFile
<1>3. CASE SClose
  <2>1. spc = "write" /\ spc' = "give" /\ scmds = << >> /\ dpc' = dpc
    BY <1>3 DEF SClose, daemon
  <2>2. dpc \notin {"await", "update", "rewrite"}
    BY <2>1 DEF RefInv, LockInv, ServiceInside, DaemonInside
  <2>3. Effective = file.cmds \o << >> /\ UnderWay = "upload"
    BY <2>1, <2>2, MappedAlways DEF Mapped
  <2>4. Effective' = file.cmds /\ UnderWay' = "none"
    BY <1>2, <2>1, <2>2, MappedAlways DEF Mapped
  <2>5. Effective' = Effective
    BY <2>3, <2>4, Sequences, ConcatEmptySeq DEF RefInv
  <2> QED
    BY <1>2, <2>3, <2>4, <2>5 DEF Abstract!Settle, BagOf
<1>4. CASE DClose /\ dpc = "rewrite"
  <2>1. dpc = "rewrite" /\ dpc' = "give" /\ dcmds = << >> /\ spc' = spc
    BY <1>4 DEF DClose, service
  <2>2. spc # "write"
    BY <2>1 DEF RefInv, LockInv, ServiceInside, DaemonInside
  <2>3. Effective = file.cmds \o << >> /\ UnderWay = "dispatch"
    BY <2>1, <2>2, MappedAlways DEF Mapped
  <2>4. Effective' = file.cmds /\ UnderWay' = "none"
    BY <1>2, <2>1, <2>2, MappedAlways DEF Mapped
  <2>5. Effective' = Effective
    BY <2>3, <2>4, Sequences, ConcatEmptySeq DEF RefInv
  <2> QED
    BY <1>2, <2>3, <2>4, <2>5 DEF Abstract!Settle, BagOf
<1>5. CASE DClose /\ dpc = "close"
  <2>1. dpc = "close" /\ dpc' = "give" /\ UNCHANGED <<spc, scmds, dcmd, dcmds>>
    BY <1>5 DEF DClose, service
  <2>2. spc # "write"
    BY <2>1 DEF RefInv, LockInv, ServiceInside, DaemonInside
  <2>3. disk = file
    BY <2>1, <2>2 DEF RefInv, CommitInv, FitsInv
  <2> QED
    BY <1>2, <2>1, <2>3, Stutters
<1> QED
  BY <1>3, <1>4, <1>5 DEF DClose

\* A deletion is durable at once.
LEMMA UnlinkClears ==
  ASSUME MaxFaults = 0, RefInv, SUnlink
  PROVE  Abstract!Clear \/ UNCHANGED Abstract!avars
<1>1. \A kind : ~Fault(kind)
  BY NothingFails DEF FitsInv, RefInv
<1>2. spc = "unlink" /\ spc' = "give" /\ UNCHANGED <<scmds, dpc, dcmd, dcmds>>
  BY DEF SUnlink, daemon
<1>3. dpc \notin {"await", "update", "rewrite"}
  BY <1>2 DEF RefInv, LockInv, ServiceInside, DaemonInside
<1>4. CASE file' = NoFile /\ disk' = NoFile
  <2>1. UnderWay = "none" /\ UnderWay' = "none" /\ Effective' = << >> /\ disk'.cmds = << >>
    BY <1>2, <1>3, <1>4, MappedAlways DEF Mapped, NoFile
  <2> QED
    BY <2>1, EmptyBags DEF Abstract!Clear, BagOf
<1>5. CASE file' = file /\ disk' = disk
  BY <1>2, <1>5, Stutters
<1> QED
  BY <1>1, <1>4, <1>5 DEF SUnlink

\* The dispatch fires the first command of the file, an earliest one.
LEMMA SendFires ==
  ASSUME MaxFaults = 0, RefInv, RefInv', DSend \/ DSendFails
  PROVE  \E c \in Abstract!BagToSet(BagOf(Effective)) : Abstract!Fire(c)
<1> DEFINE s == file.cmds
<1>1. /\ dpc = "fine" /\ dpc' \in {"await", "update"}
      /\ UNCHANGED <<file, disk, spc, dcmd>>
  BY DEF DSend, DSendFails, storage, service
<1>2. spc # "write"
  BY <1>1 DEF RefInv, LockInv, ServiceInside, DaemonInside
<1>3. s \in Seq(Cmd) /\ s # << >> /\ dcmd = Head(s)
  BY <1>1, Sequences DEF RefInv, CommandStillScheduled
<1>4. Effective = s /\ UnderWay = "none"
  BY <1>1, <1>2, MappedAlways DEF Mapped
<1>5. Effective' = NextOccurrence(Head(s)) \o Tail(s) /\ UnderWay' = "dispatch"
  BY <1>1, <1>2, <1>3, MappedAlways DEF Mapped
<1>6. DOMAIN BagOf(s) = {s[i] : i \in DOMAIN s}
  BY DEF BagOf
<1>7. Head(s) = s[1] /\ 1 \in DOMAIN s
  BY <1>3, LenProperties, EmptySeq, HeadTailProperties
<1>8. Head(s) \in DOMAIN BagOf(s)
  BY <1>6, <1>7
<1>9. \A d \in DOMAIN BagOf(s) : Head(s).next <= d.next
  <2> SUFFICES ASSUME NEW i \in DOMAIN s PROVE s[1].next <= s[i].next
    BY <1>6, <1>7
  <2>1. IsSorted(s)
    BY DEF RefInv, SortInv, SortedFile, FitsInv
  <2>2. i \in Nat /\ i >= 1 /\ s[1].next \in Nat
    <3>1. s[1] \in Cmd
      BY <1>3, <1>7, HeadTailProperties
    <3>2. DOMAIN s = 1 .. Len(s) /\ Len(s) \in Nat
      BY <1>3, LenProperties
    <3> QED
      BY <3>1, <3>2 DEF Cmd
  <2>3. CASE i = 1
    BY <2>2, <2>3
  <2>4. CASE i > 1
    BY <1>7, <2>1, <2>4 DEF IsSorted
  <2> QED
    BY <2>2, <2>3, <2>4
<1>10. Abstract!Fire(Head(s))
  <2>1. BagOf(Effective)' = BagOf(NextOccurrence(Head(s)) \o Tail(s))
    BY <1>5 DEF BagOf
  <2>2. BagOf(Effective') =
           Abstract!(+)(Abstract!(-)(BagOf(s), Abstract!SetToBag({Head(s)})),
                        Abstract!Again(Head(s)))
    BY <1>3, <1>5, FiredBag
  <2>3. BagOf(disk.cmds)' = BagOf(disk.cmds)
    BY <1>1 DEF BagOf
  <2> QED
    BY <1>4, <1>5, <1>8, <1>9, <2>2, <2>3
    DEF Abstract!Fire, Abstract!Earliest, Abstract!BagToSet
<1> QED
  BY <1>4, <1>8, <1>10 DEF Abstract!BagToSet

\* Reading, sorting and truncating the file leaves the bag as it is.
LEMMA UpdateStutters ==
  ASSUME MaxFaults = 0, RefInv, DUpdate
  PROVE  UNCHANGED Abstract!avars
<1>1. /\ dpc = "update" /\ dpc' = "rewrite" /\ disk' = disk /\ spc' = spc
  BY DEF DUpdate, service
<1>2. spc # "write"
  BY <1>1 DEF RefInv, LockInv, ServiceInside, DaemonInside
<1>3. /\ file'.cmds = << >> /\ dcmds' \in Seq(Cmd)
      /\ BagOf(dcmds') = BagOf(NextOccurrence(dcmd) \o Tail(file.cmds))
  BY UpdateKeeps DEF RefInv, Holding
<1>4. Effective = NextOccurrence(dcmd) \o Tail(file.cmds) /\ UnderWay = "dispatch"
  BY <1>1, <1>2, MappedAlways DEF Mapped
<1>5. Effective' = << >> \o dcmds' /\ UnderWay' = "dispatch"
  BY <1>1, <1>2, <1>3, MappedAlways DEF Mapped
<1>6. Effective' = dcmds'
  BY <1>3, <1>5, ConcatEmptySeq
<1>7. BagOf(Effective') = BagOf(Effective)
  BY <1>3, <1>4, <1>6
<1>8. BagOf(disk'.cmds) = BagOf(disk.cmds)
  BY <1>1
<1> QED
  BY <1>4, <1>5, <1>7, <1>8 DEF Abstract!avars

\* Another task's transaction point saves a part of an update.
LEMMA TransactSaves ==
  ASSUME MaxFaults = 0, RefInv, Transact
  PROVE  Abstract!SavePart
<1>1. disk # file /\ disk' = file /\ UNCHANGED <<file, spc, scmds, dpc, dcmd, dcmds>>
  BY DEF Transact, service, daemon
<1>2. /\ spc = "write" \/ dpc = "rewrite"
      /\ ~(spc = "write" /\ dpc \in {"await", "update", "rewrite"})
  BY <1>1 DEF RefInv, CommitInv, FitsInv, LockInv, ServiceInside, DaemonInside
<1>3. Effective' = Effective /\ UnderWay' = UnderWay /\ UnderWay # "none"
  BY <1>1, <1>2, MappedAlways DEF Mapped
<1>4. \E t \in Seq(Cmd) : Effective = file.cmds \o t
  BY <1>2, MappedAlways, Sequences DEF Mapped, RefInv
<1>5. Abstract!\sqsubseteq(BagOf(file.cmds), BagOf(Effective))
  BY <1>4, Sequences, PartOfBag DEF RefInv
<1>6. BagOf(disk'.cmds) = BagOf(file.cmds)
  BY <1>1
<1> QED
  BY <1>3, <1>5, <1>6 DEF Abstract!SavePart

LEMMA ResetResets ==
  ASSUME ResetTo(disk)
  PROVE  Abstract!Reset
<1>1. spc' = "off" /\ dpc' = "boot" /\ file' = disk /\ disk' = disk
  BY DEF ResetTo
<1>2. Effective' = disk.cmds /\ UnderWay' = "none"
  BY <1>1, MappedAlways DEF Mapped
<1> QED
  BY <1>1, <1>2 DEF Abstract!Reset, BagOf

LEMMA StepRefines ==
  ASSUME MaxFaults = 0, RefInv, RefInv', [Next]_vars
  PROVE  [Abstract!Next]_Abstract!avars
<1>0. \A kind : ~Fault(kind)
  BY NothingFails DEF FitsInv, RefInv
<1>. USE <1>0 DEF time, storage, service, daemon, bounds
<1>1. CASE SStart
  BY <1>1, Stutters DEF SStart
<1>2. CASE AcceptSelf
  BY <1>2, Stutters DEF AcceptSelf
<1>3. CASE STake
  BY <1>3, Stutters DEF STake
<1>4. CASE STakeTimeout
  BY <1>4, Stutters DEF STakeTimeout
<1>5. CASE SOpen
  <2>1. disk = file
    BY <1>5 DEF SOpen, RefInv, CommitInv, FitsInv, LockInv, ServiceInside, DaemonInside
  <2> QED
    BY <1>5, <2>1, Stutters DEF SOpen, Holding
<1>6. CASE SOpenFails
  BY <1>6, Stutters DEF SOpenFails
<1>7. CASE SRead
  <2>1. disk = file
    BY <1>7 DEF SRead, RefInv, CommitInv, FitsInv, LockInv, ServiceInside, DaemonInside
  <2> QED
    BY <1>7, <2>1, Stutters DEF SRead, CloseFile
<1>8. CASE SGive
  BY <1>8, Stutters DEF SGive
<1>9. CASE SNotify
  BY <1>9, Stutters DEF SNotify
<1>10. CASE SReply
  BY <1>10, Stutters DEF SReply
<1>11. CASE AcceptSet
  BY <1>11, Stutters DEF AcceptSet, GroundRequest
<1>12. CASE AcceptSetNoMemory
  BY <1>12, Stutters DEF AcceptSetNoMemory, GroundRequest
<1>13. CASE DBoot
  BY <1>13, Stutters DEF DBoot
<1>14. CASE DReceive
  BY <1>14, Stutters DEF DReceive
<1>15. CASE DTake
  BY <1>15, Stutters DEF DTake
<1>16. CASE DTakeTimeout
  BY <1>16, Stutters DEF DTakeTimeout
<1>17. CASE DOpenFails
  BY <1>17, Stutters DEF DOpenFails
<1>18. CASE DNothing
  BY <1>18, Stutters DEF DNothing
<1>19. CASE DTooEarly
  BY <1>19, Stutters DEF DTooEarly
<1>20. CASE DLook
  BY <1>20, Stutters DEF DLook
<1>38. CASE DPrepare
  BY <1>38, Stutters DEF DPrepare
<1>21. CASE DReply
  BY <1>21, Stutters DEF DReply
<1>22. CASE DGive
  BY <1>22, Stutters DEF DGive
<1>23. CASE Tick
  BY <1>23, Stutters DEF Tick
<1>24. ASSUME NEW op \in {"delete", "get"}, AcceptOther(op)
      PROVE  UNCHANGED Abstract!avars
  BY <1>24, Stutters DEF AcceptOther, GroundRequest
<1>25. CASE UNCHANGED vars
  BY <1>25, Stutters DEF vars
<1>26. CASE STruncate
  BY <1>26, TruncateReplaces DEF Abstract!Next
<1>27. CASE SWrite
  BY <1>27, WriteStutters DEF Abstract!Next
<1>28. CASE DRewrite
  BY <1>28, WriteStutters DEF Abstract!Next
<1>29. CASE SClose
  BY <1>29, CloseSettles DEF Abstract!Next
<1>30. CASE DClose
  BY <1>30, CloseSettles DEF Abstract!Next
<1>31. CASE SUnlink
  BY <1>31, UnlinkClears DEF Abstract!Next
<1>32. CASE DSend
  BY <1>32, SendFires DEF Abstract!Next
<1>33. CASE DSendFails
  BY <1>33, SendFires DEF Abstract!Next
<1>34. CASE DUpdate
  BY <1>34, UpdateStutters DEF Abstract!Next
<1>35. CASE Transact
  BY <1>35, TransactSaves DEF Abstract!Next
<1>36. CASE Reset
  BY <1>36, ResetResets DEF Reset, Abstract!Next
<1>37. CASE AcceptSetOverrun
  BY <1>37, ResetResets DEF AcceptSetOverrun, Abstract!Next
<1>. QED
  BY <1>1, <1>2, <1>3, <1>4, <1>5, <1>6, <1>7, <1>8, <1>9, <1>10, <1>11, <1>12,
     <1>13, <1>14, <1>15, <1>16, <1>17, <1>18, <1>19, <1>20, <1>21, <1>22, <1>23, <1>24,
     <1>25, <1>26, <1>27, <1>28, <1>29, <1>30, <1>31, <1>32, <1>33, <1>34, <1>35, <1>36,
     <1>37, <1>38
  DEF Next, Service, Ground, Daemon, DaemonProgress

\* Both tasks, for every set of uploads, all waits and any number of requests
\* and resets, implement CommandSchedule: each command fires once per
\* occurrence and in order, and a reset undoes or tears only the update that
\* was under way.
THEOREM Implements ==
  ASSUME MaxFaults = 0, StartupInTime
  PROVE  Spec => ImplementsCommandSchedule
<1>1. Init => Abstract!Init
  <2> SUFFICES ASSUME Init PROVE Abstract!Init
    OBVIOUS
  <2>1. spc = "off" /\ dpc = "boot" /\ file.cmds = << >> /\ disk.cmds = << >>
    BY DEF Init, NoFile
  <2>2. Effective = << >> /\ UnderWay = "none"
    BY <2>1, MappedAlways DEF Mapped
  <2> QED
    BY <2>1, <2>2, EmptyBags DEF Abstract!Init
<1>2. RefInv /\ RefInv' /\ [Next]_vars => [Abstract!Next]_Abstract!avars
  BY StepRefines
<1>3. TypeOK /\ LockInv /\ SortInv /\ CommitInv /\ CommandStillScheduled /\ FitsInv => RefInv
  BY DEF RefInv
<1>4. Spec => [](TypeOK /\ LockInv /\ SortInv /\ CommitInv /\ CommandStillScheduled /\ FitsInv)
  BY TypeCorrect, LockInvariant, SortInvariant, CommitInvariant, DispatchedFromSchedule,
     FitsInvariant, PTL
<1>5. Spec => []RefInv
  BY <1>3, <1>4, PTL
<1> QED
  BY <1>1, <1>2, <1>5, PTL DEF Spec, ImplementsCommandSchedule, Abstract!Spec

-----------------------------------------------------------------------------
(* A sleeping daemon wakes up in time, when only waits take time: the      *)
(* timeout it computes reaches to the due second of the first command at   *)
(* most, and while it sleeps on an older one either nothing has changed or *)
(* a notification is in the queue.                                         *)

WakesInTime(cmds, wait) ==
  cmds # << >> /\ Head(cmds).next > Unix(now) => now + wait <= Head(cmds).next * Sec

\* The service is changing the file, or has yet to say so.
Changing ==
  \/ spc \in {"open", "truncate", "write", "unlink", "notify"}
  \/ spc = "give" /\ sop # "get"

\* The timeout is right from its computation on, as long as the daemon is at
\* the file; and it never waits for the mutex, which the service holds for no
\* time: giving up there would put it to sleep for the default time.
WakeInv ==
  /\ dpc = "receive" /\ queue = 0 /\ ~Changing => WakesInTime(file.cmds, dwait)
  /\ dpc \in {"close", "give"} => WakesInTime(file.cmds, dtimeout)
  /\ dpc = "rewrite" => WakesInTime(file.cmds \o dcmds, dtimeout)
  /\ dpc = "take" => dwait = SemWait
  /\ spc \in {"open", "truncate", "write"} => sop = "set"
  /\ spc = "unlink" => sop = "delete"
  /\ ~file.exists => file.cmds = << >>
  /\ ~disk.exists => disk.cmds = << >>

\* A second yet to come begins after this instant.
LEMMA SecondAhead ==
  ASSUME NEW n \in Nat, NEW t \in Nat, Unix(t) < n
  PROVE  /\ n * Sec \in Nat /\ t < n * Sec
         /\ t + 1 <= n * Sec
         /\ t + (n - Unix(t)) * Sec <= n * Sec + Sec - 1
<1>. DEFINE u == Unix(t)  k == n - u
<1>0. Unix(t) \in Nat
  BY InstantParts
<1>1. Sec \in Nat \ {0} /\ u \in Nat /\ k \in Nat \ {0}
  BY <1>0, WaitsAssumption
<1>2. Ms(t) \in 0 .. Sec - 1 /\ u * Sec + Ms(t) = t /\ u * Sec \in Nat
  BY InstantParts
<1>3. n = u + k
  BY <1>1
<1>. HIDE DEF u, k
<1>4. n * Sec = u * Sec + k * Sec
  BY <1>1, <1>3
<1>5. k * Sec \in Nat /\ k * Sec >= Sec
  BY <1>1
<1>6. t + k * Sec <= n * Sec + Sec - 1
  BY <1>1, <1>2, <1>4, <1>5
<1>. QED BY <1>1, <1>2, <1>4, <1>5, <1>6 DEF k, u

LEMMA UnixAdvances ==
  ASSUME NEW t \in Nat, NEW u \in {t, t + 1}
  PROVE  /\ Unix(t) \in Nat /\ Unix(u) \in Nat /\ Unix(t) <= Unix(u)
<1>1. Sec \in Nat \ {0} /\ u \in Nat
  BY WaitsAssumption
<1>2. t \div Sec <= (t + 1) \div Sec
  BY <1>1
<1>3. Unix(t) \in Nat /\ Unix(u) \in Nat
  BY <1>1, InstantParts
<1>4. Unix(t) <= Unix(u)
  BY <1>1, <1>2, <1>3 DEF Unix
<1>. QED BY <1>3, <1>4

LEMMA EarlyCovers ==
  ASSUME NEW c \in Cmd, now \in Nat, TooEarly(c, now)
  PROVE  now + EarlyWait(c) <= c.next * Sec
<1>. DEFINE wait == Wait(c, now)
            k == c.next - Unix(now)
            w == (wait - Coarse) * Sec
<1>0. c.next \in Nat /\ Unix(now) \in Nat /\ ~(c.next <= Unix(now))
  BY CmdParts, InstantParts DEF TooEarly, Missed
<1>1. /\ c.next \in Nat /\ Unix(now) \in Nat /\ Unix(now) < c.next
      /\ Sec \in Nat \ {0} /\ Coarse \in Nat \ {0}
  BY <1>0, WaitsAssumption
<1>2. wait \in Int /\ wait <= k /\ wait > Coarse /\ k \in Nat
  BY <1>1, WaitParts DEF TooEarly
<1>3. now + k * Sec <= c.next * Sec + Sec - 1 /\ c.next * Sec \in Nat
  BY <1>1, SecondAhead
<1>4. w \in Nat \ {0} /\ EarlyWait(c) \in Nat
  BY EarlyWaitType
<1>5. EarlyWait(c) = Ticks(w)
  BY DEF EarlyWait
<1>6. w + Sec <= k * Sec
  <2>. HIDE DEF wait, k
  <2>1. \A i, j \in Int, d \in Nat \ {0} : i <= j /\ d >= 1 => (i - d) * Sec + Sec <= j * Sec
    <3>. SUFFICES ASSUME NEW i \in Int, NEW j \in Int, NEW d \in Nat \ {0}, i <= j
                  PROVE  (i - d) * Sec + Sec <= j * Sec
      OBVIOUS
    <3>1. PICK e \in Nat : j = (i - d) + 1 + e
      <4>1. j - (i - d) - 1 \in Nat
        OBVIOUS
      <4>. QED BY <4>1
    <3>2. j * Sec = (i - d) * Sec + Sec + e * Sec
      BY <1>1, <3>1
    <3>3. e * Sec \in Nat /\ (i - d) * Sec \in Int
      BY <1>1, <3>1
    <3>. QED BY <1>1, <3>2, <3>3
  <2>. QED BY <1>1, <1>2, <2>1
<1>. HIDE DEF w, k
<1>7. Ticks(w) <= w
  BY <1>4, TicksParts
<1>8. k * Sec \in Int
  BY <1>1, <1>2
<1>. DEFINE p == k * Sec  q == c.next * Sec
<1>9. now + p <= q + Sec - 1 /\ w + Sec <= p /\ p \in Int /\ q \in Nat
  BY <1>3, <1>6, <1>8
<1>. HIDE DEF p, q
<1>10. now + EarlyWait(c) <= q
  BY <1>1, <1>4, <1>5, <1>7, <1>9
<1>. QED BY <1>10 DEF q

\* A remainder in the lower half of its range is that of a number which is
\* negative by at least as much, and by more than the upper half.
LEMMA LowHalf ==
  ASSUME NEW w \in Nat \ {0}, NEW x \in Int, x < 0, 2 * (x % w) < w
  PROVE  -2 * x > w
<1>a. x % w \in 0 .. w - 1 /\ x \div w \in Int
  OBVIOUS
<1>b. x = w * (x \div w) + (x % w)
  OBVIOUS
<1>. DEFINE q == x \div w  m == x % w
<1>. HIDE DEF q, m
<1>2. q \in Int /\ m \in 0 .. w - 1 /\ x = w * q + m /\ 2 * m < w
  BY <1>a, <1>b DEF q, m
<1>3. q <= -1
  BY <1>2
<1>4. w * q <= -w
  BY <1>2, <1>3
<1>. QED BY <1>2, <1>4

\* For a command yet to come the wait is 0, or, as lateness wrapped around,
\* still less than the time there is.
LEMMA LateCovers ==
  ASSUME NEW c \in Cmd, now \in Nat, c.next > Unix(now)
  PROVE  now + LateWait(c) <= c.next * Sec
<1>. DEFINE k == c.next - Unix(now)
            n == k * Sec
            x == (Unix(now) - c.next) * Sec
            q == c.next * Sec
<1>0. c.next \in Nat /\ Unix(now) \in Nat
  BY CmdParts, InstantParts
<1>1. /\ c.next \in Nat /\ Unix(now) \in Nat /\ k \in Nat \ {0}
      /\ Sec \in Nat \ {0} /\ Coarse \in Nat \ {0}
      /\ MsecWrap \in Nat \ {0} /\ TickWrap \in Nat \ {0} /\ MsecWrap >= 2 * (TickWrap + Sec)
  BY <1>0, WaitsAssumption, BoundsAssumption, WidthsAssumption
<1>2. q \in Nat /\ now < q /\ now + n <= q + Sec - 1
  BY <1>1, SecondAhead
<1>3. x = -n /\ n \in Nat \ {0}
  <2>1. Unix(now) - c.next = -k
    BY <1>1
  <2>. HIDE DEF k
  <2>. QED BY <1>1, <2>1
<1>4. LateWait(c) \in Nat /\ (LateWait(c) = 0 \/ LateWait(c) <= TickWrap)
  BY LateWaitType
<1>5. LateWait(c) = IF Signed(x, MsecWrap) < Coarse * Sec THEN 0
                    ELSE Ticks(Signed(x, MsecWrap))
  BY DEF LateWait
<1>. HIDE DEF k, n, x, q
<1>6. CASE Signed(x, MsecWrap) < Coarse * Sec
  BY <1>2, <1>5, <1>6 DEF q
<1>7. CASE ~(Signed(x, MsecWrap) < Coarse * Sec)
  <2>1. x \in Int /\ x < 0 /\ x % MsecWrap \in 0 .. MsecWrap - 1
    BY <1>1, <1>3
  <2>2. Signed(x, MsecWrap) \in Int /\ Coarse * Sec \in Nat
    BY <1>1, <2>1, SignedParts
  <2>3. Signed(x, MsecWrap) >= 0
    BY <1>7, <2>2
  <2>4. 2 * (x % MsecWrap) < MsecWrap
    BY <1>1, <2>1, <2>3 DEF Signed
  <2>5. -2 * x > MsecWrap
    BY <1>1, <2>1, <2>4, LowHalf
  <2>6. n > TickWrap + Sec
    BY <1>1, <1>3, <2>1, <2>5
  <2>7. now + LateWait(c) <= q
    BY <1>1, <1>2, <1>3, <1>4, <2>6
  <2>. QED BY <2>7 DEF q
<1>. QED BY <1>6, <1>7

LEMMA WakeInvariant ==
  MaxFaults = 0 /\ StartupInTime /\ Prompt => (Spec => []WakeInv)
<1> SUFFICES ASSUME MaxFaults = 0, StartupInTime, Prompt PROVE Spec => []WakeInv
  OBVIOUS
<1>1. Init => WakeInv
  BY DEF Init, WakeInv, NoFile
<1>2. /\ TypeOK /\ LockInv /\ LockInv' /\ SortInv /\ CommandStillScheduled /\ FitsInv /\ WakeInv
      /\ [Next]_vars
      => WakeInv'
  <2> SUFFICES ASSUME TypeOK, LockInv, LockInv', SortInv, CommandStillScheduled, FitsInv,
                      WakeInv, [Next]_vars
               PROVE  WakeInv'
    OBVIOUS
  <2>sound. \A kind : ~Fault(kind)
    BY NothingFails DEF FitsInv
  <2>data. /\ now \in Nat /\ dwait \in Nat /\ queue \in Nat
           /\ file.cmds \in Seq(Cmd) /\ dcmds \in Seq(Cmd)
    BY Sequences DEF TypeOK
  <2>runs. dpc # "assert"
    BY DEF LockInv
  <2>. USE DEF WakeInv, WakesInTime, Changing, LockInv, ServiceInside, DaemonInside,
               time, storage, service, daemon, bounds
  <2>1. CASE SStart
    BY <2>1 DEF SStart
  <2>2. CASE AcceptSelf
    BY <2>2 DEF AcceptSelf
  <2>3. CASE STake
    BY <2>3 DEF STake, Available
  <2>4. CASE STakeTimeout
    BY <2>4 DEF STakeTimeout, Available
  <2>5. CASE SOpen
    BY <2>5 DEF SOpen, Holding
  <2>6. CASE SOpenFails
    BY <2>sound, <2>6 DEF SOpenFails
  <2>7. CASE STruncate
    BY <2>sound, <2>7 DEF STruncate, Holding
  <2>8. CASE SWrite
    BY <2>sound, <2>8 DEF SWrite, Holding
  <2>9. CASE SClose
    BY <2>sound, <2>9 DEF SClose, CloseFile
  <2>10. CASE SUnlink
    BY <2>sound, <2>10 DEF SUnlink, NoFile
  <2>11. CASE SRead
    BY <2>sound, <2>11 DEF SRead, CloseFile
  <2>12. CASE SGive
    BY <2>12 DEF SGive
  <2>13. CASE SNotify
    BY <2>13, <2>data, BoundsAssumption DEF SNotify, Notified
  <2>14. CASE SReply
    BY <2>14 DEF SReply
  <2>15. CASE AcceptSet
    BY <2>15 DEF AcceptSet, GroundRequest
  <2>16. CASE AcceptSetNoMemory
    BY <2>sound, <2>16 DEF AcceptSetNoMemory
  <2>17. CASE AcceptSetOverrun
    BY <2>17 DEF AcceptSetOverrun, ResetTo
  <2>18. ASSUME NEW op \in {"delete", "get"}, AcceptOther(op) PROVE WakeInv'
    BY <2>18 DEF AcceptOther, GroundRequest
  <2>19. CASE DBoot
    <3>1. now \in Nat /\ dwait = 0 /\ dwait' = 0 /\ file' = file /\ now' = now
      BY <2>19 DEF DBoot, TypeOK
    <3>2. file.cmds # << >> => Head(file.cmds).next \in Nat
      BY <2>data, HeadAndTail DEF Cmd
    <3>3. WakesInTime(file.cmds, dwait)'
      BY <3>1, <3>2, SecondAhead
    <3> QED
      BY <2>19, <3>3 DEF DBoot
  <2>20. CASE DReceive
    BY <2>20 DEF DReceive
  <2>21. CASE DTake
    BY <2>21 DEF DTake
  <2>22. CASE DTakeTimeout
    BY <2>22, WaitsAssumption DEF DTakeTimeout
  <2>23. CASE DOpenFails
    BY <2>sound, <2>23 DEF DOpenFails
  <2>24. CASE DNothing
    BY <2>sound, <2>24 DEF DNothing
  <2>25. CASE DTooEarly
    <3>1. file.cmds # << >> /\ TooEarly(Head(file.cmds), now)
      BY <2>25 DEF DTooEarly
    <3>2. Head(file.cmds) \in Cmd
      BY <2>data, <3>1, HeadAndTail
    <3>3. now + EarlyWait(Head(file.cmds)) <= Head(file.cmds).next * Sec
      BY <2>data, <3>1, <3>2, EarlyCovers
    <3> QED
      BY <2>25, <3>3 DEF DTooEarly
  <2>26. CASE DLook
    BY <2>26 DEF DLook
  <2>38. CASE DPrepare
    BY <2>38 DEF DPrepare
  <2>27. CASE DSend
    BY <2>27 DEF DSend
  <2>28. CASE DSendFails
    BY <2>28 DEF DSendFails
  <2>29. CASE DReply
    BY <2>29 DEF DReply
  <2>30. CASE DUpdate
    <3>1. /\ file'.cmds = << >> /\ file'.exists /\ dcmds' \in Seq(Cmd)
          /\ dtimeout' = CoarseWait(dcmds') /\ dpc' = "rewrite"
          /\ UNCHANGED <<now, disk, spc, sop, queue, dwait>>
      BY <2>30, UpdateKeeps DEF DUpdate, Holding
    <3>2. file'.cmds \o dcmds' = dcmds'
      BY <3>1, EmptySeq, ConcatEmptySeq
    <3>3. ASSUME dcmds' # << >>, Head(dcmds').next > Unix(now)
          PROVE  now + dtimeout' <= Head(dcmds').next * Sec
      <4>1. Head(dcmds') \in Cmd
        BY <3>1, <3>3, HeadAndTail
      <4> QED
        BY <2>data, <3>1, <3>3, <4>1, LateCovers DEF CoarseWait
    <3> QED
      BY <3>1, <3>2, <3>3
  <2>31. CASE DRewrite
    <3>1. /\ dcmds # << >> /\ dcmds' = Tail(dcmds) /\ dpc = "rewrite" /\ dpc' = "rewrite"
          /\ file' = Holding(WriteAt(file.cmds, doff, Head(dcmds)))
          /\ UNCHANGED <<now, disk, spc, sop, queue, dwait, dtimeout>>
      BY <2>sound, <2>31 DEF DRewrite
    <3>2. doff = Len(file.cmds) + 1
      BY <3>1 DEF SortInv, FitsInv
    <3>3. file'.cmds \o dcmds' = file.cmds \o dcmds
      BY <2>data, <3>1, <3>2, WriteMoves DEF Holding
    <3> QED
      BY <3>1, <3>3 DEF Holding
  <2>32. CASE DClose
    <3>1. file.cmds \o << >> = file.cmds
      BY <2>data, ConcatEmptySeq
    <3> QED
      BY <2>32, <3>1 DEF DClose, CloseFile
  <2>33. CASE DGive
    BY <2>33 DEF DGive
  <2>34. CASE Transact
    BY <2>34 DEF Transact
  <2>35. CASE Reset
    BY <2>35 DEF Reset, ResetTo
  <2>36. CASE Tick
    <3>1. ServiceWaits /\ DaemonWaits
      BY <2>36 DEF Tick
    <3>2. dpc # "take"
      BY <3>1, <2>runs DEF ServiceWaits, DaemonWaits, Scheduled, TypeOK
    <3>3. dpc \notin {"close", "give", "rewrite"}
      BY <3>1, <2>runs DEF DaemonWaits
    <3>4. dpc = "receive" /\ queue = 0 => dwait > 0
      BY <3>1, <2>runs DEF DaemonWaits
    <3>5. /\ now' = (IF now < Horizon THEN now + 1 ELSE now)
          /\ dwait' = (IF dwait > 0 THEN dwait - 1 ELSE 0)
          /\ UNCHANGED <<file, disk, queue, spc, sop, dpc, dcmds, dtimeout>>
      BY <2>36 DEF Tick, Less
    <3>6. file.cmds # << >> => Head(file.cmds).next \in Nat
      BY <2>data, HeadAndTail DEF Cmd
    <3>7. ASSUME dpc = "receive", queue = 0, WakesInTime(file.cmds, dwait)
          PROVE  WakesInTime(file.cmds, dwait)'
      <4>. SUFFICES ASSUME file.cmds # << >>, Head(file.cmds).next > Unix(now')
                    PROVE  now' + dwait' <= Head(file.cmds).next * Sec
        BY <3>5
      <4>1. now' \in {now, now + 1} /\ dwait > 0 /\ dwait' = dwait - 1
        BY <2>data, <3>4, <3>5, <3>7
      <4>2. Head(file.cmds).next > Unix(now)
        <5>1. Unix(now) <= Unix(now') /\ Unix(now) \in Nat /\ Unix(now') \in Nat
          <6>1. now \in Nat
            BY <2>data
          <6>. QED BY ONLY <4>1, <6>1, UnixAdvances
        <5>. QED BY <3>6, <5>1
      <4>. QED BY <2>data, <3>6, <3>7, <4>1, <4>2, SecondAhead
    <3> QED
      BY <3>2, <3>3, <3>5, <3>7
  <2>37. CASE UNCHANGED vars
    BY <2>37 DEF vars
  <2>. QED
    BY <2>1, <2>2, <2>3, <2>4, <2>5, <2>6, <2>7, <2>8, <2>9, <2>10, <2>11,
       <2>12, <2>13, <2>14, <2>15, <2>16, <2>17, <2>18, <2>19, <2>20, <2>21,
       <2>22, <2>23, <2>24, <2>25, <2>26, <2>27, <2>28, <2>29, <2>30, <2>31,
       <2>32, <2>33, <2>34, <2>35, <2>36, <2>37, <2>38
    DEF Next, Service, Ground, Daemon, DaemonProgress
<1>. QED
  BY <1>1, <1>2, TypeCorrect, LockInvariant, SortInvariant, DispatchedFromSchedule,
     FitsInvariant, PTL DEF Spec

\* If steps take no time, nothing fails and the service starts in time, no
\* notification is lost and no timeout is too long: a sleeping daemon wakes up
\* before the first command of the file is due.
THEOREM NeverOversleeps ==
  MaxFaults = 0 /\ StartupInTime /\ Prompt => (Spec => []NoOversleep)
<1>1. WakeInv => NoOversleep
  BY DEF WakeInv, NoOversleep, WakesInTime, Changing, ServiceInside
<1>. QED
  BY <1>1, WakeInvariant, PTL
=============================================================================
