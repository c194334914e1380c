------------------------ MODULE RankingCohortProofs ------------------------
(***************************************************************************)
(* Proofs that a cohort the gate accepts carries the right ranks and that  *)
(* one it refuses does not, for every number of members, every list of     *)
(* scores and all three tie methods.  The pass over the sorted scores      *)
(* computes, place by place, what ReferenceRank defines by counting the    *)
(* better members or values.                                               *)
(***************************************************************************)
EXTENDS RankingCohort, FiniteSetTheorems, FunctionTheorems, Functions, TLAPS

\* The members at the places 1..p of the sorted list, and their values.
MembersTo(p) == {At(q) : q \in 1..p}
ValuesTo(p)  == {Value(At(q)) : q \in 1..p}

\* The sorted list holds every ranking once.
Permuted ==
    /\ ordered \in [1..n -> 1..n]
    /\ \A p, q \in 1..n : p # q => ordered[p] # ordered[q]
    /\ \A i \in 1..n : \E p \in 1..n : ordered[p] = i

\* The cohort is complete and scored, and its scores are sorted.
Ready ==
    /\ n \in Nat
    /\ Cardinality(Cohort) = n
    /\ \A m \in Cohort : Value(m) \in Int
    /\ Permuted
    /\ \A p \in 1..n : \A q \in (p + 1)..n :
         Better(Value(At(p)), Value(At(q))) \/ Value(At(p)) = Value(At(q))
-----------------------------------------------------------------------------
\* A complete cohort lists nobody twice.
LEMMA MembersDiffer ==
  ASSUME Ready
  PROVE  \A i, j \in 1..n : i # j => rankings[i].member # rankings[j].member
<1> DEFINE f == [i \in 1..n |-> rankings[i].member]
<1>1. f \in Surjection(1..n, Cohort)
  BY DEF Surjection, Cohort
<1>2. IsFiniteSet(1..n) /\ Cardinality(1..n) = n
  BY FS_Interval DEF Ready
<1>3. f \in Injection(1..n, Cohort)
  BY <1>1, <1>2, FS_Surjection DEF Ready
<1> QED
  BY <1>3 DEF Injection, IsInjective

\* Each member has one place in the sorted list.
LEMMA PlacesAreMembers ==
  ASSUME Ready
  PROVE  /\ \A p \in 1..n : At(p) \in Cohort
         /\ \A m \in Cohort : \E p \in 1..n : At(p) = m
         /\ \A p, q \in 1..n : p # q => At(p) # At(q)
<1>0. Permuted
  BY DEF Ready
<1>1. \A p \in 1..n : At(p) \in Cohort
  BY <1>0 DEF Permuted, At, Cohort
<1>2. ASSUME NEW m \in Cohort
      PROVE  \E p \in 1..n : At(p) = m
  <2>1. PICK i \in 1..n : rankings[i].member = m
    BY DEF Cohort
  <2>2. PICK p \in 1..n : ordered[p] = i
    BY <1>0 DEF Permuted
  <2> QED
    BY <2>1, <2>2 DEF At
<1>3. \A p, q \in 1..n : p # q => At(p) # At(q)
  BY <1>0, MembersDiffer DEF Permuted, At
<1> QED
  BY <1>1, <1>2, <1>3

\* Where a new value begins, the better members are those at the places before.
LEMMA BetterIsBefore ==
  ASSUME Ready, NEW p \in 1..n,
         p > 1 => Value(At(p)) # Value(At(p - 1))
  PROVE  {k \in Cohort : Better(Value(k), Value(At(p)))} = MembersTo(p - 1)
<1> DEFINE V(q) == Value(At(q))
<1>1. n \in Nat /\ \A q \in 1..n : V(q) \in Int
  BY PlacesAreMembers DEF Ready
<1>2. \A q, r \in 1..n : q < r => Better(V(q), V(r)) \/ V(q) = V(r)
  BY <1>1 DEF Ready
<1>3. ASSUME NEW q \in 1..(p - 1)
      PROVE  Better(V(q), V(p))
  <2>1. q \in 1..n /\ p - 1 \in 1..n /\ q < p /\ q <= p - 1 /\ p > 1
    BY <1>1
  <2>2. Better(V(p - 1), V(p))
    BY <1>1, <1>2, <2>1
  <2>3. Better(V(q), V(p - 1)) \/ V(q) = V(p - 1)
    BY <1>1, <1>2, <2>1
  <2> QED
    BY <1>1, <2>1, <2>2, <2>3 DEF Better
<1>4. ASSUME NEW q \in p..n
      PROVE  ~Better(V(q), V(p))
  <2>1. q \in 1..n /\ (q = p \/ p < q)
    BY <1>1
  <2>2. V(q) = V(p) \/ Better(V(p), V(q))
    BY <1>2, <2>1
  <2> QED
    BY <1>1, <2>1, <2>2 DEF Better
<1>5. \A q \in 1..n : q \in 1..(p - 1) \/ q \in p..n
  BY <1>1
<1>6. 1..(p - 1) \subseteq 1..n
  BY <1>1
<1> QED
  BY <1>3, <1>4, <1>5, <1>6, PlacesAreMembers DEF MembersTo

\* There are as many members at the first places as places.
LEMMA MembersCount ==
  ASSUME Ready, NEW p \in 0..n
  PROVE  Cardinality(MembersTo(p)) = p
<1> DEFINE f == [q \in 1..p |-> At(q)]
<1>1. p \in Int /\ 1..p \subseteq 1..n
  BY DEF Ready
<1>2. f \in Bijection(1..p, MembersTo(p))
  BY <1>1, PlacesAreMembers
     DEF Bijection, Injection, Surjection, IsInjective, MembersTo
<1>3. IsFiniteSet(1..p) /\ Cardinality(1..p) = p
  BY <1>1, FS_Interval
<1> QED
  BY <1>2, <1>3, FS_Bijection DEF ExistsBijection

\* What the dense counter has to do at a place: count a new value, and only that.
LEMMA ValuesCount ==
  ASSUME Ready, NEW p \in 1..n, IsFiniteSet(ValuesTo(p - 1))
  PROVE  /\ IsFiniteSet(ValuesTo(p))
         /\ Cardinality(ValuesTo(p)) =
              IF p > 1 /\ Value(At(p)) = Value(At(p - 1))
              THEN Cardinality(ValuesTo(p - 1))
              ELSE Cardinality(ValuesTo(p - 1)) + 1
<1> DEFINE V(q) == Value(At(q))
<1>1. n \in Nat /\ \A q \in 1..n : V(q) \in Int
  BY PlacesAreMembers DEF Ready
<1>2. 1..p = (1..(p - 1)) \cup {p} /\ 1..(p - 1) \subseteq 1..n
  BY <1>1
<1>3. ValuesTo(p) = ValuesTo(p - 1) \cup {V(p)}
  BY <1>2 DEF ValuesTo
<1>4. V(p) \in ValuesTo(p - 1) <=> p > 1 /\ V(p) = V(p - 1)
  <2>1. CASE p > 1 /\ V(p) = V(p - 1)
    BY <1>1, <2>1 DEF ValuesTo
  <2>2. CASE ~(p > 1 /\ V(p) = V(p - 1))
    <3>1. \A q \in 1..(p - 1) : Better(V(q), V(p))
      BY <1>2, <2>2, BetterIsBefore, PlacesAreMembers DEF MembersTo
    <3>2. \A q \in 1..(p - 1) : V(q) # V(p)
      BY <1>1, <1>2, <3>1 DEF Better
    <3> QED
      BY <2>2, <3>2 DEF ValuesTo
  <2> QED
    BY <2>1, <2>2
<1> QED
  BY <1>3, <1>4, FS_AddElement
-----------------------------------------------------------------------------
\* The rank where a new value begins.
LEMMA RankOfNewValue ==
  ASSUME Ready, NEW p \in 1..n,
         p > 1 => Value(At(p)) # Value(At(p - 1))
  PROVE  ReferenceRank(At(p)) =
           IF first.tie = "dense" THEN 1 + Cardinality(ValuesTo(p - 1)) ELSE p
<1> DEFINE better == {k \in Cohort : Better(Value(k), Value(At(p)))}
<1>1. better = MembersTo(p - 1)
  BY BetterIsBefore
<1>2. {Value(k) : k \in better} = ValuesTo(p - 1)
  BY <1>1 DEF MembersTo, ValuesTo
<1>3. p - 1 \in 0..n /\ p \in Int
  BY DEF Ready
<1>4. Cardinality(better) = p - 1
  BY <1>1, <1>3, MembersCount
<1> QED
  BY <1>2, <1>3, <1>4 DEF ReferenceRank

\* The rank is a matter of the value alone.
LEMMA RankOfSameValue ==
  ASSUME NEW k, NEW m, Value(k) = Value(m)
  PROVE  ReferenceRank(k) = ReferenceRank(m)
BY DEF ReferenceRank
-----------------------------------------------------------------------------
\* Before the pass reaches `position`: the counters ...
Counted ==
    /\ IsFiniteSet(ValuesTo(position - 1))
    /\ dense = Cardinality(ValuesTo(position - 1)) /\ dense < position
    /\ previous = IF position = 1 THEN NoValue ELSE Value(At(position - 1))
    /\ first.tie = "dense" /\ position > 1 => expected[At(position - 1)] = dense

\* ... and the ranks given so far.  With ties the ordinal method numbers the
\* places; such a cohort is refused at the end.
RankedSoFar ==
    (first.tie = "ordinal" => ~HasTies) =>
        \A q \in 1..(position - 1) : expected[At(q)] = ReferenceRank(At(q))

GateInv ==
    /\ TypeOK
    /\ rankings \in RankingLists
    /\ pc \in {"scores", "check"} => position = 1 /\ dense = 0 /\ previous = NoValue
    /\ pc \in {"rank", "accepted"} => Checked /\ Ready /\ Counted /\ RankedSoFar
    /\ pc = "accepted" => Agrees /\ position = n + 1

LEMMA FirstIsASignature ==
  ASSUME rankings \in RankingLists
  PROVE  /\ n \in Nat /\ n > 0
         /\ \A i \in 1..n : rankings[i] \in Ranking
         /\ first.tie \in TieMethods
<1>1. rankings \in Seq(Ranking) /\ rankings # <<>>
  BY InputsOK DEF InputsOK
<1>2. n \in Nat /\ n > 0 /\ \A i \in 1..n : rankings[i] \in Ranking
  BY <1>1 DEF n
<1>3. rankings[1] \in Ranking
  BY <1>2
<1> QED
  BY <1>2, <1>3 DEF first, Ranking, Signature

LEMMA InvInit == Init => GateInv
<1> SUFFICES ASSUME Init PROVE GateInv
  OBVIOUS
<1>1. rankings \in Seq(Ranking) /\ scores \in Seq(Score)
  BY InputsOK DEF Init, InputsOK
<1>2. n \in Nat /\ n > 0 /\ Len(scores) \in Nat
  BY <1>1, FirstIsASignature DEF Init
<1>3. TypeOK
  BY <1>1, <1>2 DEF Init, TypeOK
<1> QED
  BY <1>3 DEF Init, GateInv

\* While the release and the dictionary stay, so does what is defined from them.
LEMMA SameRelease ==
  ASSUME UNCHANGED <<rankings, byMember>>
  PROVE  /\ n' = n /\ first' = first /\ Cohort' = Cohort
         /\ \A m : Value(m)' = Value(m)
         /\ \A x, y : Better(x, y)' = Better(x, y)
         /\ Checked' = Checked /\ HasTies' = HasTies
         /\ \A m : ReferenceRank(m)' = ReferenceRank(m)
<1>1. n' = n /\ first' = first /\ Cohort' = Cohort
  BY DEF n, first, Cohort
<1>2. \A m : Value(m)' = Value(m) /\ HasScore(m)' = HasScore(m)
  BY DEF Value, HasScore
<1>3. \A x, y : Better(x, y)' = Better(x, y)
  BY <1>1 DEF Better
<1>4. Checked' = Checked
  <2>1. Complete' = Complete
    BY <1>1 DEF Complete
  <2>2. Ranks' = Ranks
    BY <1>1 DEF Ranks
  <2>3. Plausible' = Plausible
    BY <1>1, <2>2 DEF Plausible
  <2> QED
    BY <1>1, <1>2, <2>1, <2>3 DEF Checked
<1>5. HasTies' = HasTies
  BY <1>1, <1>2 DEF HasTies, ValueAt
<1>6. \A m : ReferenceRank(m)' = ReferenceRank(m)
  BY <1>1, <1>2, <1>3 DEF ReferenceRank
<1> QED
  BY <1>1, <1>2, <1>3, <1>4, <1>5, <1>6

\* The checks and the sort establish what the pass relies on.
LEMMA SortedIsReady ==
  ASSUME TypeOK, rankings \in RankingLists, Checked,
         ordered' \in Orders, UNCHANGED <<rankings, byMember>>
  PROVE  Ready'
<1>1. n \in Nat /\ Cardinality(Cohort) = n
  BY FirstIsASignature DEF Checked, Complete
<1>2. \A m \in Cohort : Value(m) \in Int
  <2>1. Cohort \subseteq Members
    BY FirstIsASignature DEF Cohort, Ranking
  <2> QED
    BY <2>1, InputsOK DEF Checked, HasScore, Value, TypeOK, InputsOK
<1>3. Permuted' /\ Sorted(ordered')
  BY DEF Orders, Permuted, n
<1>4. ASSUME NEW p \in 1..n, NEW q \in (p + 1)..n
      PROVE  LET x == Value(rankings[ordered'[p]].member)
                 y == Value(rankings[ordered'[q]].member)
             IN  Better(x, y) \/ x = y
  BY <1>3 DEF Sorted, ValueAt
<1>5. \A p : At(p)' = rankings[ordered'[p]].member
  BY DEF At
<1> QED
  BY <1>1, <1>2, <1>3, <1>4, <1>5, SameRelease DEF Ready

\* The sorted list is made once.
LEMMA StillReady ==
  ASSUME Ready, UNCHANGED <<rankings, byMember, ordered>>
  PROVE  Ready' /\ \A p : At(p)' = At(p) /\ ValuesTo(p)' = ValuesTo(p)
<1>1. \A p : At(p)' = At(p)
  BY DEF At
<1>2. \A p : ValuesTo(p)' = ValuesTo(p)
  BY <1>1, SameRelease DEF ValuesTo
<1>3. Ready'
  BY <1>1, SameRelease DEF Ready, Permuted
<1> QED
  BY <1>1, <1>2, <1>3

LEMMA StillRanked ==
  ASSUME Counted, RankedSoFar, UNCHANGED <<rankings, byMember, ordered, loop>>
  PROVE  Counted' /\ RankedSoFar'
<1>1. UNCHANGED <<rankings, byMember, ordered, position, dense, previous, expected>>
  BY DEF loop
<1>2. \A p : At(p)' = At(p)
  BY <1>1 DEF At
<1>3. ValuesTo(position - 1)' = ValuesTo(position - 1)
  BY <1>1 DEF ValuesTo, At, Value
<1>4. Value(At(position - 1))' = Value(At(position - 1))
  BY <1>1 DEF At, Value
<1>5. At(position - 1)' = At(position - 1)
  BY <1>1 DEF At
<1>6. \A q : ReferenceRank(At(q))' = ReferenceRank(At(q))
  <2>1. n' = n /\ Cohort' = Cohort /\ first' = first
    BY <1>1, SameRelease
  <2> QED
    BY <1>1, <2>1 DEF At, ReferenceRank, Better, Value
<1>7. Counted'
  BY <1>1, <1>3, <1>4, <1>5, SameRelease DEF Counted
<1> QED
  BY <1>1, <1>2, <1>6, <1>7, SameRelease DEF RankedSoFar

LEMMA RankNextInv == GateInv /\ RankNext => GateInv'
<1> SUFFICES ASSUME GateInv, RankNext PROVE GateInv'
  OBVIOUS
<1> DEFINE v == Value(At(position))
           isNew == v # previous
<1>1. /\ pc = "rank" /\ pc' = pc /\ position <= n /\ position' = position + 1
      /\ UNCHANGED <<rankings, scores, read, byMember, ordered>>
      /\ dense' = (IF isNew THEN dense + 1 ELSE dense)
      /\ expected' = [expected EXCEPT ![At(position)] = RankOfNext(isNew)]
      /\ previous' = v
  BY DEF RankNext, input, table
<1>2. TypeOK /\ rankings \in RankingLists /\ Checked /\ Ready /\ Counted /\ RankedSoFar
  BY <1>1 DEF GateInv
<1>3. n \in Nat /\ first.tie \in TieMethods /\ Cohort \subseteq Members
  BY <1>2, FirstIsASignature DEF Cohort, Ranking
<1>4. position \in 1..n /\ position - 1 \in 0..n /\ dense \in Nat /\ dense < position
  BY <1>1, <1>2, <1>3 DEF TypeOK, Counted
<1>5. At(position) \in Cohort /\ v \in Values
  BY <1>2, <1>3, <1>4, PlacesAreMembers DEF Checked, HasScore, Value, TypeOK
<1>6. \A q \in 1..(position - 1) : q \in 1..n /\ At(q) \in Members /\ At(q) # At(position)
  BY <1>2, <1>3, <1>4, PlacesAreMembers
<1>7. isNew <=> ~(position > 1 /\ v = Value(At(position - 1)))
  BY <1>2, <1>4, <1>5, InputsOK DEF Counted, InputsOK
<1>8. IsFiniteSet(ValuesTo(position)) /\ dense' = Cardinality(ValuesTo(position))
  BY <1>1, <1>2, <1>4, <1>7, ValuesCount DEF Counted
<1>9. RankOfNext(isNew) \in 0..n
  <2>1. dense' \in 0..n
    BY <1>1, <1>3, <1>4
  <2>2. ~isNew => expected[At(position - 1)] \in 0..n
    BY <1>2, <1>4, <1>6, <1>7 DEF TypeOK
  <2> QED
    BY <1>4, <2>1, <2>2 DEF RankOfNext
<1>10. /\ expected'[At(position)] = RankOfNext(isNew)
       /\ \A q \in 1..(position - 1) : expected'[At(q)] = expected[At(q)]
       /\ expected' \in [Members -> 0..n]
  BY <1>1, <1>2, <1>3, <1>5, <1>6, <1>9 DEF TypeOK
<1>11. ASSUME first.tie = "ordinal" => ~HasTies
       PROVE  RankOfNext(isNew) = ReferenceRank(At(position))
  <2>1. CASE isNew
    <3>1. ReferenceRank(At(position)) =
            IF first.tie = "dense" THEN 1 + Cardinality(ValuesTo(position - 1))
            ELSE position
      BY <1>2, <1>4, <1>7, <2>1, RankOfNewValue
    <3> QED
      BY <1>1, <1>2, <1>4, <2>1, <3>1 DEF Counted, RankOfNext
  <2>2. CASE ~isNew
    <3>1. position > 1 /\ v = Value(At(position - 1)) /\ position - 1 \in 1..n
      BY <1>4, <1>7, <2>2
    <3>2. ReferenceRank(At(position)) = ReferenceRank(At(position - 1))
      BY <3>1, RankOfSameValue
    <3>3. expected[At(position - 1)] = ReferenceRank(At(position - 1))
      BY <1>2, <1>4, <1>11, <3>1 DEF RankedSoFar
    <3>4. HasTies
      <4>1. ordered[position] \in 1..n /\ ordered[position - 1] \in 1..n
        BY <1>2, <1>4, <3>1 DEF Ready, Permuted
      <4>2. ordered[position] # ordered[position - 1]
        BY <1>2, <1>4, <3>1 DEF Ready, Permuted
      <4> QED
        BY <3>1, <4>1, <4>2 DEF HasTies, ValueAt, At
    <3>5. first.tie = "dense" => dense' = expected[At(position - 1)]
      BY <1>1, <1>2, <2>2, <3>1 DEF Counted
    <3> QED
      BY <1>3, <1>11, <2>2, <3>2, <3>3, <3>4, <3>5 DEF RankOfNext, TieMethods
  <2> QED
    BY <2>1, <2>2
<1>12. TypeOK' /\ rankings' \in RankingLists
  <2>1. n' = n
    BY <1>1, SameRelease
  <2>2. dense' \in 0..n /\ position' \in 1..(n + 1)
    BY <1>1, <1>3, <1>4
  <2> QED
    BY <1>1, <1>2, <1>5, <1>10, <2>1, <2>2 DEF TypeOK
<1>13. Counted'
  <2>1. position' - 1 = position /\ position' # 1 /\ position' > 1 /\ dense' < position'
    BY <1>1, <1>4
  <2>2. /\ ValuesTo(position - 1)' = ValuesTo(position)
        /\ At(position - 1)' = At(position)
        /\ Value(At(position - 1))' = v
    BY <1>1, <2>1 DEF ValuesTo, At, Value
  <2>3. first' = first
    BY <1>1 DEF first
  <2>4. first.tie = "dense" => expected'[At(position)] = dense'
    BY <1>10 DEF RankOfNext
  <2> QED
    BY <1>1, <1>8, <2>1, <2>2, <2>3, <2>4 DEF Counted
<1>14. RankedSoFar'
  <2>1. first' = first /\ HasTies' = HasTies
    BY <1>1, SameRelease
  <2>2. \A q : At(q)' = At(q) /\ ReferenceRank(At(q))' = ReferenceRank(At(q))
    <3>1. n' = n /\ Cohort' = Cohort
      BY <1>1 DEF n, Cohort
    <3> QED
      BY <1>1, <2>1, <3>1 DEF At, ReferenceRank, Better, Value
  <2>3. 1..(position' - 1) = 1..(position - 1) \cup {position}
    BY <1>1, <1>4
  <2>4. ASSUME first.tie = "ordinal" => ~HasTies
        PROVE  \A q \in 1..(position' - 1) : expected'[At(q)] = ReferenceRank(At(q))
    BY <1>2, <1>10, <1>11, <2>3, <2>4 DEF RankedSoFar
  <2> QED
    BY <2>1, <2>2, <2>4 DEF RankedSoFar
<1>15. Checked' /\ Ready'
  BY <1>1, <1>2, SameRelease, StillReady
<1> QED
  BY <1>1, <1>12, <1>13, <1>14, <1>15 DEF GateInv

LEMMA InvStep == GateInv /\ [Next]_vars => GateInv'
<1> SUFFICES ASSUME GateInv, [Next]_vars PROVE GateInv'
  OBVIOUS
<1>0. n \in Nat /\ n > 0 /\ TypeOK /\ rankings \in RankingLists
  BY FirstIsASignature DEF GateInv
<1>1. CASE ReadScore
  <2>1. rankings' = rankings /\ n' = n /\ read' \in 0..Len(scores)
    BY <1>0, <1>1 DEF ReadScore, input, n, TypeOK
  <2>2. scores[read + 1] \in Score
    BY <1>0, <1>1 DEF ReadScore, TypeOK
  <2>3. byMember' \in [Members -> Values \cup {NoValue}]
    BY <1>0, <1>1, <2>2 DEF ReadScore, TypeOK, Score
  <2>4. TypeOK'
    BY <1>0, <1>1, <2>1, <2>3 DEF ReadScore, TypeOK, input, loop
  <2> QED
    BY <1>0, <1>1, <2>1, <2>4 DEF GateInv, ReadScore, loop
<1>2. CASE AllRead
  <2>1. n' = n
    BY <1>2 DEF AllRead, input, n
  <2> QED
    BY <1>0, <1>2, <2>1 DEF GateInv, AllRead, TypeOK, input, table, loop
<1>3. CASE Check
  <2>1. n' = n /\ UNCHANGED <<rankings, byMember, input, table, loop>>
    BY <1>3 DEF Check, input, table, n
  <2>2. TypeOK'
    BY <1>0, <1>3, <2>1 DEF Check, TypeOK, input, table, loop
  <2>3. position = 1 /\ dense = 0 /\ previous = NoValue
    BY <1>3 DEF Check, GateInv
  <2>4. CASE Checked
    <3>1. pc' = "rank" /\ Checked' /\ Ready'
      BY <1>0, <1>3, <2>1, <2>4, SameRelease, SortedIsReady DEF Check
    <3>2. ValuesTo(position - 1)' = {} /\ 1..(position' - 1) = {}
      BY <2>1, <2>3 DEF ValuesTo, loop
    <3>3. Counted' /\ RankedSoFar'
      BY <2>1, <2>3, <3>2, FS_EmptySet DEF Counted, RankedSoFar, loop
    <3> QED
      BY <1>0, <2>1, <2>2, <3>1, <3>3 DEF GateInv
  <2>5. CASE ~Checked
    BY <1>0, <1>3, <2>1, <2>2, <2>3, <2>5 DEF Check, GateInv, loop
  <2> QED
    BY <2>4, <2>5
<1>4. CASE RankNext
  BY <1>4, RankNextInv
<1>5. CASE Conclude
  <2>1. UNCHANGED <<rankings, scores, read, byMember, ordered, position, dense,
                    previous, expected>>
    BY <1>5 DEF Conclude, input, table, loop
  <2>2. TypeOK' /\ n' = n
    BY <1>0, <1>5, <2>1 DEF Conclude, TypeOK, n
  <2>3. Checked' /\ Ready'
    BY <1>5, <2>1, SameRelease, StillReady DEF Conclude, GateInv
  <2>4. Counted' /\ RankedSoFar'
    BY <1>5, <2>1, StillRanked DEF Conclude, GateInv, loop
  <2>5. Agrees' = Agrees
    BY <2>1 DEF Agrees, first, n, HasTies, ValueAt, Value
  <2> QED
    BY <1>0, <1>5, <2>1, <2>2, <2>3, <2>4, <2>5 DEF Conclude, GateInv
<1>6. CASE UNCHANGED vars
  <2>1. UNCHANGED <<rankings, scores, pc, read, byMember, ordered, position, dense,
                    previous, expected>>
    BY <1>6 DEF vars
  <2>2. TypeOK' /\ n' = n
    BY <1>0, <2>1 DEF TypeOK, n
  <2>3. pc \in {"rank", "accepted"} => Checked' /\ Ready'
    BY <2>1, SameRelease, StillReady DEF GateInv
  <2>4. pc \in {"rank", "accepted"} => Counted' /\ RankedSoFar'
    BY <2>1, StillRanked DEF GateInv, loop
  <2>5. Agrees' = Agrees
    BY <2>1 DEF Agrees, first, n, HasTies, ValueAt, Value
  <2> QED
    BY <1>0, <2>1, <2>2, <2>3, <2>4, <2>5 DEF GateInv
<1> QED
  BY <1>1, <1>2, <1>3, <1>4, <1>5, <1>6 DEF Next

\* The inductive invariant of the gate.
THEOREM GateInvariant == Spec => []GateInv
<1> QED
  BY InvInit, InvStep, PTL DEF Spec

\* The types of the gate's variables, for every release.
THEOREM TypeCorrect == Spec => []TypeOK
<1>1. GateInv => TypeOK
  BY DEF GateInv
<1> QED
  BY <1>1, GateInvariant, PTL

\* Every cohort the gate accepts is complete and rightly ranked, whatever its
\* size, its scores and its tie method.
THEOREM GateAcceptsRightRanks == Spec => []AcceptedIsRight
<1>1. GateInv => AcceptedIsRight
  <2> SUFFICES ASSUME GateInv, pc = "accepted" PROVE RightlyRanked
    BY DEF AcceptedIsRight
  <2>1. Checked /\ Ready /\ RankedSoFar /\ Agrees /\ position = n + 1 /\ n \in Nat
    BY DEF GateInv, Ready
  <2>2. ASSUME NEW i \in 1..n
        PROVE  rankings[i].rank = ReferenceRank(rankings[i].member)
    <3>1. PICK p \in 1..n : ordered[p] = i
      BY <2>1 DEF Ready, Permuted
    <3>2. At(p) = rankings[i].member /\ p \in 1..(position - 1)
      BY <2>1, <3>1 DEF At
    <3>3. first.tie = "ordinal" => ~HasTies
      BY <2>1 DEF Agrees
    <3>4. expected[At(p)] = ReferenceRank(At(p))
      BY <2>1, <3>2, <3>3 DEF RankedSoFar
    <3> QED
      BY <2>1, <3>2, <3>4 DEF Agrees
  <2>3. /\ \A i \in 1..n : rankings[i].signature = first
        /\ n = first.of /\ Cardinality(Cohort) = n /\ first.frozen = Cohort
    BY <2>1 DEF Checked, Complete
  <2>4. \A m \in first.frozen : \E i \in 1..n : rankings[i].member = m
    BY <2>3 DEF Cohort
  <2>5. /\ \A m \in Cohort : HasScore(m)
        /\ first.tie = "ordinal" => ~HasTies
    BY <2>1 DEF Checked, Agrees
  <2> QED
    BY <2>2, <2>3, <2>4, <2>5 DEF RightlyRanked
<1> QED
  BY <1>1, GateInvariant, PTL
-----------------------------------------------------------------------------
(***************************************************************************)
(* No right ranking is kept out                                            *)
(***************************************************************************)
\* The members of the cohort that are better than m, and the scores given.
Above(m)    == {k \in Cohort : Better(Value(k), Value(m))}
ValuesGiven == {Value(k) : k \in Cohort}

\* What a cohort with the right ranks has before any of it is checked.
Scored ==
    /\ n \in Nat /\ n > 0
    /\ Cardinality(Cohort) = n
    /\ IsFiniteSet(Cohort)
    /\ \A m \in Cohort : Value(m) \in Int

\* Counting those before it numbers a finite set of integers from one.
LEMMA CountingPlaces ==
  ASSUME NEW S, S \subseteq Int, IsFiniteSet(S)
  PROVE  [x \in S |-> 1 + Cardinality({y \in S : Better(y, x)})]
            \in Bijection(S, 1..Cardinality(S))
<1> DEFINE before(x) == {y \in S : Better(y, x)}
           P == [x \in S |-> 1 + Cardinality(before(x))]
           N == Cardinality(S)
<1>1. N \in Nat
  BY FS_CardinalityType
<1>2. ASSUME NEW x \in S
      PROVE  /\ IsFiniteSet(before(x)) /\ Cardinality(before(x)) \in Nat
             /\ Cardinality(before(x)) <= N - 1
  <2>1. x \in Int /\ ~Better(x, x)
    BY DEF Better
  <2>2. before(x) \in SUBSET (S \ {x})
    BY <2>1
  <2>3. IsFiniteSet(S \ {x}) /\ Cardinality(S \ {x}) = N - 1
    BY FS_RemoveElement
  <2> QED
    BY <2>2, <2>3, FS_Subset, FS_CardinalityType
<1>3. ASSUME NEW x \in S, NEW y \in S, Better(y, x)
      PROVE  P[y] < P[x]
  <2>1. x \in Int /\ y \in Int /\ \A z \in S : z \in Int
    OBVIOUS
  <2>2. before(y) \in SUBSET (before(x) \ {y}) /\ y \in before(x)
    <3>1. \A z \in S : Better(z, y) => Better(z, x) /\ z # y
      BY <1>3, <2>1 DEF Better
    <3> QED
      BY <1>3, <3>1
  <2>3. IsFiniteSet(before(x) \ {y}) /\ Cardinality(before(x) \ {y}) = Cardinality(before(x)) - 1
    BY <1>2, <2>2, FS_RemoveElement
  <2>4. Cardinality(before(y)) <= Cardinality(before(x)) - 1
    BY <2>2, <2>3, FS_Subset
  <2> QED
    BY <1>2, <2>4
<1>4. P \in Injection(S, 1..N)
  <2>1. P \in [S -> 1..N]
    BY <1>1, <1>2
  <2>2. ASSUME NEW x \in S, NEW y \in S, x # y PROVE P[x] # P[y]
    <3>1. Better(x, y) \/ Better(y, x)
      <4>1. x \in Int /\ y \in Int
        OBVIOUS
      <4> QED
        BY <4>1, <2>2 DEF Better
    <3>2. P[x] \in Int /\ P[y] \in Int
      BY <1>2
    <3> HIDE DEF P
    <3> QED
      BY <1>3, <3>1, <3>2
  <2> HIDE DEF P
  <2> QED
    BY <2>1, <2>2 DEF Injection, IsInjective
<1>5. IsFiniteSet(1..N) /\ Cardinality(1..N) = N
  BY <1>1, FS_Interval
<1>6. P \in Surjection(S, 1..N)
  BY <1>4, <1>5, FS_Injection
<1> QED
  BY <1>4, <1>6 DEF Bijection

LEMMA CohortIsFinite ==
  ASSUME n \in Nat
  PROVE  /\ IsFiniteSet(Cohort) /\ Cardinality(Cohort) <= n
         /\ [i \in 1..n |-> rankings[i].member] \in Surjection(1..n, Cohort)
<1>1. [i \in 1..n |-> rankings[i].member] \in Surjection(1..n, Cohort)
  BY DEF Surjection, Cohort
<1>2. IsFiniteSet(1..n) /\ Cardinality(1..n) = n
  BY FS_Interval
<1> QED
  BY <1>1, <1>2, FS_Surjection

LEMMA ScoresAreFinite ==
  ASSUME Scored
  PROVE  /\ ValuesGiven \subseteq Int /\ IsFiniteSet(ValuesGiven)
         /\ [m \in Cohort |-> Value(m)] \in Surjection(Cohort, ValuesGiven)
<1>1. [m \in Cohort |-> Value(m)] \in Surjection(Cohort, ValuesGiven)
  BY DEF Surjection, ValuesGiven
<1> QED
  BY <1>1, FS_Surjection DEF Scored, ValuesGiven

\* The better a member, the fewer are above it.
LEMMA FewerAbove ==
  ASSUME Scored, NEW k \in Cohort, NEW m \in Cohort
  PROVE  /\ IsFiniteSet(Above(m)) /\ Cardinality(Above(m)) \in Nat
         /\ Better(Value(k), Value(m)) <=> Cardinality(Above(k)) < Cardinality(Above(m))
<1>1. \A j \in Cohort : IsFiniteSet(Above(j)) /\ Cardinality(Above(j)) \in Nat
  <2>1. \A j \in Cohort : Above(j) \in SUBSET Cohort
    BY DEF Above
  <2> QED
    BY <2>1, FS_Subset, FS_CardinalityType DEF Scored
<1>2. ASSUME NEW j \in Cohort, NEW l \in Cohort, Better(Value(j), Value(l))
      PROVE  Cardinality(Above(j)) < Cardinality(Above(l))
  <2>1. \A i \in Cohort : Value(i) \in Int
    BY DEF Scored
  <2>2. Above(j) \in SUBSET (Above(l) \ {j}) /\ j \in Above(l)
    BY <1>2, <2>1 DEF Above, Better
  <2>3. /\ IsFiniteSet(Above(l) \ {j})
        /\ Cardinality(Above(l) \ {j}) = Cardinality(Above(l)) - 1
    BY <1>1, <2>2, FS_RemoveElement
  <2>4. Cardinality(Above(j)) <= Cardinality(Above(l)) - 1
    BY <2>2, <2>3, FS_Subset
  <2> QED
    BY <1>1, <2>4
<1>3. \/ Better(Value(k), Value(m)) \/ Better(Value(m), Value(k)) \/ Value(k) = Value(m)
  BY DEF Scored, Better
<1>4. Value(k) = Value(m) => Above(k) = Above(m)
  BY DEF Above
<1> QED
  BY <1>1, <1>2, <1>3, <1>4

\* The scores above a member's are those of the members above it.
LEMMA ScoresAbove ==
  ASSUME NEW m \in Cohort
  PROVE  {Value(k) : k \in Above(m)} = {y \in ValuesGiven : Better(y, Value(m))}
BY DEF Above, ValuesGiven
\* A right ranking is complete and scored.
LEMMA RightIsScored ==
  ASSUME TypeOK, rankings \in RankingLists, RightlyRanked
  PROVE  Complete /\ Scored /\ \A m \in Cohort : HasScore(m)
<1>1. n \in Nat /\ n > 0
  BY FirstIsASignature
<1>2. first.frozen \in SUBSET Cohort
  BY DEF RightlyRanked, Cohort
<1>3. IsFiniteSet(Cohort) /\ Cardinality(Cohort) <= n
  BY <1>1, CohortIsFinite
<1>4. Cardinality(first.frozen) <= Cardinality(Cohort) /\ Cardinality(Cohort) \in Nat
  BY <1>2, <1>3, FS_Subset, FS_CardinalityType
<1>5. Cardinality(Cohort) = n /\ n = Cardinality(first.frozen)
  BY <1>1, <1>3, <1>4 DEF RightlyRanked
<1>6. first.frozen = Cohort
  BY <1>2, <1>3, <1>5, FS_Subset
<1>7. Complete
  BY <1>5, <1>6 DEF Complete, RightlyRanked
<1>8. \A m \in Cohort : Value(m) \in Int
  <2>1. Cohort \subseteq Members
    BY FirstIsASignature DEF Cohort, Ranking
  <2> QED
    BY <2>1, InputsOK DEF RightlyRanked, HasScore, Value, TypeOK, InputsOK
<1> QED
  BY <1>1, <1>3, <1>5, <1>7, <1>8 DEF Scored, RightlyRanked

\* The ranks of a dense ranking, and of one without ties, are the places of the scores.
LEMMA RanksArePlaces ==
  ASSUME Scored, RightlyRanked, first.tie = "dense" \/ ~HasTies
  PROVE  /\ Ranks = 1..Cardinality(ValuesGiven)
         /\ ~HasTies => Cardinality(ValuesGiven) = n
<1> DEFINE P == [x \in ValuesGiven |-> 1 + Cardinality({y \in ValuesGiven : Better(y, x)})]
           V == [m \in Cohort |-> Value(m)]
<1>1. /\ ValuesGiven \subseteq Int /\ IsFiniteSet(ValuesGiven)
      /\ V \in Surjection(Cohort, ValuesGiven)
  BY ScoresAreFinite
<1>2. P \in Bijection(ValuesGiven, 1..Cardinality(ValuesGiven))
  BY <1>1, CountingPlaces
<1>3. ~HasTies => \A k, m \in Cohort : Value(k) = Value(m) => k = m
  BY DEF HasTies, ValueAt, Cohort
<1>4. ASSUME NEW m \in Cohort
      PROVE  ReferenceRank(m) = P[Value(m)]
  <2>1. Value(m) \in ValuesGiven
    BY DEF ValuesGiven
  <2>2. ReferenceRank(m) = 1 + Cardinality(IF first.tie = "dense"
                                           THEN {Value(k) : k \in Above(m)} ELSE Above(m))
    BY DEF ReferenceRank, Above
  <2>3. ASSUME ~HasTies
        PROVE  Cardinality(Above(m)) = Cardinality({Value(k) : k \in Above(m)})
    <3> DEFINE T == {Value(k) : k \in Above(m)}
               f == [k \in Above(m) |-> Value(k)]
    <3>1. f \in Surjection(Above(m), T)
      BY DEF Surjection
    <3>2. f \in Injection(Above(m), T)
      <4>1. \A k \in Above(m) : k \in Cohort
        BY DEF Above
      <4> QED
        BY <1>3, <2>3, <4>1 DEF Injection, IsInjective
    <3>3. IsFiniteSet(Above(m))
      BY FewerAbove
    <3> HIDE DEF f, T
    <3>4. Cardinality(T) = Cardinality(Above(m))
      BY <3>1, <3>2, <3>3, FS_Surjection
    <3> QED
      BY <3>4 DEF T
  <2>4. {Value(k) : k \in Above(m)} = {y \in ValuesGiven : Better(y, Value(m))}
    BY ScoresAbove
  <2> QED
    BY <2>1, <2>2, <2>3, <2>4
<1>5. \A i \in 1..n : rankings[i].member \in Cohort
  BY DEF Cohort
<1>6. Ranks = {P[Value(m)] : m \in Cohort}
  <2>1. \A i \in 1..n : rankings[i].rank = P[Value(rankings[i].member)]
    BY <1>4, <1>5 DEF RightlyRanked
  <2> HIDE DEF P
  <2> QED
    BY <2>1, <1>5 DEF Ranks, Cohort
<1> DEFINE T == 1..Cardinality(ValuesGiven)
<1> HIDE DEF P, V, T
<1>7. P \in Bijection(ValuesGiven, T)
  BY <1>2 DEF T
<1>8. P \in [ValuesGiven -> T] /\ \A r \in T : \E x \in ValuesGiven : P[x] = r
  BY <1>7, Fun_BijectionProperties
<1>9. Ranks = 1..Cardinality(ValuesGiven)
  <2>1. Ranks \subseteq T
    BY <1>6, <1>8 DEF ValuesGiven
  <2>2. T \subseteq Ranks
    BY <1>6, <1>8 DEF ValuesGiven
  <2> QED
    BY <2>1, <2>2 DEF T
<1>10. ASSUME ~HasTies PROVE Cardinality(ValuesGiven) = n
  <2>1. V \in Injection(Cohort, ValuesGiven)
    BY <1>3, <1>10 DEF Injection, IsInjective, V, ValuesGiven
  <2> QED
    BY <1>1, <2>1, FS_Surjection DEF Scored
<1> QED
  BY <1>9, <1>10
\* Competition ranks: as many are ranked before a member as are better than it.
LEMMA RankedBefore ==
  ASSUME Scored, RightlyRanked, first.tie # "dense", NEW j \in 1..n
  PROVE  rankings[j].rank = 1 + Cardinality({i \in 1..n : rankings[i].rank < rankings[j].rank})
<1> DEFINE m == rankings[j].member
           before == {i \in 1..n : rankings[i].rank < rankings[j].rank}
           M == [i \in 1..n |-> rankings[i].member]
           f == [i \in before |-> rankings[i].member]
<1>1. \A i \in 1..n : /\ rankings[i].member \in Cohort
                      /\ rankings[i].rank = 1 + Cardinality(Above(rankings[i].member))
  BY DEF RightlyRanked, ReferenceRank, Above, Cohort
<1>2. \A i, k \in 1..n : rankings[i].member = rankings[k].member => i = k
  <2>1. M \in Surjection(1..n, Cohort)
    BY CohortIsFinite DEF Scored
  <2>2. IsFiniteSet(1..n) /\ Cardinality(1..n) = n
    BY FS_Interval DEF Scored
  <2>3. M \in Injection(1..n, Cohort)
    <3> HIDE DEF M
    <3> QED
      BY <2>1, <2>2, FS_Surjection DEF Scored
  <2> QED
    BY <2>3 DEF Injection, IsInjective
<1>3. ASSUME NEW i \in 1..n
      PROVE  i \in before <=> rankings[i].member \in Above(m)
  <2>1. rankings[i].member \in Cohort /\ m \in Cohort
    BY <1>1
  <2>2. /\ Cardinality(Above(m)) \in Nat /\ Cardinality(Above(rankings[i].member)) \in Nat
        /\ Better(Value(rankings[i].member), Value(m))
              <=> Cardinality(Above(rankings[i].member)) < Cardinality(Above(m))
    BY <2>1, FewerAbove
  <2>3. /\ rankings[i].rank = 1 + Cardinality(Above(rankings[i].member))
        /\ rankings[j].rank = 1 + Cardinality(Above(m))
    BY <1>1
  <2> QED
    BY <2>1, <2>2, <2>3 DEF Above
<1>4. f \in Surjection(before, Above(m))
  <2>1. \A k \in Above(m) : \E i \in before : rankings[i].member = k
    <3> SUFFICES ASSUME NEW k \in Above(m) PROVE \E i \in before : rankings[i].member = k
      OBVIOUS
    <3>1. PICK i \in 1..n : rankings[i].member = k
      BY DEF Above, Cohort
    <3> HIDE DEF before
    <3> QED
      BY <1>3, <3>1
  <2>2. \A i \in before : rankings[i].member \in Above(m)
    BY <1>3
  <2> HIDE DEF before, m
  <2> QED
    BY <2>1, <2>2 DEF Surjection
<1>5. f \in Injection(before, Above(m))
  <2>1. \A i \in before : i \in 1..n /\ rankings[i].member \in Above(m)
    BY <1>3
  <2> HIDE DEF before, m
  <2> QED
    BY <1>2, <2>1 DEF Injection, IsInjective
<1>6. IsFiniteSet(before)
  <2>1. IsFiniteSet(1..n)
    BY FS_Interval DEF Scored
  <2> QED
    BY <2>1, FS_Subset
<1> HIDE DEF f
<1>7. Cardinality(before) = Cardinality(Above(m))
  <2> HIDE DEF before, m
  <2> QED
    BY <1>4, <1>5, <1>6, FS_Surjection
<1> QED
  BY <1>1, <1>7

\* The checks on the ranks alone let every right ranking through.
LEMMA RightIsPlausible ==
  ASSUME TypeOK, rankings \in RankingLists, RightlyRanked
  PROVE  Checked
<1>1. Complete /\ Scored /\ \A m \in Cohort : HasScore(m)
  BY RightIsScored
<1>2. first.tie = "ordinal" => Ranks = 1..first.of
  BY <1>1, RanksArePlaces DEF RightlyRanked, Complete
<1>3. first.tie = "dense" => Ranks = 1..Cardinality(Ranks)
  <2> SUFFICES ASSUME first.tie = "dense" PROVE Ranks = 1..Cardinality(Ranks)
    OBVIOUS
  <2>1. Ranks = 1..Cardinality(ValuesGiven)
    BY <1>1, RanksArePlaces
  <2>2. Cardinality(ValuesGiven) \in Nat
    BY <1>1, ScoresAreFinite, FS_CardinalityType
  <2>3. Cardinality(1..Cardinality(ValuesGiven)) = Cardinality(ValuesGiven)
    BY <2>2, FS_Interval
  <2> QED
    BY <2>1, <2>3
<1>4. first.tie = "competition" =>
         \A r \in Ranks : r = 1 + Cardinality({i \in 1..n : rankings[i].rank < r})
  BY <1>1, RankedBefore DEF Ranks
<1>5. 1 \in Ranks
  <2>1. /\ ValuesGiven \subseteq Int /\ IsFiniteSet(ValuesGiven)
        /\ Cardinality(ValuesGiven) \in Nat
    BY <1>1, ScoresAreFinite, FS_CardinalityType
  <2>2. ValuesGiven # {}
    <3>1. rankings[1].member \in Cohort
      BY <1>1 DEF Scored, Cohort
    <3> QED
      BY <3>1 DEF ValuesGiven
  <2>3. 1 \in 1..Cardinality(ValuesGiven)
    BY <2>1, <2>2, FS_EmptySet
  <2> DEFINE P == [x \in ValuesGiven |->
                     1 + Cardinality({y \in ValuesGiven : Better(y, x)})]
             T == 1..Cardinality(ValuesGiven)
  <2>4. P \in Bijection(ValuesGiven, T)
    BY <2>1, CountingPlaces
  <2>5. PICK x \in ValuesGiven : P[x] = 1
    <3> HIDE DEF P, T
    <3>1. 1 \in T
      BY <2>3 DEF T
    <3> QED
      BY <2>4, <3>1, Fun_BijectionProperties
  <2>6. PICK m \in Cohort : Value(m) = x
    BY DEF ValuesGiven
  <2>7. {y \in ValuesGiven : Better(y, x)} = {}
    <3>1. {y \in ValuesGiven : Better(y, x)} \in SUBSET ValuesGiven
      OBVIOUS
    <3>2. /\ IsFiniteSet({y \in ValuesGiven : Better(y, x)})
          /\ Cardinality({y \in ValuesGiven : Better(y, x)}) \in Nat
      BY <2>1, <3>1, FS_Subset, FS_CardinalityType
    <3>3. Cardinality({y \in ValuesGiven : Better(y, x)}) = 0
      BY <2>5, <3>2
    <3> QED
      BY <3>2, <3>3, FS_EmptySet
  <2>8. Above(m) = {} /\ {Value(k) : k \in Above(m)} = {}
    BY <2>6, <2>7 DEF Above, ValuesGiven
  <2>9. ReferenceRank(m) = 1
    <3>1. ReferenceRank(m) = 1 + Cardinality(IF first.tie = "dense"
                                             THEN {Value(k) : k \in Above(m)} ELSE Above(m))
      BY DEF ReferenceRank, Above
    <3> QED
      BY <2>8, <3>1, FS_EmptySet
  <2>10. PICK i \in 1..n : rankings[i].member = m
    BY DEF Cohort
  <2> QED
    BY <2>9, <2>10 DEF RightlyRanked, Ranks
<1> QED
  BY <1>1, <1>2, <1>3, <1>4, <1>5 DEF Checked, Plausible

\* What the pass over the sorted scores computes agrees with every right ranking.
LEMMA RightAgrees ==
  ASSUME GateInv, pc = "rank", position = n + 1, RightlyRanked
  PROVE  Agrees
<1>1. Ready /\ RankedSoFar /\ n \in Nat
  BY DEF GateInv, Ready
<1>2. first.tie = "ordinal" => ~HasTies
  BY DEF RightlyRanked
<1>3. ASSUME NEW i \in 1..n PROVE rankings[i].rank = expected[rankings[i].member]
  <2>1. PICK p \in 1..n : ordered[p] = i
    BY <1>1 DEF Ready, Permuted
  <2>2. At(p) = rankings[i].member /\ p \in 1..(position - 1)
    BY <1>1, <2>1 DEF At
  <2>3. expected[At(p)] = ReferenceRank(At(p))
    BY <1>1, <1>2, <2>2 DEF RankedSoFar
  <2> QED
    BY <2>2, <2>3 DEF RightlyRanked
<1> QED
  BY <1>2, <1>3 DEF Agrees

LEMMA SameRight ==
  ASSUME UNCHANGED <<rankings, byMember>>
  PROVE  RightlyRanked' = RightlyRanked
<1>1. n' = n /\ first' = first /\ Cohort' = Cohort
  BY DEF n, first, Cohort
<1>2. HasTies' = HasTies /\ \A m : HasScore(m)' = HasScore(m)
  BY <1>1 DEF HasTies, ValueAt, Value, HasScore
<1>3. \A i : ReferenceRank(rankings[i].member)' = ReferenceRank(rankings[i].member)
  BY <1>1 DEF ReferenceRank, Better, Value
<1> QED
  BY <1>1, <1>2, <1>3 DEF RightlyRanked

LEMMA RejectionStep == GateInv /\ RejectedIsWrong /\ [Next]_vars => RejectedIsWrong'
<1> SUFFICES ASSUME GateInv, RejectedIsWrong, [Next]_vars, pc' = "rejected"
             PROVE  ~RightlyRanked'
  BY DEF RejectedIsWrong
<1>1. UNCHANGED <<rankings, byMember>> => RightlyRanked' = RightlyRanked
  BY SameRight
<1>2. CASE ReadScore \/ AllRead \/ RankNext
  BY <1>2 DEF ReadScore, AllRead, RankNext
<1>3. CASE Check
  <2>1. ~Checked /\ UNCHANGED <<rankings, byMember>>
    BY <1>3 DEF Check, input, table
  <2> QED
    BY <1>1, <2>1, RightIsPlausible DEF GateInv
<1>4. CASE Conclude
  <2>1. ~Agrees /\ pc = "rank" /\ position = n + 1 /\ UNCHANGED <<rankings, byMember>>
    BY <1>4 DEF Conclude, input, table
  <2> QED
    BY <1>1, <2>1, RightAgrees
<1>5. CASE UNCHANGED vars
  BY <1>1, <1>5 DEF vars, RejectedIsWrong
<1> QED
  BY <1>2, <1>3, <1>4, <1>5 DEF Next

\* The gate keeps no right ranking out, whatever the cohort's size, its scores and
\* its tie method: the ranks pass the checks made before any score is looked at,
\* and the pass over the sorted scores arrives at the same ranks.
THEOREM GateKeepsNoRightRankOut == Spec => []RejectedIsWrong
<1>1. Init => RejectedIsWrong
  BY DEF Init, RejectedIsWrong
<1> QED
  BY <1>1, RejectionStep, GateInvariant, PTL DEF Spec
=============================================================================
