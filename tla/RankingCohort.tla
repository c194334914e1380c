--------------------------- MODULE RankingCohort ---------------------------
(***************************************************************************)
(* The part of the release gate that decides whether published ranks are   *)
(* right: _validate_ranking_cohort of releases/gate.py, with the score     *)
(* dictionary _validate_metrics builds for it.  The rankings of one cohort *)
(* and metric are checked as a list, the scores are sorted, and one pass   *)
(* over the sorted list computes the rank each member should have.         *)
(***************************************************************************)
EXTENDS Integers, Sequences, FiniteSets

CONSTANTS
    Members,       \* the Provider / Access Path pairs
    Values,        \* score values
    NoValue,       \* previous_value before the first score
    RankingLists,  \* the lists of rankings a release may bring
    ScoreLists     \* the lists of scores it may bring

TieMethods == {"competition", "dense", "ordinal"}
Directions == {"higher_is_better", "lower_is_better"}

\* What all rankings of a cohort must agree on.  The identifiers the signature
\* also holds are one `metric`; `frozen` stands for the cohort digest, a digest
\* of the member set.
Signature == [metric : {"this", "other"}, of : Nat \ {0}, tie : TieMethods,
              direction : Directions, frozen : SUBSET Members]
Ranking   == [member : Members, rank : Nat \ {0}, signature : Signature]
Score     == [member : Members, value : Values]

ASSUME InputsOK ==
    /\ Values \subseteq Int /\ NoValue \notin Values
    /\ RankingLists \subseteq Seq(Ranking) \ {<<>>}
    /\ ScoreLists \subseteq Seq(Score)

VARIABLES
    rankings, scores,  \* the release
    pc,                \* "scores", "check", "rank", "accepted" or "rejected"
    read, byMember,    \* scores read so far; the dictionary they go into
    ordered,           \* the sorted score list, as positions in `rankings`
    position, dense, previous, expected

input == <<rankings, scores>>
loop  == <<position, dense, previous, expected>>
table == <<read, byMember>>
vars  == <<rankings, scores, pc, read, byMember, ordered, position, dense,
           previous, expected>>

-----------------------------------------------------------------------------
n      == Len(rankings)
first  == rankings[1].signature
Cohort == {rankings[i].member : i \in 1..n}

HasScore(m) == byMember[m] # NoValue
Value(m)    == byMember[m]
ValueAt(i) == Value(rankings[i].member)

Better(x, y) == IF first.direction = "higher_is_better" THEN x > y ELSE x < y

\* Mutant of Complete: the members are not compared with the frozen ones.
CompleteUncounted ==
    /\ \A i \in 1..n : rankings[i].signature = first
    /\ n = first.of

\* A complete frozen cohort: every member once, all of the same signature.
Complete ==
    /\ \A i \in 1..n : rankings[i].signature = first
    /\ Cardinality(Cohort) = first.of /\ n = first.of
    /\ first.frozen = Cohort

Ranks == {rankings[i].rank : i \in 1..n}

\* The checks of the ranks alone, before any score is looked at.
Plausible ==
    /\ 1 \in Ranks
    /\ first.tie = "ordinal" => Ranks = 1..first.of
    /\ first.tie = "dense" => Ranks = 1..Cardinality(Ranks)
    /\ first.tie = "competition" =>
         \A r \in Ranks : r = 1 + Cardinality({i \in 1..n : rankings[i].rank < r})

\* Python's sort is stable, in reverse as well.
Sorted(order) ==
    \A i \in 1..n : \A j \in (i + 1)..n :
        \/ Better(ValueAt(order[i]), ValueAt(order[j]))
        \/ ValueAt(order[i]) = ValueAt(order[j]) /\ order[i] < order[j]

Orders == {order \in [1..n -> 1..n] :
              /\ \A i, j \in 1..n : i # j => order[i] # order[j]
              /\ \A i \in 1..n : \E j \in 1..n : order[j] = i
              /\ Sorted(order)}

-----------------------------------------------------------------------------
Init ==
    /\ rankings \in RankingLists
    /\ scores \in ScoreLists
    /\ pc = "scores"
    /\ read = 0 /\ byMember = [m \in Members |-> NoValue]
    /\ ordered = <<>>
    /\ position = 1 /\ dense = 0 /\ previous = NoValue
    /\ expected = [m \in Members |-> 0]

\* scores_by_metric_scope is a dictionary: of two scores of one member the later
\* one in the release stays.
ReadScore ==
    /\ pc = "scores"
    /\ read < Len(scores)
    /\ read' = read + 1
    /\ byMember' =
         [byMember EXCEPT ![scores[read + 1].member] = scores[read + 1].value]
    /\ UNCHANGED <<input, pc, ordered, loop>>

AllRead ==
    /\ pc = "scores"
    /\ read = Len(scores)
    /\ pc' = "check"
    /\ UNCHANGED <<input, table, ordered, loop>>

Checked == Complete /\ Plausible /\ \A m \in Cohort : HasScore(m)

Check ==
    /\ pc = "check"
    /\ IF Checked
       THEN /\ pc' = "rank"
            /\ ordered' \in Orders
       ELSE pc' = "rejected" /\ UNCHANGED ordered
    /\ UNCHANGED <<input, table, loop>>

\* The member at a place of the sorted list.
At(p) == rankings[ordered[p]].member

\* Mutant of RankOfNext: ties get the position, as in the ordinal method.
RankOfNextNoTies(isNew) == IF first.tie = "dense" THEN dense' ELSE position

\* expected_rank of the member at `position`.
RankOfNext(isNew) ==
    CASE first.tie = "dense" -> dense'
      [] first.tie = "competition" /\ ~isNew -> expected[At(position - 1)]
      [] OTHER -> position

RankNext ==
    /\ pc = "rank"
    /\ position <= n
    /\ LET value == Value(At(position))
           isNew == value # previous
       IN  /\ dense' = IF isNew THEN dense + 1 ELSE dense
           /\ expected' = [expected EXCEPT ![At(position)] = RankOfNext(isNew)]
           /\ previous' = value
    /\ position' = position + 1
    /\ UNCHANGED <<input, pc, table, ordered>>

HasTies == \E i, j \in 1..n : i # j /\ ValueAt(i) = ValueAt(j)

Agrees ==
    /\ first.tie = "ordinal" => ~HasTies
    /\ \A i \in 1..n : rankings[i].rank = expected[rankings[i].member]

Conclude ==
    /\ pc = "rank"
    /\ position = n + 1
    /\ pc' = IF Agrees THEN "accepted" ELSE "rejected"
    /\ UNCHANGED <<input, table, ordered, loop>>

Next == ReadScore \/ AllRead \/ Check \/ RankNext \/ Conclude

Spec == Init /\ [][Next]_vars

-----------------------------------------------------------------------------
(***************************************************************************)
(* Properties                                                              *)
(***************************************************************************)
TypeOK ==
    /\ rankings \in Seq(Ranking) /\ scores \in Seq(Score)
    /\ pc \in {"scores", "check", "rank", "accepted", "rejected"}
    /\ read \in 0..Len(scores)
    /\ byMember \in [Members -> Values \cup {NoValue}]
    /\ position \in 1..(n + 1)
    /\ dense \in 0..n
    /\ previous \in Values \cup {NoValue}
    /\ expected \in [Members -> 0..n]

\* What the three tie methods mean, without sorting: one more than the number of
\* better members, or, dense, than the number of better values.
ReferenceRank(m) ==
    LET better == {k \in Cohort : Better(Value(k), Value(m))}
    IN  1 + Cardinality(IF first.tie = "dense" THEN {Value(k) : k \in better}
                        ELSE better)

RightlyRanked ==
    /\ \A i \in 1..n : rankings[i].signature = first
    /\ n = Cardinality(first.frozen) /\ n = first.of
    /\ \A m \in first.frozen : \E i \in 1..n : rankings[i].member = m
    /\ \A m \in Cohort : HasScore(m)
    /\ first.tie = "ordinal" => ~HasTies
    /\ \A i \in 1..n : rankings[i].rank = ReferenceRank(rankings[i].member)

\* The gate publishes no wrong rank: a cohort it accepts is complete, and each
\* rank is the one the tie method gives that member by the scores.
AcceptedIsRight == pc = "accepted" => RightlyRanked

\* And it keeps no right ranking out: neither the checks on the ranks alone nor
\* the pass over the sorted scores rejects a complete, correctly ranked cohort.
RejectedIsWrong == pc = "rejected" => ~RightlyRanked
=============================================================================
