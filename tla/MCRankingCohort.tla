-------------------------- MODULE MCRankingCohort --------------------------
(***************************************************************************)
(* Cohorts of up to three members: every list of three rankings over the   *)
(* members and ranks under a signature of the whole cohort; every pair     *)
(* under one of a cohort of two, of three, or contradicting itself; pairs  *)
(* whose second ranking has another metric.                                *)
(***************************************************************************)
EXTENDS RankingCohort, TLC

CONSTANTS a, b, c

Signatures(size, cohort) ==
    {[metric |-> "this", of |-> size, tie |-> t, direction |-> d,
      frozen |-> cohort] : t \in TieMethods, d \in Directions}

\* `length` rankings over all members and ranks, under one of `signatures`.
Lists(length, signatures) ==
    {[i \in 1..length |->
        [member |-> ms[i], rank |-> rs[i], signature |-> s]] :
        ms \in [1..length -> Members], rs \in [1..length -> 1..length],
        s \in signatures}

Whole == Lists(3, Signatures(3, Members))
Pairs == Lists(2, Signatures(2, {a, b}) \cup Signatures(3, Members)
                      \cup Signatures(2, Members))
Mixed == {[l EXCEPT ![2].signature.metric = "other"] :
             l \in Lists(2, Signatures(2, {a, b}))}

MCRankings == Whole \cup Pairs \cup Mixed

Given(f) == <<[member |-> a, value |-> f[a]], [member |-> b, value |-> f[b]],
              [member |-> c, value |-> f[c]]>>

\* A score for each member; no score for c; two scores for a.
MCScores ==
    {Given(f) : f \in [Members -> Values]}
        \cup {SubSeq(Given(f), 1, 2) : f \in [Members -> Values]}
        \cup {Append(Given(f), [member |-> a, value |-> 2]) : f \in [Members -> Values]}
=============================================================================
