-------------------------- MODULE MCReleaseBundle --------------------------
(***************************************************************************)
(* ReleaseBundle on one suite of three cells, two of them applicable, with *)
(* two builders and the runs they collect.                                 *)
(***************************************************************************)
EXTENDS ReleaseBundle, TLC

CONSTANTS c1, c2, c3, provider_runtime_error, unknown

MCEvidenceOrder == <<c1, c2>>

Ended(s, a) == [state |-> s, attribution |-> a, safe |-> "yes"]

Completed == Ended("completed", Unattributed)
Negative  == Ended("provider_negative", provider_runtime_error)

\* A run that can be released, and one that the gate must refuse.
MCResults == {[c \in Applicable |-> IF c = c1 THEN Completed ELSE Negative],
              [c \in Applicable |-> IF c = c1 THEN [Completed EXCEPT !.safe = "no"]
                                    ELSE Ended("infra_blocked", Unattributed)]}

MCEdited == {Ended("running", Unattributed), Ended("provider_negative", unknown)}

Symmetric ==
    Permutations(Builders) \cup Permutations(Runs) \cup Permutations(Suites)
=============================================================================
