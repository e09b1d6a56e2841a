--------------------------- MODULE MCRunLifecycle ---------------------------
(* Instances of RunLifecycle for TLC. *)
EXTENDS RunLifecycle, TLC

CONSTANTS u1, u2, a1, a2

OneUnit == {u1}
TwoUnits == {u1, u2}
OneAnswer == {a1}
TwoAnswers == {a1, a2}

\* Units and answers are interchangeable; only safety is checked with this.
Symmetry == Permutations({u1, u2}) \cup Permutations({a1, a2})

NoDamage == {}
FileDamage == {"prediction", "judgment", "evaluations", "summary", "report"}
AnyDamage == FileDamage \cup {"staging", "payload"}
Recoverable == FileDamage \cup {"staging"}
=============================================================================
