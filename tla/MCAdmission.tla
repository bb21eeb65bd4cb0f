------------------------------- MODULE MCAdmission -------------------------------
EXTENDS Admission

CONSTANTS k1, k2, k3, i1, i2

MCKeys == {k1, k2, k3}
MCInfohashes == {i1, i2}
MCHash1 == (i1 :> 1) @@ (i2 :> 4)
MCHash2 == (i1 :> 2) @@ (i2 :> 5)
\* A clean answer, and one that repeats an infohash.
MCAnswers == {<<i1, i2>>, <<i1, i1>>}
\* Four plays: saves and restarts; flags around a restart; gossip and searches; admission.
MCBudgets ==
    {[ops |-> 3, queries |-> 0, notes |-> 0, fails |-> 1, crashes |-> 1, edits |-> 0],
     [ops |-> 2, queries |-> 1, notes |-> 0, fails |-> 0, crashes |-> 1, edits |-> 1],
     [ops |-> 1, queries |-> 1, notes |-> 2, fails |-> 0, crashes |-> 0, edits |-> 0],
     [ops |-> 0, queries |-> 0, notes |-> 5, fails |-> 0, crashes |-> 1, edits |-> 1]}
=============================================================================
