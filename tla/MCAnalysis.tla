------------------------------ MODULE MCAnalysis ------------------------------
(* Small runs: one solver judged over and over, three solvers on one         *)
(* instance, two on two, and two on up to four instances for the split.      *)
EXTENDS Analysis, SequencesExt, TLC

A(s, i, seed, index, state, patch, cost, ms, exit, error) ==
  [solver |-> s, instance |-> i, seed |-> seed, index |-> index, state |-> state,
   patch |-> patch, cost |-> cost, ms |-> ms, exit |-> exit, error |-> error]

Done(s, i, cost, ms) == <<A(s, i, 1, 1, "succeeded", 1, cost, ms, "", "")>>
Slow(s, i, cost)     == <<A(s, i, 1, 1, "timed_out", NoPatch, cost, 3, "timeout", "")>>
Lost(s, i)           == <<A(s, i, 1, 1, "failed", NoPatch, Unknown, 1, "", "rate_limit")>>
Retried(s, i)        == <<A(s, i, 1, 1, "failed", NoPatch, 1, 1, "invalid_patch", "model_not_found"),
                          A(s, i, 1, 2, "succeeded", 1, 2, 1, "", "")>>
Seeds(s, i)          == <<A(s, i, 1, 1, "succeeded", 1, 1, 1, "", ""),
                          A(s, i, 2, 1, "succeeded", 1, 3, 1, "", "")>>

\* What may have become of a solver's jobs on an instance.
Fates(s, i) ==
  {<<>>, Done(s, i, 1, 2), Done(s, i, 3, 1), Done(s, i, Unknown, 1), Slow(s, i, 2), Lost(s, i),
   Retried(s, i)}
Few(s, i) == {Done(s, i, s, 1), Lost(s, i)}

\* The attempts of a sequence of jobs, numbered in the order of the file.
Numbered(jobs) ==
  LET all == FlattenSeq(jobs)
  IN  {[id |-> n] @@ all[n] : n \in DOMAIN all}

ThreeOnOne == {Numbered(<<x, y, z>>) : x \in Fates(1, 1), y \in Fates(2, 1), z \in Fates(3, 1)}
TwoOnTwo   == {Numbered(<<x, y, z, w>>) : x \in Fates(1, 1), y \in Few(2, 1), z \in Few(1, 2), w \in Fates(2, 2)}
Wide       == {Numbered(<<Done(1, 1, 1, 1), Done(2, 1, 2, 1), x, Done(2, 2, 1, 1), Lost(1, 3), Done(2, 3, 2, 1), Lost(2, 4)>>) :
                 x \in Few(1, 2)}
Seeded     == Numbered(<<Seeds(1, 1), Done(2, 1, 2, 1)>>)
\* Followed over several commands: one attempt, two of a job or of two seeds,
\* and two solvers on one instance or on two.
Followed   == {Numbered(x) : x \in {<<Done(1, 1, 1, 2)>>, <<Retried(1, 1)>>, <<Seeds(1, 1)>>,
                                    <<Done(1, 1, 1, 2), Done(2, 2, 3, 1)>>,
                                    <<Done(1, 1, 3, 1), Slow(2, 1, 2)>>}}

AllWorlds == {w \in ThreeOnOne \cup TwoOnTwo : Cardinality(w) > 2} \cup Wide \cup {Seeded} \cup Followed
AllDatasets == {{1, 2, 3, 4}, {1}}
AllFractions == {<<80, 10>>, <<50, 25>>}
=============================================================================
