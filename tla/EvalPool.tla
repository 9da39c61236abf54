------------------------------ MODULE EvalPool ------------------------------
(***************************************************************************)
(* repogauge/validation/validate.py, run_eval: the predictions of a run    *)
(* are judged by a pool of threads, a window of submitted evaluations kept *)
(* full by the main thread, which collects their results by index and      *)
(* writes validation.jsonl at the end.  Each evaluation (EvalInstance)     *)
(* writes its own log bundle, in a directory named by its instance.        *)
(*                                                                         *)
(* An item is a pair of a dataset row and a prediction, or a dataset row   *)
(* without one, which comes after the others.                              *)
(***************************************************************************)
EXTENDS Integers, Sequences, FiniteSets

CONSTANTS
  InstanceOf,   \* instance of each item, in the order of eval_items
  Unpredicted,  \* items without a prediction
  Workers,      \* max(1, jobs)
  Files,        \* the files of a log bundle, written one after the other
  MaxFaults     \* bound: evaluations that raise

Items == DOMAIN InstanceOf
Total == Len(InstanceOf)

ASSUME PoolAssumption ==
  /\ InstanceOf \in Seq({InstanceOf[i] : i \in Items})
  /\ Unpredicted \subseteq Items
  /\ Workers \in Nat \ {0}
  /\ Files \in Seq(STRING)
  /\ MaxFaults \in Nat

Instances == {InstanceOf[i] : i \in Items}
Verdicts  == {"resolved", "not_resolved", "flaky", "error"}
Nobody    == 0

VARIABLES
  main,     \* where run_eval is
  next,     \* pending_items: the next item to hand out
  window,   \* future_map
  done,     \* futures returned by wait and not yet popped
  pc,       \* pc[i]: where the evaluation of i is
  wrote,    \* wrote[i]: how many files of its bundle i has written
  verdict,  \* verdict[i]: the outcome of the evaluation
  bundle,   \* bundle[x][f]: the item whose log is in file f of x's bundle
  rows,     \* results_by_index ("none": no row)
  counts,   \* resolved_count, error_count and skipped_count
  faults

vars == <<main, next, window, done, pc, wrote, verdict, bundle, rows, counts, faults>>

Init ==
  /\ main = "fill" /\ next = 1 /\ window = {} /\ done = {}
  /\ pc = [i \in Items |-> "waiting"]
  /\ wrote = [i \in Items |-> 0]
  /\ verdict = [i \in Items |-> "none"]
  /\ bundle = [x \in Instances |-> [n \in DOMAIN Files |-> Nobody]]
  /\ rows = [i \in Items |-> "none"]
  /\ counts = [resolved |-> 0, error |-> 0, skipped |-> 0]
  /\ faults = 0

Goto(i, s) == pc' = [pc EXCEPT ![i] = s]

-----------------------------------------------------------------------------
(* The evaluation of item i in a pool thread                               *)

Judge(i) ==
  /\ pc[i] = "judging"
  /\ \E v \in Verdicts : verdict' = [verdict EXCEPT ![i] = v]
  /\ Goto(i, "bundling")
  /\ UNCHANGED <<main, next, window, done, wrote, bundle, rows, counts, faults>>

\* The checkout or the container session fails: the future raises.
JudgeRaises(i) ==
  /\ pc[i] = "judging"
  /\ faults < MaxFaults /\ faults' = faults + 1
  /\ Goto(i, "raised")
  /\ UNCHANGED <<main, next, window, done, wrote, verdict, bundle, rows, counts>>

\* Mutant: the directory is named by the item that was handed out last.
WriteBundleLate(i) ==
  LET n == wrote[i] + 1 IN
  /\ pc[i] = "bundling" /\ n <= Len(Files)
  /\ bundle' = [bundle EXCEPT ![InstanceOf[next - 1]][n] = i]
  /\ wrote' = [wrote EXCEPT ![i] = n]
  /\ Goto(i, IF n = Len(Files) THEN "returned" ELSE "bundling")
  /\ UNCHANGED <<main, next, window, done, verdict, rows, counts, faults>>

\* write_validation_bundle, one file.
WriteBundle(i) ==
  LET n == wrote[i] + 1 IN
  /\ pc[i] = "bundling" /\ n <= Len(Files)
  /\ bundle' = [bundle EXCEPT ![InstanceOf[i]][n] = i]
  /\ wrote' = [wrote EXCEPT ![i] = n]
  /\ Goto(i, IF n = Len(Files) THEN "returned" ELSE "bundling")
  /\ UNCHANGED <<main, next, window, done, verdict, rows, counts, faults>>

-----------------------------------------------------------------------------
(* The main thread                                                         *)

Skip ==
  /\ next \in Unpredicted
  /\ rows' = [rows EXCEPT ![next] = "skipped"]
  /\ counts' = [counts EXCEPT !.skipped = @ + 1]
  /\ next' = next + 1
  /\ UNCHANGED <<main, window, done, pc, wrote, verdict, bundle, faults>>

Hand ==
  /\ next \notin Unpredicted
  /\ window' = window \cup {next}
  /\ Goto(next, "judging")
  /\ next' = next + 1
  /\ UNCHANGED <<main, done, wrote, verdict, bundle, rows, counts, faults>>

\* _submit_next while there is room in the window.
Submit ==
  /\ main = "fill"
  /\ Cardinality(window) < Workers
  /\ next <= Total
  /\ Skip \/ Hand

\* Mutant: the loop waits although nothing is left to wait for.
FilledForever ==
  /\ main = "fill"
  /\ Cardinality(window) = Workers \/ next > Total
  /\ main' = "waiting"
  /\ UNCHANGED <<next, window, done, pc, wrote, verdict, bundle, rows, counts, faults>>

Filled ==
  /\ main = "fill"
  /\ Cardinality(window) = Workers \/ next > Total
  /\ main' = IF window = {} THEN "writing" ELSE "waiting"
  /\ UNCHANGED <<next, window, done, pc, wrote, verdict, bundle, rows, counts, faults>>

\* wait(FIRST_COMPLETED) returns the futures that have ended by then.
Wait ==
  /\ main = "waiting"
  /\ done' = {i \in window : pc[i] \in {"returned", "raised"}}
  /\ done' # {}
  /\ main' = "harvest"
  /\ UNCHANGED <<next, window, pc, wrote, verdict, bundle, rows, counts, faults>>

Counted(v) == CASE v = "error"    -> [counts EXCEPT !.error = @ + 1]
                [] v = "resolved" -> [counts EXCEPT !.resolved = @ + 1]
                [] OTHER          -> counts

\* Mutant: the row is stored under the number of rows so far.
HarvestInOrder(i) ==
  LET n == Cardinality({k \in Items : rows[k] # "none"}) + 1 IN
  /\ main = "harvest" /\ i \in done /\ pc[i] = "returned"
  /\ done' = done \ {i} /\ window' = window \ {i}
  /\ counts' = Counted(verdict[i])
  /\ rows' = [rows EXCEPT ![n] = verdict[i]]
  /\ main' = IF done' = {} THEN "fill" ELSE "harvest"
  /\ UNCHANGED <<next, pc, wrote, verdict, bundle, faults>>

Harvest(i) ==
  /\ main = "harvest" /\ i \in done /\ pc[i] = "returned"
  /\ done' = done \ {i} /\ window' = window \ {i}
  /\ counts' = Counted(verdict[i])
  /\ rows' = [rows EXCEPT ![i] = verdict[i]]
  /\ main' = IF done' = {} THEN "fill" ELSE "harvest"
  /\ UNCHANGED <<next, pc, wrote, verdict, bundle, faults>>

\* future.result() raises: out of the loop, into the pool's join.
HarvestRaises(i) ==
  /\ main = "harvest" /\ i \in done /\ pc[i] = "raised"
  /\ done' = done \ {i} /\ window' = window \ {i}
  /\ main' = "joining"
  /\ UNCHANGED <<next, pc, wrote, verdict, bundle, rows, counts, faults>>

\* Mutant: the pool is left without waiting for its threads.
JoinAtOnce ==
  /\ main = "joining"
  /\ main' = "raised"
  /\ UNCHANGED <<next, window, done, pc, wrote, verdict, bundle, rows, counts, faults>>

Join ==
  /\ main = "joining"
  /\ \A i \in window : pc[i] \in {"returned", "raised"}
  /\ main' = "raised"
  /\ UNCHANGED <<next, window, done, pc, wrote, verdict, bundle, rows, counts, faults>>

Write ==
  /\ main = "writing"
  /\ main' = "written"
  /\ UNCHANGED <<next, window, done, pc, wrote, verdict, bundle, rows, counts, faults>>

Main == \/ Submit \/ Filled \/ Wait \/ Join \/ Write
        \/ \E i \in Items : Harvest(i) \/ HarvestRaises(i)
Thread(i) == Judge(i) \/ WriteBundle(i)

Next == Main \/ \E i \in Items : Thread(i) \/ JudgeRaises(i)

Spec == Init /\ [][Next]_vars

\* Test commands have a timeout, so an evaluation ends.
FairSpec == Spec /\ WF_vars(Main) /\ \A i \in Items : WF_vars(Thread(i) \/ JudgeRaises(i))

-----------------------------------------------------------------------------
(* Properties                                                              *)

TypeOK ==
  /\ main \in {"fill", "waiting", "harvest", "joining", "writing", "written", "raised"}
  /\ next \in 1 .. Total + 1
  /\ done \subseteq window /\ window \subseteq Items
  /\ pc \in [Items -> {"waiting", "judging", "bundling", "returned", "raised"}]
  /\ wrote \in [Items -> 0 .. Len(Files)]
  /\ verdict \in [Items -> Verdicts \cup {"none"}]
  /\ bundle \in [Instances -> [DOMAIN Files -> Items \cup {Nobody}]]
  /\ rows \in [Items -> Verdicts \cup {"none", "skipped"}]
  /\ counts \in [resolved: Nat, error: Nat, skipped: Nat]
  /\ faults \in 0 .. MaxFaults

CountOf(v) == Cardinality({i \in Items : rows[i] = v})

(***************************************************************************)
(* What is written is complete and adds up: every item has its own row, in *)
(* its own place, with the verdict of its own evaluation, and the counts   *)
(* of the summary are the counts of the rows.                              *)
(***************************************************************************)
WrittenIsComplete ==
  main = "written" =>
    /\ \A i \in Items : rows[i] = IF i \in Unpredicted THEN "skipped" ELSE verdict[i]
    /\ counts = [resolved |-> CountOf("resolved"), error |-> CountOf("error"),
                 skipped |-> CountOf("skipped")]

(***************************************************************************)
(* The window is the pool: no evaluation runs outside it, and it never     *)
(* holds more of them than there are workers, so each one handed out is    *)
(* run at once; when run_eval ends, none is still running.                 *)
(***************************************************************************)
NoneRunsUnseen ==
  /\ \A i \in Items : pc[i] \in {"judging", "bundling"} => i \in window
  /\ Cardinality(window) <= Workers
  /\ main \in {"written", "raised"} => \A i \in Items : pc[i] \notin {"judging", "bundling"}

(***************************************************************************)
(* Whatever order the threads write in, a log file an evaluation has       *)
(* written holds its own log, or that of another prediction of the same    *)
(* instance that has come as far: two predictions of an instance share its *)
(* directory and may be mixed there, two instances never are.              *)
(***************************************************************************)
BundleIsItsInstances ==
  \A i \in Items : \A n \in 1 .. wrote[i] :
    \E k \in Items \ Unpredicted :
      /\ bundle[InstanceOf[i]][n] = k
      /\ InstanceOf[k] = InstanceOf[i]
      /\ wrote[k] >= n

(***************************************************************************)
(* run_eval ends, with its results or with an exception.                   *)
(***************************************************************************)
EvalEnds == <>(main \in {"written", "raised"})
=============================================================================
