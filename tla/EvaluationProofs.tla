--------------------------- MODULE EvaluationProofs ---------------------------
(***************************************************************************)
(* What is proved of the evaluation.                                       *)
(*                                                                         *)
(* Of EvalPool, for every list of items, number of workers and of          *)
(* evaluations that raise, and every order in which threads end: that      *)
(* nothing runs unseen, that what is written is complete and adds up, and  *)
(* that a bundle is written by evaluations of its instance alone, however  *)
(* many predictions that instance has.                                     *)
(*                                                                         *)
(* Of EvalInstance, for every set of tests, of outcomes and of declared    *)
(* lists, for pytest and the other adapters alike, and however flaky the   *)
(* tests are: that no pass sees another, that a resolved verdict rests on  *)
(* all five passes, and that a rejection says why.                         *)
(***************************************************************************)
EXTENDS EvalPool, EvalInstance, FiniteSetTheorems, TLAPS

-----------------------------------------------------------------------------
(* The pool                                                                *)

Running == {"judging", "bundling"}
Leaving == {"joining", "raised"}

\* An item waits until it is handed out, and runs inside the window.
Handed ==
  \A i \in Items :
    /\ pc[i] = "waiting" <=> i >= next \/ i \in Unpredicted
    /\ pc[i] \in Running => i \in window
    /\ i \in window => pc[i] # "waiting"
Room == IsFiniteSet(window) /\ Cardinality(window) <= Workers

\* Without an exception, what has left the window has its row; the window
\* and the items behind it have none.
Ledger ==
  /\ main \notin Leaving =>
       \A i \in Items : i < next /\ i \notin window =>
         IF i \in Unpredicted THEN rows[i] = "skipped"
         ELSE pc[i] = "returned" /\ rows[i] = verdict[i]
  /\ \A i \in Items : i >= next \/ i \in window => rows[i] = "none"
  /\ \A i \in Items : pc[i] \in {"bundling", "returned"} => verdict[i] \in Verdicts
Sums ==
  counts = [resolved |-> CountOf("resolved"), error |-> CountOf("error"),
            skipped |-> CountOf("skipped")]

Ending ==
  /\ main \in {"writing", "written"} => window = {} /\ next = Total + 1
  /\ main = "raised" => \A i \in Items : pc[i] \notin Running

PoolInv == TypeOK /\ Handed /\ Room /\ Ledger /\ Sums /\ Ending

\* Only an evaluation that was handed out has written.
Logs ==
  /\ \A i \in Items : pc[i] = "waiting" => wrote[i] = 0
  /\ BundleIsItsInstances

LEMMA ItemsAreNumbered == Items = 1 .. Total /\ Total \in Nat
BY PoolAssumption DEF Items, Total

\* One row more is one more in its own count.
LEMMA CountsOneMore ==
  ASSUME TypeOK, NEW i \in Items, rows[i] = "none", NEW v \in Verdicts \cup {"skipped"},
         rows' = [rows EXCEPT ![i] = v]
  PROVE  /\ CountOf(v)' = CountOf(v) + 1
         /\ \A u \in Verdicts \cup {"skipped"} : u # v => CountOf(u)' = CountOf(u)
         /\ \A u : CountOf(u)' \in Nat
<1> DEFINE With(f, u) == {k \in Items : f[k] = u}
<1>1. IsFiniteSet(Items)
  BY ItemsAreNumbered, FS_Interval
<1>2. \A f, u : IsFiniteSet(With(f, u))
  BY <1>1, FS_Subset
<1>3. With(rows', v) = With(rows, v) \cup {i} /\ i \notin With(rows, v)
  BY DEF TypeOK, Verdicts
<1>4. \A u \in Verdicts \cup {"skipped"} : u # v => With(rows', u) = With(rows, u)
  BY DEF TypeOK, Verdicts
<1>5. \A u : CountOf(u) = Cardinality(With(rows, u)) /\ CountOf(u)' = Cardinality(With(rows', u))
  BY DEF CountOf
<1> HIDE DEF With
<1>6. Cardinality(With(rows', v)) = Cardinality(With(rows, v)) + 1
  BY <1>2, <1>3, FS_AddElement
<1>7. \A u : Cardinality(With(rows', u)) \in Nat
  BY <1>2, FS_CardinalityType
<1> QED
  BY <1>4, <1>5, <1>6, <1>7

LEMMA SkipStep ==
  ASSUME PoolInv, main = "fill", next <= Total, Skip
  PROVE  PoolInv'
<1> USE DEF PoolInv
<1>1. /\ next \in Items /\ next \in Unpredicted
      /\ rows' = [rows EXCEPT ![next] = "skipped"]
      /\ counts' = [counts EXCEPT !.skipped = @ + 1]
      /\ next' = next + 1
      /\ UNCHANGED <<main, window, done, pc, wrote, verdict, bundle, faults>>
  BY ItemsAreNumbered DEF Skip, TypeOK
<1>2. rows[next] = "none"
  BY <1>1 DEF Ledger, TypeOK
<1>3. Sums'
  <2>1. /\ CountOf("skipped")' = CountOf("skipped") + 1
        /\ CountOf("resolved")' = CountOf("resolved")
        /\ CountOf("error")' = CountOf("error")
    BY <1>1, <1>2, CountsOneMore DEF Verdicts
  <2>2. counts' = [counts EXCEPT !.skipped = @ + 1]
    BY <1>1
  <2> QED BY <2>1, <2>2 DEF Sums
<1>4. TypeOK'
  <2>1. next' \in 1 .. Total + 1
    BY <1>1, ItemsAreNumbered DEF TypeOK
  <2>2. rows' \in [Items -> Verdicts \cup {"none", "skipped"}]
    BY <1>1 DEF TypeOK
  <2>3. counts' \in [resolved: Nat, error: Nat, skipped: Nat]
    <3>1. \A u : CountOf(u)' \in Nat
      BY <1>1, <1>2, CountsOneMore
    <3>2. counts' = [resolved |-> CountOf("resolved"), error |-> CountOf("error"),
                     skipped |-> CountOf("skipped")]'
      BY <1>3 DEF Sums
    <3> QED BY <3>1, <3>2
  <2> QED BY <1>1, <2>1, <2>2, <2>3 DEF TypeOK
<1>5. Handed'
  BY <1>1, ItemsAreNumbered DEF Handed, TypeOK
<1>6. Ledger'
  <2>1. next \notin window
    BY <1>1 DEF Handed
  <2>2. \A i \in Items : i # next => rows'[i] = rows[i]
    BY <1>1 DEF TypeOK
  <2>3. rows'[next] = "skipped"
    BY <1>1 DEF TypeOK
  <2>4. \A i \in Items : (i < next' => i < next \/ i = next) /\ (i >= next' => i >= next /\ i # next)
    BY <1>1, ItemsAreNumbered DEF TypeOK
  <2> QED BY <1>1, <2>1, <2>2, <2>3, <2>4 DEF Ledger
<1>7. Room' /\ Ending'
  BY <1>1 DEF Room, Ending
<1> QED
  BY <1>3, <1>4, <1>5, <1>6, <1>7

LEMMA HandStep ==
  ASSUME PoolInv, main = "fill", Cardinality(window) < Workers, next <= Total, Hand
  PROVE  PoolInv'
<1> USE DEF PoolInv
<1>1. /\ next \in Items /\ next \notin Unpredicted
      /\ window' = window \cup {next}
      /\ pc' = [pc EXCEPT ![next] = "judging"]
      /\ next' = next + 1
      /\ UNCHANGED <<main, done, wrote, verdict, bundle, rows, counts, faults>>
  BY ItemsAreNumbered DEF Hand, Goto, TypeOK
<1>2. TypeOK'
  <2>1. next' \in 1 .. Total + 1
    BY <1>1, ItemsAreNumbered DEF TypeOK
  <2> QED BY <1>1, <2>1 DEF TypeOK
<1>3. pc[next] = "waiting" /\ next \notin window
  BY <1>1, ItemsAreNumbered DEF Handed, TypeOK
<1>4. \A i \in Items : (i < next' => i < next \/ i = next) /\ (i >= next' <=> i >= next /\ i # next)
  BY <1>1, ItemsAreNumbered DEF TypeOK
<1>5. \A i \in Items : i # next => pc'[i] = pc[i]
  BY <1>1 DEF TypeOK
<1>6. pc'[next] = "judging"
  BY <1>1 DEF TypeOK
<1>7. Handed'
  BY <1>1, <1>4, <1>5, <1>6 DEF Handed, Running
<1>8. Room'
  <2>1. IsFiniteSet(window') /\ Cardinality(window') = Cardinality(window) + 1
    BY <1>1, <1>3, FS_AddElement DEF Room
  <2>2. Cardinality(window) \in Nat
    BY FS_CardinalityType DEF Room
  <2> QED BY <2>1, <2>2, PoolAssumption DEF Room
<1>9. Ledger'
  <2>1. rows[next] = "none"
    BY <1>1 DEF Ledger, TypeOK
  <2> QED BY <1>1, <1>4, <1>5, <1>6, <2>1 DEF Ledger
<1>10. Sums' /\ Ending'
  BY <1>1 DEF Sums, CountOf, Ending
<1> QED
  BY <1>2, <1>7, <1>8, <1>9, <1>10

LEMMA HarvestStep ==
  ASSUME PoolInv, NEW i \in Items, Harvest(i)
  PROVE  PoolInv'
<1> USE DEF PoolInv
<1>1. /\ main = "harvest" /\ i \in done /\ pc[i] = "returned"
      /\ done' = done \ {i} /\ window' = window \ {i}
      /\ counts' = Counted(verdict[i])
      /\ rows' = [rows EXCEPT ![i] = verdict[i]]
      /\ main' \in {"fill", "harvest"}
      /\ UNCHANGED <<next, pc, wrote, verdict, bundle, faults>>
  BY DEF Harvest
<1>2. /\ i \in window /\ i < next /\ i \notin Unpredicted /\ rows[i] = "none"
      /\ verdict[i] \in Verdicts
  <2>1. i \in window
    BY <1>1 DEF TypeOK
  <2> QED BY <1>1, <2>1, ItemsAreNumbered DEF Handed, Ledger, TypeOK
<1>3. Sums'
  <2> PICK v \in Verdicts : v = verdict[i]
    BY <1>2
  <2>1. /\ CountOf(v)' = CountOf(v) + 1
        /\ \A u \in Verdicts \cup {"skipped"} : u # v => CountOf(u)' = CountOf(u)
    BY <1>1, <1>2, CountsOneMore
  <2>2. counts = [resolved |-> CountOf("resolved"), error |-> CountOf("error"),
                  skipped |-> CountOf("skipped")]
    BY DEF Sums
  <2>3. CASE v = "error"
    <3>1. counts' = [counts EXCEPT !.error = @ + 1]
      BY <1>1, <2>3 DEF Counted
    <3>2. /\ CountOf("error")' = CountOf("error") + 1
          /\ CountOf("resolved")' = CountOf("resolved")
          /\ CountOf("skipped")' = CountOf("skipped")
      BY <2>1, <2>3 DEF Verdicts
    <3> QED BY <2>2, <3>1, <3>2 DEF Sums
  <2>4. CASE v = "resolved"
    <3>1. counts' = [counts EXCEPT !.resolved = @ + 1]
      BY <1>1, <2>4 DEF Counted
    <3>2. /\ CountOf("error")' = CountOf("error")
          /\ CountOf("resolved")' = CountOf("resolved") + 1
          /\ CountOf("skipped")' = CountOf("skipped")
      BY <2>1, <2>4 DEF Verdicts
    <3> QED BY <2>2, <3>1, <3>2 DEF Sums
  <2>5. CASE v # "error" /\ v # "resolved"
    <3>1. counts' = counts
      BY <1>1, <2>5 DEF Counted
    <3>2. /\ CountOf("error")' = CountOf("error")
          /\ CountOf("resolved")' = CountOf("resolved")
          /\ CountOf("skipped")' = CountOf("skipped")
      BY <1>2, <2>1, <2>5 DEF Verdicts
    <3> QED BY <2>2, <3>1, <3>2 DEF Sums
  <2> QED BY <2>3, <2>4, <2>5
<1>4. TypeOK'
  <2>1. counts' \in [resolved: Nat, error: Nat, skipped: Nat]
    <3>1. \A u : CountOf(u)' \in Nat
      BY <1>1, <1>2, CountsOneMore
    <3>2. counts' = [resolved |-> CountOf("resolved"), error |-> CountOf("error"),
                     skipped |-> CountOf("skipped")]'
      BY <1>3 DEF Sums
    <3> QED BY <3>1, <3>2
  <2>2. rows' \in [Items -> Verdicts \cup {"none", "skipped"}]
    BY <1>1, <1>2 DEF TypeOK
  <2> QED BY <1>1, <2>1, <2>2 DEF TypeOK
<1>5. Handed'
  BY <1>1 DEF Handed, Running
<1>6. Room'
  <2>1. IsFiniteSet(window') /\ Cardinality(window') = Cardinality(window) - 1
    BY <1>1, <1>2, FS_RemoveElement DEF Room
  <2>2. Cardinality(window) \in Nat
    BY FS_CardinalityType DEF Room
  <2> QED BY <2>1, <2>2, PoolAssumption DEF Room
<1>7. Ledger'
  <2>1. \A k \in Items : k # i => rows'[k] = rows[k]
    BY <1>1 DEF TypeOK
  <2>2. rows'[i] = verdict[i]
    BY <1>1 DEF TypeOK
  <2>3. ~(i >= next)
    BY <1>2, ItemsAreNumbered DEF TypeOK
  <2>4. main \notin Leaving
    BY <1>1 DEF Leaving
  <2> QED BY <1>1, <1>2, <2>1, <2>2, <2>3, <2>4 DEF Ledger
<1>8. Ending'
  BY <1>1 DEF Ending
<1> QED
  BY <1>3, <1>4, <1>5, <1>6, <1>7, <1>8

LEMMA HarvestRaisesStep ==
  ASSUME PoolInv, NEW i \in Items, HarvestRaises(i)
  PROVE  PoolInv'
<1> USE DEF PoolInv
<1>1. /\ i \in done /\ pc[i] = "raised"
      /\ done' = done \ {i} /\ window' = window \ {i} /\ main' = "joining"
      /\ UNCHANGED <<next, pc, wrote, verdict, bundle, rows, counts, faults>>
  BY DEF HarvestRaises
<1>2. TypeOK'
  BY <1>1 DEF TypeOK
<1>3. Handed'
  BY <1>1 DEF Handed, Running
<1>4. Room'
  <2>1. i \in window
    BY <1>1 DEF TypeOK
  <2>2. IsFiniteSet(window') /\ Cardinality(window') = Cardinality(window) - 1
    BY <1>1, <2>1, FS_RemoveElement DEF Room
  <2>3. Cardinality(window) \in Nat
    BY FS_CardinalityType DEF Room
  <2> QED BY <2>2, <2>3, PoolAssumption DEF Room
<1>5. Ledger'
  BY <1>1 DEF Ledger, Leaving
<1>6. Sums' /\ Ending'
  BY <1>1 DEF Sums, CountOf, Ending
<1> QED
  BY <1>2, <1>3, <1>4, <1>5, <1>6

\* The steps that leave the window and the rows alone.
LEMMA MainStep ==
  ASSUME PoolInv, Filled \/ Wait \/ Join \/ Write
  PROVE  PoolInv'
<1> USE DEF PoolInv
<1>1. /\ UNCHANGED <<next, window, pc, wrote, verdict, bundle, rows, counts, faults>>
      /\ done' \subseteq window
  BY DEF Filled, Wait, Join, Write, TypeOK
<1>2. main' \in {"fill", "waiting", "harvest", "joining", "writing", "written", "raised"}
  BY DEF Filled, Wait, Join, Write
<1>3. TypeOK' /\ Handed' /\ Room' /\ Sums'
  BY <1>1, <1>2 DEF TypeOK, Handed, Room, Sums, CountOf
<1>4. main \in Leaving => main' \in Leaving
  BY DEF Filled, Wait, Join, Write, Leaving
<1>5. Ledger'
  BY <1>1, <1>4 DEF Ledger
<1>6. Ending'
  <2>1. CASE Filled
    <3>1. window = {} => next > Total
      BY <2>1, FS_EmptySet, PoolAssumption DEF Filled
    <3>2. next > Total => next = Total + 1
      BY ItemsAreNumbered DEF TypeOK
    <3> QED BY <1>1, <2>1, <3>1, <3>2 DEF Filled, Ending
  <2>2. CASE Wait
    BY <1>1, <2>2 DEF Wait, Ending
  <2>3. CASE Join
    <3>1. \A i \in Items : pc[i] \notin Running
      BY <2>3 DEF Join, Handed, Running
    <3>2. main' = "raised"
      BY <2>3 DEF Join
    <3> QED BY <1>1, <3>1, <3>2 DEF Ending
  <2>4. CASE Write
    BY <1>1, <2>4 DEF Write, Ending
  <2> QED BY <2>1, <2>2, <2>3, <2>4
<1> QED
  BY <1>3, <1>5, <1>6

LEMMA ThreadStep ==
  ASSUME PoolInv, NEW i \in Items, Judge(i) \/ JudgeRaises(i) \/ WriteBundle(i)
  PROVE  PoolInv'
<1> USE DEF PoolInv
<1>1. /\ UNCHANGED <<main, next, window, done, rows, counts>>
      /\ pc[i] \in Running
      /\ \E s \in {"bundling", "raised", "returned"} : pc' = [pc EXCEPT ![i] = s]
  BY DEF Judge, JudgeRaises, WriteBundle, Goto, Running
<1>2. i \in window
  BY <1>1 DEF Handed
<1>3. /\ \A k \in Items : k # i => pc'[k] = pc[k]
      /\ pc'[i] \in {"bundling", "raised", "returned"}
  BY <1>1 DEF TypeOK
<1>4. /\ verdict' \in [Items -> Verdicts \cup {"none"}]
      /\ \A k \in Items : k # i => verdict'[k] = verdict[k]
      /\ pc'[i] \in {"bundling", "returned"} => verdict'[i] \in Verdicts
  <2>1. CASE Judge(i)
    BY <2>1 DEF Judge, TypeOK
  <2>2. CASE JudgeRaises(i)
    BY <1>1, <2>2 DEF JudgeRaises, Goto, TypeOK
  <2>3. CASE WriteBundle(i)
    BY <2>3 DEF WriteBundle, TypeOK, Ledger
  <2> QED BY <2>1, <2>2, <2>3
<1>5. TypeOK'
  <2>1. pc' \in [Items -> {"waiting", "judging", "bundling", "returned", "raised"}]
    BY <1>1 DEF TypeOK
  <2>2. faults' \in 0 .. MaxFaults
    BY PoolAssumption DEF Judge, JudgeRaises, WriteBundle, TypeOK
  <2>3. wrote' \in [Items -> 0 .. Len(Files)] /\
        bundle' \in [Instances -> [DOMAIN Files -> Items \cup {Nobody}]]
    <3>1. CASE WriteBundle(i)
      <4> DEFINE n == wrote[i] + 1
      <4>1. n \in DOMAIN Files /\ n \in 0 .. Len(Files) /\ InstanceOf[i] \in Instances
        <5>1. wrote[i] \in Nat /\ wrote[i] + 1 <= Len(Files)
          BY <3>1 DEF WriteBundle, TypeOK
        <5>2. DOMAIN Files = 1 .. Len(Files) /\ Len(Files) \in Nat
          BY PoolAssumption
        <5>3. InstanceOf[i] \in Instances
          BY DEF Instances
        <5> QED BY <5>1, <5>2, <5>3
      <4>2. /\ wrote' = [wrote EXCEPT ![i] = n]
            /\ bundle' = [bundle EXCEPT ![InstanceOf[i]][n] = i]
        BY <3>1 DEF WriteBundle
      <4> HIDE DEF n
      <4> QED BY <4>1, <4>2 DEF TypeOK
    <3>2. CASE Judge(i) \/ JudgeRaises(i)
      BY <3>2 DEF Judge, JudgeRaises, TypeOK
    <3> QED BY <3>1, <3>2
  <2> QED BY <1>1, <1>4, <2>1, <2>2, <2>3 DEF TypeOK
<1>6. Handed'
  BY <1>1, <1>2, <1>3 DEF Handed, Running
<1>7. Ledger'
  BY <1>1, <1>2, <1>3, <1>4 DEF Ledger
<1>8. Room' /\ Sums'
  BY <1>1 DEF Room, Sums, CountOf
<1>9. Ending'
  BY <1>1, <1>2 DEF Ending
<1> QED
  BY <1>5, <1>6, <1>7, <1>8, <1>9

LEMMA PoolInvHolds == Spec => []PoolInv
<1>1. Init => PoolInv
  <2> SUFFICES ASSUME Init PROVE PoolInv
    OBVIOUS
  <2> USE ItemsAreNumbered, PoolAssumption DEF Init
  <2>1. TypeOK
    BY DEF TypeOK
  <2>2. Handed
    BY DEF Handed, Running
  <2>3. Room
    BY FS_EmptySet DEF Room
  <2>4. Ledger
    BY DEF Ledger
  <2>5. Sums
    <3>1. \A v \in {"resolved", "error", "skipped"} : {i \in Items : rows[i] = v} = {}
      OBVIOUS
    <3> QED BY <3>1, FS_EmptySet DEF Sums, CountOf
  <2>6. Ending
    BY DEF Ending
  <2> QED BY <2>1, <2>2, <2>3, <2>4, <2>5, <2>6 DEF PoolInv
<1>2. PoolInv /\ [Next]_vars => PoolInv'
  <2> SUFFICES ASSUME PoolInv, [Next]_vars PROVE PoolInv'
    OBVIOUS
  <2>1. CASE Submit
    BY <2>1, SkipStep, HandStep DEF Submit
  <2>2. CASE UNCHANGED vars
    BY <2>2 DEF vars, PoolInv, TypeOK, Handed, Room, Ledger, Sums, CountOf, Ending
  <2> QED
    BY <2>1, <2>2, MainStep, HarvestStep, HarvestRaisesStep, ThreadStep
    DEF Next, Main, Thread
<1> QED
  BY <1>1, <1>2, PTL DEF Spec

(***************************************************************************)
(* run_eval writes every item's own row, in its place, with the verdict of *)
(* its own evaluation, and counts that add up, in whatever order the       *)
(* evaluations end (results_by_index, resolved_count).                     *)
(***************************************************************************)
THEOREM WrittenAlwaysComplete == Spec => []WrittenIsComplete
<1>1. PoolInv => WrittenIsComplete
  <2> SUFFICES ASSUME PoolInv, main = "written" PROVE WrittenIsComplete
    BY DEF WrittenIsComplete
  <2>1. window = {} /\ \A i \in Items : i < next
    BY ItemsAreNumbered DEF PoolInv, Ending
  <2> QED BY <2>1 DEF PoolInv, Ledger, Leaving, Sums, WrittenIsComplete
<1> QED
  BY <1>1, PoolInvHolds, PTL

(***************************************************************************)
(* No evaluation runs outside the window or beyond the number of workers,  *)
(* and none is still running when run_eval returns or raises (_submit_next *)
(* and the join of the pool).                                              *)
(***************************************************************************)
THEOREM NoneEverRunsUnseen == Spec => []NoneRunsUnseen
<1>1. PoolInv => NoneRunsUnseen
  BY DEF PoolInv, Handed, Room, Ending, Running, NoneRunsUnseen
<1> QED
  BY <1>1, PoolInvHolds, PTL

LEMMA LogsStep ==
  ASSUME PoolInv, Logs, [Next]_vars
  PROVE  Logs'
<1> USE DEF PoolInv
<1>1. CASE UNCHANGED <<pc, wrote, bundle>>
  BY <1>1 DEF Logs, BundleIsItsInstances
<1>2. ASSUME NEW i \in Items, NEW s \in {"judging", "bundling", "raised"},
             pc' = [pc EXCEPT ![i] = s], UNCHANGED <<wrote, bundle>>
      PROVE  Logs'
  BY <1>2 DEF Logs, BundleIsItsInstances, TypeOK
<1>3. ASSUME NEW i \in Items, WriteBundle(i) PROVE Logs'
  <2> DEFINE n == wrote[i] + 1
             x == InstanceOf[i]
  <2>1. /\ pc[i] = "bundling" /\ n <= Len(Files) /\ n \in Nat /\ wrote[i] \in Nat
        /\ i \in Items \ Unpredicted
    BY <1>3 DEF WriteBundle, TypeOK, Handed
  <2>2. /\ bundle' = [bundle EXCEPT ![x][n] = i]
        /\ wrote' = [wrote EXCEPT ![i] = n]
        /\ pc' = [pc EXCEPT ![i] = IF n = Len(Files) THEN "returned" ELSE "bundling"]
    BY <1>3 DEF WriteBundle, Goto
  <2>3. n \in DOMAIN Files /\ DOMAIN Files = 1 .. Len(Files) /\ Len(Files) \in Nat
    BY <2>1, PoolAssumption
  <2>4. \A k \in Items : InstanceOf[k] \in Instances
    BY DEF Instances
  <2>5. /\ wrote'[i] = n /\ pc'[i] # "waiting"
        /\ \A k \in Items : k # i => wrote'[k] = wrote[k] /\ pc'[k] = pc[k]
    <3> HIDE DEF n
    <3> QED BY <2>2 DEF TypeOK
  <2>6. \A k \in Items : wrote[k] \in Nat /\ wrote'[k] \in Nat /\ wrote'[k] >= wrote[k]
    BY <2>1, <2>5 DEF TypeOK
  <2>7. /\ bundle'[x][n] = i
        /\ \A y \in Instances, m \in DOMAIN Files :
             y # x \/ m # n => bundle'[y][m] = bundle[y][m]
    <3> HIDE DEF n, x
    <3>1. x \in Instances
      BY <2>1, <2>4 DEF x
    <3> QED BY <2>2, <2>3, <3>1 DEF TypeOK
  <2>8. ASSUME NEW k \in Items, NEW m \in 1 .. wrote'[k]
        PROVE  \E h \in Items \ Unpredicted :
                 bundle'[InstanceOf[k]][m] = h /\ InstanceOf[h] = InstanceOf[k] /\ wrote'[h] >= m
    <3>1. CASE InstanceOf[k] = x /\ m = n
      <4>1. bundle'[InstanceOf[k]][m] = i /\ wrote'[i] >= m
        BY <2>1, <2>5, <2>7, <3>1
      <4> QED BY <2>1, <3>1, <4>1
    <3>2. CASE ~(InstanceOf[k] = x /\ m = n)
      <4>1. m \in 1 .. wrote[k]
        BY <2>1, <2>5, <2>6, <2>8, <3>2
      <4>2. PICK h \in Items \ Unpredicted :
              bundle[InstanceOf[k]][m] = h /\ InstanceOf[h] = InstanceOf[k] /\ wrote[h] >= m
        BY <4>1 DEF Logs, BundleIsItsInstances
      <4>3. m \in DOMAIN Files
        BY <2>3, <4>1 DEF TypeOK
      <4>4. bundle'[InstanceOf[k]][m] = h
        <5> HIDE DEF n, x
        <5> QED BY <2>4, <2>7, <3>2, <4>2, <4>3
      <4>5. wrote'[h] >= m
        BY <2>6, <4>1, <4>2
      <4> QED BY <4>2, <4>4, <4>5
    <3> QED BY <3>1, <3>2
  <2>9. \A k \in Items : pc'[k] = "waiting" => wrote'[k] = 0
    BY <2>5 DEF Logs
  <2> QED BY <2>8, <2>9 DEF Logs, BundleIsItsInstances
<1>4. ASSUME NEW i \in Items, Judge(i) \/ JudgeRaises(i) PROVE Logs'
  <2>1. /\ UNCHANGED <<wrote, bundle>>
        /\ pc' = [pc EXCEPT ![i] = "bundling"] \/ pc' = [pc EXCEPT ![i] = "raised"]
    BY <1>4 DEF Judge, JudgeRaises, Goto
  <2> QED BY <1>2, <2>1
<1>5. CASE Submit
  <2>1. CASE Skip
    BY <1>1, <2>1 DEF Skip
  <2>2. CASE Hand
    <3>1. next \in Items
      BY <1>5, ItemsAreNumbered DEF Submit, TypeOK
    <3>2. pc' = [pc EXCEPT ![next] = "judging"] /\ UNCHANGED <<wrote, bundle>>
      BY <2>2 DEF Hand, Goto
    <3> QED BY <1>2, <3>1, <3>2
  <2> QED BY <1>5, <2>1, <2>2 DEF Submit
<1>6. CASE Filled \/ Wait \/ Join \/ Write \/ \E i \in Items : Harvest(i) \/ HarvestRaises(i)
  BY <1>1, <1>6 DEF Filled, Wait, Join, Write, Harvest, HarvestRaises
<1>7. CASE UNCHANGED vars
  BY <1>1, <1>7 DEF vars
<1> QED
  BY <1>3, <1>4, <1>5, <1>6, <1>7 DEF Next, Main, Thread

(***************************************************************************)
(* However many predictions an instance has and whatever the threads do    *)
(* between two files, no evaluation writes into another instance's bundle, *)
(* and what it has written is overwritten by its own instance's other      *)
(* predictions alone (write_validation_bundle).                            *)
(***************************************************************************)
THEOREM BundlesAreTheirInstances == Spec => []BundleIsItsInstances
<1>1. Init => Logs
  BY DEF Init, Logs, BundleIsItsInstances
<1>2. PoolInv /\ Logs /\ [Next]_vars => Logs'
  BY LogsStep
<1>3. Logs => BundleIsItsInstances
  BY DEF Logs
<1> QED
  BY <1>1, <1>2, <1>3, PoolInvHolds, PTL DEF Spec

-----------------------------------------------------------------------------
(* One instance: what EvalPool calls the evaluation of an item             *)

\* The checkout on the way through a pass: reset, patched, then run in.
Checkout ==
  /\ pass \in 1 .. 5
  /\ step \in {"reset", "patch_test", "patch_pred", "collect", "command",
               "parse", "verdict", "done"}
  /\ step = "patch_test" => tree = {}
  /\ step = "patch_pred" => tree = {"test"} \cap Patches[pass]
  /\ step \in {"collect", "command", "parse"} => tree = Patches[pass]
  /\ step \in {"patch_test", "patch_pred", "collect"} => ~dirty
  /\ step = "parse" /\ report.good => report.pass = pass

LEMMA CheckoutHolds == EvalSpec => []Checkout
<1>1. EvalInit => Checkout
  BY DEF EvalInit, Checkout
<1>2. Checkout /\ [EvalNext]_evalVars => Checkout'
  <2> SUFFICES ASSUME Checkout, [EvalNext]_evalVars PROVE Checkout'
    OBVIOUS
  <2> USE DEF Checkout, GoOn, EndPass
  <2>1. CASE Reset
    BY <2>1 DEF Reset
  <2>2. CASE PassRaises \/ PatchFails
    BY <2>2 DEF PassRaises, PatchFails
  <2>3. CASE ApplyTestPatch
    BY <2>3 DEF ApplyTestPatch
  <2>4. CASE ApplyPredPatch
    <3>1. Patches[pass] \subseteq {"test", "pred"}
      BY DEF Patches
    <3> QED BY <2>4, <3>1 DEF ApplyPredPatch
  <2>5. CASE Collect
    BY <2>5 DEF Collect
  <2>6. CASE Command
    BY <2>6 DEF Command, NoReport
  <2>7. CASE Parse \/ RetryOnFiles \/ ParseFails
    BY <2>7 DEF Parse, RetryOnFiles, ParseFails
  <2>8. CASE NextPass
    BY <2>8 DEF NextPass
  <2>9. CASE RejectFailed \/ RejectFlaky \/ Decide \/ SessionFails
    BY <2>9 DEF RejectFailed, RejectFlaky, Decide, SessionFails
  <2>10. CASE UNCHANGED evalVars
    BY <2>10 DEF evalVars
  <2> QED
    BY <2>1, <2>2, <2>3, <2>4, <2>5, <2>6, <2>7, <2>8, <2>9, <2>10 DEF EvalNext
<1> QED
  BY <1>1, <1>2, PTL DEF EvalSpec

(***************************************************************************)
(* No pass sees another: tests are collected and run in a checkout with    *)
(* the pass's own patches and nothing an earlier pass left, and the report *)
(* that is parsed is the pass's own (_run_validation_pass).                *)
(***************************************************************************)
THEOREM PassesStayIsolated == EvalSpec => []PassesAreIsolated
<1>1. Checkout => PassesAreIsolated
  BY DEF Checkout, PassesAreIsolated
<1> QED
  BY <1>1, CheckoutHolds, PTL

-----------------------------------------------------------------------------
\* What a pass may fail with.
PassCodes == {"unknown_validator_failure", "test_patch_apply_failed", "patch_apply_failed",
              "missing_junit"}

\* The passes so far: a failed one says what failed, and none but the rerun
\* of B is followed by another.
Record ==
  /\ DOMAIN run = 1 .. 5
  /\ \A p \in 1 .. 5 : run[p].status = "failed" => run[p].code \in PassCodes
  /\ \A p \in 1 .. 5 : p < pass /\ p # 4 => run[p].status = "passed"
  /\ \A p \in 1 .. 5 : p < pass => run[p].status \in {"passed", "failed"}
  /\ step = "verdict" => run[pass].status \in {"passed", "failed"}

LEMMA RecordStep == ASSUME Checkout, Record, [EvalNext]_evalVars PROVE Record'
<1> USE DEF Checkout, Record, GoOn
<1>1. ASSUME NEW r, EndPass(r), UNCHANGED <<pass, result>>,
             \/ r.status = "passed"
             \/ r.status = "failed" /\ r.code \in PassCodes
      PROVE  Record'
  BY <1>1 DEF EndPass
<1>2. ASSUME UNCHANGED <<run, pass, result>>, step' # "verdict" PROVE Record'
  BY <1>2
<1>3. CASE PassRaises \/ PatchFails
  BY <1>1, <1>3 DEF PassRaises, PatchFails, Failed, PassCodes
<1>4. CASE Reset \/ ApplyTestPatch \/ ApplyPredPatch \/ Command \/ RetryOnFiles
  BY <1>2, <1>4 DEF Reset, ApplyTestPatch, ApplyPredPatch, Command, RetryOnFiles
<1>5. CASE Collect \/ Parse \/ ParseFails
  <2>1. \/ UNCHANGED run /\ step' = "command"
        \/ EndPass(Failed("missing_junit"))
        \/ \E o : EndPass(Passed(o))
    BY <1>5 DEF Collect, Parse, ParseFails
  <2>2. UNCHANGED <<pass, result>>
    BY <1>5 DEF Collect, Parse, ParseFails
  <2>3. Failed("missing_junit").status = "failed" /\ Failed("missing_junit").code \in PassCodes
    BY DEF Failed, PassCodes
  <2>4. \A o : Passed(o).status = "passed"
    BY DEF Passed
  <2> QED BY <1>1, <1>2, <2>1, <2>2, <2>3, <2>4
<1>6. CASE NextPass
  <2>1. /\ step = "verdict" /\ pass \in 1 .. 4 /\ pass' = pass + 1 /\ run' = run
        /\ step' # "verdict" /\ (run[pass].status = "passed" \/ pass = 4)
    BY <1>6 DEF NextPass
  <2>2. \A p \in 1 .. 5 : p < pass' => p < pass \/ p = pass
    BY <2>1
  <2> QED BY <2>1, <2>2
<1>7. CASE RejectFailed \/ RejectFlaky \/ Decide
  BY <1>7 DEF RejectFailed, RejectFlaky, Decide
<1>8. CASE SessionFails
  BY <1>8 DEF SessionFails, NoResult
<1>9. CASE UNCHANGED evalVars
  BY <1>9 DEF evalVars
<1> QED
  BY <1>3, <1>4, <1>5, <1>6, <1>7, <1>8, <1>9 DEF EvalNext

\* A verdict is the last thing there is: what it rests on changes no more.
Settled == result.status # "none" => step = "done"

\* A reason that is given is one of the taxonomy, or the declared lists'.
LEMMA NormalizedIsAReason ==
  ASSUME NEW status, NEW reason, NEW code
  PROVE  Normalize(status, reason, code) # "none"
BY DEF Normalize, Taxonomy

\* What Decide accepts and what it explains are the same.
LEMMA ReasonMatchesVerdict == Resolved <=> RejectionReason = "none"
<1>1. CASE declared.ftp = {}
  BY <1>1 DEF Resolved, RejectionReason, DeclaredFtpFails
<1>2. CASE declared.ftp # {}
  <2>1. ~DeclaredFtpFails => Ftp # {}
    BY <1>2 DEF DeclaredFtpFails, Ftp
  <2> QED BY <1>2, <2>1 DEF Resolved, RejectionReason
<1> QED
  BY <1>1, <1>2

LEMMA DecideAccepts ==
  ASSUME Decide
  PROVE  AcceptedIsProven' /\ RejectionsAreExplained'
<1>1. /\ UNCHANGED <<declared, run>> /\ AllPassed /\ ~Flaky
      /\ result' = [status |-> IF Resolved THEN "resolved" ELSE "not_resolved",
                    reason |-> IF Resolved THEN "none"
                               ELSE Normalize("not_resolved", RejectionReason, "none"),
                    ftp |-> Ftp, ptp |-> Ptp]
  BY ReasonMatchesVerdict DEF Decide, Verdict
<1>2. UNCHANGED <<B, C, BR, CR>>
  BY <1>1 DEF B, C, BR, CR
<1>3. B = BR /\ C = CR
  BY <1>1 DEF Flaky
<1>4. \A t \in Ftp \cup Ptp : C[t] = "pass"
  BY DEF Ftp, Ptp, DerivedFtp, DerivedPtp
<1>5. ASSUME Resolved
      PROVE  /\ Ftp # {} /\ declared.ftp \subseteq Ftp
             /\ \A t \in declared.ptp : B[t] = "pass" => t \in Ptp
  <2>1. Ftp # {} /\ ~Regression /\ ~DeclaredFtpFails
    BY <1>5, ReasonMatchesVerdict DEF RejectionReason
  <2>2. declared.ftp \subseteq Ftp
    BY <2>1 DEF Ftp, DeclaredFtpFails
  <2>3. \A t \in declared.ptp : B[t] = "pass" => t \in Ptp
    BY <2>1 DEF Regression, Ptp
  <2> QED BY <2>1, <2>2, <2>3
<1>6. declared.ftp = {} => \A t \in Ftp : B[t] \notin {"pass", "skip"}
  BY DEF Ftp, DerivedFtp
<1>7. /\ result'.ftp = Ftp /\ result'.ptp = Ptp
      /\ result'.status = "resolved" <=> Resolved
      /\ result'.reason = "none" <=> Resolved
  BY <1>1, NormalizedIsAReason
<1>8. AcceptedIsProven'
  BY <1>1, <1>2, <1>3, <1>4, <1>5, <1>7 DEF AcceptedIsProven, AllPassed
<1>9. RejectionsAreExplained'
  <2> DEFINE why == RejectionReason
  <2>1. /\ result'.status \in {"resolved", "not_resolved"}
        /\ (result'.status = "resolved") = (result'.reason = "none")
    BY <1>1, <1>7
  <2>2. result'.reason = why
    <3>1. why \in {"none", "pass_to_pass_regression", "declared_ftp_not_resolved",
                  "no_fail_to_pass"}
      BY DEF RejectionReason
    <3>2. why # "none" => Normalize("not_resolved", why, "none") = why
      BY <3>1 DEF Normalize, Taxonomy
    <3> QED BY <1>1, <3>2, ReasonMatchesVerdict
  <2>3. /\ why = "pass_to_pass_regression" => \E t \in declared.ptp : B[t] = "pass" /\ C[t] # "pass"
        /\ why = "declared_ftp_not_resolved" => \E t \in declared.ftp : C[t] # "pass"
        /\ why # "flaky_outcomes"
    BY DEF RejectionReason, Regression, DeclaredFtpFails
  <2>4. ASSUME why = "no_fail_to_pass", NEW t \in Tests, C[t] = "pass"
        PROVE  B[t] \notin {"fail", "error", "absent"}
    <3>1. Ftp = {} /\ ~DeclaredFtpFails
      BY <2>4 DEF RejectionReason
    <3>2. declared.ftp = {}
      BY <3>1 DEF Ftp, DeclaredFtpFails
    <3>3. t \notin DerivedFtp
      BY <3>1, <3>2 DEF Ftp
    <3> QED BY <2>4, <3>3 DEF DerivedFtp
  <2> HIDE DEF why
  <2> QED BY <1>1, <1>2, <1>3, <1>6, <1>7, <2>1, <2>2, <2>3, <2>4
          DEF RejectionsAreExplained, AllPassed
<1> QED
  BY <1>8, <1>9

\* A rejection for a failed pass says what failed first.
LEMMA RejectFailedExplains ==
  ASSUME Checkout, Record, RejectFailed
  PROVE  AcceptedIsProven' /\ RejectionsAreExplained'
<1> DEFINE bad == {p \in (IF pass = 5 THEN {4, 5} ELSE {pass}) : run[p].status = "failed"}
           first == CHOOSE p \in bad : \A q \in bad : p <= q
           Reasons == <<"run_a_failed", "run_b_failed", "run_c_failed",
                        "run_b_rerun_failed", "run_c_rerun_failed">>
<1>1. /\ bad # {} /\ Verdict("error", Reasons[first], run[first].code, {}, {})
      /\ step = "verdict" /\ pass # 4 /\ UNCHANGED <<declared, pass, run>>
  BY DEF RejectFailed
<1>2. \E p \in bad : \A q \in bad : p <= q
  <2>1. CASE pass = 5
    <3>1. \A p \in bad : p = 4 \/ p = 5
      BY <2>1
    <3> HIDE DEF bad
    <3>2. CASE 4 \in bad
      BY <3>1, <3>2
    <3>3. CASE 4 \notin bad
      BY <1>1, <3>1, <3>3
    <3> QED BY <3>2, <3>3
  <2>2. CASE pass # 5
    <3>1. bad = {pass} /\ pass <= pass
      BY <1>1, <2>2 DEF Checkout
    <3> HIDE DEF bad
    <3> QED BY <3>1
  <2> QED BY <2>1, <2>2
<1>3. first \in bad /\ \A q \in bad : first <= q
  <2> HIDE DEF bad
  <2> QED BY <1>2
<1> HIDE DEF first
<1>4. /\ first \in 1 .. 5 /\ run[first].status = "failed" /\ run[first].code \in PassCodes
      /\ first # 4 => first = pass
      /\ first = 4 => pass = 5
  BY <1>1, <1>3 DEF Checkout, Record
<1>5. ASSUME NEW q \in 1 .. 5, q < first PROVE run[q].status = "passed"
  <2>1. CASE q # 4
    <3>1. q < pass
      BY <1>4, <1>5 DEF Checkout
    <3> QED BY <2>1, <3>1 DEF Record
  <2>2. CASE q = 4
    <3>1. first = 5 /\ pass = 5
      BY <1>4, <1>5, <2>2
    <3>2. q \notin bad
      BY <1>3, <1>5, <2>2, <3>1
    <3> QED BY <2>2, <3>1, <3>2 DEF Record
  <2> QED BY <2>1, <2>2
<1>6. /\ Reasons[first] # "none" /\ run[first].code \in Taxonomy
      /\ run[first].code \notin {"none", "flaky_outcomes", "pass_to_pass_regression",
                               "declared_ftp_not_resolved", "no_fail_to_pass"}
  BY <1>4 DEF PassCodes, Taxonomy
<1> HIDE DEF Reasons, bad
<1>7. /\ result'.status = "error" /\ result'.reason = run[first].code /\ result'.ftp = {}
  BY <1>1, <1>6 DEF Verdict, Normalize
<1> QED
  BY <1>1, <1>4, <1>5, <1>6, <1>7 DEF AcceptedIsProven, RejectionsAreExplained, Passes, Labels

LEMMA RejectFlakyExplains ==
  ASSUME RejectFlaky
  PROVE  AcceptedIsProven' /\ RejectionsAreExplained'
<1>1. /\ AllPassed /\ Flaky /\ UNCHANGED <<declared, run>>
      /\ result'.status = "flaky" /\ result'.reason = "flaky_outcomes" /\ result'.ftp = {}
  BY DEF RejectFlaky, Verdict, Normalize, Taxonomy
<1>2. UNCHANGED <<B, C, BR, CR>>
  BY <1>1 DEF B, C, BR, CR
<1> QED
  BY <1>1, <1>2 DEF AllPassed, Flaky, AcceptedIsProven, RejectionsAreExplained

VerdictInv == Checkout /\ Record /\ Settled /\ AcceptedIsProven /\ RejectionsAreExplained

LEMMA VerdictInvHolds == EvalSpec => []VerdictInv
<1>1. EvalInit => VerdictInv
  <2> SUFFICES ASSUME EvalInit PROVE VerdictInv
    OBVIOUS
  <2>1. Checkout /\ Settled
    BY DEF EvalInit, NoResult, Checkout, Settled
  <2>2. Record
    BY DEF EvalInit, Record, NotRun, Passes, Labels
  <2>3. AcceptedIsProven /\ RejectionsAreExplained
    BY DEF EvalInit, NoResult, AcceptedIsProven, RejectionsAreExplained
  <2> QED BY <2>1, <2>2, <2>3 DEF VerdictInv
<1>2. VerdictInv /\ Checkout' /\ [EvalNext]_evalVars => VerdictInv'
  <2> SUFFICES ASSUME VerdictInv, Checkout', [EvalNext]_evalVars
               PROVE  Settled' /\ AcceptedIsProven' /\ RejectionsAreExplained'
    BY RecordStep DEF VerdictInv
  <2> USE DEF VerdictInv
  <2>1. CASE Decide
    BY <2>1, DecideAccepts DEF Settled, Decide, GoOn
  <2>2. CASE RejectFailed \/ RejectFlaky
    BY <2>2, RejectFailedExplains, RejectFlakyExplains DEF Settled, RejectFailed, RejectFlaky, GoOn
  <2>3. CASE SessionFails
    <3>1. result'.status = "raised" /\ step' = "done"
      BY <2>3 DEF SessionFails, GoOn, NoResult
    <3> QED BY <3>1 DEF Settled, AcceptedIsProven, RejectionsAreExplained
  <2>4. CASE result' = result /\ (step # "done" \/ UNCHANGED evalVars)
    <3>1. CASE result.status = "none"
      BY <2>4, <3>1 DEF Settled, AcceptedIsProven, RejectionsAreExplained
    <3>2. CASE UNCHANGED evalVars
      BY <3>2 DEF evalVars, Settled, AcceptedIsProven, RejectionsAreExplained, B, C, BR, CR
    <3> QED BY <2>4, <3>1, <3>2 DEF Settled
  <2>5. ASSUME \/ Reset \/ PassRaises \/ ApplyTestPatch \/ ApplyPredPatch \/ PatchFails
               \/ Collect \/ Command \/ Parse \/ RetryOnFiles \/ ParseFails \/ NextPass
        PROVE  result' = result /\ step # "done"
    BY <2>5 DEF Reset, PassRaises, ApplyTestPatch, ApplyPredPatch, PatchFails, Collect,
                Command, Parse, RetryOnFiles, ParseFails, NextPass
  <2>6. UNCHANGED evalVars => result' = result
    BY DEF evalVars
  <2> QED BY <2>1, <2>2, <2>3, <2>4, <2>5, <2>6 DEF EvalNext
<1> QED
  BY <1>1, <1>2, CheckoutHolds, PTL DEF EvalSpec, VerdictInv

(***************************************************************************)
(* Resolved stands for five passes that passed, two of them twice with the *)
(* same outcomes, a FAIL_TO_PASS test, and no declared test lost           *)
(* (_eval_instance, _is_resolved).                                         *)
(***************************************************************************)
THEOREM AcceptedAlwaysProven == EvalSpec => []AcceptedIsProven
<1>1. VerdictInv => AcceptedIsProven
  BY DEF VerdictInv
<1> QED
  BY <1>1, VerdictInvHolds, PTL

(***************************************************************************)
(* The reason of a rejection is true of what the five passes saw: what     *)
(* failed first, that outcomes changed, which declared test did not pass,  *)
(* or that no failing test was made to pass; a derived FAIL_TO_PASS list   *)
(* has no test that passed or was skipped without the prediction           *)
(* (_eval_instance, normalize_failure_reason, _derive_test_lists).         *)
(***************************************************************************)
THEOREM RejectionsAlwaysExplained == EvalSpec => []RejectionsAreExplained
<1>1. VerdictInv => RejectionsAreExplained
  BY DEF VerdictInv
<1> QED
  BY <1>1, VerdictInvHolds, PTL
===============================================================================
