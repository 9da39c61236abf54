-------------------------- MODULE JudgeBatchesProofs --------------------------
(***************************************************************************)
(* What is proved of JudgeBatches for every prediction file, batch size,   *)
(* number of batches at a time and of faults: that no row carries another  *)
(* prediction's verdict and, of one batch at a time, that none is lost and *)
(* that the process's working directory and DOCKER_HOST are kept.          *)
(***************************************************************************)
EXTENDS JudgeBatches, FiniteSetTheorems, WellFoundedInduction, TLAPS

Resting == {"pending", "returned", "raised"}
Active  == {"set_host", "connect", "getcwd", "chdir", "harness", "report", "read",
            "leave", "restore_host"}

Typing ==
  /\ \E e \in Evaluations : predictions = e.file /\ parallel = e.parallel
  /\ main \in {"running", "joining", "failed", "written"}
  /\ pc \in [Batches -> Resting \cup Active]
  /\ DOMAIN savedHost = Batches /\ DOMAIN daemon = Batches /\ DOMAIN origin = Batches
  /\ DOMAIN reportDir = Batches /\ DOMAIN rows = Batches
  /\ collected \in Seq(Batches)

\* What a batch has reported, once it has, is on its own predictions.
Reports(b) == pc[b] \in {"read", "returned"}
                \/ (pc[b] \in {"leave", "restore_host"} /\ b \notin failing)
Reported ==
  \A b \in Batches : Reports(b) =>
    /\ DOMAIN rows[b] = Attributed(b)
    /\ \A i \in Attributed(b) : rows[b][i] \in {verdict[i], "error"}

Finished ==
  /\ \A n \in DOMAIN collected : pc[collected[n]] = "returned"
  /\ Ended => \A b \in Batches : pc[b] \in {"returned", "raised"}

BatchInv == Typing /\ Reported /\ Finished

\* One batch at a time: where the process is, by where that batch is.
Alone == \A b, c \in Batches : pc[b] \in Active /\ pc[c] \in Active => b = c
Place(b) ==
  /\ pc[b] = "set_host" => cwd = Home /\ dockerHost = "inherited"
  /\ pc[b] \in Active \ {"set_host"} => savedHost[b] = "inherited"
  /\ pc[b] = "connect" => dockerHost = "host"
  /\ pc[b] \in {"getcwd", "chdir", "harness", "report", "read"} => daemon[b] = "host"
  /\ pc[b] \in {"connect", "getcwd", "chdir", "restore_host"} => cwd = Home
  /\ pc[b] \in {"chdir", "harness", "report", "read", "leave"} => origin[b] = Home
  /\ pc[b] \in {"harness", "report", "read"} => cwd = b
  /\ pc[b] = "report" => reportDir[b] = b
Serial ==
  parallel = 1 =>
    /\ Alone /\ \A b \in Batches : Place(b)
    /\ (\A b \in Batches : pc[b] \notin Active) => cwd = Home /\ dockerHost = "inherited"
    /\ \A b \in Batches : Reports(b) => \A i \in Attributed(b) : rows[b][i] = verdict[i]

-----------------------------------------------------------------------------
(* Least and greatest members.                                             *)

LEMMA LeastMember ==
  ASSUME NEW S \in SUBSET Nat, S # {}
  PROVE  Min(S) \in S
<1>1. PICK x \in S : \A y \in S : ~(<<y, x>> \in OpToRel(<, Nat))
  BY WFMin, NatLessThanWellFounded
<1>2. \A y \in S : x =< y
  <2> SUFFICES ASSUME NEW y \in S PROVE x =< y
    OBVIOUS
  <2>1. ~(y < x)
    BY <1>1 DEF OpToRel
  <2> QED BY <2>1
<1> QED
  BY <1>2 DEF Min

LEMMA GreatestMember ==
  ASSUME NEW n \in Nat, NEW S \in SUBSET (1 .. n), S # {}
  PROVE  Max(S) \in S
<1> DEFINE Far == {n - r : r \in S}
<1>1. \A r \in S : r \in Int /\ n - r \in Nat
  OBVIOUS
<1>2. Far \subseteq Nat /\ Far # {}
  BY <1>1
<1>3. PICK x \in Far : \A y \in Far : ~(<<y, x>> \in OpToRel(<, Nat))
  <2> HIDE DEF Far
  <2> QED BY <1>2, WFMin, NatLessThanWellFounded
<1>4. \A y \in Far : x <= y
  <2> SUFFICES ASSUME NEW y \in Far PROVE x <= y
    OBVIOUS
  <2>1. x \in Nat /\ y \in Nat
    BY <1>2
  <2> HIDE DEF Far
  <2>2. ~(y < x)
    BY <1>3, <2>1 DEF OpToRel
  <2> QED BY <2>1, <2>2
<1>5. PICK m \in S : x = n - m
  OBVIOUS
<1>6. \A r \in S : m >= r
  <2> SUFFICES ASSUME NEW r \in S PROVE m >= r
    OBVIOUS
  <2>1. n - m <= n - r
    BY <1>4, <1>5
  <2> QED BY <1>1, <2>1
<1> QED
  BY <1>6 DEF Max

-----------------------------------------------------------------------------
(* Predictions and their batches.                                          *)

LEMMA Places ==
  ASSUME Typing
  PROVE  /\ \A i \in Judged : i \in Nat /\ BatchOf(i) \in Batches /\ i \in RowsOf(BatchOf(i))
         /\ \A i, k \in Judged : Key(i) = Key(k) => predictions[i] = predictions[k]
         /\ IsFiniteSet(Batches)
<1>1. PICK e \in Evaluations : predictions = e.file
  BY DEF Typing
<1>2. /\ DOMAIN predictions = 1 .. Len(predictions) /\ Len(predictions) \in Nat
      /\ \A i \in DOMAIN predictions :
           predictions[i] = [solver |-> predictions[i].solver, inst |-> predictions[i].inst]
  <2> DEFINE file == e.file
  <2>1. /\ file \in Seq({file[i] : i \in DOMAIN file})
        /\ \A i \in DOMAIN file : file[i] = [solver |-> file[i].solver, inst |-> file[i].inst]
    BY JudgeAssumption
  <2>2. predictions = file
    BY <1>1
  <2> HIDE DEF file
  <2>3. DOMAIN file = 1 .. Len(file) /\ Len(file) \in Nat
    BY <2>1
  <2> QED BY <2>1, <2>2, <2>3
<1>3. \A i \in Judged : i \in DOMAIN predictions /\ i \in Nat
  BY <1>2 DEF Judged
<1>4. \A i \in Judged : BatchOf(i) \in Batches /\ i \in RowsOf(BatchOf(i))
  BY DEF Batches, RowsOf
<1>5. \A i, k \in Judged : Key(i) = Key(k) => predictions[i] = predictions[k]
  BY <1>2, <1>3 DEF Key
<1>6. IsFiniteSet(Judged)
  <2>1. IsFiniteSet(1 .. Len(predictions))
    BY <1>2, FS_Interval
  <2>2. Judged \in SUBSET (1 .. Len(predictions))
    BY <1>2, <1>3
  <2> QED BY <2>1, <2>2, FS_Subset
<1>7. IsFiniteSet(Batches)
  <2> DEFINE f == [i \in Judged |-> BatchOf(i)]
  <2>1. f \in Surjection(Judged, Batches)
    BY <1>4 DEF Batches, Surjection
  <2> HIDE DEF f
  <2> QED BY <1>6, <2>1, FS_Surjection
<1> QED
  BY <1>3, <1>4, <1>5, <1>7

\* Predictions of one batch and one instance have the same solver.
LEMMA OneSolver ==
  ASSUME Typing, NEW i \in Judged, NEW k \in RowsOf(BatchOf(i)),
         predictions[k].inst = predictions[i].inst
  PROVE  predictions[k] = predictions[i]
<1>1. k \in Judged /\ BatchOf(k) = BatchOf(i)
  BY DEF RowsOf
<1>2. Min(Group(k)) = Min(Group(i))
  BY <1>1 DEF BatchOf
<1>3. \A j \in Judged : j \in Group(j) /\ Group(j) \subseteq Nat
  BY Places DEF Group
<1>4. Min(Group(k)) \in Group(k) /\ Min(Group(i)) \in Group(i)
  BY <1>1, <1>3, LeastMember
<1>5. predictions[k].solver = predictions[i].solver
  BY <1>2, <1>4 DEF Group
<1>6. Key(k) = Key(i)
  BY <1>5 DEF Key
<1> QED
  BY <1>1, <1>6, Places

\* A prediction that has a row is the one the harness ran for it.
LEMMA RunsItsOwn ==
  ASSUME Typing, NEW b \in Batches, NEW i \in Attributed(b)
  PROVE  Run(b, i) = i /\ i \in RowsOf(b) /\ i \in Judged
<1>1. i \in RowsOf(b) /\ \A k \in RowsOf(b) : predictions[k].inst = predictions[i].inst => k = i
  BY DEF Attributed
<1>2. {k \in RowsOf(b) : predictions[k].inst = predictions[i].inst} = {i}
  BY <1>1
<1>3. i \in Judged /\ i \in Nat
  BY <1>1, Places DEF RowsOf
<1>4. Max({i}) = i
  BY <1>3 DEF Max
<1> QED
  BY <1>1, <1>2, <1>3, <1>4 DEF Run

LEMMA SingleIsAttributed ==
  ASSUME Typing, NEW i \in Judged, Single(i)
  PROVE  i \in Attributed(BatchOf(i))
<1>1. i \in RowsOf(BatchOf(i))
  BY Places
<1>2. ASSUME NEW k \in RowsOf(BatchOf(i)), predictions[k].inst = predictions[i].inst
      PROVE  k = i
  <2>1. predictions[k] = predictions[i] /\ k \in Judged
    BY <1>2, OneSolver DEF RowsOf
  <2> QED BY <2>1 DEF Single
<1> QED
  BY <1>1, <1>2 DEF Attributed

\* The inputs stay, and with them the batches.
LEMMA InputsStay ==
  ASSUME [Next]_vars
  PROVE  /\ UNCHANGED <<parallel, predictions, verdict>>
         /\ Judged' = Judged /\ Batches' = Batches
         /\ \A b : Attributed(b)' = Attributed(b) /\ RowsOf(b)' = RowsOf(b)
<1>1. UNCHANGED <<parallel, predictions, verdict>>
  <2>1. ASSUME NEW b \in Batches, Batch(b) \/ HarnessFault(b) \/ Collect(b)
        PROVE  UNCHANGED inputs
    BY <2>1 DEF Batch, Start, SetHost, Connect, GetCwd, Chdir, RunInstances, MakeReport,
                ReadReport, Leave, RestoreHost, HarnessFault, Collect
  <2>2. ASSUME GiveUp \/ WriteResults PROVE UNCHANGED inputs
    BY <2>2 DEF GiveUp, WriteResults
  <2>3. UNCHANGED vars => UNCHANGED inputs
    BY DEF vars
  <2> QED BY <2>1, <2>2, <2>3 DEF Next, Main, inputs
<1>2. Judged' = Judged
  BY <1>1 DEF Judged
<1>3. \A i : BatchOf(i)' = BatchOf(i)
  BY <1>1, <1>2 DEF BatchOf, Group
<1> QED
  BY <1>1, <1>2, <1>3 DEF Batches, RowsOf, Attributed

-----------------------------------------------------------------------------
(* A batch's steps: what they do to its place and to what it reports.      *)

LEMMA Moves ==
  ASSUME Typing, NEW b \in Batches, Batch(b) \/ HarnessFault(b)
  PROVE  /\ UNCHANGED <<main, collected, final>>
         /\ pc[b] \in {"pending"} \cup Active
         /\ \E s \in Active \cup {"returned", "raised"} : pc' = [pc EXCEPT ![b] = s]
         /\ DOMAIN savedHost' = Batches /\ DOMAIN daemon' = Batches /\ DOMAIN origin' = Batches
         /\ DOMAIN reportDir' = Batches /\ DOMAIN rows' = Batches
         /\ failing \subseteq failing' /\ failing' \subseteq failing \cup {b}
         /\ MakeReport(b) \/ (rows' = rows /\ (Reports(b)' => Reports(b)))
<1> USE DEF Typing, Goto, At, mainVars, ownVars, Active, Resting, Reports
<1>1. CASE Start(b)
  BY <1>1 DEF Start
<1>2. CASE SetHost(b)
  BY <1>2 DEF SetHost
<1>3. CASE Connect(b)
  BY <1>3 DEF Connect
<1>4. CASE GetCwd(b)
  BY <1>4 DEF GetCwd
<1>5. CASE Chdir(b)
  BY <1>5 DEF Chdir
<1>6. CASE RunInstances(b)
  BY <1>6 DEF RunInstances
<1>7. CASE MakeReport(b)
  BY <1>7 DEF MakeReport
<1>8. CASE ReadReport(b)
  BY <1>8 DEF ReadReport
<1>9. CASE Leave(b)
  BY <1>9 DEF Leave
<1>10. CASE RestoreHost(b)
  BY <1>10 DEF RestoreHost
<1>11. CASE HarnessFault(b)
  BY <1>11 DEF HarnessFault
<1> QED
  BY <1>1, <1>2, <1>3, <1>4, <1>5, <1>6, <1>7, <1>8, <1>9, <1>10, <1>11 DEF Batch

\* What make_run_report writes of a batch.
LEMMA ReportWritten ==
  ASSUME Typing, NEW b \in Batches, MakeReport(b)
  PROVE  /\ DOMAIN rows'[b] = Attributed(b)
         /\ \A i \in Attributed(b) :
              rows'[b][i] = IF reportDir[b] = cwd THEN verdict[i] ELSE "error"
         /\ \A c \in Batches : c # b => rows'[c] = rows[c]
<1>1. rows'[b] = [i \in Attributed(b) |->
                    IF reportDir[b] = cwd THEN verdict[Run(b, i)] ELSE "error"]
  BY DEF MakeReport, Typing
<1>2. \A c \in Batches : c # b => rows'[c] = rows[c]
  BY DEF MakeReport, Typing
<1> QED
  BY <1>1, <1>2, RunsItsOwn

LEMMA BatchKeeps ==
  ASSUME BatchInv, [Next]_vars, NEW b \in Batches, Batch(b) \/ HarnessFault(b)
  PROVE  BatchInv'
<1>0. Typing /\ Reported /\ Finished
  BY DEF BatchInv
<1>1. /\ UNCHANGED <<parallel, predictions, verdict>> /\ Batches' = Batches
      /\ \A c : Attributed(c)' = Attributed(c)
  BY InputsStay
<1>2. /\ UNCHANGED <<main, collected>>
      /\ pc[b] \in {"pending"} \cup Active
      /\ \E s \in Active \cup {"returned", "raised"} : pc' = [pc EXCEPT ![b] = s]
      /\ DOMAIN savedHost' = Batches /\ DOMAIN daemon' = Batches /\ DOMAIN origin' = Batches
      /\ DOMAIN reportDir' = Batches /\ DOMAIN rows' = Batches
      /\ failing \subseteq failing' /\ failing' \subseteq failing \cup {b}
      /\ MakeReport(b) \/ (rows' = rows /\ (Reports(b)' => Reports(b)))
  BY <1>0, Moves
<1>3. PICK s \in Active \cup {"returned", "raised"} : pc' = [pc EXCEPT ![b] = s]
  BY <1>2
<1>4. pc \in [Batches -> Resting \cup Active]
  BY <1>0 DEF Typing
<1>5. \A c \in Batches : c # b => pc'[c] = pc[c]
  BY <1>3, <1>4
<1>6. Typing'
  <2>1. pc' \in [Batches -> Resting \cup Active]
    BY <1>3, <1>4 DEF Resting
  <2> QED BY <1>0, <1>1, <1>2, <2>1 DEF Typing
<1>7. Reported'
  <2> SUFFICES ASSUME NEW c \in Batches, Reports(c)'
               PROVE  /\ DOMAIN rows'[c] = Attributed(c)
                      /\ \A i \in Attributed(c) : rows'[c][i] \in {verdict[i], "error"}
    BY <1>1 DEF Reported
  <2>1. CASE c = b /\ MakeReport(b)
    BY <1>0, <2>1, ReportWritten
  <2>2. CASE c # b
    <3>1. Reports(c)
      BY <1>2, <1>5, <2>2 DEF Reports
    <3>2. rows'[c] = rows[c]
      BY <1>0, <1>2, <2>2, ReportWritten
    <3> QED BY <1>0, <3>1, <3>2 DEF Reported
  <2>3. CASE c = b /\ ~MakeReport(b)
    BY <1>0, <1>2, <2>3 DEF Reported
  <2> QED BY <2>1, <2>2, <2>3
<1>8. Finished'
  <2>1. pc[b] \notin {"returned", "raised"}
    BY <1>2 DEF Active
  <2>2. \A n \in DOMAIN collected : collected[n] \in Batches /\ collected[n] # b
    BY <1>0, <2>1 DEF Typing, Finished
  <2>3. ~Ended
    BY <1>0, <2>1 DEF Finished
  <2> QED BY <1>0, <1>2, <1>5, <2>2, <2>3 DEF Finished, Ended
<1> QED
  BY <1>6, <1>7, <1>8 DEF BatchInv

LEMMA MainKeeps ==
  ASSUME BatchInv, [Next]_vars, Main \/ UNCHANGED vars
  PROVE  BatchInv'
<1>0. Typing /\ Reported /\ Finished
  BY DEF BatchInv
<1>1. /\ UNCHANGED <<parallel, predictions, verdict>> /\ Batches' = Batches
      /\ \A c : Attributed(c)' = Attributed(c)
  BY InputsStay
<1>2. UNCHANGED <<pc, cwd, dockerHost, ownVars, failing>>
  BY DEF Main, GiveUp, WriteResults, Collect, vars
<1>3. \A c : Reports(c)' = Reports(c)
  BY <1>2 DEF Reports
<1>4. Reported'
  BY <1>0, <1>1, <1>2, <1>3 DEF Reported, ownVars
<1>5. CASE UNCHANGED vars
  <2>1. Typing' /\ Finished'
    BY <1>0, <1>1, <1>2, <1>5 DEF Typing, Finished, Ended, vars, mainVars, ownVars
  <2> QED BY <1>4, <2>1 DEF BatchInv
<1>6. CASE GiveUp
  <2>1. Typing' /\ Finished'
    BY <1>0, <1>1, <1>2, <1>6 DEF GiveUp, Typing, Finished, Ended, ownVars
  <2> QED BY <1>4, <2>1 DEF BatchInv
<1>7. CASE WriteResults
  <2>1. \A b \in Batches : pc[b] = "returned"
    BY <1>0, <1>7 DEF WriteResults, InCollected, Finished
  <2>2. Typing' /\ Finished'
    BY <1>0, <1>1, <1>2, <1>7, <2>1 DEF WriteResults, Typing, Finished, Ended, ownVars
  <2> QED BY <1>4, <2>2 DEF BatchInv
<1>8. ASSUME NEW b \in Batches, Collect(b) PROVE BatchInv'
  <2>1. main = "running" /\ main' \in {"running", "joining"}
    BY <1>8 DEF Collect
  <2>2. /\ collected' \in Seq(Batches)
        /\ \A n \in DOMAIN collected' : pc[collected'[n]] = "returned"
    <3>1. CASE UNCHANGED collected
      BY <1>0, <3>1 DEF Typing, Finished
    <3>2. CASE At(b, "returned") /\ collected' = Append(collected, b)
      BY <1>0, <3>2 DEF Typing, Finished, At
    <3> QED BY <1>8, <3>1, <3>2 DEF Collect
  <2>3. Typing' /\ Finished'
    BY <1>0, <1>1, <1>2, <2>1, <2>2 DEF Typing, Finished, Ended, ownVars
  <2> QED BY <1>4, <2>3 DEF BatchInv
<1> QED
  BY <1>5, <1>6, <1>7, <1>8 DEF Main

LEMMA InitBatch == Init => BatchInv
<1> SUFFICES ASSUME Init PROVE BatchInv
  OBVIOUS
<1>1. Typing
  BY DEF Init, Typing, Resting
<1>2. Reported /\ Finished
  BY DEF Init, Reported, Reports, Finished, Ended
<1> QED
  BY <1>1, <1>2 DEF BatchInv

LEMMA StepBatch == BatchInv /\ [Next]_vars => BatchInv'
  BY BatchKeeps, MainKeeps DEF Next

LEMMA AlwaysBatch == Spec => []BatchInv
  BY InitBatch, StepBatch, PTL DEF Spec

-----------------------------------------------------------------------------
(* One batch at a time.                                                    *)

\* With one worker a batch starts only when no other is being run.
LEMMA OneWorker ==
  ASSUME Typing, Serial, parallel = 1, NEW b \in Batches, Batch(b) \/ HarnessFault(b),
         NEW c \in Batches, c # b
  PROVE  pc[c] \notin Active
<1>1. CASE pc[b] \in Active
  BY <1>1 DEF Serial, Alone
<1>2. CASE Start(b)
  <2>1. IsFiniteSet(Busy)
    BY Places, FS_Subset DEF Busy
  <2>2. Cardinality(Busy) < 1
    BY <1>2 DEF Start
  <2>3. Busy = {}
    <3>1. Cardinality(Busy) = 0
      BY <2>1, <2>2, FS_CardinalityType
    <3> QED BY <2>1, <3>1, FS_EmptySet
  <2> QED BY <2>3 DEF Busy, Active
<1>3. pc[b] \in Active \/ Start(b)
  BY DEF Batch, SetHost, Connect, GetCwd, Chdir, RunInstances, MakeReport, ReadReport,
         Leave, RestoreHost, HarnessFault, At, Active
<1> QED
  BY <1>1, <1>2, <1>3

\* A step of the batch that is run takes it to its next place.
LEMMA PlaceKept ==
  ASSUME Typing, Serial, parallel = 1, NEW b \in Batches, Batch(b) \/ HarnessFault(b)
  PROVE  /\ Place(b)'
         /\ pc'[b] \notin Active => cwd' = Home /\ dockerHost' = "inherited"
<1>1. Place(b)
  BY DEF Serial
<1>2. Start(b) => cwd = Home /\ dockerHost = "inherited"
  <2> SUFFICES ASSUME Start(b) PROVE \A c \in Batches : pc[c] \notin Active
    BY DEF Serial
  <2>1. pc[b] \notin Active
    BY DEF Start, At, Active
  <2> QED BY <2>1, OneWorker
<1>3. /\ pc \in [Batches -> Resting \cup Active]
      /\ DOMAIN savedHost = Batches /\ DOMAIN daemon = Batches /\ DOMAIN origin = Batches
      /\ DOMAIN reportDir = Batches
  BY DEF Typing
<1> USE <1>3 DEF Place, Goto, At, Active, ownVars
<1>4. CASE Start(b)
  BY <1>2, <1>4 DEF Start
<1>5. CASE SetHost(b)
  BY <1>1, <1>5 DEF SetHost
<1>6. CASE Connect(b)
  BY <1>1, <1>6 DEF Connect
<1>7. CASE GetCwd(b)
  BY <1>1, <1>7 DEF GetCwd
<1>8. CASE Chdir(b)
  BY <1>1, <1>8 DEF Chdir
<1>9. CASE RunInstances(b)
  BY <1>1, <1>9 DEF RunInstances
<1>10. CASE MakeReport(b)
  BY <1>1, <1>10 DEF MakeReport
<1>11. CASE ReadReport(b)
  BY <1>1, <1>11 DEF ReadReport
<1>12. CASE Leave(b)
  BY <1>1, <1>12 DEF Leave
<1>13. CASE RestoreHost(b)
  BY <1>1, <1>13 DEF RestoreHost
<1>14. CASE HarnessFault(b)
  BY <1>1, <1>14 DEF HarnessFault
<1> QED
  BY <1>4, <1>5, <1>6, <1>7, <1>8, <1>9, <1>10, <1>11, <1>12, <1>13, <1>14 DEF Batch

LEMMA InitSerial == Init => Serial
  BY DEF Init, Serial, Alone, Place, Reports, Active

LEMMA StepSerial == BatchInv /\ Serial /\ [Next]_vars => Serial'
<1> SUFFICES ASSUME BatchInv, Serial, [Next]_vars, parallel' = 1 PROVE Serial'
  BY DEF Serial
<1>0. Typing
  BY DEF BatchInv
<1>1. /\ UNCHANGED <<parallel, predictions, verdict>> /\ Batches' = Batches
      /\ \A c : Attributed(c)' = Attributed(c)
  BY InputsStay
<1>2. parallel = 1
  BY <1>1
<1>3. CASE Main \/ UNCHANGED vars
  <2>1. UNCHANGED <<pc, cwd, dockerHost, ownVars, failing>>
    BY <1>3 DEF Main, GiveUp, WriteResults, Collect, vars
  <2>2. Alone' /\ \A c \in Batches' : Place(c)'
    BY <1>1, <1>2, <2>1 DEF Serial, Alone, Place, ownVars
  <2>3. ((\A c \in Batches : pc[c] \notin Active) => cwd = Home /\ dockerHost = "inherited")'
    BY <1>1, <1>2, <2>1 DEF Serial
  <2>4. \A c \in Batches : Reports(c)' => \A i \in Attributed(c) : rows'[c][i] = verdict[i]
    BY <1>2, <2>1 DEF Serial, Reports, ownVars
  <2> QED BY <1>1, <2>2, <2>3, <2>4 DEF Serial
<1>4. ASSUME NEW b \in Batches, Batch(b) \/ HarnessFault(b) PROVE Serial'
  <2>1. \A c \in Batches : c # b => pc[c] \notin Active
    BY <1>0, <1>2, <1>4, OneWorker
  <2>2. /\ MakeReport(b) \/ (rows' = rows /\ (Reports(b)' => Reports(b)))
        /\ failing \subseteq failing'
        /\ \E s \in Active \cup {"returned", "raised"} : pc' = [pc EXCEPT ![b] = s]
    BY <1>0, <1>4, Moves
  <2>3. \A c \in Batches : c # b => pc'[c] = pc[c]
    BY <1>0, <2>2 DEF Typing
  <2>4. Alone'
    BY <1>1, <2>1, <2>3 DEF Alone
  <2>5. /\ Place(b)'
        /\ pc'[b] \notin Active => cwd' = Home /\ dockerHost' = "inherited"
    BY <1>0, <1>2, <1>4, PlaceKept
  <2>6. \A c \in Batches : Place(c)'
    <3>1. \A c \in Batches : c # b => Place(c)'
      BY <2>1, <2>3 DEF Place, Active
    <3> QED BY <2>5, <3>1
  <2>7. ((\A c \in Batches : pc[c] \notin Active) => cwd = Home /\ dockerHost = "inherited")'
    BY <1>1, <2>5
  <2>8. ASSUME NEW c \in Batches, Reports(c)', NEW i \in Attributed(c)
        PROVE  rows'[c][i] = verdict[i]
    <3>1. \A d \in Batches : Reports(d) => \A j \in Attributed(d) : rows[d][j] = verdict[j]
      BY <1>2 DEF Serial
    <3>2. CASE c = b /\ MakeReport(b)
      <4>1. reportDir[b] = b /\ cwd = b
        <5>1. Place(b) /\ pc[b] = "report"
          BY <1>2, <3>2 DEF Serial, MakeReport, At
        <5> QED BY <5>1 DEF Place
      <4> QED BY <1>0, <2>8, <3>2, <4>1, ReportWritten
    <3>3. CASE c = b /\ ~MakeReport(b)
      BY <2>2, <2>8, <3>1, <3>3
    <3>4. CASE c # b
      <4>1. Reports(c)
        BY <2>2, <2>3, <2>8, <3>4 DEF Reports
      <4>2. rows'[c] = rows[c]
        BY <1>0, <2>2, <3>4, ReportWritten
      <4> QED BY <2>8, <3>1, <4>1, <4>2
    <3> QED BY <3>2, <3>3, <3>4
  <2> QED BY <1>1, <2>4, <2>6, <2>7, <2>8 DEF Serial
<1> QED
  BY <1>3, <1>4 DEF Next

LEMMA AlwaysSerial == Spec => []Serial
  BY InitBatch, InitSerial, StepBatch, StepSerial, PTL DEF Spec

(***************************************************************************)
(* One batch at a time: while the harness works for it, the process is in  *)
(* that batch's directory and the client talks to the configured daemon,   *)
(* and at the end both are what they were.                                 *)
(***************************************************************************)
THEOREM SurroundingsAlwaysKept == Spec => []SurroundingsKept
<1>1. Finished /\ Serial => SurroundingsKept
  <2> SUFFICES ASSUME Finished, Serial, parallel = 1
               PROVE  /\ \A b \in Batches : pc[b] \in {"harness", "report", "read"} =>
                           cwd = b /\ daemon[b] = "host"
                      /\ Ended => cwd = Home /\ dockerHost = "inherited"
    BY DEF SurroundingsKept
  <2>1. \A b \in Batches : pc[b] \in {"harness", "report", "read"} =>
           cwd = b /\ daemon[b] = "host"
    BY DEF Serial, Place
  <2>2. Ended => \A b \in Batches : pc[b] \notin Active
    BY DEF Finished, Active
  <2> QED BY <2>1, <2>2 DEF Serial
<1> QED
  BY <1>1, AlwaysBatch, AlwaysSerial, PTL DEF BatchInv

-----------------------------------------------------------------------------
(* The batches' rows joined into verdicts.                                 *)

\* A joined status is that of a row a batch returned for an equal prediction.
LEMMA Joined ==
  ASSUME BatchInv, NEW i \in Judged, Matching(i) # {}
  PROVE  \E b \in Batches, k \in Judged :
           /\ k \in Attributed(b) /\ Reports(b)
           /\ predictions[k] = predictions[i]
           /\ JoinedStatus(i) = rows[b][k]
<1>0. Typing /\ Finished
  BY DEF BatchInv
<1>1. collected \in Seq(Batches) /\ DOMAIN collected = 1 .. Len(collected)
      /\ Len(collected) \in Nat
  BY <1>0 DEF Typing
<1>2. Matching(i) \in SUBSET (1 .. Len(collected))
  BY <1>1 DEF Matching
<1>3. Max(Matching(i)) \in Matching(i)
  BY <1>1, <1>2, GreatestMember
<1>4. PICK n \in DOMAIN collected : n = Max(Matching(i)) /\ n \in Matching(i)
  BY <1>1, <1>2, <1>3
<1>5. PICK b \in Batches : b = collected[n]
  BY <1>1
<1>6. \E k \in Attributed(b) : Key(k) = Key(i)
  BY <1>4, <1>5 DEF Matching
<1>7. PICK k : k = CHOOSE j \in Attributed(b) : Key(j) = Key(i)
  OBVIOUS
<1>8. k \in Attributed(b) /\ Key(k) = Key(i)
  BY <1>6, <1>7
<1>9. k \in Judged
  BY <1>0, <1>8, RunsItsOwn
<1>10. predictions[k] = predictions[i]
  BY <1>0, <1>8, <1>9, Places
<1>11. Reports(b)
  BY <1>0, <1>5 DEF Finished, Reports
<1>12. JoinedStatus(i) = rows[b][k]
  BY <1>4, <1>5, <1>7 DEF JoinedStatus
<1> QED
  BY <1>8, <1>9, <1>10, <1>11, <1>12

\* What is written once stays.
LEMMA WrittenStays ==
  ASSUME BatchInv, [Next]_vars, main' = "written", ~WriteResults
  PROVE  main = "written" /\ final' = final
<1>1. Typing
  BY DEF BatchInv
<1>2. ASSUME NEW b \in Batches, Batch(b) \/ HarnessFault(b)
      PROVE  main' = main /\ final' = final
  BY <1>1, <1>2, Moves
<1>3. GiveUp \/ (\E b \in Batches : Collect(b)) => main' # "written"
  BY DEF GiveUp, Collect
<1>4. UNCHANGED vars => main' = main /\ final' = final
  BY DEF vars, mainVars
<1> QED
  BY <1>2, <1>3, <1>4 DEF Next, Main

(***************************************************************************)
(* Whatever the batches, how many run at once and what is raised: a row    *)
(* written to instance_results.jsonl carries the verdict of a prediction   *)
(* of the same solver and instance, or an error.                           *)
(***************************************************************************)
THEOREM NoVerdictIsForeign == Spec => []NoForeignVerdict
<1>1. Init => NoForeignVerdict
  BY DEF Init, NoForeignVerdict
<1>2. BatchInv /\ NoForeignVerdict /\ [Next]_vars => NoForeignVerdict'
  <2> SUFFICES ASSUME BatchInv, NoForeignVerdict, [Next]_vars, main' = "written",
                      NEW i \in Judged
               PROVE  \/ final'[i] = "error"
                      \/ \E k \in Judged : /\ predictions[k] = predictions[i]
                                           /\ final'[i] = verdict[k]
    BY InputsStay DEF NoForeignVerdict
  <2>1. CASE ~WriteResults
    BY <2>1, WrittenStays DEF NoForeignVerdict
  <2>2. CASE WriteResults
    <3>1. final'[i] = JoinedStatus(i)
      BY <2>2 DEF WriteResults
    <3>2. CASE Matching(i) = {}
      BY <3>1, <3>2 DEF JoinedStatus
    <3>3. CASE Matching(i) # {}
      <4>1. PICK b \in Batches, k \in Judged :
              /\ k \in Attributed(b) /\ Reports(b)
              /\ predictions[k] = predictions[i]
              /\ JoinedStatus(i) = rows[b][k]
        BY <3>3, Joined
      <4>2. rows[b][k] \in {verdict[k], "error"}
        BY <4>1 DEF BatchInv, Reported
      <4> QED BY <3>1, <4>1, <4>2
    <3> QED BY <3>2, <3>3
  <2> QED BY <2>1, <2>2
<1> QED
  BY <1>1, <1>2, AlwaysBatch, PTL DEF Spec

(***************************************************************************)
(* One batch at a time, every prediction whose solver has no other for the *)
(* same instance is written with the verdict the harness reached on it.    *)
(***************************************************************************)
THEOREM SerialVerdictsAlwaysKept == Spec => []SerialVerdictsKept
<1>1. Init => SerialVerdictsKept
  BY DEF Init, SerialVerdictsKept, VerdictsKept
<1>2. BatchInv /\ Serial /\ SerialVerdictsKept /\ [Next]_vars => SerialVerdictsKept'
  <2> SUFFICES ASSUME BatchInv, Serial, SerialVerdictsKept, [Next]_vars,
                      parallel = 1, main' = "written",
                      NEW i \in Judged, Single(i)
               PROVE  final'[i] = verdict[i]
    BY InputsStay DEF SerialVerdictsKept, VerdictsKept, Single
  <2>1. CASE ~WriteResults
    BY <2>1, WrittenStays DEF SerialVerdictsKept, VerdictsKept
  <2>2. CASE WriteResults
    <3>0. Typing
      BY DEF BatchInv
    <3>1. BatchOf(i) \in Batches /\ i \in Attributed(BatchOf(i))
      BY <3>0, Places, SingleIsAttributed
    <3>2. Matching(i) # {}
      BY <2>2, <3>1 DEF WriteResults, InCollected, Matching
    <3>3. PICK b \in Batches, k \in Judged :
              /\ k \in Attributed(b) /\ Reports(b)
              /\ predictions[k] = predictions[i]
              /\ JoinedStatus(i) = rows[b][k]
      BY <3>2, Joined
    <3>4. k = i
      BY <3>3 DEF Single
    <3>5. rows[b][k] = verdict[k]
      BY <3>3 DEF Serial
    <3>6. final'[i] = JoinedStatus(i)
      BY <2>2 DEF WriteResults
    <3> QED BY <3>3, <3>4, <3>5, <3>6
  <2> QED BY <2>1, <2>2
<1> QED
  BY <1>1, <1>2, AlwaysBatch, AlwaysSerial, PTL DEF Spec

=============================================================================
