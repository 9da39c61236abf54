------------------------ MODULE SolverAttemptProofs -------------------------
(***************************************************************************)
(* What is proved of SolverAttempt for any threads, solvers, outputs,      *)
(* faults and sweeps: that no container and no command outlives the call   *)
(* that started it, that sessions build an image once, and that the status *)
(* and the cost of an attempt are what happened.                           *)
(***************************************************************************)
EXTENDS SolverAttempt, TLAPS

\* Where a thread has no container and nothing runs for it.
Quiet == {"preflight", "probe", "clear reason", "set reason", "read reason",
          "begin", "returned", "done"}

QuietAt(t) == at[t] \in Quiet => box[t] = "none" /\ running[t] = {}

\* Where a thread can be that needs no container.
Containerless == Quiet \cup {"exec", "waiting", "read", "cleanup"}

\* Such a thread has at most the command it waits for.
HostAt(t) ==
  ~Contained(t) =>
    /\ at[t] \in Containerless /\ box[t] = "none"
    /\ running[t] \subseteq IF at[t] = "waiting" THEN {ran[t]} ELSE {}

Shapes ==
  /\ at = [t \in Threads |-> at[t]]           /\ ran = [t \in Threads |-> ran[t]]
  /\ running = [t \in Threads |-> running[t]] /\ box = [t \in Threads |-> box[t]]

Tidy == Shapes /\ \A t \in Threads : QuietAt(t) /\ HostAt(t)

\* Who starts tidy is tidy.
LEMMA InitTidy == Init => Tidy
  BY CastAssumption DEF Init, ExecInit, Tidy, Shapes, QuietAt, HostAt, Quiet, Containerless

\* A step that touches one thread's place, container and commands has to be
\* looked at for that thread only.
LEMMA OneThread ==
  ASSUME Tidy, NEW t \in Threads, cast' = cast,
         at' = [at EXCEPT ![t] = at'[t]], box' = [box EXCEPT ![t] = box'[t]],
         running' = [running EXCEPT ![t] = running'[t]],
         ran' = [ran EXCEPT ![t] = ran'[t]],
         QuietAt(t)', HostAt(t)'
  PROVE  Tidy'
  <1>1. Shapes'
    BY DEF Tidy, Shapes
  <1>2. \A u \in Threads \ {t} :
          at'[u] = at[u] /\ box'[u] = box[u] /\ running'[u] = running[u] /\ ran'[u] = ran[u]
    BY DEF Tidy, Shapes
  <1>3. ASSUME NEW u \in Threads \ {t} PROVE QuietAt(u)' /\ HostAt(u)'
    BY <1>2, <1>3 DEF Tidy, QuietAt, HostAt, Contained
  <1> QED BY <1>1, <1>3 DEF Tidy

\* One that only moves a thread to l.
LEMMA Moved ==
  ASSUME Tidy, NEW t \in Threads, NEW l, Go(t, l),
         UNCHANGED <<cast, box, running, ran>>,
         l \in Quiet => at[t] \in Quiet \/ (~Contained(t) /\ at[t] # "waiting"),
         ~Contained(t) => at[t] # "waiting" /\ l \in Containerless \ {"waiting"}
  PROVE  Tidy'
  <1>1. at'[t] = l /\ at' = [at EXCEPT ![t] = at'[t]]
    BY DEF Tidy, Shapes, Go
  <1>2. /\ box' = [box EXCEPT ![t] = box'[t]] /\ ran' = [ran EXCEPT ![t] = ran'[t]]
        /\ running' = [running EXCEPT ![t] = running'[t]]
    BY DEF Tidy, Shapes
  <1>3. QuietAt(t)' /\ HostAt(t)'
    BY <1>1 DEF Tidy, QuietAt, HostAt, Contained
  <1> QED BY <1>1, <1>2, <1>3, OneThread

\* The steps that do nothing but move a thread, as far as containers go.
LEMMA MovingSteps ==
  ASSUME Tidy, NEW t \in Threads,
         \/ Begin(t) \/ ResolveImage(t) \/ BuildImage(t) \/ LockImage(t) \/ UseImage(t)
         \/ StartBuild(t) \/ FinishBuild(t) \/ FailBuild(t) \/ EnsureCommand(t) \/ SetUp(t)
         \/ CallFails(t) \/ ReadOutput(t)
  PROVE  Tidy'
  <1> USE DEF Quiet, Containerless, Fail, Unlock, NextAfter
  <1> \A u \in Threads : QuietAt(u) /\ HostAt(u)
    BY DEF Tidy
  <1>1. CASE Begin(t)
    BY <1>1, Moved DEF Begin, HostAt, Contained
  <1>2. CASE ResolveImage(t)
    BY <1>2, Moved DEF ResolveImage, HostAt
  <1>3. CASE BuildImage(t)
    BY <1>3, Moved DEF BuildImage, HostAt
  <1>4. CASE LockImage(t)
    BY <1>4, Moved DEF LockImage, HostAt
  <1>5. CASE UseImage(t)
    BY <1>5, Moved DEF UseImage, HostAt
  <1>6. CASE StartBuild(t)
    BY <1>6, Moved DEF StartBuild, HostAt
  <1>7. CASE FinishBuild(t)
    BY <1>7, Moved DEF FinishBuild, HostAt
  <1>8. CASE FailBuild(t)
    BY <1>8, Moved DEF FailBuild, HostAt
  <1>9. CASE EnsureCommand(t)
    BY <1>9, Moved DEF EnsureCommand, HostAt
  <1>10. CASE SetUp(t)
    BY <1>10, Moved DEF SetUp, HostAt
  <1>11. CASE CallFails(t)
    BY <1>11, Moved DEF CallFails, HostAt
  <1>12. CASE ReadOutput(t)
    BY <1>12, Moved DEF ReadOutput, HostAt
  <1> QED BY <1>1, <1>2, <1>3, <1>4, <1>5, <1>6, <1>7, <1>8, <1>9, <1>10, <1>11, <1>12

\* The steps that change a container or what runs for a thread.
LEMMA BoxSteps ==
  ASSUME Tidy, NEW t \in Threads,
         \/ CreateBox(t) \/ CreateFails(t) \/ CommandMissing(t) \/ Refit(t) \/ SetUpFails(t)
         \/ StartCommand(t) \/ (\E ok \in BOOLEAN : CommandEnds(t, ok)) \/ Deadline(t)
         \/ CleanUp(t)
  PROVE  Tidy'
  <1> USE DEF Quiet, Containerless, Shapes, QuietAt, HostAt, Contained, Go, Fail, Tidy
  <1>1. CASE CreateBox(t)
    BY <1>1, OneThread DEF CreateBox
  <1>2. CASE CreateFails(t)
    BY <1>2, OneThread DEF CreateFails
  <1>3. CASE CommandMissing(t)
    BY <1>3, OneThread DEF CommandMissing
  <1>4. CASE Refit(t)
    BY <1>4, OneThread DEF Refit
  <1>5. CASE SetUpFails(t)
    BY <1>5, OneThread DEF SetUpFails
  <1>6. CASE StartCommand(t)
    BY <1>6, OneThread DEF StartCommand
  <1>7. ASSUME NEW ok \in BOOLEAN, CommandEnds(t, ok) PROVE Tidy'
    BY <1>7, OneThread DEF CommandEnds
  <1>8. CASE Deadline(t)
    <2>1. PICK left \in {running[t], running[t] \ {ran[t]}} :
            /\ ~Contained(t) => ran[t] \notin left
            /\ running' = [running EXCEPT ![t] = left]
      BY <1>8 DEF Deadline
    <2>2. ~Contained(t) => left = {}
      BY <1>8, <2>1 DEF Deadline
    <2> QED BY <1>8, <2>1, <2>2, OneThread DEF Deadline
  <1>9. CASE CleanUp(t)
    BY <1>9, OneThread DEF CleanUp
  <1> QED BY <1>1, <1>2, <1>3, <1>4, <1>5, <1>6, <1>7, <1>8, <1>9

\* The adapters' own steps only move a thread.
LEMMA AdapterSteps ==
  ASSUME Tidy, NEW t \in Threads, AdapterStep(t) PROVE Tidy'
  <1> USE DEF Quiet, Containerless, ToStep, Conclude
  <1>1. CASE Preflight(t)
    BY <1>1, Moved DEF Preflight
  <1>2. CASE ClearReason(t)
    BY <1>2, Moved DEF ClearReason
  <1>3. CASE ProbeFails(t)
    BY <1>3, Moved DEF ProbeFails
  <1>4. CASE SetReason(t)
    BY <1>4, Moved DEF SetReason
  <1>5. CASE ReadReason(t)
    BY <1>5, Moved DEF ReadReason
  <1>6. ASSUME NEW m, ProbeSucceeds(t, m) PROVE Tidy'
    BY <1>6, Moved DEF ProbeSucceeds
  <1>7. ASSUME NEW o \in Outputs, ConcludeCommand(t, o) PROVE Tidy'
    BY <1>7, Moved DEF ConcludeCommand
  <1>8. ASSUME NEW o \in Outputs, CallEndpoint(t, o) PROVE Tidy'
    BY <1>8, Moved DEF CallEndpoint
  <1>9. CASE ConcludeSession(t)
    BY <1>9, Moved DEF ConcludeSession
  <1>10. CASE CallMock(t)
    BY <1>10, Moved DEF CallMock
  <1> QED
    BY <1>1, <1>2, <1>3, <1>4, <1>5, <1>6, <1>7, <1>8, <1>9, <1>10 DEF AdapterStep

\* A sweep takes containers, and what runs in them, and leaves hosts alone.
LEMMA SweepTidies ==
  ASSUME Tidy, NEW T \in SUBSET Threads, Sweep(T) PROVE Tidy'
  BY DEF Sweep, Tidy, Shapes, QuietAt, HostAt, Contained

(***************************************************************************)
(* Whatever becomes of a call - a build that fails, a container that does  *)
(* not start, a missing command, a deadline whose signals miss, a cleanup  *)
(* from another terminal - nothing of it runs on once it has returned      *)
(* (the finally clauses of container_exec.py and exec.py).                 *)
(***************************************************************************)
THEOREM NothingEverRunsOn == Spec => []NothingRunsOn
<1>1. ASSUME Tidy, [Next]_vars PROVE Tidy'
  <2>1. ASSUME NEW t \in Threads, Step(t) PROVE Tidy'
    BY <1>1, <2>1, MovingSteps, BoxSteps, AdapterSteps DEF Step, ExecStep
  <2>2. ASSUME NEW T \in SUBSET Threads, Sweep(T) PROVE Tidy'
    BY <1>1, <2>2, SweepTidies
  <2>3. CASE UNCHANGED vars
    BY <1>1, <2>3 DEF vars, exec, Tidy, Shapes, QuietAt, HostAt, Contained
  <2> QED BY <1>1, <2>1, <2>2, <2>3 DEF Next, Done
<1>2. Tidy => NothingRunsOn
  BY DEF Tidy, QuietAt, Quiet, NothingRunsOn
<1> QED BY InitTidy, <1>1, <1>2, PTL DEF Spec

-----------------------------------------------------------------------------
(* The locks of the images.                                                *)

Keys == {BaseKey} \cup EnvKeys
Inside == {"in base", "building base", "in env", "building env"}
Sessions == \A t \in Threads : cast[t].place # "container"

LockTypes ==
  /\ cast \in [Threads -> CastType]
  /\ at = [t \in Threads |-> at[t]]
  /\ holder = [k \in Keys |-> holder[k]] /\ builds \in [Keys -> Nat]

KeyOf(t) == IF at[t] \in {"in base", "building base"} THEN BaseKey ELSE cast[t].env

\* Who is inside has the lock; who builds without one is a solver's attempt.
Held(t) ==
  /\ at[t] \in Inside => holder[KeyOf(t)] = t
  /\ at[t] \in {"resolve", "build"} => cast[t].place = "container"

\* Where all are sessions, a build is of an image that is not there, and an
\* image that is not there was not built.
NewBuilds ==
  Sessions =>
    /\ \A t \in Threads : at[t] \in {"building base", "building env"} => KeyOf(t) \notin images
    /\ \A k \in Keys : builds[k] <= 1 /\ (k \notin images => builds[k] = 0)

Locks == LockTypes /\ (\A t \in Threads : Held(t)) /\ NewBuilds

LEMMA InitLocks == Init => Locks
  BY CastAssumption DEF Init, ExecInit, Locks, LockTypes, Held, NewBuilds, Inside, Keys, KeyOf

\* A step that leaves images and locks alone and goes somewhere else.
LEMMA Elsewhere ==
  ASSUME Locks, NEW t \in Threads, UNCHANGED <<cast, images, holder, builds>>,
         at' = [at EXCEPT ![t] = at'[t]],
         at'[t] \notin Inside,
         at'[t] \in {"resolve", "build"} => cast[t].place = "container"
  PROVE  Locks'
  <1>1. \A u \in Threads \ {t} : at'[u] = at[u]
    BY DEF Locks, LockTypes
  <1>2. ASSUME NEW u \in Threads PROVE Held(u)'
    BY <1>1 DEF Locks, Held, KeyOf
  <1>3. NewBuilds'
    BY <1>1 DEF Locks, NewBuilds, KeyOf, Sessions, Inside
  <1> QED BY <1>2, <1>3 DEF Locks, LockTypes

\* The counts of builds after one more.
LEMMA BuildsGrow ==
  ASSUME builds \in [Keys -> Nat], NEW k \in Keys, builds' = [builds EXCEPT ![k] = @ + 1]
  PROVE  builds' \in [Keys -> Nat] /\ \A x \in Keys : builds'[x] = IF x = k THEN builds[k] + 1 ELSE builds[x]
  OBVIOUS

\* After the first build of an image that was not there.
LEMMA FirstBuild ==
  ASSUME builds \in [Keys -> Nat], NEW k \in Keys, builds' = [builds EXCEPT ![k] = @ + 1],
         builds[k] = 0, images' = images \cup {k},
         \A x \in Keys : builds[x] <= 1 /\ (x \notin images => builds[x] = 0)
  PROVE  \A x \in Keys : builds'[x] <= 1 /\ (x \notin images' => builds'[x] = 0)
  <1>1. builds'[k] = 1
    BY BuildsGrow
  <1>2. \A x \in Keys \ {k} : builds'[x] = builds[x]
    BY BuildsGrow
  <1> QED BY <1>1, <1>2

LEMMA LockingSteps ==
  ASSUME Locks, NEW t \in Threads,
         \/ BuildImage(t) \/ LockImage(t) \/ UseImage(t)
         \/ StartBuild(t) \/ FinishBuild(t) \/ FailBuild(t)
  PROVE  Locks'
  <1> USE CastAssumption DEF Locks, LockTypes, Held, NewBuilds, Keys, KeyOf, Inside, Sessions,
                             Go, CastType
  <1>1. CASE BuildImage(t)
    <2>1. ~Sessions /\ cast' = cast /\ holder' = holder
      BY <1>1 DEF BuildImage
    <2>2. at'[t] = "create" /\ \A u \in Threads \ {t} : at'[u] = at[u]
      BY <1>1 DEF BuildImage
    <2>3. LockTypes'
      <3>1. cast[t].env \in Keys
        OBVIOUS
      <3>2. builds' \in [Keys -> Nat]
        BY <1>1, <3>1, BuildsGrow DEF BuildImage
      <3> QED BY <1>1, <3>2 DEF BuildImage
    <2>4. \A u \in Threads : Held(u)'
      BY <2>1, <2>2
    <2> QED BY <2>1, <2>3, <2>4
  <1>2. CASE LockImage(t)
    BY <1>2 DEF LockImage, KeyAt
  <1>3. CASE UseImage(t)
    BY <1>3 DEF UseImage, KeyAt, Unlock, NextAfter
  <1>4. CASE StartBuild(t)
    BY <1>4 DEF StartBuild, KeyAt
  <1>5. CASE FinishBuild(t)
    <2> DEFINE k == KeyOf(t)
    <2>1. /\ k \in Keys /\ Building(t) = k /\ holder[k] = t
          /\ images' = images \cup {k} /\ holder' = [holder EXCEPT ![k] = NoThread]
          /\ builds' = [builds EXCEPT ![k] = @ + 1] /\ cast' = cast
      BY <1>5 DEF FinishBuild, Building
    <2>k. k = KeyOf(t)
      OBVIOUS
    <2> HIDE DEF k
    <2>2. at'[t] \in {"lock env", "create"} /\ \A u \in Threads \ {t} : at'[u] = at[u]
      BY <1>5 DEF FinishBuild, NextAfter
    <2>3. LockTypes'
      <3>1. builds' \in [Keys -> Nat]
        BY <2>1, BuildsGrow
      <3>2. holder' = [x \in Keys |-> holder'[x]]
        BY <2>1
      <3>3. at' = [u \in Threads |-> at'[u]]
        BY <1>5 DEF FinishBuild
      <3> QED BY <2>1, <3>1, <3>2, <3>3
    <2>4. ASSUME NEW u \in Threads \ {t} PROVE Held(u)' /\ (at[u] \in Inside => KeyOf(u)' # k)
      <3>1. at[u] \in Inside => KeyOf(u) # k /\ KeyOf(u) \in Keys
        BY <2>1
      <3> QED BY <2>1, <2>2, <3>1
    <2>5. Held(t)'
      BY <2>2
    <2>6. NewBuilds'
      <3>1. CASE Sessions
        <4>1. builds[k] = 0
          BY <1>5, <2>1, <2>k, <3>1 DEF FinishBuild
        <4>2. \A x \in Keys : builds'[x] <= 1 /\ (x \notin images' => builds'[x] = 0)
          <5>1. \A x \in Keys : builds[x] <= 1 /\ (x \notin images => builds[x] = 0)
            BY <3>1
          <5>2. builds \in [Keys -> Nat]
            OBVIOUS
          <5> QED BY ONLY <2>1, <4>1, <5>1, <5>2, FirstBuild
        <4>3. ASSUME NEW u \in Threads, at'[u] \in {"building base", "building env"}
              PROVE  KeyOf(u)' \notin images'
          <5>1. u # t /\ at'[u] = at[u] /\ KeyOf(u)' = KeyOf(u) /\ KeyOf(u) # k
            BY <2>1, <2>2, <4>3
          <5> QED BY <2>1, <3>1, <4>3, <5>1
        <4> QED BY <4>2, <4>3
      <3> QED BY <2>1, <3>1
    <2> QED BY <2>3, <2>4, <2>5, <2>6
  <1>6. CASE FailBuild(t)
    BY <1>6 DEF FailBuild, Fail
  <1> QED BY <1>1, <1>2, <1>3, <1>4, <1>5, <1>6

\* Every other step leaves images and locks alone.
LEMMA OtherSteps ==
  ASSUME Locks, NEW t \in Threads, ExecStep(t) \/ AdapterStep(t),
         ~(\/ BuildImage(t) \/ LockImage(t) \/ UseImage(t)
           \/ StartBuild(t) \/ FinishBuild(t) \/ FailBuild(t))
  PROVE  Locks'
  <1> DEFINE Leaves ==
        /\ UNCHANGED <<cast, images, holder, builds>>
        /\ at' = [at EXCEPT ![t] = at'[t]]
        /\ at'[t] \notin Inside
        /\ at'[t] \in {"resolve", "build"} => cast[t].place = "container"
  <1>1. Leaves
    <2> USE DEF Go, Fail, Locks, LockTypes, Held, ToStep, Conclude, Inside
    <2>1. CASE Begin(t) \/ ResolveImage(t) \/ CreateBox(t) \/ CreateFails(t)
      BY <2>1 DEF Begin, ResolveImage, CreateBox, CreateFails
    <2>2. CASE EnsureCommand(t) \/ CommandMissing(t) \/ Refit(t) \/ SetUp(t) \/ SetUpFails(t)
      BY <2>2 DEF EnsureCommand, CommandMissing, Refit, SetUp, SetUpFails
    <2>3. CASE \/ StartCommand(t) \/ CallFails(t) \/ (\E ok \in BOOLEAN : CommandEnds(t, ok))
               \/ Deadline(t) \/ ReadOutput(t) \/ CleanUp(t)
      BY <2>3 DEF StartCommand, CallFails, CommandEnds, Deadline, ReadOutput, CleanUp
    <2>4. CASE Preflight(t) \/ ClearReason(t) \/ ProbeFails(t) \/ SetReason(t) \/ ReadReason(t)
      BY <2>4 DEF Preflight, ClearReason, ProbeFails, SetReason, ReadReason
    <2>5. ASSUME NEW m, ProbeSucceeds(t, m) PROVE Leaves
      BY <2>5 DEF ProbeSucceeds
    <2>6. ASSUME NEW o \in Outputs, ConcludeCommand(t, o) \/ CallEndpoint(t, o) PROVE Leaves
      BY <2>6 DEF ConcludeCommand, CallEndpoint
    <2>7. CASE ConcludeSession(t) \/ CallMock(t)
      BY <2>7 DEF ConcludeSession, CallMock
    <2> QED BY <2>1, <2>2, <2>3, <2>4, <2>5, <2>6, <2>7 DEF ExecStep, AdapterStep
  <1> QED BY <1>1, Elsewhere

(***************************************************************************)
(* However many sessions need an image, one of them builds it at a time,   *)
(* and where nothing but sessions build it is built once, though a build   *)
(* may fail and be begun again by another (the locks by key of             *)
(* container_exec.py).                                                     *)
(***************************************************************************)
THEOREM ImagesAreBuiltOnce == Spec => []ImageBuiltOnce
<1>1. ASSUME Locks, [Next]_vars PROVE Locks'
  <2>1. ASSUME NEW t \in Threads, Step(t) PROVE Locks'
    BY <1>1, <2>1, LockingSteps, OtherSteps DEF Step
  <2>2. ASSUME NEW T \in SUBSET Threads, Sweep(T) PROVE Locks'
    BY <1>1, <2>2 DEF Sweep, Locks, LockTypes, Held, NewBuilds, KeyOf, Sessions
  <2>3. CASE UNCHANGED vars
    BY <1>1, <2>3 DEF vars, exec, Locks, LockTypes, Held, NewBuilds, KeyOf, Sessions
  <2> QED BY <1>1, <2>1, <2>2, <2>3 DEF Next, Done
<1>2. Locks => ImageBuiltOnce
  BY DEF Locks, LockTypes, Held, NewBuilds, KeyOf, Sessions, Keys, Inside, Building, ImageBuiltOnce
<1> QED BY InitLocks, <1>1, <1>2, PTL DEF Spec

-----------------------------------------------------------------------------
(* What an attempt is said to have been.                                   *)

Asking == {"preflight", "probe", "set reason", "read reason"}

VerdictShapes ==
  /\ at = [t \in Threads |-> at[t]]         /\ ret = [t \in Threads |-> ret[t]]
  /\ result = [t \in Threads |-> result[t]] /\ wrote = [t \in Threads |-> wrote[t]]
  /\ auth = [mode |-> auth.mode, reason |-> auth.reason]
  /\ probes \in [ok: Nat, failed: Nat]

\* A reason to skip stands for a probe that failed, and is taken back only
\* after one that succeeded.
Reasons ==
  /\ auth.reason # "none" => probes.failed > 0
  /\ \A t \in Threads :
       /\ at[t] = "set reason" => probes.failed > 0
       /\ at[t] = "clear reason" => probes.ok > 0
       /\ at[t] = "read reason" /\ probes.ok = 0 => auth.reason # "none"

\* Before a login has worked a Claude attempt gets past its questions only
\* with a skip, or through an answer that was half written.
LetThrough(t) ==
  cast[t].adapter = "claude" /\ probes.ok = 0 /\ at[t] \notin Asking =>
    result[t].status = "skipped" \/ t \in half

\* A command's attempt is judged once, by how its call ended and what it
\* wrote, unless it came to no command.
Judged(t) ==
  /\ at[t] # "done" => result[t] = None /\ wrote[t] = {}
  /\ result[t].status = "skipped" => probes.failed > 0
  /\ cast[t].adapter \in Commanded =>
       \/ /\ result[t] \in {None, Result("failed", "", "none"), Result("skipped", "", "none")}
          /\ wrote[t] = {}
       \/ result[t] = Finalize(t, CLIResult(cast[t].adapter, ret[t], wrote[t]))

Verdicts ==
  VerdictShapes /\ Reasons /\ \A t \in Threads : LetThrough(t) /\ Judged(t)

LEMMA InitVerdicts == Init => Verdicts
  <1> SUFFICES ASSUME Init PROVE Verdicts
    OBVIOUS
  <1>1. VerdictShapes
    BY DEF Init, ExecInit, VerdictShapes
  <1>2. \A t \in Threads :
          /\ at[t] = IF cast[t].adapter = "claude" THEN "preflight"
                     ELSE IF cast[t].adapter = "nobody" THEN "done" ELSE "begin"
          /\ result[t] = None /\ wrote[t] = {}
    BY DEF Init, ExecInit
  <1>3. Reasons
    BY <1>2 DEF Init, Reasons
  <1>4. \A t \in Threads : LetThrough(t)
    BY <1>2 DEF LetThrough, Asking
  <1>5. None.status # "skipped"
    BY DEF None
  <1>6. \A t \in Threads : Judged(t)
    BY <1>2, <1>5 DEF Judged
  <1> QED BY <1>1, <1>3, <1>4, <1>6 DEF Verdicts

\* A step that touches what is known of one thread has to be looked at for that
\* thread only, if probes are only added and nobody let through is forgotten.
LEMMA OneVerdict ==
  ASSUME Verdicts, NEW t \in Threads, cast' = cast,
         at' = [at EXCEPT ![t] = at'[t]], ret' = [ret EXCEPT ![t] = ret'[t]],
         result' = [result EXCEPT ![t] = result'[t]], wrote' = [wrote EXCEPT ![t] = wrote'[t]],
         auth' = [mode |-> auth'.mode, reason |-> auth'.reason],
         probes' \in [ok: Nat, failed: Nat], half \subseteq half',
         probes'.ok >= probes.ok, probes'.failed >= probes.failed,
         Reasons', LetThrough(t)', Judged(t)'
  PROVE  Verdicts'
  <1>1. \A u \in Threads \ {t} :
          /\ at'[u] = at[u] /\ ret'[u] = ret[u] /\ result'[u] = result[u] /\ wrote'[u] = wrote[u]
    BY DEF Verdicts, VerdictShapes
  <1>2. VerdictShapes'
    BY DEF Verdicts, VerdictShapes
  <1>3. probes.ok \in Nat /\ probes.failed \in Nat /\ probes'.ok \in Nat /\ probes'.failed \in Nat
    BY DEF Verdicts, VerdictShapes
  <1>4. ASSUME NEW u \in Threads \ {t} PROVE LetThrough(u)' /\ Judged(u)'
    <2>1. LetThrough(u) /\ Judged(u)
      BY DEF Verdicts
    <2>2. LetThrough(u)'
      BY <1>1, <1>3, <2>1 DEF LetThrough
    <2>3. probes.failed > 0 => probes'.failed > 0
      BY <1>3
    <2>4. Judged(u)'
      BY <1>1, <2>1, <2>3 DEF Judged, Finalize
    <2> QED BY <2>2, <2>4
  <1> QED BY <1>2, <1>4 DEF Verdicts

\* The steps of an execution are taken between the questions and the verdict.
LEMMA Executing ==
  ASSUME VerdictShapes, NEW t \in Threads, ExecStep(t)
  PROVE  /\ cast' = cast
         /\ at' = [at EXCEPT ![t] = at'[t]] /\ ret' = [ret EXCEPT ![t] = ret'[t]]
         /\ at[t] \notin Asking \cup {"clear reason", "done"}
         /\ at'[t] \notin Asking \cup {"clear reason", "done"}
  <1> USE DEF VerdictShapes, Go, Fail, Asking
  <1>1. CASE Begin(t) \/ ResolveImage(t) \/ BuildImage(t)
    BY <1>1 DEF Begin, ResolveImage, BuildImage
  <1>2. CASE LockImage(t) \/ UseImage(t) \/ StartBuild(t)
    BY <1>2 DEF LockImage, UseImage, StartBuild, Unlock, NextAfter
  <1>3. CASE FinishBuild(t) \/ FailBuild(t)
    BY <1>3 DEF FinishBuild, FailBuild, NextAfter
  <1>4. CASE CreateBox(t) \/ CreateFails(t) \/ EnsureCommand(t) \/ CommandMissing(t)
    BY <1>4 DEF CreateBox, CreateFails, EnsureCommand, CommandMissing
  <1>5. CASE Refit(t) \/ SetUp(t) \/ SetUpFails(t) \/ StartCommand(t) \/ CallFails(t)
    BY <1>5 DEF Refit, SetUp, SetUpFails, StartCommand, CallFails
  <1>6. CASE (\E ok \in BOOLEAN : CommandEnds(t, ok)) \/ Deadline(t) \/ ReadOutput(t) \/ CleanUp(t)
    BY <1>6 DEF CommandEnds, Deadline, ReadOutput, CleanUp
  <1> QED BY <1>1, <1>2, <1>3, <1>4, <1>5, <1>6 DEF ExecStep

LEMMA ExecutingKeepsVerdicts ==
  ASSUME Verdicts, NEW t \in Threads, ExecStep(t),
         UNCHANGED <<auth, probes, half, wrote, result>>
  PROVE  Verdicts'
  <1>0. VerdictShapes /\ Reasons /\ LetThrough(t) /\ Judged(t)
    BY DEF Verdicts
  <1>1. /\ cast' = cast
        /\ at' = [at EXCEPT ![t] = at'[t]] /\ ret' = [ret EXCEPT ![t] = ret'[t]]
        /\ at[t] \notin Asking \cup {"clear reason", "done"}
        /\ at'[t] \notin Asking \cup {"clear reason", "done"}
    BY <1>0, Executing
  <1>2. \A u \in Threads \ {t} : at'[u] = at[u]
    BY <1>0, <1>1 DEF VerdictShapes
  <1>3. Reasons'
    BY <1>0, <1>1, <1>2 DEF Reasons, Asking
  <1>4. LetThrough(t)' /\ Judged(t)'
    BY <1>0, <1>1 DEF LetThrough, Judged, None
  <1>5. probes.ok >= probes.ok /\ probes.failed >= probes.failed /\ probes \in [ok: Nat, failed: Nat]
    BY <1>0 DEF VerdictShapes
  <1>6. /\ result' = [result EXCEPT ![t] = result'[t]] /\ wrote' = [wrote EXCEPT ![t] = wrote'[t]]
        /\ auth' = [mode |-> auth'.mode, reason |-> auth'.reason]
    BY <1>0 DEF VerdictShapes
  <1> QED BY <1>1, <1>3, <1>4, <1>5, <1>6, OneVerdict

LEMMA NoneFields == None.status = "none"
  BY DEF None

\* What becomes of a result at the end.
LEMMA FinalFields ==
  ASSUME NEW t, NEW s, NEW x, NEW c
  PROVE  LET v == Finalize(t, Result(s, x, c)) IN
         /\ v.cost = c
         /\ v.status = s \/ (s = "succeeded" /\ v.status = "invalid_patch")
         /\ s # "succeeded" => v = Result(s, x, c)
  BY DEF Finalize, Result

\* One more probe has ended.
LEMMA Probed ==
  ASSUME probes \in [ok: Nat, failed: Nat],
         \/ UNCHANGED probes
         \/ probes' = [probes EXCEPT !.ok = @ + 1]
         \/ probes' = [probes EXCEPT !.failed = @ + 1]
  PROVE  /\ probes.ok \in Nat /\ probes.failed \in Nat
         /\ probes' \in [ok: Nat, failed: Nat]
         /\ probes'.ok >= probes.ok /\ probes'.failed >= probes.failed
         /\ probes.failed > 0 => probes'.failed > 0
         /\ probes.ok > 0 => probes'.ok > 0 /\ probes'.ok # 0
         /\ probes'.ok = 0 => probes.ok = 0
         /\ probes' = [probes EXCEPT !.ok = @ + 1] => probes'.ok > 0
         /\ probes' = [probes EXCEPT !.failed = @ + 1] => probes'.failed > 0 /\ probes'.ok = probes.ok
  <1>1. probes.ok \in Nat /\ probes.failed \in Nat
    OBVIOUS
  <1>2. CASE UNCHANGED probes
    BY <1>1, <1>2
  <1>3. CASE probes' = [probes EXCEPT !.ok = @ + 1]
    BY <1>1, <1>3
  <1>4. CASE probes' = [probes EXCEPT !.failed = @ + 1]
    BY <1>1, <1>4
  <1> QED BY <1>2, <1>3, <1>4

\* What is asked before an attempt: the thread goes on from l to m, with the
\* probes and the reason it leaves to the others.
LEMMA Questioned ==
  ASSUME Verdicts, NEW t \in Threads, NEW m, at' = [at EXCEPT ![t] = m],
         UNCHANGED <<cast, ret, wrote>>, half \subseteq half',
         auth' = [mode |-> auth'.mode, reason |-> auth'.reason],
         \/ UNCHANGED probes
         \/ probes' = [probes EXCEPT !.ok = @ + 1]
         \/ probes' = [probes EXCEPT !.failed = @ + 1],
         at[t] # "done",
         \* the reasons
         auth'.reason # "none" => auth'.reason = auth.reason \/ at[t] = "set reason",
         auth'.reason = "none" => auth'.reason = auth.reason \/ at[t] = "clear reason",
         m = "set reason" => probes' = [probes EXCEPT !.failed = @ + 1],
         m = "clear reason" => probes' = [probes EXCEPT !.ok = @ + 1],
         m = "read reason" => auth'.reason # "none",
         \* the verdict
         \/ m # "done" /\ UNCHANGED result
         \/ /\ m = "done" /\ result' = [result EXCEPT ![t] = Result("skipped", "", "none")]
            /\ auth.reason # "none",
         cast[t].adapter = "claude" /\ probes'.ok = 0 /\ m \notin Asking \cup {"done"} => t \in half'
  PROVE  Verdicts'
  <1>0. /\ VerdictShapes /\ Reasons /\ LetThrough(t) /\ Judged(t)
        /\ probes \in [ok: Nat, failed: Nat]
    BY DEF Verdicts, VerdictShapes
  <1>1. /\ probes.ok \in Nat /\ probes.failed \in Nat
        /\ probes' \in [ok: Nat, failed: Nat] /\ probes'.ok \in Nat /\ probes'.failed \in Nat
        /\ probes'.ok >= probes.ok /\ probes'.failed >= probes.failed
        /\ probes.failed > 0 => probes'.failed > 0
        /\ probes.ok > 0 => probes'.ok > 0 /\ probes'.ok # 0
        /\ probes'.ok = 0 => probes.ok = 0
        /\ m = "clear reason" => probes'.ok > 0
        /\ m = "set reason" => probes'.failed > 0
    BY <1>0, Probed, Zenon
  <1>2. at'[t] = m /\ \A u \in Threads \ {t} : at'[u] = at[u]
    BY <1>0 DEF VerdictShapes
  <1>3. at' = [at EXCEPT ![t] = at'[t]] /\ result' = [result EXCEPT ![t] = result'[t]]
    BY <1>0, <1>2 DEF VerdictShapes
  <1>4. wrote' = [wrote EXCEPT ![t] = wrote'[t]] /\ ret' = [ret EXCEPT ![t] = ret'[t]]
    BY <1>0 DEF VerdictShapes
  <1>5. Reasons'
    <2>1. auth'.reason # "none" => probes'.failed > 0
      BY <1>0, <1>1, Zenon DEF Reasons
    <2>2. ASSUME NEW u \in Threads
          PROVE  /\ at'[u] = "set reason" => probes'.failed > 0
                 /\ at'[u] = "clear reason" => probes'.ok > 0
                 /\ at'[u] = "read reason" /\ probes'.ok = 0 => auth'.reason # "none"
      <3>1. CASE u = t
        BY <1>1, <1>2, <3>1
      <3>2. CASE u # t
        BY <1>0, <1>1, <1>2, <3>2, Zenon DEF Reasons
      <3> QED BY <3>1, <3>2
    <2> QED BY <2>1, <2>2 DEF Reasons
  <1>6. m = "done" => result'[t] = Result("skipped", "", "none")
    BY <1>0 DEF VerdictShapes
  <1>7. LetThrough(t)'
    <2>1. Result("skipped", "", "none").status = "skipped"
      BY DEF Result
    <2> QED BY <1>2, <1>6, <2>1, Zenon DEF LetThrough
  <1>8. Judged(t)'
    <2>1. CASE m # "done"
      <3>1. result'[t] = None /\ wrote'[t] = {}
        BY <1>0, <2>1 DEF Judged
      <3> QED BY <3>1, NoneFields DEF Judged
    <2>2. CASE m = "done"
      <3>1. wrote'[t] = {} /\ probes'.failed > 0
        BY <1>0, <1>1, <2>2, Zenon DEF Judged, Reasons
      <3> QED BY <1>2, <1>6, <2>2, <3>1 DEF Judged
    <2> QED BY <2>1, <2>2
  <1> QED BY <1>1, <1>3, <1>4, <1>5, <1>7, <1>8, OneVerdict

LEMMA QuestionsKeepVerdicts ==
  ASSUME Verdicts, NEW t \in Threads,
         \/ Preflight(t) \/ ClearReason(t) \/ ProbeFails(t) \/ SetReason(t) \/ ReadReason(t)
         \/ \E m \in {"subscription", "api_key", "ambient"} : ProbeSucceeds(t, m)
  PROVE  Verdicts'
  <1>0. /\ auth = [mode |-> auth.mode, reason |-> auth.reason]
        /\ probes \in [ok: Nat, failed: Nat]
        /\ Reasons /\ LetThrough(t) /\ Judged(t)
    BY DEF Verdicts, VerdictShapes
  <1>c. probes.ok \in Nat
    BY <1>0
  <1>a. \A x : /\ [auth EXCEPT !.mode = x] = [mode |-> x, reason |-> auth.reason]
               /\ [auth EXCEPT !.reason = x] = [mode |-> auth.mode, reason |-> x]
    BY <1>0
  <1>b. \A x, y : [mode |-> x, reason |-> y].reason = y /\ [mode |-> x, reason |-> y].mode = x
    OBVIOUS
  <1> USE DEF ToStep, Go, Asking
  <1>1. CASE Preflight(t)
    BY <1>0, <1>1, Questioned DEF Preflight
  <1>2. CASE ClearReason(t)
    <2>1. probes.ok > 0
      BY <1>0, <1>2, Zenon DEF ClearReason, Reasons
    <2>4. probes.ok # 0
      BY <1>c, <2>1
    <2>2. auth' = [mode |-> auth.mode, reason |-> "none"]
      BY <1>a, <1>2, Zenon DEF ClearReason
    <2>3. auth'.reason = "none" /\ auth' = [mode |-> auth'.mode, reason |-> auth'.reason]
      BY <2>2
    <2> QED BY <1>2, <2>4, <2>3, Questioned DEF ClearReason
  <1>3. CASE ProbeFails(t)
    BY <1>0, <1>a, <1>b, <1>3, Questioned DEF ProbeFails
  <1>4. CASE SetReason(t)
    BY <1>0, <1>a, <1>b, <1>4, Questioned DEF SetReason
  <1>5. CASE ReadReason(t)
    BY <1>0, <1>5, Questioned DEF ReadReason, Reasons
  <1>6. ASSUME NEW m, ProbeSucceeds(t, m) PROVE Verdicts'
    <2>1. auth' = [mode |-> m, reason |-> auth.reason]
      BY <1>a, <1>6, Zenon DEF ProbeSucceeds
    <2>2. auth'.reason = auth.reason /\ auth' = [mode |-> auth'.mode, reason |-> auth'.reason]
      BY <2>1
    <2>3. probes'.ok # 0
      <3>1. probes' = [probes EXCEPT !.ok = @ + 1]
        BY <1>6 DEF ProbeSucceeds
      <3>2. probes'.ok = probes.ok + 1
        BY <1>0, <3>1
      <3> QED BY <1>c, <3>2
    <2> QED BY <1>6, <2>2, <2>3, Questioned DEF ProbeSucceeds
  <1> QED BY <1>1, <1>2, <1>3, <1>4, <1>5, <1>6

\* A verdict ends an attempt.
LEMMA JudgingKeepsVerdicts ==
  ASSUME Verdicts, NEW t \in Threads, UNCHANGED <<auth, probes, half, cast, ret>>,
         at[t] \in {"begin", "returned"}, at' = [at EXCEPT ![t] = "done"],
         result' = [result EXCEPT ![t] = result'[t]], wrote' = [wrote EXCEPT ![t] = wrote'[t]],
         result'[t].status # "skipped",
         cast[t].adapter \in Commanded =>
           \/ result'[t] \in {None, Result("failed", "", "none")} /\ wrote'[t] = {}
           \/ result'[t] = Finalize(t, CLIResult(cast[t].adapter, ret[t], wrote'[t]))
  PROVE  Verdicts'
  <1>0. VerdictShapes /\ Reasons /\ LetThrough(t) /\ Judged(t)
    BY DEF Verdicts
  <1>1. /\ at'[t] = "done" /\ \A u \in Threads \ {t} : at'[u] = at[u]
    BY <1>0 DEF VerdictShapes
  <1>2. Reasons'
    BY <1>0, <1>1 DEF Reasons
  <1>3. LetThrough(t)'
    <2>1. result[t].status # "skipped"
      BY <1>0, NoneFields DEF Judged
    <2> QED BY <1>0, <1>1, <2>1 DEF LetThrough, Asking
  <1>4. Judged(t)'
    BY <1>1 DEF Judged, Finalize
  <1>5. /\ ret' = [ret EXCEPT ![t] = ret'[t]] /\ auth' = [mode |-> auth'.mode, reason |-> auth'.reason]
        /\ probes' \in [ok: Nat, failed: Nat] /\ half \subseteq half'
        /\ probes'.ok >= probes.ok /\ probes'.failed >= probes.failed
    BY <1>0, Probed DEF VerdictShapes
  <1>6. at' = [at EXCEPT ![t] = at'[t]]
    BY <1>1
  <1> QED BY <1>2, <1>3, <1>4, <1>5, <1>6, OneVerdict

\* The verdict on a command has its cost, and fits the way the call ended.
LEMMA CommandVerdicts ==
  ASSUME NEW t \in Threads, NEW a \in Commanded, NEW r, NEW o
  PROVE  LET v == Finalize(t, CLIResult(a, r, o)) IN
         /\ v.cost = CostOf(o)
         /\ v.status \in {"succeeded", "failed", "timed_out", "invalid_patch"}
         /\ v.status = "succeeded" => r.ok /\ ~r.timedOut
         /\ v.status = "timed_out" => r.timedOut
  <1> DEFINE Fits(v, s, x) == /\ v = Result(s, x, CostOf(o))
                              /\ s \in {"succeeded", "failed", "timed_out"}
                              /\ s = "succeeded" => r.ok /\ ~r.timedOut
                              /\ s = "timed_out" => r.timedOut
  <1>1. ASSUME NEW v, v \in {CodexResult(r, o), OpenCodeResult(r, o), ClaudeResult(r, o)}
        PROVE  \E s, x : Fits(v, s, x)
    <2>1. CASE r.timedOut
      BY <1>1, <2>1, Zenon DEF CodexResult, OpenCodeResult, ClaudeResult
    <2>2. CASE ~r.timedOut
      <3>1. \/ v = Result("failed", "", CostOf(o))
            \/ r.ok /\ \E x : v = Result("succeeded", x, CostOf(o))
        <4>1. CASE v = CodexResult(r, o)
          BY <2>2, <4>1, Zenon DEF CodexResult
        <4>2. CASE v = OpenCodeResult(r, o)
          BY <2>2, <4>2, Zenon DEF OpenCodeResult
        <4>3. CASE v = ClaudeResult(r, o)
          BY <2>2, <4>3, Zenon DEF ClaudeResult
        <4> QED BY <1>1, <4>1, <4>2, <4>3, Zenon
      <3>2. CASE v = Result("failed", "", CostOf(o))
        <4>1. Fits(v, "failed", "")
          BY <3>2
        <4> QED BY <4>1, Zenon
      <3>3. ASSUME NEW x, r.ok, v = Result("succeeded", x, CostOf(o)) PROVE Fits(v, "succeeded", x)
        BY <2>2, <3>3
      <3> QED BY <3>1, <3>2, <3>3, Zenon
    <2> QED BY <2>1, <2>2
  <1>2. CLIResult(a, r, o) \in {CodexResult(r, o), OpenCodeResult(r, o), ClaudeResult(r, o)}
    BY DEF CLIResult, Commanded
  <1>3. PICK s, x : Fits(CLIResult(a, r, o), s, x)
    BY <1>1, <1>2
  <1> QED BY <1>3, FinalFields

LEMMA ConclusionsKeepVerdicts ==
  ASSUME Verdicts, NEW t \in Threads,
         \/ \E o \in Outputs : ConcludeCommand(t, o) \/ CallEndpoint(t, o)
         \/ ConcludeSession(t) \/ CallMock(t)
  PROVE  Verdicts'
  <1>0. VerdictShapes /\ Judged(t)
    BY DEF Verdicts
  <1> USE DEF ToStep, Go, Conclude
  <1>1. ASSUME NEW o \in Outputs, ConcludeCommand(t, o) PROVE Verdicts'
    <2>1. /\ UNCHANGED <<auth, probes, half, cast, ret>>
          /\ at[t] = "returned" /\ at' = [at EXCEPT ![t] = "done"]
          /\ result' = [result EXCEPT ![t] = result'[t]] /\ wrote' = [wrote EXCEPT ![t] = wrote'[t]]
          /\ cast[t].adapter \in Commanded
          /\ \/ result'[t] = Finalize(t, CLIResult(cast[t].adapter, ret[t], o)) /\ wrote'[t] = o
             \/ result'[t] = Finalize(t, Result("failed", "", "none")) /\ wrote' = wrote
      BY <1>0, <1>1 DEF ConcludeCommand, VerdictShapes
    <2>2. Finalize(t, Result("failed", "", "none")) = Result("failed", "", "none")
      BY DEF Finalize, Result
    <2>3. /\ \/ result'[t] = Result("failed", "", "none") /\ wrote'[t] = {}
             \/ result'[t] = Finalize(t, CLIResult(cast[t].adapter, ret[t], wrote'[t]))
          /\ result'[t].status # "skipped"
      <3>1. CASE result'[t] = Finalize(t, CLIResult(cast[t].adapter, ret[t], o)) /\ wrote'[t] = o
        BY <2>1, <3>1, CommandVerdicts
      <3>2. CASE result'[t] = Finalize(t, Result("failed", "", "none")) /\ wrote' = wrote
        <4>1. Result("failed", "", "none").status # "skipped"
          BY DEF Result
        <4> QED BY <1>0, <2>1, <2>2, <3>2, <4>1 DEF Judged
      <3> QED BY <2>1, <3>1, <3>2
    <2> QED BY <2>1, <2>3, JudgingKeepsVerdicts
  <1>2. ASSUME NEW o \in Outputs, CallEndpoint(t, o) PROVE Verdicts'
    <2>1. /\ UNCHANGED <<auth, probes, half, cast, ret>>
          /\ at[t] = "begin" /\ at' = [at EXCEPT ![t] = "done"]
          /\ result' = [result EXCEPT ![t] = result'[t]] /\ wrote' = [wrote EXCEPT ![t] = wrote'[t]]
          /\ cast[t].adapter \notin Commanded
          /\ \/ result'[t] = Finalize(t, HTTPResult(o))
             \/ result'[t] = Finalize(t, Result("failed", "", "none"))
      BY <1>0, <1>2 DEF CallEndpoint, VerdictShapes, Commanded
    <2>2. /\ Finalize(t, HTTPResult(o)).status # "skipped"
          /\ Finalize(t, Result("failed", "", "none")).status # "skipped"
      BY DEF HTTPResult, Finalize, Result
    <2>3. result'[t].status # "skipped"
      BY <2>1, <2>2, Zenon
    <2> QED BY <2>1, <2>3, JudgingKeepsVerdicts
  <1>3. CASE ConcludeSession(t)
    <2>1. result[t] = None /\ at[t] = "returned" /\ cast[t].adapter \notin Commanded
      BY <1>0, <1>3 DEF ConcludeSession, Judged, Commanded
    <2>2. result'[t].status # "skipped"
      BY <1>3, <2>1, NoneFields DEF ConcludeSession
    <2>3. /\ UNCHANGED <<auth, probes, half, cast, ret>> /\ at' = [at EXCEPT ![t] = "done"]
          /\ result' = [result EXCEPT ![t] = result'[t]] /\ wrote' = [wrote EXCEPT ![t] = wrote'[t]]
      BY <1>0, <1>3 DEF ConcludeSession, VerdictShapes
    <2> QED BY <2>1, <2>2, <2>3, JudgingKeepsVerdicts
  <1>4. CASE CallMock(t)
    <2>1. PICK r \in {Result("succeeded", "patch", "none")} \cup
                     {Result(x, "", "none") : x \in {"failed", "timed_out", "budget_exceeded", "invalid_patch"}} :
            Conclude(t, r)
      BY <1>4 DEF CallMock
    <2>2. /\ UNCHANGED <<auth, probes, half, cast, ret>> /\ wrote' = wrote
          /\ at[t] = "begin" /\ at' = [at EXCEPT ![t] = "done"]
          /\ cast[t].adapter \notin Commanded
      BY <1>4, <2>1 DEF CallMock, Commanded
    <2>3. result'[t] = Finalize(t, r) /\ result' = [result EXCEPT ![t] = result'[t]]
      BY <1>0, <2>1 DEF VerdictShapes
    <2>4. result'[t].status # "skipped"
      <3>1. Finalize(t, Result("succeeded", "patch", "none")).status # "skipped"
        BY DEF Finalize, Result
      <3>2. \A x \in {"failed", "timed_out", "budget_exceeded", "invalid_patch"} :
              Finalize(t, Result(x, "", "none")).status # "skipped"
        BY DEF Finalize, Result
      <3> QED BY <2>1, <2>3, <3>1, <3>2, Zenon
    <2>5. wrote' = [wrote EXCEPT ![t] = wrote'[t]]
      BY <1>0, <2>2 DEF VerdictShapes
    <2> QED BY <2>2, <2>3, <2>4, <2>5, JudgingKeepsVerdicts
  <1> QED BY <1>1, <1>2, <1>3, <1>4

LEMMA AlwaysVerdicts == Spec => []Verdicts
<1>1. ASSUME Verdicts, [Next]_vars PROVE Verdicts'
  <2>1. ASSUME NEW t \in Threads, Step(t) PROVE Verdicts'
    BY <1>1, <2>1, ExecutingKeepsVerdicts, QuestionsKeepVerdicts, ConclusionsKeepVerdicts
    DEF Step, AdapterStep
  <2>2. ASSUME UNCHANGED <<cast, at, ret, auth, probes, half, wrote, result>> PROVE Verdicts'
    BY <1>1, <2>2 DEF Verdicts, VerdictShapes, Reasons, LetThrough, Judged, Finalize
  <2>3. ASSUME NEW T \in SUBSET Threads, Sweep(T),
               UNCHANGED <<auth, probes, half, wrote, result>>
        PROVE  Verdicts'
    BY <2>2, <2>3 DEF Sweep
  <2>4. CASE UNCHANGED vars
    BY <2>2, <2>4 DEF vars, exec
  <2> QED BY <1>1, <2>1, <2>3, <2>4 DEF Next, Done
<1> QED BY InitVerdicts, <1>1, PTL DEF Spec

(***************************************************************************)
(* An attempt's status is the truth of how it went: a success is a command *)
(* that ended by itself and well, a timeout one that passed its deadline,  *)
(* a skip stands for a login that was tried and failed; and where no login *)
(* works no Claude attempt is made but by a thread that read the answer    *)
(* half written - for any number of threads and orders of their questions. *)
(***************************************************************************)
THEOREM StatusAlwaysTrue == Spec => []StatusTellsTruth
<1>1. Verdicts => StatusTellsTruth
  <2> SUFFICES ASSUME Verdicts, NEW t \in Threads
               PROVE  /\ cast[t].adapter \in Commanded =>
                           /\ result[t].status = "succeeded" => ret[t].ok /\ ~ret[t].timedOut
                           /\ result[t].status = "timed_out" => ret[t].timedOut
                      /\ result[t].status = "skipped" => probes.failed > 0
                      /\ /\ cast[t].adapter = "claude" /\ probes.ok = 0
                         /\ at[t] \notin {"preflight", "probe", "set reason", "read reason"}
                         => result[t].status = "skipped" \/ t \in half
    BY DEF StatusTellsTruth
  <2>1. LetThrough(t) /\ Judged(t)
    BY DEF Verdicts
  <2>2. \A v \in {None, Result("failed", "", "none"), Result("skipped", "", "none")} :
          v.status \notin {"succeeded", "timed_out"}
    <3>1. \A x \in {"failed", "skipped"} : Result(x, "", "none").status \notin {"succeeded", "timed_out"}
      BY DEF Result
    <3> QED BY <3>1, NoneFields, Zenon
  <2>3. cast[t].adapter \in Commanded =>
          /\ result[t].status = "succeeded" => ret[t].ok /\ ~ret[t].timedOut
          /\ result[t].status = "timed_out" => ret[t].timedOut
    <3>1. CASE result[t] = Finalize(t, CLIResult(cast[t].adapter, ret[t], wrote[t]))
      BY <3>1, CommandVerdicts
    <3> QED BY <2>1, <2>2, <3>1, Zenon DEF Judged
  <2> QED BY <2>1, <2>3 DEF LetThrough, Judged, Asking
<1> QED BY <1>1, AlwaysVerdicts, PTL

(***************************************************************************)
(* What an attempt is known to have cost is never lost by the way it       *)
(* ended: whatever a command wrote of a cost, or of tokens that have a     *)
(* price, is charged to a failure and to a timeout as to a success.        *)
(***************************************************************************)
THEOREM SpendAlwaysKept == Spec => []SpendIsKept
<1>1. Verdicts => SpendIsKept
  <2> SUFFICES ASSUME Verdicts, NEW t \in Threads,
                      cast[t].adapter \in Commanded,
                      "cost" \in wrote[t] \/ ("usage" \in wrote[t] /\ Priced)
               PROVE  result[t].cost # "none"
    BY DEF SpendIsKept
  <2>1. result[t] = Finalize(t, CLIResult(cast[t].adapter, ret[t], wrote[t]))
    BY DEF Verdicts, Judged
  <2>2. result[t].cost = CostOf(wrote[t])
    BY <2>1, CommandVerdicts
  <2> QED BY <2>2 DEF CostOf, UsageIn
<1> QED BY <1>1, AlwaysVerdicts, PTL
=============================================================================
