--------------------------- MODULE ContainerExec ----------------------------
(***************************************************************************)
(* How a command gets to run: in a container of its own, made from an      *)
(* image that may have to be built first (solver attempts), in a session   *)
(* that runs several commands in one container (evaluation), or on the     *)
(* host.  Threads share the images of the docker daemon, and the locks     *)
(* under which sessions build them; a container has one owner, since its   *)
(* name holds the attempt and the paths.  The user may sweep away all      *)
(* containers of the program while it runs (repogauge cleanup).            *)
(***************************************************************************)
EXTENDS Naturals, FiniteSets

CONSTANTS
  Threads, NoThread,
  BaseKey, EnvKeys,   \* the base image and the environments' images
  Casts,              \* what the threads may be: functions to CastType
  Fallback,           \* solver commands with a host installation to mount
  Commands,           \* commands a session runs in its container
  MaxFaults,          \* bound: docker errors and images lacking the command
  MaxSweeps           \* bound: uses of repogauge cleanup

Places == {"container", "session", "host", "none"}
Adapters == {"codex", "claude", "opencode", "http", "mock", "test", "nobody"}
CastType == [adapter: Adapters, place: Places, env: EnvKeys]

ASSUME CastAssumption ==
  /\ NoThread \notin Threads /\ BaseKey \notin EnvKeys
  /\ Casts \subseteq [Threads -> CastType]
  /\ Commands \in Nat \ {0} /\ MaxFaults \in Nat /\ MaxSweeps \in Nat

VARIABLES
  cast,      \* what each thread is
  at,        \* at[t]: where t is
  images,    \* the images the daemon has
  holder,    \* holder[k]: the thread in the lock of image k, or none
  builds,    \* builds[k]: how often a build of k succeeded
  box,       \* box[t]: t's container, "none", "created" or "running"
  running,   \* running[t]: commands of t that have not ended
  ran,       \* ran[t]: commands t has started
  ret,       \* ret[t]: what t's call returned or raised
  faults, sweeps

exec == <<cast, at, images, holder, builds, box, running, ran, ret,
          faults, sweeps>>

Returned(timedOut, ok) == [kind |-> "result", timedOut |-> timedOut, ok |-> ok]
Raised(kind) == [kind |-> kind, timedOut |-> FALSE, ok |-> FALSE]

Go(t, l)  == at' = [at EXCEPT ![t] = l]
Fault     == faults < MaxFaults /\ faults' = faults + 1
Contained(t) == cast[t].place \in {"container", "session"}

\* Ends t's call with an error: what it has is cleaned up first.
Fail(t, kind) ==
  ret' = [ret EXCEPT ![t] = Raised(kind)] /\ Go(t, "cleanup")

ExecInit ==
  /\ cast \in Casts
  /\ at = [t \in Threads |->
             CASE cast[t].adapter = "claude" -> "preflight"
               [] cast[t].adapter = "nobody" -> "done"
               [] OTHER -> "begin"]
  /\ images = {} /\ holder = [k \in {BaseKey} \cup EnvKeys |-> NoThread]
  /\ builds = [k \in {BaseKey} \cup EnvKeys |-> 0]
  /\ box = [t \in Threads |-> "none"] /\ running = [t \in Threads |-> {}]
  /\ ran = [t \in Threads |-> 0] /\ ret = [t \in Threads |-> Raised("none")]
  /\ faults = 0 /\ sweeps = 0

-----------------------------------------------------------------------------
(* Images.  A solver's image is looked up, and built when it is missing,   *)
(* under no lock; sessions take the lock of the base image, then that of   *)
(* the environment's.                                                      *)

Begin(t) ==
  /\ at[t] = "begin" /\ cast[t].place \in {"container", "session", "host"}
  /\ Go(t, CASE cast[t].place = "container" -> "resolve"
             [] cast[t].place = "session"   -> "lock base"
             [] cast[t].place = "host"      -> "exec")
  /\ UNCHANGED <<cast, images, holder, builds, box, running, ran, ret,
                 faults, sweeps>>

ResolveImage(t) ==
  /\ at[t] = "resolve"
  /\ Go(t, IF cast[t].env \in images THEN "create" ELSE "build")
  /\ UNCHANGED <<cast, images, holder, builds, box, running, ran, ret,
                 faults, sweeps>>

\* The harness builds the environment's image, and the base it stands on.
BuildImage(t) ==
  /\ at[t] = "build"
  /\ images' = images \cup {BaseKey, cast[t].env}
  /\ builds' = [builds EXCEPT ![cast[t].env] = @ + 1]
  /\ Go(t, "create")
  /\ UNCHANGED <<cast, holder, box, running, ran, ret, faults, sweeps>>

KeyAt(t) == IF at[t] \in {"lock base", "in base"} THEN BaseKey
                                                  ELSE cast[t].env

\* MUTANT of LockImage: the lock is not waited for.
LockImageAnyway(t) ==
  /\ at[t] \in {"lock base", "lock env"}
  /\ holder' = [holder EXCEPT ![KeyAt(t)] = t]
  /\ Go(t, IF at[t] = "lock base" THEN "in base" ELSE "in env")
  /\ UNCHANGED <<cast, images, builds, box, running, ran, ret, faults, sweeps>>

LockImage(t) ==
  /\ at[t] \in {"lock base", "lock env"}
  /\ holder[KeyAt(t)] = NoThread
  /\ holder' = [holder EXCEPT ![KeyAt(t)] = t]
  /\ Go(t, IF at[t] = "lock base" THEN "in base" ELSE "in env")
  /\ UNCHANGED <<cast, images, builds, box, running, ran, ret, faults, sweeps>>

Unlock(t, l) == /\ holder' = [holder EXCEPT ![KeyAt(t)] = NoThread]
                /\ Go(t, l)

NextAfter(t) == IF at[t] \in {"in base", "building base"} THEN "lock env"
                                                          ELSE "create"

UseImage(t) ==
  /\ at[t] \in {"in base", "in env"} /\ KeyAt(t) \in images
  /\ Unlock(t, NextAfter(t))
  /\ UNCHANGED <<cast, images, builds, box, running, ran, ret, faults, sweeps>>

StartBuild(t) ==
  /\ at[t] \in {"in base", "in env"} /\ KeyAt(t) \notin images
  /\ Go(t, IF at[t] = "in base" THEN "building base" ELSE "building env")
  /\ UNCHANGED <<cast, images, holder, builds, box, running, ran, ret,
                 faults, sweeps>>

Building(t) == IF at[t] = "building base" THEN BaseKey ELSE cast[t].env

FinishBuild(t) ==
  /\ at[t] \in {"building base", "building env"}
  /\ images' = images \cup {Building(t)}
  /\ builds' = [builds EXCEPT ![Building(t)] = @ + 1]
  /\ holder' = [holder EXCEPT ![Building(t)] = NoThread]
  /\ Go(t, NextAfter(t))
  /\ UNCHANGED <<cast, box, running, ran, ret, faults, sweeps>>

\* MUTANT of FailBuild: the lock is not left.
FailBuildHolding(t) ==
  /\ at[t] \in {"building base", "building env", "build"}
  /\ Fault
  /\ Fail(t, "exception")
  /\ UNCHANGED <<cast, images, holder, builds, box, running, ran, sweeps>>

\* The lock is left when the build raises.
FailBuild(t) ==
  /\ at[t] \in {"building base", "building env", "build"}
  /\ Fault
  /\ holder' = [k \in DOMAIN holder |->
                  IF holder[k] = t THEN NoThread ELSE holder[k]]
  /\ Fail(t, "exception")
  /\ UNCHANGED <<cast, images, builds, box, running, ran, sweeps>>

-----------------------------------------------------------------------------
\* A container of that name, left from before, goes; a new one is started.
CreateBox(t) ==
  /\ at[t] = "create"
  /\ box' = [box EXCEPT ![t] = "running"]
  /\ Go(t, IF cast[t].place = "container" THEN "ensure" ELSE "setup")
  /\ UNCHANGED <<cast, images, holder, builds, running, ran, ret,
                 faults, sweeps>>

\* It is not created, or it is and does not start.
CreateFails(t) ==
  /\ at[t] \in {"create", "refit"} /\ Fault
  /\ \E b \in {"none", "created"} : box' = [box EXCEPT ![t] = b]
  /\ Fail(t, "exception")
  /\ UNCHANGED <<cast, images, holder, builds, running, ran, sweeps>>

\* The solver's command must be in the image.
EnsureCommand(t) ==
  /\ at[t] \in {"ensure", "ensure fitted"} /\ box[t] = "running"
  /\ Go(t, "setup")
  /\ UNCHANGED <<cast, images, holder, builds, box, running, ran, ret,
                 faults, sweeps>>

\* A host installation is mounted into a second container, in the place of
\* the first; with none, or with one that lacks the command too, it is over.
CommandMissing(t) ==
  /\ at[t] \in {"ensure", "ensure fitted"} /\ Fault
  /\ IF at[t] = "ensure" /\ cast[t].adapter \in Fallback
     THEN /\ Go(t, "refit") /\ box' = [box EXCEPT ![t] = "none"]
          /\ UNCHANGED ret
     ELSE Fail(t, "container error") /\ UNCHANGED box
  /\ UNCHANGED <<cast, images, holder, builds, running, ran, sweeps>>

Refit(t) ==
  /\ at[t] = "refit"
  /\ box' = [box EXCEPT ![t] = "running"] /\ Go(t, "ensure fitted")
  /\ UNCHANGED <<cast, images, holder, builds, running, ran, ret,
                 faults, sweeps>>

SetUp(t) ==
  /\ at[t] = "setup" /\ box[t] = "running"
  /\ Go(t, "exec")
  /\ UNCHANGED <<cast, images, holder, builds, box, running, ran, ret,
                 faults, sweeps>>

\* The repository's setup commands fail, or are at it for ten minutes: in
\* that case they go on until their container does.
SetUpFails(t) ==
  /\ at[t] = "setup" /\ Fault
  /\ \E left \in {{}, {0}} :
       /\ left # {} => box[t] = "running"
       /\ running' = [running EXCEPT ![t] = left]
  /\ Fail(t, "container error")
  /\ UNCHANGED <<cast, images, holder, builds, box, ran, sweeps>>

-----------------------------------------------------------------------------
(* Commands.  The docker call is made by a thread of its own, which is     *)
(* waited for until the deadline.  Past it the command is sent signals,    *)
(* which may not reach it: the pid is the host's, the kill runs inside.    *)

StartCommand(t) ==
  /\ at[t] = "exec"
  /\ Contained(t) => box[t] = "running"
  /\ ran' = [ran EXCEPT ![t] = @ + 1]
  /\ running' = [running EXCEPT ![t] = @ \cup {ran'[t]}]
  /\ Go(t, "waiting")
  /\ UNCHANGED <<cast, images, holder, builds, box, ret, faults, sweeps>>

\* The container went between two steps, or docker did not take the call.
CallFails(t) ==
  /\ \/ at[t] \in {"ensure", "ensure fitted", "setup", "exec"}
        /\ box[t] = "none" /\ Contained(t) /\ UNCHANGED faults
     \/ at[t] = "exec" /\ Fault
  /\ Fail(t, IF \/ at[t] = "ensure fitted"
                \/ at[t] = "ensure" /\ cast[t].adapter \notin Fallback
             THEN "container error" ELSE "exception")
  /\ UNCHANGED <<cast, images, holder, builds, box, running, ran, sweeps>>

\* The command has ended; its output lies in files both sides see.
CommandEnds(t, ok) ==
  /\ at[t] = "waiting"
  /\ ok => ran[t] \in running[t]
  /\ running' = [running EXCEPT ![t] = @ \ {ran[t]}]
  /\ ret' = [ret EXCEPT ![t] = Returned(FALSE, ok)]
  /\ Go(t, "read")
  /\ UNCHANGED <<cast, images, holder, builds, box, ran, faults, sweeps>>

\* Past the deadline: on the host the process group is killed, in a
\* container the signals may miss.
Deadline(t) ==
  /\ at[t] = "waiting" /\ ran[t] \in running[t]
  /\ \E left \in {running[t], running[t] \ {ran[t]}} :
       /\ ~Contained(t) => ran[t] \notin left
       /\ running' = [running EXCEPT ![t] = left]
  /\ ret' = [ret EXCEPT ![t] = Returned(TRUE, FALSE)]
  /\ Go(t, "read")
  /\ UNCHANGED <<cast, images, holder, builds, box, ran, faults, sweeps>>

\* The files are read.  A session may go on to its next command.
ReadOutput(t) ==
  /\ at[t] = "read"
  /\ IF cast[t].place = "session" /\ ran[t] < Commands
     THEN \E l \in {"exec", "cleanup"} : Go(t, l)
     ELSE Go(t, IF Contained(t) THEN "cleanup" ELSE "returned")
  /\ UNCHANGED <<cast, images, holder, builds, box, running, ran, ret,
                 faults, sweeps>>

\* MUTANT of CleanUp: the container stays when the call raised.
CleanUpReturned(t) ==
  /\ at[t] = "cleanup"
  /\ IF ret[t].kind = "result"
     THEN /\ box' = [box EXCEPT ![t] = "none"]
          /\ running' = [running EXCEPT ![t] = {}]
     ELSE UNCHANGED <<box, running>>
  /\ Go(t, "returned")
  /\ UNCHANGED <<cast, images, holder, builds, ran, ret, faults, sweeps>>

\* The finally clause: the container is stopped and removed, and what runs
\* in it ends.
CleanUp(t) ==
  /\ at[t] = "cleanup"
  /\ box' = [box EXCEPT ![t] = "none"]
  /\ running' = [running EXCEPT ![t] = {}]
  /\ Go(t, "returned")
  /\ UNCHANGED <<cast, images, holder, builds, ran, ret, faults, sweeps>>

\* repogauge cleanup, from another terminal.  It stops at the first error.
Sweep(T) ==
  /\ sweeps < MaxSweeps /\ sweeps' = sweeps + 1
  /\ T # {} /\ \A t \in T : box[t] # "none"
  /\ box' = [t \in Threads |-> IF t \in T THEN "none" ELSE box[t]]
  /\ running' = [t \in Threads |-> IF t \in T THEN {} ELSE running[t]]
  /\ UNCHANGED <<cast, at, images, holder, builds, ran, ret, faults>>

ExecStep(t) ==
  \/ Begin(t) \/ ResolveImage(t) \/ BuildImage(t) \/ LockImage(t)
  \/ UseImage(t) \/ StartBuild(t) \/ FinishBuild(t) \/ FailBuild(t)
  \/ CreateBox(t) \/ CreateFails(t) \/ EnsureCommand(t) \/ CommandMissing(t)
  \/ Refit(t) \/ SetUp(t) \/ SetUpFails(t) \/ StartCommand(t) \/ CallFails(t)
  \/ \E ok \in BOOLEAN : CommandEnds(t, ok)
  \/ Deadline(t) \/ ReadOutput(t) \/ CleanUp(t)

-----------------------------------------------------------------------------
\* Sessions build an image one at a time, and never an image that is there:
\* of the threads of a run that find it missing, one builds it.
ImageBuiltOnce ==
  /\ \A t, u \in {w \in Threads : at[w] \in {"building base", "building env"}} :
       Building(t) = Building(u) => t = u
  /\ (\A t \in Threads : cast[t].place # "container") =>
       \A k \in DOMAIN builds : builds[k] <= 1

\* No container, and no command in one, is left when the call that started
\* it is over, however it ended - nor a process on the host.
NothingRunsOn ==
  \A t \in Threads :
    at[t] \in {"returned", "done"} => box[t] = "none" /\ running[t] = {}
=============================================================================
