----------------------------- MODULE RateLimiter -----------------------------
(***************************************************************************)
(* repogauge/runner/scheduler.py, _SimpleRateLimiter: the sliding window   *)
(* of time stamps that every attempt on a throttled provider goes through. *)
(* A caller that finds the window full drops the oldest stamp, leaves the  *)
(* lock, sleeps until that stamp would have expired and tries again.       *)
(*                                                                         *)
(* Time is a counter of ticks; a caller reads the clock before it takes    *)
(* the lock, so its reading may be old when it is used.                    *)
(***************************************************************************)
EXTENDS Integers, Sequences, FiniteSets, FiniteSetsExt

CONSTANTS
  NumCalls,     \* calls of acquire(), one per attempt, numbered as they arrive
  Parallelisms, \* values of max_parallel_jobs to consider
  PerMinute,    \* calls_per_minute (0 or less: not throttled)
  Window,       \* window_seconds, in ticks
  MaxTime       \* bound: the clock stops there

Calls == 1 .. NumCalls

ASSUME LimiterAssumption ==
  /\ NumCalls \in Nat
  /\ Parallelisms \subseteq Nat \ {0}
  /\ PerMinute \in Int
  /\ Window \in Nat \ {0}
  /\ MaxTime \in Nat

VARIABLES
  threads,     \* max_parallel_jobs: as many calls are under way at once
  clock,       \* time.monotonic()
  stamps,      \* timestamps, oldest first
  pc,          \* pc[c]: where call c is
  now,         \* now[c]: the clock as c read it
  wake,        \* wake[c]: when c's sleep ends
  granted      \* history: the clock readings acquire() returned on

vars == <<threads, clock, stamps, pc, now, wake, granted>>

PcStates == {"planned", "loop", "lock", "asleep", "returned"}

Init ==
  /\ threads \in Parallelisms
  /\ clock = 0 /\ stamps = <<>> /\ granted = <<>>
  /\ pc = [c \in Calls |-> "planned"]
  /\ now = [c \in Calls |-> 0]
  /\ wake = [c \in Calls |-> 0]

Goto(c, s) == pc' = [pc EXCEPT ![c] = s]

Enter(c) ==
  /\ pc[c] = "planned" /\ \A d \in Calls : d < c => pc[d] # "planned"
  /\ Cardinality({d \in Calls : pc[d] \in {"loop", "lock", "asleep"}}) < threads
  /\ Goto(c, IF PerMinute <= 0 THEN "returned" ELSE "loop")
  /\ UNCHANGED <<threads, clock, stamps, now, wake, granted>>

ReadClock(c) ==
  /\ pc[c] = "loop"
  /\ now' = [now EXCEPT ![c] = clock]
  /\ Goto(c, "lock")
  /\ UNCHANGED <<threads, clock, stamps, wake, granted>>

\* What is left of the stamps when the expired ones are taken off the front.
Unexpired(t) ==
  LET live == {i \in DOMAIN stamps : t - stamps[i] <= Window}
  IN  IF live = {} THEN <<>> ELSE SubSeq(stamps, Min(live), Len(stamps))

\* Mutant: one slot is not used.
GrantOneLess(c) ==
  LET live == Unexpired(now[c]) IN
  /\ pc[c] = "lock"
  /\ Len(live) < PerMinute - 1
  /\ stamps' = Append(live, now[c])
  /\ granted' = Append(granted, now[c])
  /\ Goto(c, "returned")
  /\ UNCHANGED <<threads, clock, now, wake>>

\* Under the lock: a free slot is taken and the call returns.
Grant(c) ==
  LET live == Unexpired(now[c]) IN
  /\ pc[c] = "lock"
  /\ Len(live) < PerMinute
  /\ stamps' = Append(live, now[c])
  /\ granted' = Append(granted, now[c])
  /\ Goto(c, "returned")
  /\ UNCHANGED <<threads, clock, now, wake>>

\* Mutant: the sleep lasts as long as the oldest stamp has existed.
RefuseByAge(c) ==
  LET live == Unexpired(now[c]) IN
  /\ pc[c] = "lock"
  /\ Len(live) >= PerMinute
  /\ stamps' = Tail(live)
  /\ wake' = [wake EXCEPT ![c] = clock + now[c] - Head(live)]
  /\ Goto(c, "asleep")
  /\ UNCHANGED <<threads, clock, now, granted>>

\* Under the lock: no slot.  The oldest stamp is dropped although it has not
\* expired; the sleep follows, outside the lock.
Refuse(c) ==
  LET live == Unexpired(now[c]) IN
  /\ pc[c] = "lock"
  /\ Len(live) >= PerMinute
  /\ stamps' = Tail(live)
  /\ wake' = [wake EXCEPT ![c] = clock + Window - (now[c] - Head(live))]
  /\ Goto(c, "asleep")
  /\ UNCHANGED <<threads, clock, now, granted>>

\* The bound stops the clock, not the sleepers.
Wake(c) ==
  /\ pc[c] = "asleep"
  /\ clock >= wake[c] \/ clock = MaxTime
  /\ Goto(c, "loop")
  /\ UNCHANGED <<threads, clock, stamps, now, wake, granted>>

Tick ==
  /\ clock < MaxTime
  /\ clock' = clock + 1
  /\ UNCHANGED <<threads, stamps, pc, now, wake, granted>>

Call(c) == Enter(c) \/ ReadClock(c) \/ Grant(c) \/ Refuse(c) \/ Wake(c)

Next == Tick \/ \E c \in Calls : Call(c)

Spec == Init /\ [][Next]_vars

\* Time passes, and a thread that can go on goes on.
FairSpec == Spec /\ WF_vars(Tick) /\ \A c \in Calls : WF_vars(Call(c))

-----------------------------------------------------------------------------
TypeOK ==
  /\ threads \in Parallelisms
  /\ clock \in 0 .. MaxTime
  /\ stamps \in Seq(0 .. MaxTime) /\ granted \in Seq(0 .. MaxTime)
  /\ pc \in [Calls -> PcStates]
  /\ now \in [Calls -> 0 .. MaxTime]
  /\ wake \in [Calls -> Nat]

GrantsIn(t) == Cardinality({i \in DOMAIN granted : granted[i] \in t .. t + Window - 1})

(***************************************************************************)
(* What the configuration says of provider_rate_limit_per_minute: "Maximum *)
(* attempts per minute per provider_id."  No window of a minute holds more *)
(* grants than the limit.  With two threads it does not hold: the one that *)
(* is refused drops the oldest stamp and sleeps until it would have        *)
(* expired, and the other one takes the slot meanwhile.                    *)
(* (Windows that reach the bound MaxTime are not counted: sleeps end there *)
(* early.)                                                                 *)
(***************************************************************************)
RateLimitRespected ==
  PerMinute > 0 => \A t \in 0 .. MaxTime - Window : GrantsIn(t) <= PerMinute

(***************************************************************************)
(* What does hold.  A thread that dropped a stamp sleeps for as long as    *)
(* that stamp would have counted, so each other thread can get one grant   *)
(* too many, and one more if it comes to the lock with an old reading of   *)
(* the clock: no window holds more grants than the limit plus the number   *)
(* of threads, and a thread on its own keeps to the limit.                 *)
(***************************************************************************)
Excess == IF threads = 1 THEN 0 ELSE threads
OverrunBounded ==
  PerMinute > 0 => \A t \in 0 .. MaxTime - Window :
                     GrantsIn(t) <= PerMinute + Excess

(***************************************************************************)
(* A throttled call is delayed, never starved: every call returns.         *)
(***************************************************************************)
EveryCallReturns == \A c \in Calls : <>(pc[c] = "returned")
=============================================================================
