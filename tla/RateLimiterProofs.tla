-------------------------- MODULE RateLimiterProofs --------------------------
(***************************************************************************)
(* By how much the sliding window can be overrun, for any number of calls  *)
(* and threads, any limit and any length of the window: OverrunBounded.    *)
(*                                                                         *)
(* Until the clock leaves a window, a stamp of a grant in it is dropped    *)
(* only by a thread that is refused, which then sleeps past the window; so *)
(* the grants are at most the stamps that are left and these sleepers.     *)
(* Afterwards, only threads that still hold a reading of the clock from    *)
(* the window can be granted in it, once each.                             *)
(***************************************************************************)
EXTENDS RateLimiter, FiniteSetTheorems, WellFoundedInduction, TLAPS

InWindow(t)   == t .. t + Window - 1
CountIn(s, t) == Cardinality({i \in DOMAIN s : s[i] \in InWindow(t)})

Busy        == {c \in Calls : pc[c] \in {"loop", "lock", "asleep"}}
Sleepers(t) == {c \in Calls : pc[c] = "asleep" /\ wake[c] >= t + Window}
Late(t)     == {c \in Calls : pc[c] = "lock" /\ now[c] \in InWindow(t)}

\* A reading of the clock is not ahead of it.
TypeInv == TypeOK /\ \A c \in Calls : now[c] <= clock

SizeInv ==
  /\ Len(stamps) <= PerMinute
  /\ Cardinality(Busy) <= threads
  /\ threads = 1 /\ (\E c \in Calls : pc[c] = "asleep") => Len(stamps) < PerMinute

\* The window from t on, while the clock is in it or before it, and after it.
Before(t) ==
  clock < t + Window => CountIn(granted, t) <= CountIn(stamps, t) + Cardinality(Sleepers(t))
After(t) ==
  clock >= t + Window =>
    /\ CountIn(granted, t) + Cardinality(Late(t)) <= PerMinute + threads
    /\ threads = 1 =>
         /\ CountIn(granted, t) <= PerMinute
         /\ Late(t) # {} => CountIn(granted, t) <= CountIn(stamps, t)

WindowInv == \A t \in 0 .. MaxTime - Window : Before(t) /\ After(t)

LimitInv == PerMinute > 0 => TypeInv /\ SizeInv /\ WindowInv

-----------------------------------------------------------------------------
(* Counting the elements of a sequence that lie in a window.               *)

LEMMA CountType ==
  ASSUME NEW s \in Seq(Nat), NEW t \in Nat
  PROVE  /\ IsFiniteSet({i \in DOMAIN s : s[i] \in InWindow(t)})
         /\ CountIn(s, t) \in Nat /\ CountIn(s, t) <= Len(s)
<1> DEFINE D == DOMAIN s
           I == {i \in D : s[i] \in InWindow(t)}
<1>1. D = 1 .. Len(s) /\ Len(s) \in Nat
  OBVIOUS
<1>2. IsFiniteSet(D) /\ Cardinality(D) = Len(s)
  <2> DEFINE n == Len(s)
  <2>1. D = 1 .. n /\ n \in Nat /\ 1 \in Int
    BY <1>1
  <2> HIDE DEF D, n
  <2>2. IsFiniteSet(1 .. n) /\ Cardinality(1 .. n) = IF 1 > n THEN 0 ELSE n - 1 + 1
    BY <2>1, FS_Interval
  <2>3. (IF 1 > n THEN 0 ELSE n - 1 + 1) = n
    BY <2>1
  <2> QED BY <2>1, <2>2, <2>3 DEF n
<1>3. I \in SUBSET D
  OBVIOUS
<1> HIDE DEF D, I
<1>4. IsFiniteSet(I) /\ Cardinality(I) <= Len(s)
  BY <1>2, <1>3, FS_Subset
<1>5. Cardinality(I) \in Nat
  BY <1>4, FS_CardinalityType
<1> QED BY <1>4, <1>5 DEF CountIn, D, I

LEMMA CountEmpty == \A t \in Nat : CountIn(<<>>, t) = 0
<1> SUFFICES ASSUME NEW t \in Nat PROVE CountIn(<<>>, t) = 0
  OBVIOUS
<1>1. {i \in DOMAIN <<>> : <<>>[i] \in InWindow(t)} = {}
  OBVIOUS
<1> QED BY <1>1, FS_EmptySet DEF CountIn

LEMMA CountAppend ==
  ASSUME NEW s \in Seq(Nat), NEW t \in Nat, NEW v \in Nat
  PROVE  CountIn(Append(s, v), t) = CountIn(s, t) + (IF v \in InWindow(t) THEN 1 ELSE 0)
<1> DEFINE I == {i \in DOMAIN s : s[i] \in InWindow(t)}
           a == Append(s, v)
           A == {i \in DOMAIN a : a[i] \in InWindow(t)}
           n == Len(s) + 1
<1>1. /\ DOMAIN s = 1 .. Len(s) /\ Len(s) \in Nat /\ DOMAIN a = 1 .. n
      /\ \A i \in 1 .. Len(s) : a[i] = s[i]
      /\ a[n] = v
  OBVIOUS
<1>2. A = IF v \in InWindow(t) THEN I \cup {n} ELSE I
  <2> HIDE DEF a
  <2> QED BY <1>1
<1>3. n \notin I
  BY <1>1
<1>4. IsFiniteSet(I)
  BY CountType
<1> HIDE DEF I, A, n
<1>5. Cardinality(I \cup {n}) = Cardinality(I) + 1
  BY <1>3, <1>4, FS_AddElement
<1>6. Cardinality(I) \in Nat
  BY <1>4, FS_CardinalityType
<1>7. CountIn(s, t) = Cardinality(I) /\ CountIn(a, t) = Cardinality(A)
  BY DEF CountIn, I, A
<1> HIDE DEF a
<1>8. CountIn(a, t) = CountIn(s, t) + (IF v \in InWindow(t) THEN 1 ELSE 0)
  BY <1>2, <1>5, <1>6, <1>7
<1> QED BY <1>8 DEF a

\* What is counted in a sequence is counted in what is left of it from k on,
\* or lies before k.
LEMMA CountCut ==
  ASSUME NEW s \in Seq(Nat), NEW t \in Nat, NEW k \in Nat \ {0}, k <= Len(s) + 1
  PROVE  CountIn(SubSeq(s, k, Len(s)), t) = Cardinality({i \in k .. Len(s) : s[i] \in InWindow(t)})
<1> DEFINE c == SubSeq(s, k, Len(s))
           C == {i \in DOMAIN c : c[i] \in InWindow(t)}
           I == {i \in k .. Len(s) : s[i] \in InWindow(t)}
           f == [i \in C |-> i + k - 1]
<1>1. /\ Len(s) \in Nat
      /\ DOMAIN c = 1 .. Len(s) - k + 1
      /\ \A i \in DOMAIN c : c[i] = s[i + k - 1]
  OBVIOUS
<1>2. c \in Seq(Nat)
  OBVIOUS
<1>3. IsFiniteSet(C)
  BY <1>2, CountType
<1>4. f \in [C -> I] /\ \A x, y \in C : f[x] = f[y] => x = y
  <2>1. ASSUME NEW i \in C PROVE i \in Int /\ i + k - 1 \in I
    <3> HIDE DEF c
    <3>1. i \in 1 .. Len(s) - k + 1 /\ s[i + k - 1] \in InWindow(t)
      BY <1>1
    <3>2. i + k - 1 \in k .. Len(s)
      BY <1>1, <3>1
    <3> QED BY <3>1, <3>2
  <2> HIDE DEF C, I
  <2>2. f \in [C -> I]
    BY <2>1
  <2>3. \A x, y \in C : f[x] = f[y] => x = y
    BY <2>1
  <2> QED BY <2>2, <2>3
<1>5. \A i \in I : \E x \in C : f[x] = i
  <2> SUFFICES ASSUME NEW i \in I PROVE \E x \in C : f[x] = i
    OBVIOUS
  <2> HIDE DEF c
  <2>1. i - k + 1 \in DOMAIN c /\ (i - k + 1) + k - 1 = i
    BY <1>1
  <2>2. i - k + 1 \in C
    BY <1>1, <2>1
  <2> QED BY <2>1, <2>2
<1> HIDE DEF c, C, I, f
<1>6. f \in Bijection(C, I)
  BY <1>4, <1>5 DEF Bijection, Injection, Surjection, IsInjective
<1>7. Cardinality(C) = Cardinality(I)
  BY <1>3, <1>6, FS_Bijection DEF ExistsBijection
<1> QED BY <1>7 DEF CountIn, C, I, c

LEMMA CountTail ==
  ASSUME NEW s \in Seq(Nat), s # <<>>, NEW t \in Nat
  PROVE  CountIn(s, t) = CountIn(Tail(s), t) + (IF Head(s) \in InWindow(t) THEN 1 ELSE 0)
<1> DEFINE I == {i \in DOMAIN s : s[i] \in InWindow(t)}
           T == {i \in 2 .. Len(s) : s[i] \in InWindow(t)}
<1>1. Len(s) \in Nat \ {0} /\ DOMAIN s = 1 .. Len(s) /\ Head(s) = s[1] /\ Tail(s) = SubSeq(s, 2, Len(s))
  OBVIOUS
<1>2. CountIn(Tail(s), t) = Cardinality(T)
  <2>1. 2 \in Nat \ {0} /\ 2 <= Len(s) + 1
    BY <1>1
  <2> QED BY <1>1, <2>1, CountCut
<1>3. T = I \ {1} /\ (1 \in I <=> Head(s) \in InWindow(t))
  BY <1>1
<1>4. IsFiniteSet(I)
  BY CountType
<1> HIDE DEF I, T
<1>5. Cardinality(I \ {1}) = IF 1 \in I THEN Cardinality(I) - 1 ELSE Cardinality(I)
  BY <1>4, FS_RemoveElement
<1>6. Cardinality(I) \in Nat
  BY <1>4, FS_CardinalityType
<1>7. CountIn(s, t) = Cardinality(I)
  BY DEF CountIn, I
<1> QED BY <1>2, <1>3, <1>5, <1>6, <1>7

-----------------------------------------------------------------------------
(* What is left when the expired stamps are taken off.                     *)

LEMMA LeastOf ==
  ASSUME NEW S \in SUBSET Nat, S # {}
  PROVE  Min(S) \in S /\ \A i \in S : Min(S) <= i
<1>1. PICK m \in S : \A i \in S : ~(<<i, m>> \in OpToRel(<, Nat))
  BY WFMin, NatLessThanWellFounded
<1>2. \A i \in S : m <= i
  <2> SUFFICES ASSUME NEW i \in S PROVE m <= i
    OBVIOUS
  <2>1. ~(i < m)
    BY <1>1 DEF OpToRel
  <2> QED BY <2>1
<1> QED BY <1>2 DEF Min

LEMMA StampTypes ==
  ASSUME TypeOK
  PROVE  stamps \in Seq(Nat) /\ granted \in Seq(Nat)
BY LimiterAssumption DEF TypeOK

\* No stamp of a window is taken off by a reading from before its end.
LEMMA UnexpiredIs ==
  ASSUME TypeOK, NEW u \in 0 .. MaxTime
  PROVE  /\ Unexpired(u) \in Seq(0 .. MaxTime) /\ Unexpired(u) \in Seq(Nat)
         /\ Len(Unexpired(u)) <= Len(stamps)
         /\ Unexpired(u) # <<>> =>
              Head(Unexpired(u)) \in 0 .. MaxTime /\ u - Head(Unexpired(u)) <= Window
         /\ \A t \in Nat : u < t + Window => CountIn(Unexpired(u), t) = CountIn(stamps, t)
<1> USE LimiterAssumption
<1> DEFINE live == {i \in DOMAIN stamps : u - stamps[i] <= Window}
<1>1. /\ stamps \in Seq(0 .. MaxTime) /\ stamps \in Seq(Nat)
      /\ DOMAIN stamps = 1 .. Len(stamps) /\ Len(stamps) \in Nat
      /\ \A i \in 1 .. Len(stamps) : stamps[i] \in 0 .. MaxTime
  BY DEF TypeOK
<1>2. \A t \in Nat : \A i \in DOMAIN stamps :
        u < t + Window /\ stamps[i] \in InWindow(t) => i \in live
  BY <1>1 DEF InWindow
<1>3. CASE live = {}
  <2>1. Unexpired(u) = <<>>
    BY <1>3 DEF Unexpired
  <2>2. \A t \in Nat : u < t + Window => CountIn(stamps, t) = 0
    <3> SUFFICES ASSUME NEW t \in Nat, u < t + Window PROVE CountIn(stamps, t) = 0
      OBVIOUS
    <3>1. {i \in DOMAIN stamps : stamps[i] \in InWindow(t)} = {}
      BY <1>2, <1>3
    <3> QED BY <3>1, FS_EmptySet DEF CountIn
  <2>3. Len(Unexpired(u)) <= Len(stamps)
    BY <2>1, <1>1
  <2> QED BY <2>1, <2>2, <2>3, CountEmpty
<1>4. CASE live # {}
  <2> DEFINE k == Min(live)
  <2>1. k \in live /\ \A i \in live : k <= i
    <3>1. live \in SUBSET Nat
      BY <1>1
    <3> HIDE DEF live
    <3> QED BY <1>4, <3>1, LeastOf
  <2>2. Unexpired(u) = SubSeq(stamps, k, Len(stamps))
    BY <1>4 DEF Unexpired
  <2>3. k \in 1 .. Len(stamps) /\ u - stamps[k] <= Window
    BY <2>1, <1>1
  <2> HIDE DEF k
  <2>4. /\ Unexpired(u) \in Seq(0 .. MaxTime) /\ Unexpired(u) \in Seq(Nat)
        /\ Len(Unexpired(u)) <= Len(stamps)
        /\ Head(Unexpired(u)) = stamps[k]
    <3>1. SubSeq(stamps, k, Len(stamps)) \in Seq(0 .. MaxTime)
      BY <1>1, <2>3
    <3>2. SubSeq(stamps, k, Len(stamps)) \in Seq(Nat)
      BY <1>1, <2>3
    <3>3. Len(SubSeq(stamps, k, Len(stamps))) <= Len(stamps)
      BY <1>1, <2>3
    <3>4. Head(SubSeq(stamps, k, Len(stamps))) = stamps[k]
      BY <1>1, <2>3
    <3> QED BY <2>2, <3>1, <3>2, <3>3, <3>4
  <2>5. ASSUME NEW t \in Nat, u < t + Window
        PROVE  CountIn(Unexpired(u), t) = CountIn(stamps, t)
    <3>1. CountIn(Unexpired(u), t) =
            Cardinality({i \in k .. Len(stamps) : stamps[i] \in InWindow(t)})
      <4>1. k \in Nat \ {0} /\ k <= Len(stamps) + 1
        BY <1>1, <2>3
      <4> QED BY <1>1, <2>2, <4>1, CountCut
    <3>2. {i \in k .. Len(stamps) : stamps[i] \in InWindow(t)}
            = {i \in DOMAIN stamps : stamps[i] \in InWindow(t)}
      <4> HIDE DEF live
      <4> QED BY <1>1, <1>2, <2>1, <2>3, <2>5
    <3> QED BY <3>1, <3>2 DEF CountIn
  <2> QED BY <1>1, <2>3, <2>4, <2>5
<1> QED BY <1>3, <1>4

-----------------------------------------------------------------------------
(* Types, the threads under way and the number of stamps.                  *)

LEMMA Init_Types == Init => TypeInv
BY LimiterAssumption DEF Init, TypeInv, TypeOK, PcStates

LEMMA Types == PerMinute > 0 /\ TypeInv /\ [Next]_vars => TypeInv'
<1> SUFFICES ASSUME PerMinute > 0, TypeInv, [Next]_vars PROVE TypeInv'
  OBVIOUS
<1> USE LimiterAssumption DEF TypeInv, TypeOK, PcStates, Goto
<1>1. CASE UNCHANGED vars
  BY <1>1 DEF vars
<1>2. CASE Tick
  BY <1>2 DEF Tick
<1>3. ASSUME NEW c \in Calls, Enter(c) PROVE TypeInv'
  BY <1>3 DEF Enter
<1>4. ASSUME NEW c \in Calls, ReadClock(c) PROVE TypeInv'
  BY <1>4 DEF ReadClock
<1>5. ASSUME NEW c \in Calls, Wake(c) PROVE TypeInv'
  BY <1>5 DEF Wake
<1>6. ASSUME NEW c \in Calls, Grant(c) PROVE TypeInv'
  <2>1. now[c] \in 0 .. MaxTime /\ granted \in Seq(0 .. MaxTime)
    OBVIOUS
  <2>2. Unexpired(now[c]) \in Seq(0 .. MaxTime)
    BY <2>1, UnexpiredIs
  <2>3. stamps' \in Seq(0 .. MaxTime) /\ granted' \in Seq(0 .. MaxTime)
    BY <1>6, <2>1, <2>2 DEF Grant
  <2> QED BY <1>6, <2>3 DEF Grant
<1>7. ASSUME NEW c \in Calls, Refuse(c) PROVE TypeInv'
  <2>1. now[c] \in 0 .. MaxTime /\ now[c] <= clock /\ clock \in 0 .. MaxTime
    OBVIOUS
  <2>2. PICK live \in Seq(0 .. MaxTime) :
          /\ live = Unexpired(now[c])
          /\ live # <<>> => Head(live) \in 0 .. MaxTime /\ now[c] - Head(live) <= Window
    BY <2>1, UnexpiredIs
  <2>3. live # <<>>
    BY <1>7, <2>2 DEF Refuse
  <2>4. Tail(live) \in Seq(0 .. MaxTime) /\ clock + Window - (now[c] - Head(live)) \in Nat
    <3>1. Tail(live) \in Seq(0 .. MaxTime)
      BY <2>3
    <3> DEFINE h == Head(live)  n == now[c]
    <3>2. h \in Int /\ n \in Int /\ n - h <= Window /\ clock \in Nat /\ Window \in Nat
      BY <2>1, <2>2, <2>3
    <3> HIDE DEF h, n
    <3>3. clock + Window - (n - h) \in Nat
      BY <3>2
    <3> QED BY <3>1, <3>3 DEF h, n
  <2>5. stamps' = Tail(live)
    BY <1>7, <2>2 DEF Refuse
  <2>6. wake' = [wake EXCEPT ![c] = clock + Window - (now[c] - Head(live))]
    BY <1>7, <2>2 DEF Refuse
  <2>7. wake \in [Calls -> Nat]
    OBVIOUS
  <2>8. wake' \in [Calls -> Nat]
    BY <2>4, <2>6, <2>7
  <2>9. stamps' \in Seq(0 .. MaxTime)
    BY <2>4, <2>5
  <2> QED BY <1>7, <2>8, <2>9 DEF Refuse
<1> QED BY <1>1, <1>2, <1>3, <1>4, <1>5, <1>6, <1>7 DEF Next, Call

LEMMA CallsFinite ==
  ASSUME NEW S \in SUBSET Calls
  PROVE  IsFiniteSet(S) /\ Cardinality(S) \in Nat
<1>1. IsFiniteSet(Calls)
  BY LimiterAssumption, FS_Interval DEF Calls
<1>2. IsFiniteSet(S)
  BY <1>1, FS_Subset
<1> QED BY <1>2, FS_CardinalityType

\* Sleepers and latecomers are two kinds of busy threads.
LEMMA BusyKinds ==
  ASSUME NEW t
  PROVE  /\ {Busy, Sleepers(t), Late(t)} \subseteq SUBSET Calls
         /\ Cardinality(Sleepers(t)) + Cardinality(Late(t)) <= Cardinality(Busy)
<1>1. {Busy, Sleepers(t), Late(t)} \subseteq SUBSET Calls
  BY DEF Busy, Sleepers, Late
<1>2. Sleepers(t) \cup Late(t) \in SUBSET Busy /\ Sleepers(t) \cap Late(t) = {}
  BY DEF Busy, Sleepers, Late
<1>3. /\ IsFiniteSet(Busy) /\ IsFiniteSet(Sleepers(t)) /\ IsFiniteSet(Late(t))
      /\ Cardinality(Busy) \in Nat /\ Cardinality(Sleepers(t)) \in Nat /\ Cardinality(Late(t)) \in Nat
  BY <1>1, CallsFinite
<1>4. Cardinality(Sleepers(t) \cup Late(t)) <= Cardinality(Busy)
  BY <1>2, <1>3, FS_Subset
<1>5. Cardinality(Sleepers(t) \cup Late(t)) =
        Cardinality(Sleepers(t)) + Cardinality(Late(t)) - Cardinality(Sleepers(t) \cap Late(t))
  BY <1>3, FS_Union
<1>6. Cardinality(Sleepers(t) \cap Late(t)) = 0
  BY <1>2, FS_EmptySet
<1> QED BY <1>1, <1>3, <1>4, <1>5, <1>6

\* A thread on its own is the only busy one.
LEMMA Alone ==
  ASSUME SizeInv, threads = 1, NEW c \in Busy
  PROVE  Busy = {c}
<1>1. IsFiniteSet(Busy) /\ Cardinality(Busy) \in Nat
  BY CallsFinite, BusyKinds
<1>2. {c} \in SUBSET Busy /\ IsFiniteSet({c}) /\ Cardinality({c}) = 1
  BY FS_Singleton
<1>3. Cardinality(Busy) <= 1
  BY DEF SizeInv
<1>4. Cardinality({c}) <= Cardinality(Busy)
  BY <1>1, <1>2, FS_Subset
<1>5. Cardinality(Busy) = Cardinality({c})
  BY <1>1, <1>2, <1>3, <1>4
<1> QED BY <1>1, <1>2, <1>5, FS_Subset

\* A call in Busy that stays or leaves.
LEMMA BusyShrinks ==
  ASSUME SizeInv, Busy' \subseteq Busy, threads' = threads, threads \in Nat
  PROVE  Cardinality(Busy') <= threads'
<1>1. IsFiniteSet(Busy) /\ Cardinality(Busy) \in Nat
  BY CallsFinite, BusyKinds
<1>2. PICK B \in SUBSET Busy : B = Busy'
  OBVIOUS
<1>3. IsFiniteSet(B) /\ Cardinality(B) <= Cardinality(Busy)
  BY <1>1, FS_Subset
<1>4. Cardinality(B) \in Nat
  BY <1>3, FS_CardinalityType
<1> QED BY <1>1, <1>2, <1>3, <1>4 DEF SizeInv

LEMMA Init_Size == PerMinute > 0 /\ Init => SizeInv
<1> SUFFICES ASSUME PerMinute > 0, Init PROVE SizeInv
  OBVIOUS
<1>1. Busy = {}
  BY DEF Init, Busy
<1>2. Cardinality(Busy) = 0
  BY <1>1, FS_EmptySet
<1>3. stamps = <<>> /\ threads \in Nat \ {0} /\ PerMinute \in Int
  BY LimiterAssumption DEF Init
<1>4. ~\E c \in Calls : pc[c] = "asleep"
  BY DEF Init
<1> QED BY <1>2, <1>3, <1>4 DEF SizeInv

LEMMA Sizes ==
  ASSUME PerMinute > 0, TypeInv, SizeInv, [Next]_vars PROVE SizeInv'
<1> USE LimiterAssumption
<1>0. /\ threads \in Nat \ {0} /\ PerMinute \in Int
      /\ pc \in [Calls -> PcStates] /\ stamps \in Seq(Nat) /\ Len(stamps) \in Nat
      /\ \A c \in Calls : now[c] \in 0 .. MaxTime
  BY StampTypes DEF TypeInv, TypeOK
<1>1. CASE UNCHANGED vars
  BY <1>1 DEF vars, SizeInv, Busy
<1>2. CASE Tick
  BY <1>2 DEF Tick, SizeInv, Busy
<1>3. ASSUME NEW c \in Calls, Enter(c) PROVE SizeInv'
  <2>1. /\ threads' = threads /\ stamps' = stamps
        /\ \A d \in Calls : pc'[d] = IF d = c THEN "loop" ELSE pc[d]
    BY <1>0, <1>3 DEF Enter, Goto
  <2>2. Busy' = Busy \cup {c}
    BY <2>1, <1>3 DEF Busy
  <2>3. c \notin Busy /\ Cardinality(Busy) < threads
    BY <1>3 DEF Enter, Busy
  <2>4. IsFiniteSet(Busy) /\ Cardinality(Busy) \in Nat
    BY CallsFinite, BusyKinds
  <2>5. Cardinality(Busy \cup {c}) = Cardinality(Busy) + 1
    BY <2>3, <2>4, FS_AddElement
  <2>6. Cardinality(Busy') <= threads'
    BY <1>0, <2>1, <2>2, <2>3, <2>4, <2>5
  <2> QED BY <2>1, <2>6 DEF SizeInv
<1>4. ASSUME NEW c \in Calls, ReadClock(c) \/ Wake(c) PROVE SizeInv'
  <2>1. /\ threads' = threads /\ stamps' = stamps /\ pc[c] \in {"loop", "asleep"}
        /\ \A d \in Calls : d # c => pc'[d] = pc[d]
        /\ pc'[c] \in {"lock", "loop"}
    <3>1. CASE ReadClock(c)
      BY <1>0, <3>1 DEF ReadClock, Goto
    <3>2. CASE Wake(c)
      BY <1>0, <3>2 DEF Wake, Goto
    <3> QED BY <1>4, <3>1, <3>2
  <2>2. Busy' \subseteq Busy
    BY <2>1 DEF Busy
  <2>3. Cardinality(Busy') <= threads'
    BY <1>0, <2>1, <2>2, BusyShrinks
  <2> QED BY <2>1, <2>3 DEF SizeInv
<1>5. ASSUME NEW c \in Calls, Grant(c) PROVE SizeInv'
  <2>1. /\ threads' = threads /\ pc[c] = "lock"
        /\ \A d \in Calls : pc'[d] = IF d = c THEN "returned" ELSE pc[d]
    BY <1>0, <1>5 DEF Grant, Goto
  <2>2. Busy' \subseteq Busy
    BY <2>1 DEF Busy
  <2>3. Cardinality(Busy') <= threads'
    BY <1>0, <2>1, <2>2, BusyShrinks
  <2>4. PICK live \in Seq(Nat) : live = Unexpired(now[c])
    BY <1>0, UnexpiredIs DEF TypeInv
  <2>5. stamps' = Append(live, now[c]) /\ Len(live) < PerMinute
    BY <1>5, <2>4 DEF Grant
  <2>6. Len(stamps') <= PerMinute
    <3>1. Len(Append(live, now[c])) = Len(live) + 1 /\ Len(live) \in Nat
      OBVIOUS
    <3> QED BY <1>0, <2>5, <3>1
  <2>7. threads' = 1 => ~\E d \in Calls : pc'[d] = "asleep"
    <3> SUFFICES ASSUME threads = 1, NEW d \in Calls, pc'[d] = "asleep" PROVE FALSE
      BY <2>1
    <3>1. c \in Busy /\ d \in Busy /\ c # d
      BY <2>1 DEF Busy
    <3> QED BY <3>1, Alone
  <2> QED BY <2>3, <2>6, <2>7 DEF SizeInv
<1>6. ASSUME NEW c \in Calls, Refuse(c) PROVE SizeInv'
  <2>1. /\ threads' = threads /\ pc[c] = "lock"
        /\ \A d \in Calls : pc'[d] = IF d = c THEN "asleep" ELSE pc[d]
    BY <1>0, <1>6 DEF Refuse, Goto
  <2>2. Busy' \subseteq Busy
    BY <2>1 DEF Busy
  <2>3. Cardinality(Busy') <= threads'
    BY <1>0, <2>1, <2>2, BusyShrinks
  <2>4. PICK live \in Seq(Nat) : live = Unexpired(now[c]) /\ Len(live) <= Len(stamps)
    BY <1>0, UnexpiredIs DEF TypeInv
  <2>5. stamps' = Tail(live) /\ Len(live) >= PerMinute
    BY <1>6, <2>4 DEF Refuse
  <2>6. Len(stamps') < PerMinute
    <3>1. live # <<>>
      BY <1>0, <2>5
    <3>2. Len(Tail(live)) = Len(live) - 1 /\ Len(live) \in Nat
      BY <3>1
    <3> QED BY <1>0, <2>4, <2>5, <3>2 DEF SizeInv
  <2>7. Len(stamps') <= PerMinute
    <3>1. Len(stamps') \in Nat
      BY <2>5
    <3> QED BY <1>0, <2>6, <3>1
  <2> QED BY <2>3, <2>6, <2>7 DEF SizeInv
<1> QED BY <1>1, <1>2, <1>3, <1>4, <1>5, <1>6 DEF Next, Call

-----------------------------------------------------------------------------
(* The windows.                                                            *)

LEMMA Init_Windows == Init => WindowInv
<1> SUFFICES ASSUME Init, NEW t \in 0 .. MaxTime - Window PROVE Before(t) /\ After(t)
  BY DEF WindowInv
<1> USE LimiterAssumption
<1>1. CountIn(granted, t) = 0 /\ CountIn(stamps, t) = 0
  BY CountEmpty DEF Init
<1>2. Sleepers(t) = {}
  BY DEF Init, Sleepers
<1>3. Cardinality(Sleepers(t)) = 0
  BY <1>2, FS_EmptySet
<1>4. ~(clock >= t + Window)
  BY DEF Init
<1> QED BY <1>1, <1>3, <1>4 DEF Before, After

\* The numbers that a window's part of the invariant relates.
LEMMA WindowTypes ==
  ASSUME PerMinute > 0, TypeInv, SizeInv, NEW t \in 0 .. MaxTime - Window
  PROVE  /\ t \in Nat /\ Window \in Nat \ {0} /\ PerMinute \in Int /\ threads \in Nat \ {0}
         /\ clock \in 0 .. MaxTime /\ MaxTime \in Nat /\ t + Window <= MaxTime
         /\ CountIn(granted, t) \in Nat /\ CountIn(stamps, t) \in Nat
         /\ CountIn(stamps, t) <= Len(stamps) /\ Len(stamps) \in Nat /\ Len(stamps) <= PerMinute
         /\ Cardinality(Sleepers(t)) \in Nat /\ Cardinality(Late(t)) \in Nat
         /\ IsFiniteSet(Sleepers(t)) /\ IsFiniteSet(Late(t))
         /\ Cardinality(Sleepers(t)) + Cardinality(Late(t)) <= threads
         /\ Sleepers(t) = {} => Cardinality(Sleepers(t)) = 0
         /\ Late(t) # {} => Cardinality(Late(t)) > 0
         /\ threads = 1 /\ Sleepers(t) # {} => Len(stamps) < PerMinute
<1> USE LimiterAssumption DEF TypeInv, TypeOK
<1>1. /\ t \in Nat /\ Window \in Nat \ {0} /\ PerMinute \in Int /\ threads \in Nat \ {0}
      /\ clock \in 0 .. MaxTime /\ MaxTime \in Nat /\ t + Window <= MaxTime
  OBVIOUS
<1>2. stamps \in Seq(Nat) /\ granted \in Seq(Nat)
  BY StampTypes
<1>3. CountIn(stamps, t) \in Nat /\ CountIn(stamps, t) <= Len(stamps) /\ CountIn(granted, t) \in Nat
  BY <1>1, <1>2, CountType
<1>4. Len(stamps) \in Nat /\ Len(stamps) <= PerMinute
  BY <1>2 DEF SizeInv
<1>5. /\ Cardinality(Sleepers(t)) \in Nat /\ Cardinality(Late(t)) \in Nat /\ Cardinality(Busy) \in Nat
      /\ IsFiniteSet(Sleepers(t)) /\ IsFiniteSet(Late(t))
  BY BusyKinds, CallsFinite
<1>6. Cardinality(Sleepers(t)) + Cardinality(Late(t)) <= threads
  <2>1. Cardinality(Busy) <= threads
    BY DEF SizeInv
  <2> QED BY <1>1, <1>5, <2>1, BusyKinds
<1>7. /\ Sleepers(t) = {} => Cardinality(Sleepers(t)) = 0
      /\ Late(t) # {} => Cardinality(Late(t)) > 0
  <2>1. /\ Sleepers(t) = {} => Cardinality(Sleepers(t)) = 0
        /\ Cardinality(Late(t)) = 0 => Late(t) = {}
    BY <1>5, FS_EmptySet
  <2> QED BY <1>5, <2>1
<1>8. threads = 1 /\ Sleepers(t) # {} => Len(stamps) < PerMinute
  BY DEF SizeInv, Sleepers
<1> QED BY <1>1, <1>3, <1>4, <1>5, <1>6, <1>7, <1>8

LEMMA WindowOnTick ==
  ASSUME PerMinute > 0, TypeInv, SizeInv, WindowInv, Tick,
         NEW t \in 0 .. MaxTime - Window
  PROVE  Before(t)' /\ After(t)'
<1>1. /\ clock' = clock + 1 /\ threads' = threads
      /\ CountIn(granted, t)' = CountIn(granted, t)
      /\ CountIn(stamps, t)' = CountIn(stamps, t)
      /\ Sleepers(t)' = Sleepers(t) /\ Late(t)' = Late(t)
  BY DEF Tick, CountIn, Sleepers, Late
<1>2. Before(t) /\ After(t)
  BY DEF WindowInv
<1>3. Before(t)'
  BY <1>1, <1>2, WindowTypes DEF Before
<1>4. After(t)'
  <2>1. CASE clock >= t + Window
    BY <1>1, <1>2, <2>1 DEF After
  <2>2. CASE ~(clock >= t + Window)
    <3>1. CountIn(granted, t) <= CountIn(stamps, t) + Cardinality(Sleepers(t))
      BY <1>2, <2>2, WindowTypes DEF Before
    <3>2. CountIn(granted, t) + Cardinality(Late(t)) <= PerMinute + threads
      BY <3>1, WindowTypes
    <3> DEFINE asleep == Cardinality(Sleepers(t))
               late   == Cardinality(Late(t))
    <3>a. /\ CountIn(granted, t) <= CountIn(stamps, t) + asleep
          /\ asleep \in Nat /\ late \in Nat /\ asleep + late <= threads
          /\ CountIn(stamps, t) \in Nat /\ CountIn(granted, t) \in Nat
          /\ CountIn(stamps, t) <= Len(stamps) /\ Len(stamps) \in Nat /\ Len(stamps) <= PerMinute
          /\ PerMinute \in Int
          /\ Sleepers(t) = {} => asleep = 0
          /\ Late(t) # {} => late > 0
          /\ threads = 1 /\ Sleepers(t) # {} => Len(stamps) < PerMinute
      BY <3>1, WindowTypes
    <3> HIDE DEF asleep, late
    <3>3. ASSUME threads = 1
          PROVE  CountIn(granted, t) <= PerMinute
      <4>1. CASE Sleepers(t) = {}
        BY <3>a, <4>1
      <4>2. CASE Sleepers(t) # {}
        BY <3>a, <3>3, <4>2
      <4> QED BY <4>1, <4>2
    <3>4. ASSUME threads = 1, Late(t) # {}
          PROVE  CountIn(granted, t) <= CountIn(stamps, t)
      BY <3>a, <3>4
    <3> QED BY <1>1, <3>2, <3>3, <3>4 DEF After
  <2> QED BY <2>1, <2>2
<1> QED BY <1>3, <1>4

LEMMA WindowOnWait ==
  ASSUME PerMinute > 0, TypeInv, SizeInv, WindowInv,
         NEW c \in Calls, Enter(c) \/ ReadClock(c) \/ Wake(c),
         NEW t \in 0 .. MaxTime - Window
  PROVE  Before(t)' /\ After(t)'
<1> USE LimiterAssumption
<1>0. Before(t) /\ After(t)
  BY DEF WindowInv
<1>1. /\ clock' = clock /\ threads' = threads
      /\ CountIn(granted, t)' = CountIn(granted, t)
      /\ CountIn(stamps, t)' = CountIn(stamps, t)
  BY DEF Enter, ReadClock, Wake, CountIn
<1>2. pc \in [Calls -> PcStates] /\ now \in [Calls -> 0 .. MaxTime]
  BY DEF TypeInv, TypeOK
<1>3. CASE Enter(c)
  <2>1. /\ wake' = wake /\ now' = now /\ pc[c] = "planned"
        /\ \A d \in Calls : pc'[d] = IF d = c THEN "loop" ELSE pc[d]
    BY <1>2, <1>3 DEF Enter, Goto
  <2>2. Sleepers(t)' = Sleepers(t) /\ Late(t)' = Late(t)
    BY <2>1 DEF Sleepers, Late
  <2> QED BY <1>0, <1>1, <2>2 DEF Before, After
<1>4. CASE ReadClock(c)
  <2>1. /\ wake' = wake /\ pc[c] = "loop"
        /\ \A d \in Calls : pc'[d] = IF d = c THEN "lock" ELSE pc[d]
        /\ \A d \in Calls : now'[d] = IF d = c THEN clock ELSE now[d]
    BY <1>2, <1>4 DEF ReadClock, Goto
  <2>2. Sleepers(t)' = Sleepers(t)
    BY <2>1 DEF Sleepers
  <2>3. clock >= t + Window => Late(t)' = Late(t)
    <3>1. clock >= t + Window => clock \notin InWindow(t)
      BY WindowTypes DEF InWindow
    <3> QED BY <2>1, <3>1 DEF Late
  <2> QED BY <1>0, <1>1, <2>2, <2>3 DEF Before, After
<1>5. CASE Wake(c)
  <2>1. /\ wake' = wake /\ now' = now /\ pc[c] = "asleep"
        /\ \A d \in Calls : pc'[d] = IF d = c THEN "loop" ELSE pc[d]
    BY <1>2, <1>5 DEF Wake, Goto
  <2>2. Late(t)' = Late(t)
    BY <2>1 DEF Late
  <2>3. clock < t + Window => Sleepers(t)' = Sleepers(t)
    <3>1. clock < t + Window => clock >= wake[c]
      BY <1>5, WindowTypes DEF Wake
    <3>2. wake[c] \in Nat
      BY DEF TypeInv, TypeOK
    <3>3. clock < t + Window => ~(wake[c] >= t + Window)
      BY <3>1, <3>2, WindowTypes
    <3> QED BY <2>1, <3>3 DEF Sleepers
  <2> QED BY <1>0, <1>1, <2>2, <2>3 DEF Before, After
<1> QED BY <1>3, <1>4, <1>5

LEMMA WindowOnGrant ==
  ASSUME PerMinute > 0, TypeInv, SizeInv, WindowInv,
         NEW c \in Calls, Grant(c), NEW t \in 0 .. MaxTime - Window
  PROVE  Before(t)' /\ After(t)'
<1> DEFINE one == IF now[c] \in InWindow(t) THEN 1 ELSE 0
           g == CountIn(granted, t)   s == CountIn(stamps, t)
           late == Cardinality(Late(t))
<1>1. /\ clock' = clock /\ threads' = threads /\ now' = now /\ wake' = wake
      /\ pc[c] = "lock"
      /\ \A d \in Calls : pc'[d] = IF d = c THEN "returned" ELSE pc[d]
  BY DEF Grant, Goto, TypeInv, TypeOK
<1>2. now[c] \in 0 .. MaxTime /\ now[c] \in Nat /\ now[c] <= clock
  BY LimiterAssumption DEF TypeInv, TypeOK
<1>3. PICK live \in Seq(Nat) :
        /\ live = Unexpired(now[c])
        /\ now[c] < t + Window => CountIn(live, t) = s
  BY <1>2, UnexpiredIs, WindowTypes DEF TypeInv
<1>4. Len(live) < PerMinute /\ stamps' = Append(live, now[c]) /\ granted' = Append(granted, now[c])
  BY <1>3 DEF Grant
<1>5. CountIn(granted, t)' = g + one /\ CountIn(stamps, t)' = CountIn(live, t) + one
  <2>1. granted \in Seq(Nat) /\ t \in Nat
    BY StampTypes, WindowTypes DEF TypeInv
  <2>2. CountIn(Append(granted, now[c]), t) = g + one
    BY <1>2, <2>1, CountAppend
  <2>3. CountIn(Append(live, now[c]), t) = CountIn(live, t) + one
    BY <1>2, <2>1, CountAppend
  <2>4. CountIn(granted, t)' = CountIn(granted', t) /\ CountIn(stamps, t)' = CountIn(stamps', t)
    BY DEF CountIn, InWindow
  <2> QED BY <1>4, <2>2, <2>3, <2>4
<1>6. Sleepers(t)' = Sleepers(t) /\ Late(t)' = Late(t) \ {c}
  BY <1>1 DEF Sleepers, Late
<1>7. threads = 1 => Late(t)' = {}
  <2> SUFFICES ASSUME threads = 1, NEW d \in Late(t)' PROVE FALSE
    OBVIOUS
  <2>1. d \in Busy /\ c \in Busy /\ d # c
    BY <1>1, <1>6 DEF Late, Busy
  <2> QED BY <2>1, Alone
<1>8. Before(t) /\ After(t)
  BY DEF WindowInv
<1>9. Before(t)'
  <2> SUFFICES ASSUME clock < t + Window
               PROVE  CountIn(granted, t)' <= CountIn(stamps, t)' + Cardinality(Sleepers(t)')
    BY <1>1 DEF Before
  <2>1. CountIn(live, t) = s
    <3>1. now[c] < t + Window
      BY <1>2, WindowTypes
    <3> QED BY <1>3, <3>1
  <2>2. g <= s + Cardinality(Sleepers(t))
    BY <1>8 DEF Before
  <2> DEFINE asleep == Cardinality(Sleepers(t))
  <2>3. g \in Nat /\ s \in Nat /\ asleep \in Nat /\ one \in Nat
    BY WindowTypes
  <2> HIDE DEF g, s, one, asleep
  <2>4. g + one <= s + one + asleep
    BY <2>2, <2>3 DEF asleep
  <2> QED BY <1>5, <1>6, <2>1, <2>4 DEF asleep
<1>10. After(t)'
  <2> SUFFICES ASSUME clock >= t + Window
               PROVE  /\ g + one + Cardinality(Late(t) \ {c}) <= PerMinute + threads
                      /\ threads = 1 => g + one <= PerMinute
    BY <1>1, <1>5, <1>6, <1>7 DEF After
  <2>1. c \in Late(t) <=> now[c] \in InWindow(t)
    BY <1>1 DEF Late
  <2>2. Cardinality(Late(t) \ {c}) + one = late
    <3>1. IsFiniteSet(Late(t)) /\ late \in Nat
      BY WindowTypes
    <3>2. Cardinality(Late(t) \ {c}) = IF c \in Late(t) THEN late - 1 ELSE late
      BY <3>1, FS_RemoveElement
    <3> HIDE DEF late
    <3> QED BY <2>1, <3>1, <3>2
  <2>3. /\ g + late <= PerMinute + threads
        /\ threads = 1 => g <= PerMinute /\ (Late(t) # {} => g <= s)
    BY <1>8 DEF After
  <2>4. /\ g \in Nat /\ s \in Nat /\ late \in Nat /\ PerMinute \in Int /\ threads \in Nat
        /\ Cardinality(Late(t) \ {c}) \in Int
    <3>1. IsFiniteSet(Late(t) \ {c})
      BY WindowTypes, FS_RemoveElement
    <3> QED BY <3>1, WindowTypes, FS_CardinalityType
  <2>5. ASSUME threads = 1 PROVE g + one <= PerMinute
    <3>1. CASE now[c] \in InWindow(t)
      <4>1. g <= s /\ one = 1
        BY <2>1, <2>3, <2>5, <3>1
      <4>2. CountIn(live, t) = s
        <5>1. t \in Nat /\ Window \in Nat
          BY WindowTypes
        <5>2. now[c] < t + Window
          BY <1>2, <3>1, <5>1 DEF InWindow
        <5> QED BY <1>3, <5>2
      <4>3. CountIn(live, t) <= Len(live) /\ Len(live) \in Nat
        <5>1. t \in Nat /\ live \in Seq(Nat)
          BY WindowTypes
        <5>2. CountIn(live, t) <= Len(live)
          BY <5>1, CountType
        <5> QED BY <5>1, <5>2
      <4> HIDE DEF g, s, one
      <4> QED BY <1>4, <2>4, <4>1, <4>2, <4>3
    <3>2. CASE now[c] \notin InWindow(t)
      BY <2>3, <2>4, <2>5, <3>2
    <3> QED BY <3>1, <3>2
  <2>6. one \in Nat
    OBVIOUS
  <2> HIDE DEF g, s, one, late
  <2> QED BY <2>2, <2>3, <2>4, <2>5, <2>6
<1> QED BY <1>9, <1>10

LEMMA WindowOnRefuse ==
  ASSUME PerMinute > 0, TypeInv, SizeInv, WindowInv,
         NEW c \in Calls, Refuse(c), NEW t \in 0 .. MaxTime - Window
  PROVE  Before(t)' /\ After(t)'
<1> DEFINE g == CountIn(granted, t)   s == CountIn(stamps, t)
           asleep == Cardinality(Sleepers(t))
<1>0. Before(t) /\ After(t)
  BY DEF WindowInv
<1>1. /\ clock' = clock /\ threads' = threads /\ now' = now
      /\ pc[c] = "lock"
      /\ \A d \in Calls : pc'[d] = IF d = c THEN "asleep" ELSE pc[d]
      /\ CountIn(granted, t)' = g
  BY DEF Refuse, Goto, TypeInv, TypeOK, CountIn
<1>2. now[c] \in 0 .. MaxTime /\ now[c] \in Nat /\ now[c] <= clock /\ clock \in Nat
  BY LimiterAssumption DEF TypeInv, TypeOK
<1>3. PICK live \in Seq(Nat) :
        /\ live = Unexpired(now[c])
        /\ live # <<>> => Head(live) \in 0 .. MaxTime
        /\ now[c] < t + Window => CountIn(live, t) = s
  BY <1>2, UnexpiredIs, WindowTypes DEF TypeInv
<1>4. /\ Len(live) >= PerMinute /\ stamps' = Tail(live)
      /\ wake' = [wake EXCEPT ![c] = clock + Window - (now[c] - Head(live))]
  BY <1>3 DEF Refuse
<1>5. live # <<>> /\ Head(live) \in Nat
  <2>1. live # <<>>
    <3> SUFFICES ASSUME live = <<>> PROVE FALSE
      OBVIOUS
    <3>1. Len(live) = 0 /\ PerMinute \in Int
      BY WindowTypes
    <3> QED BY <1>4, <3>1
  <2> QED BY <1>3, <2>1
<1>6. \A d \in Calls : wake'[d] = IF d = c THEN clock + Window - (now[c] - Head(live)) ELSE wake[d]
  BY <1>4 DEF TypeInv, TypeOK
<1>7. CountIn(live, t) = CountIn(stamps, t)' + (IF Head(live) \in InWindow(t) THEN 1 ELSE 0)
  <2>1. CountIn(stamps, t)' = CountIn(Tail(live), t)
    BY <1>4 DEF CountIn, InWindow
  <2>2. t \in Nat
    BY WindowTypes
  <2> QED BY <1>5, <2>1, <2>2, CountTail
<1>8. /\ c \notin Sleepers(t)
      /\ Sleepers(t)' = Sleepers(t) \/ Sleepers(t)' = Sleepers(t) \cup {c}
      /\ Head(live) \in InWindow(t) => Sleepers(t)' = Sleepers(t) \cup {c}
  <2>1. Head(live) \in InWindow(t) => wake'[c] >= t + Window
    <3>1. wake'[c] = clock + Window - (now[c] - Head(live))
      BY <1>6
    <3>2. t \in Nat /\ Window \in Nat
      BY WindowTypes
    <3> QED BY <1>2, <1>5, <3>1, <3>2 DEF InWindow
  <2> QED BY <1>1, <1>6, <2>1 DEF Sleepers
<1>9. /\ Cardinality(Sleepers(t) \cup {c}) = asleep + 1
      /\ asleep \in Nat
  BY <1>8, WindowTypes, FS_AddElement
<1>10. Before(t)'
  <2> SUFFICES ASSUME clock < t + Window
               PROVE  g <= CountIn(stamps, t)' + Cardinality(Sleepers(t)')
    BY <1>1, WindowTypes DEF Before
  <2>1. g <= s + asleep /\ CountIn(live, t) = s
    BY <1>0, <1>2, <1>3, WindowTypes DEF Before
  <2>2. g \in Nat /\ s \in Nat /\ CountIn(stamps, t)' \in Nat
    <3>1. Tail(live) \in Seq(Nat) /\ t \in Nat
      BY <1>5, WindowTypes
    <3>2. CountIn(Tail(live), t) \in Nat
      BY <3>1, CountType
    <3> QED BY <1>4, <3>2, WindowTypes DEF CountIn, InWindow
  <2> DEFINE left == CountIn(stamps, t)'
  <2>3. CASE Head(live) \in InWindow(t)
    <3>1. s = left + 1 /\ Cardinality(Sleepers(t)') = asleep + 1
      BY <1>7, <1>8, <1>9, <2>1, <2>3
    <3> HIDE DEF g, s, asleep, left
    <3> QED BY <1>9, <2>1, <2>2, <3>1 DEF left
  <2>4. CASE Head(live) \notin InWindow(t)
    <3>1. s = left + 0 /\ Cardinality(Sleepers(t)') \in {asleep, asleep + 1}
      BY <1>7, <1>8, <1>9, <2>1, <2>4
    <3> HIDE DEF g, s, asleep, left
    <3> QED BY <1>9, <2>1, <2>2, <3>1 DEF left
  <2> QED BY <2>3, <2>4
<1>11. After(t)'
  <2>1. Late(t)' = Late(t) \ {c}
    BY <1>1 DEF Late
  <2>2. Cardinality(Late(t)') \in Nat /\ Cardinality(Late(t)') <= Cardinality(Late(t))
    <3>1. IsFiniteSet(Late(t)) /\ Cardinality(Late(t)) \in Nat
      BY WindowTypes
    <3>2. IsFiniteSet(Late(t) \ {c}) /\ Cardinality(Late(t) \ {c}) <= Cardinality(Late(t))
      BY <3>1, FS_Subset
    <3> QED BY <2>1, <3>2, FS_CardinalityType
  <2>3. threads = 1 => Late(t)' = {}
    <3> SUFFICES ASSUME threads = 1, NEW d \in Late(t)' PROVE FALSE
      OBVIOUS
    <3>1. d \in Busy /\ c \in Busy /\ d # c
      BY <1>1, <2>1 DEF Late, Busy
    <3> QED BY <3>1, Alone
  <2>4. clock >= t + Window =>
          /\ g + Cardinality(Late(t)') <= PerMinute + threads
          /\ threads = 1 => g <= PerMinute
    <3> SUFFICES ASSUME clock >= t + Window
                 PROVE  /\ g + Cardinality(Late(t)') <= PerMinute + threads
                        /\ threads = 1 => g <= PerMinute
      OBVIOUS
    <3> DEFINE before == Cardinality(Late(t))
               after == Cardinality(Late(t)')
    <3>1. g + before <= PerMinute + threads /\ (threads = 1 => g <= PerMinute)
      BY <1>0 DEF After
    <3>2. g \in Nat /\ before \in Nat /\ PerMinute \in Int /\ threads \in Nat
      BY WindowTypes
    <3>3. after \in Nat /\ after <= before
      BY <2>2
    <3> HIDE DEF g, before, after
    <3>4. g + after <= PerMinute + threads
      BY <3>1, <3>2, <3>3
    <3> QED BY <3>1, <3>4 DEF after
  <2> QED BY <1>1, <2>3, <2>4 DEF After
<1> QED BY <1>10, <1>11

LEMMA Windows ==
  ASSUME PerMinute > 0, TypeInv, SizeInv, WindowInv, [Next]_vars
  PROVE  WindowInv'
<1> SUFFICES ASSUME NEW t \in 0 .. MaxTime - Window PROVE Before(t)' /\ After(t)'
  BY DEF WindowInv
<1>1. CASE UNCHANGED vars
  BY <1>1 DEF vars, WindowInv, Before, After, CountIn, Sleepers, Late
<1> QED
  BY <1>1, WindowOnTick, WindowOnWait, WindowOnGrant, WindowOnRefuse DEF Next, Call

LEMMA LimitInvImplies == LimitInv => OverrunBounded
<1> SUFFICES ASSUME PerMinute > 0, TypeInv, SizeInv, WindowInv, NEW t \in 0 .. MaxTime - Window
             PROVE  GrantsIn(t) <= PerMinute + Excess
  BY DEF LimitInv, OverrunBounded
<1> DEFINE g == CountIn(granted, t)   asleep == Cardinality(Sleepers(t))
           late == Cardinality(Late(t))
<1>1. GrantsIn(t) = g
  BY DEF GrantsIn, CountIn, InWindow
<1>2. Before(t) /\ After(t)
  BY DEF WindowInv
<1>3. CASE clock >= t + Window
  BY <1>1, <1>2, <1>3, WindowTypes DEF After, Excess
<1>4. CASE clock < t + Window
  <2>1. /\ g <= CountIn(stamps, t) + asleep
        /\ g \in Nat /\ asleep \in Nat /\ late \in Nat /\ asleep + late <= threads
        /\ CountIn(stamps, t) \in Nat /\ CountIn(stamps, t) <= Len(stamps)
        /\ Len(stamps) \in Nat /\ Len(stamps) <= PerMinute
        /\ PerMinute \in Int /\ threads \in Nat
        /\ Sleepers(t) = {} => asleep = 0
        /\ threads = 1 /\ Sleepers(t) # {} => Len(stamps) < PerMinute
    BY <1>2, <1>4, WindowTypes DEF Before
  <2> HIDE DEF g, asleep, late
  <2>2. CASE Sleepers(t) = {}
    BY <1>1, <2>1, <2>2 DEF Excess
  <2>3. CASE Sleepers(t) # {}
    BY <1>1, <2>1, <2>3 DEF Excess
  <2> QED BY <2>2, <2>3
<1> QED BY <1>3, <1>4, WindowTypes

(***************************************************************************)
(* No window of a throttled provider holds more grants than the limit and  *)
(* one per thread, and a thread on its own keeps to the limit, whatever    *)
(* the number of calls and threads, the limit and the length of a window.  *)
(***************************************************************************)
THEOREM OverrunAlwaysBounded == Spec => []OverrunBounded
<1>1. Init => LimitInv
  BY Init_Types, Init_Size, Init_Windows DEF LimitInv
<1>2. LimitInv /\ [Next]_vars => LimitInv'
  BY Types, Sizes, Windows DEF LimitInv
<1> QED BY <1>1, <1>2, LimitInvImplies, PTL DEF Spec
=============================================================================
