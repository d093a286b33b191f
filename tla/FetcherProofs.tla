---------------------------- MODULE FetcherProofs ----------------------------
(***************************************************************************)
(* Proofs about Fetcher for every number of workers and slots and all      *)
(* delays, timeouts, pauses and lateness of timers.                        *)
(***************************************************************************)
EXTENDS Fetcher, FiniteSetTheorems, TLAPS

LEMMA MaxOfTwo ==
  ASSUME NEW a \in Int, NEW b \in Int
  PROVE  Max({a, b}) = IF a >= b THEN a ELSE b
<1> DEFINE greatest == IF a >= b THEN a ELSE b
<1>1. greatest \in {a, b} /\ \A y \in {a, b} : greatest >= y
  OBVIOUS
<1>2. \A x \in {a, b} : (\A y \in {a, b} : x >= y) => x = greatest
  OBVIOUS
<1> HIDE DEF greatest
<1>3. (CHOOSE x \in {a, b} : \A y \in {a, b} : x >= y) = greatest
  BY <1>1, <1>2
<1> QED
  BY <1>3 DEF Max, greatest

LEMMA MinOfTwo ==
  ASSUME NEW a \in Int, NEW b \in Int
  PROVE  Min({a, b}) = IF a <= b THEN a ELSE b
<1> DEFINE least == IF a <= b THEN a ELSE b
<1>1. least \in {a, b} /\ \A y \in {a, b} : least <= y
  OBVIOUS
<1>2. \A x \in {a, b} : (\A y \in {a, b} : x <= y) => x = least
  OBVIOUS
<1> HIDE DEF least
<1>3. (CHOOSE x \in {a, b} : \A y \in {a, b} : x <= y) = least
  BY <1>1, <1>2
<1> QED
  BY <1>3 DEF Min, least

LEMMA ConstantsType ==
  /\ HostConcurrency \in Nat \ {0} /\ MaxAttempts \in Nat \ {0} /\ Timeout \in Nat \ {0}
  /\ HostDelay \in Nat /\ CrawlDelay \in Nat /\ Lag \in Nat /\ MaxRetryWait \in Nat
  /\ RetryAfters \subseteq Nat
BY LimitsArePositive, DelaysAreNat

LEMMA MemoryType == Memory \in Nat /\ Memory >= HostDelay
BY ConstantsType, MaxOfTwo DEF Memory

(* A pause is an integer, whatever the doubling comes to.                  *)
LEMMA PauseType ==
  /\ \A n : \A d \in Backoff(n) : d \in Int
  /\ \A n : \A d \in RetryAfters \cup Backoff(n) : d \in Int
<1>1. \A a, b : \A d \in a..b : d \in Int
  OBVIOUS
<1>2. \A n : \A d \in Backoff(n) : d \in Int
  BY <1>1 DEF Backoff
<1> QED
  BY <1>2, ConstantsType

-----------------------------------------------------------------------------
(* Type correctness and the slots.  Neither is inductive without the       *)
(* other: a worker that tries again has attempts left, and a slot is given *)
(* back only by a worker that holds one.                                   *)

AttemptsLeft == \A w \in Workers : pc[w] = "backoff" => attempt[w] < MaxAttempts

SlotInv == TypeOK /\ AttemptsLeft /\ SlotsAreReturned

LEMMA HoldingIsFinite ==
  IsFiniteSet(Holding) /\ Cardinality(Holding) \in Nat
<1>1. Holding \in SUBSET Workers
  BY DEF Holding
<1> QED
  BY <1>1, WorkersAreFinite, FS_Subset, FS_CardinalityType

LEMMA SlotInit == Init => SlotInv
<1> SUFFICES ASSUME Init PROVE SlotInv
  OBVIOUS
<1>1. quiet \in 0..Memory
  BY MemoryType DEF Init
<1>2. attempt \in [Workers -> 0..MaxAttempts]
  <2>1. 0 \in 0..MaxAttempts
    BY ConstantsType
  <2> QED
    BY <2>1 DEF Init
<1>3. pc \in [Workers -> Places] /\ left \in [Workers -> Int]
  BY DEF Init, Places
<1>4. TypeOK
  BY <1>1, <1>2, <1>3 DEF Init, TypeOK
<1>5. AttemptsLeft
  BY DEF Init, AttemptsLeft
<1>6. SlotsAreReturned
  <2>1. Holding = {}
    BY DEF Init, Holding
  <2> QED
    BY <2>1, FS_EmptySet, ConstantsType DEF Init, SlotsAreReturned
<1> QED
  BY <1>4, <1>5, <1>6 DEF SlotInv

(* What penalize does to the turn of the host.                             *)
LEMMA PenalizeType ==
  ASSUME hold \in Nat, NEW d \in Int, Penalize(d)
  PROVE  hold' \in Nat /\ hold' >= hold /\ hold' >= d
BY MaxOfTwo DEF Penalize

LEMMA TryLaterType ==
  ASSUME SlotInv, NEW w \in Workers, NEW d \in Int, TryLater(w, d)
  PROVE  /\ pc' \in [Workers -> Places] /\ left' \in [Workers -> Int]
         /\ pc'[w] \in {"backoff", "done"}
         /\ pc'[w] = "backoff" => attempt[w] < MaxAttempts
         /\ \A v \in Workers \ {w} : pc'[v] = pc[v] /\ left'[v] = left[v]
BY ConstantsType DEF SlotInv, TypeOK, TryLater, Go, Sleep, Places

(* A worker that stays among those that hold a slot, or stays out of them, *)
(* changes no count.                                                       *)
LEMMA HoldingSame ==
  ASSUME SlotInv, UNCHANGED taken,
         \A v \in Workers : pc'[v] \in {"wait", "request"} <=> pc[v] \in {"wait", "request"}
  PROVE  SlotsAreReturned'
<1>1. Holding' = Holding
  BY DEF Holding
<1> QED
  BY <1>1 DEF SlotInv, SlotsAreReturned

LEMMA HoldingGrows ==
  ASSUME SlotInv, NEW w \in Workers, Acquire(w)
  PROVE  SlotsAreReturned'
<1>1. Holding' = Holding \cup {w} /\ w \notin Holding
  BY DEF Holding, Acquire, Go, SlotInv, TypeOK
<1>2. Cardinality(Holding') = Cardinality(Holding) + 1
  BY <1>1, HoldingIsFinite, FS_AddElement
<1> QED
  BY <1>2, ConstantsType, HoldingIsFinite DEF Acquire, SlotInv, SlotsAreReturned

LEMMA HoldingShrinks ==
  ASSUME SlotInv, NEW w \in Workers, Release(w), pc'[w] \in {"backoff", "done"},
         \A v \in Workers \ {w} : pc'[v] = pc[v]
  PROVE  SlotsAreReturned'
<1>1. Holding' = Holding \ {w}
  BY DEF Holding
<1>2. Cardinality(Holding') =
        IF w \in Holding THEN Cardinality(Holding) - 1 ELSE Cardinality(Holding)
  BY <1>1, HoldingIsFinite, FS_RemoveElement
<1> QED
  BY <1>2, ConstantsType, HoldingIsFinite DEF Release, SlotInv, SlotsAreReturned

(* The pc of the workers after 429: pause, give up or try later.           *)
LEMMA TooManyType ==
  ASSUME SlotInv, NEW w \in Workers, TooMany(w)
  PROVE  /\ pc' \in [Workers -> Places] /\ left' \in [Workers -> Int]
         /\ pc'[w] \in {"backoff", "done"}
         /\ pc'[w] = "backoff" => attempt[w] < MaxAttempts
         /\ \A v \in Workers \ {w} : pc'[v] = pc[v] /\ left'[v] = left[v]
<1>1. PICK pause \in RetryAfters \cup Backoff(attempt[w]) :
        \/ Go(w, "done") /\ UNCHANGED left
        \/ \E d \in Backoff(attempt[w]) : TryLater(w, d)
        \/ TryLater(w, pause)
  BY DEF TooMany
<1>2. CASE Go(w, "done") /\ UNCHANGED left
  BY <1>2 DEF Go, SlotInv, TypeOK, Places
<1>3. CASE \E d \in Backoff(attempt[w]) : TryLater(w, d)
  BY <1>3, PauseType, TryLaterType
<1>4. CASE TryLater(w, pause)
  BY <1>4, PauseType, TryLaterType
<1> QED
  BY <1>1, <1>2, <1>3, <1>4

LEMMA TroubleType ==
  ASSUME SlotInv, NEW w \in Workers, Trouble(w)
  PROVE  /\ pc' \in [Workers -> Places] /\ left' \in [Workers -> Int]
         /\ pc'[w] \in {"backoff", "done"}
         /\ pc'[w] = "backoff" => attempt[w] < MaxAttempts
         /\ \A v \in Workers \ {w} : pc'[v] = pc[v] /\ left'[v] = left[v]
BY PauseType, TryLaterType DEF Trouble

LEMMA SlotsStep == SlotInv /\ [Next]_vars => SlotsAreReturned'
<1> SUFFICES ASSUME SlotInv, [Next]_vars PROVE SlotsAreReturned'
  OBVIOUS
<1>1. ASSUME NEW w \in Workers, Begin(w) \/ Send(w) \/ Retry(w) PROVE SlotsAreReturned'
  BY <1>1, HoldingSame DEF Begin, Send, Retry, Go, limiter, SlotInv, TypeOK
<1>2. ASSUME NEW w \in Workers, Acquire(w) PROVE SlotsAreReturned'
  BY <1>2, HoldingGrows
<1>3. ASSUME NEW w \in Workers, Abandon(w) \/ Settled(w) PROVE SlotsAreReturned'
  BY <1>3, HoldingShrinks DEF Abandon, Settled, Go, SlotInv, TypeOK
<1>4. ASSUME NEW w \in Workers, Trouble(w) PROVE SlotsAreReturned'
  BY <1>4, HoldingShrinks, TroubleType DEF Trouble
<1>5. ASSUME NEW w \in Workers, TooMany(w) PROVE SlotsAreReturned'
  BY <1>5, HoldingShrinks, TooManyType DEF TooMany
<1>6. CASE NextRun
  BY <1>6, HoldingSame DEF NextRun, limiter
<1>7. CASE Signal \/ Tick \/ UNCHANGED vars
  BY <1>7, HoldingSame DEF Signal, Tick, vars, limiter
<1> QED
  BY <1>1, <1>2, <1>3, <1>4, <1>5, <1>6, <1>7 DEF Next, WorkerStep

(* Everything about the clock: what Tick does to the times.                *)
LEMMA TickTimes ==
  ASSUME TypeOK, Tick
  PROVE  /\ hold' = IF hold >= 1 THEN hold - 1 ELSE 0
         /\ quiet' = IF quiet + 1 <= Memory THEN quiet + 1 ELSE Memory
         /\ ban' = IF ban >= 1 THEN ban - 1 ELSE 0
         /\ left' \in [Workers -> Int]
         /\ \A w \in Workers : pc[w] = "wait" => left'[w] = left[w] - 1 /\ left[w] > -Lag
<1>1. hold' = Max({hold - 1, 0}) /\ hold \in Nat
  BY DEF Tick, TypeOK
<1>2. quiet' = Min({quiet + 1, Memory}) /\ quiet \in Int /\ Memory \in Int
  BY MemoryType DEF Tick, TypeOK
<1>3. ban' = Max({ban - 1, 0}) /\ ban \in Nat
  BY DEF Tick, TypeOK
<1>4. left' \in [Workers -> Int]
  BY DEF Tick, TypeOK
<1>5. \A w \in Workers : pc[w] = "wait" => left'[w] = left[w] - 1 /\ left[w] > -Lag
  BY DEF Tick, Timed
<1> QED
  BY <1>1, <1>2, <1>3, <1>4, <1>5, MaxOfTwo, MinOfTwo

LEMMA TypeStep ==
  ASSUME SlotInv, [Next]_vars, taken' \in Nat
  PROVE  TypeOK' /\ AttemptsLeft'
<1> USE ConstantsType, MemoryType DEF SlotInv, TypeOK, AttemptsLeft, limiter, observed
<1> DEFINE Goal == TypeOK' /\ AttemptsLeft'
<1>1. ASSUME NEW w \in Workers, Begin(w) PROVE Goal
  <2>1. hold' \in Nat
    BY <1>1, PenalizeType DEF Begin
  <2> QED
    BY <1>1, <2>1 DEF Begin, Go, Places
<1>2. ASSUME NEW w \in Workers, Acquire(w) PROVE Goal
  BY <1>2 DEF Acquire, Reserve, Go, Sleep, Places
<1>3. ASSUME NEW w \in Workers, Send(w) PROVE Goal
  BY <1>3 DEF Send, Go, Sleep, Places
<1>4. ASSUME NEW w \in Workers, Settled(w) \/ Abandon(w) PROVE Goal
  BY <1>4 DEF Settled, Abandon, Go, Places
<1>5. ASSUME NEW w \in Workers, Trouble(w) PROVE Goal
  BY <1>5, TroubleType DEF Trouble
<1>6. ASSUME NEW w \in Workers, TooMany(w) PROVE Goal
  <2>1. hold' \in Nat /\ ban' \in Nat
    <3>1. PICK pause \in RetryAfters \cup Backoff(attempt[w]) :
            Penalize(pause) /\ ban' = Max({ban, pause})
      BY <1>6 DEF TooMany
    <3>2. pause \in Int
      BY PauseType
    <3> QED
      BY <3>1, <3>2, MaxOfTwo DEF Penalize
  <2>2. stragglers' \subseteq Workers
    BY <1>6 DEF TooMany
  <2>3. UNCHANGED <<attempt, cancelled, quiet>>
    BY <1>6 DEF TooMany
  <2> QED
    BY <1>6, <2>1, <2>2, <2>3, TooManyType
<1>7. ASSUME NEW w \in Workers, Retry(w) PROVE Goal
  BY <1>7 DEF Retry, Go, Places
<1>8. CASE NextRun
  BY <1>8 DEF NextRun, Places
<1>9. CASE Signal
  BY <1>9 DEF Signal
<1>10. CASE Tick
  BY <1>10, TickTimes DEF Tick
<1>11. CASE UNCHANGED vars
  BY <1>11 DEF vars
<1> QED
  BY <1>1, <1>2, <1>3, <1>4, <1>5, <1>6, <1>7, <1>8, <1>9, <1>10, <1>11 DEF Next, WorkerStep

LEMMA SlotStep == SlotInv /\ [Next]_vars => SlotInv'
<1> SUFFICES ASSUME SlotInv, [Next]_vars PROVE SlotInv'
  OBVIOUS
<1>1. SlotsAreReturned'
  BY SlotsStep
<1>2. taken' \in Nat
  <2>1. Holding' \in SUBSET Workers
    BY DEF Holding
  <2>2. Cardinality(Holding') \in Nat
    BY <2>1, WorkersAreFinite, FS_Subset, FS_CardinalityType
  <2> QED
    BY <1>1, <2>2 DEF SlotsAreReturned
<1>3. TypeOK' /\ AttemptsLeft'
  BY <1>2, TypeStep
<1> QED
  BY <1>1, <1>3 DEF SlotInv

LEMMA SlotInvHolds == Spec => []SlotInv
<1>1. Init => SlotInv
  BY SlotInit
<1>2. SlotInv /\ [Next]_vars => SlotInv'
  BY SlotStep
<1> QED
  BY <1>1, <1>2, PTL DEF Spec

(* TypeOK holds in every reachable state.                                  *)
THEOREM TypeCorrect == Spec => []TypeOK
<1>1. SlotInv => TypeOK
  BY DEF SlotInv
<1> QED
  BY <1>1, SlotInvHolds, PTL

(* The slots in use are those of the workers that hold one, and they are   *)
(* never more than the limit.                                              *)
THEOREM SlotsReturned == Spec => []SlotsAreReturned
<1>1. SlotInv => SlotsAreReturned
  BY DEF SlotInv
<1> QED
  BY <1>1, SlotInvHolds, PTL

-----------------------------------------------------------------------------
(* The turns.  A worker that waits was given a turn, and the turns lie     *)
(* HostDelay apart from each other and before the next one to give out.    *)
(* The last request is HostDelay before every turn, or less by its         *)
(* lateness.  A turn given after the site named a pause lies behind it.    *)

TurnOf(w) ==
  pc[w] = "wait" =>
    /\ left[w] >= -Lag
    /\ left[w] + HostDelay <= hold
    /\ Lag < HostDelay => quiet + left[w] >= HostDelay - Lag
    /\ ban = 0 \/ w \in stragglers \/ left[w] >= ban

TurnsApart ==
  \A v, w \in Workers :
    pc[v] = "wait" /\ pc[w] = "wait" /\ v # w =>
      left[v] >= left[w] + HostDelay \/ left[w] >= left[v] + HostDelay

TurnInv ==
  /\ hold >= ban
  /\ Lag < HostDelay => quiet + hold >= HostDelay - Lag
  /\ \A w \in Workers : TurnOf(w)
  /\ TurnsApart

LEMMA TurnInit == Init => TurnInv
BY MemoryType, ConstantsType DEF Init, TurnInv, TurnOf, TurnsApart

(* A step in which nobody gets a turn, and the host is only put off.       *)
LEMMA NoNewTurn ==
  ASSUME SlotInv, TurnInv, hold' \in Nat, hold' >= hold, hold' >= ban',
         \/ ban' = ban /\ stragglers' = stragglers
         \/ stragglers' = {v \in Workers : pc[v] = "wait"},
         quiet' = quiet,
         \A v \in Workers : pc'[v] = "wait" => pc[v] = "wait" /\ left'[v] = left[v]
  PROVE  TurnInv'
<1> USE ConstantsType DEF SlotInv, TypeOK
<1>1. ASSUME NEW v \in Workers PROVE TurnOf(v)'
  BY DEF TurnInv, TurnOf
<1>2. TurnsApart'
  BY DEF TurnInv, TurnsApart
<1>3. Lag < HostDelay => quiet' + hold' >= HostDelay - Lag
  <2>1. quiet \in Int /\ hold \in Int /\ hold' \in Int
    BY MemoryType
  <2>2. Lag < HostDelay => quiet + hold >= HostDelay - Lag
    BY DEF TurnInv
  <2>3. \A q, h, l, m \in Int : q + h >= m /\ l >= h => q + l >= m
    OBVIOUS
  <2>4. HostDelay - Lag \in Int
    OBVIOUS
  <2> QED
    BY <2>1, <2>2, <2>3, <2>4
<1> QED
  BY <1>1, <1>2, <1>3 DEF TurnInv

LEMMA TurnAcquire ==
  ASSUME SlotInv, TurnInv, NEW w \in Workers, Acquire(w)
  PROVE  TurnInv'
<1> USE ConstantsType, MemoryType DEF SlotInv, TypeOK, observed
<1>1. /\ pc'[w] = "wait" /\ left'[w] = hold /\ hold' = hold + HostDelay
      /\ \A v \in Workers \ {w} : pc'[v] = pc[v] /\ left'[v] = left[v]
      /\ UNCHANGED <<quiet, ban, stragglers>>
  BY DEF Acquire, Go, Sleep, Reserve
<1>2. TurnOf(w)'
  BY <1>1 DEF TurnInv, TurnOf
<1>3. ASSUME NEW v \in Workers \ {w} PROVE TurnOf(v)'
  BY <1>1 DEF TurnInv, TurnOf
<1>4. TurnsApart'
  BY <1>1 DEF TurnInv, TurnOf, TurnsApart
<1> QED
  BY <1>1, <1>2, <1>3, <1>4 DEF TurnInv

LEMMA TurnSend ==
  ASSUME SlotInv, TurnInv, NEW w \in Workers, Send(w)
  PROVE  TurnInv'
<1> USE ConstantsType, MemoryType DEF SlotInv, TypeOK, limiter
<1>1. /\ pc[w] = "wait" /\ left[w] <= 0 /\ pc'[w] = "request"
      /\ \A v \in Workers \ {w} : pc'[v] = pc[v] /\ left'[v] = left[v]
      /\ quiet' = 0 /\ stragglers' = stragglers \ {w}
      /\ UNCHANGED <<hold, ban>>
  BY DEF Send, Go, Sleep
<1>2. ASSUME NEW v \in Workers \ {w} PROVE TurnOf(v)'
  <2>1. SUFFICES ASSUME pc[v] = "wait" PROVE TurnOf(v)'
    BY <1>1 DEF TurnOf
  <2>2. left[v] >= left[w] + HostDelay \/ left[w] >= left[v] + HostDelay
    BY <1>1, <2>1 DEF TurnInv, TurnsApart
  <2>3. left[v] >= -Lag /\ left[w] >= -Lag
    BY <1>1, <2>1 DEF TurnInv, TurnOf
  <2>4. Lag < HostDelay => left[v] >= HostDelay - Lag
    BY <1>1, <2>2, <2>3
  <2> QED
    BY <1>1, <2>1, <2>4 DEF TurnInv, TurnOf
<1>3. Lag < HostDelay => quiet' + hold' >= HostDelay - Lag
  <2>1. left[w] >= -Lag /\ left[w] + HostDelay <= hold
    BY <1>1 DEF TurnInv, TurnOf
  <2> QED
    BY <1>1, <2>1
<1>4. TurnsApart'
  BY <1>1 DEF TurnInv, TurnsApart
<1> QED
  BY <1>1, <1>2, <1>3, <1>4 DEF TurnInv, TurnOf

LEMMA TurnTick ==
  ASSUME SlotInv, TurnInv, Tick
  PROVE  TurnInv'
<1> USE ConstantsType, MemoryType DEF SlotInv, TypeOK
<1>1. pc' = pc /\ stragglers' = stragglers
  BY DEF Tick
<1>2. ASSUME NEW w \in Workers PROVE TurnOf(w)'
  BY <1>1, TickTimes DEF TurnInv, TurnOf
<1>3. TurnsApart'
  BY <1>1, TickTimes DEF TurnInv, TurnsApart
<1>4. hold' >= ban' /\ (Lag < HostDelay => quiet' + hold' >= HostDelay - Lag)
  BY TickTimes DEF TurnInv
<1> QED
  BY <1>2, <1>3, <1>4 DEF TurnInv

LEMMA TurnStep == SlotInv /\ TurnInv /\ [Next]_vars => TurnInv'
<1> SUFFICES ASSUME SlotInv, TurnInv, [Next]_vars PROVE TurnInv'
  OBVIOUS
<1>1. hold \in Nat /\ ban \in Nat /\ hold >= ban
  BY DEF SlotInv, TypeOK, TurnInv
<1>2. ASSUME NEW w \in Workers, Begin(w) PROVE TurnInv'
  <2>1. hold' \in Nat /\ hold' >= hold
    BY <1>1, <1>2, PenalizeType, ConstantsType DEF Begin
  <2>2. /\ UNCHANGED <<left, observed>>
        /\ \A v \in Workers : pc'[v] = "wait" => pc[v] = "wait"
    BY <1>2 DEF Begin, Go, SlotInv, TypeOK
  <2> QED
    BY <1>1, <2>1, <2>2, NoNewTurn DEF observed
<1>3. ASSUME NEW w \in Workers, Acquire(w) PROVE TurnInv'
  BY <1>3, TurnAcquire
<1>4. ASSUME NEW w \in Workers, Send(w) PROVE TurnInv'
  BY <1>4, TurnSend
<1>5. ASSUME NEW w \in Workers, Settled(w) \/ Abandon(w) \/ Retry(w) PROVE TurnInv'
  <2>1. /\ UNCHANGED <<hold, left, observed>>
        /\ \A v \in Workers : pc'[v] = "wait" => pc[v] = "wait"
    BY <1>5 DEF Settled, Abandon, Retry, Go, SlotInv, TypeOK, limiter
  <2> QED
    BY <1>1, <2>1, NoNewTurn DEF observed
<1>6. ASSUME NEW w \in Workers, Trouble(w) PROVE TurnInv'
  <2>1. UNCHANGED <<hold, observed>>
    BY <1>6 DEF Trouble
  <2>2. \A v \in Workers : pc'[v] = "wait" => pc[v] = "wait" /\ left'[v] = left[v]
    BY <1>6, TroubleType
  <2> QED
    BY <1>1, <2>1, <2>2, NoNewTurn DEF observed
<1>7. ASSUME NEW w \in Workers, TooMany(w) PROVE TurnInv'
  <2>1. PICK pause \in RetryAfters \cup Backoff(attempt[w]) :
          Penalize(pause) /\ ban' = Max({ban, pause})
    BY <1>7 DEF TooMany
  <2>2. pause \in Int
    BY PauseType
  <2>3. hold' \in Nat /\ hold' >= hold /\ hold' >= ban'
    BY <1>1, <2>1, <2>2, MaxOfTwo DEF Penalize
  <2>4. quiet' = quiet /\ stragglers' = {v \in Workers : pc[v] = "wait"}
    BY <1>7 DEF TooMany
  <2>5. \A v \in Workers : pc'[v] = "wait" => pc[v] = "wait" /\ left'[v] = left[v]
    BY <1>7, TooManyType
  <2> QED
    BY <2>3, <2>4, <2>5, NoNewTurn
<1>8. CASE NextRun
  <2>1. /\ UNCHANGED <<hold, observed>>
        /\ \A v \in Workers : pc'[v] # "wait"
    BY <1>8 DEF NextRun, limiter
  <2> QED
    BY <1>1, <2>1, NoNewTurn DEF observed
<1>9. CASE Signal \/ UNCHANGED vars
  <2>1. UNCHANGED <<hold, pc, left, observed>>
    BY <1>9 DEF Signal, limiter, vars
  <2> QED
    BY <1>1, <2>1, NoNewTurn DEF observed
<1>10. CASE Tick
  BY <1>10, TurnTick
<1> QED
  BY <1>2, <1>3, <1>4, <1>5, <1>6, <1>7, <1>8, <1>9, <1>10 DEF Next, WorkerStep

LEMMA TurnInvHolds == Spec => []TurnInv
<1>1. Init => TurnInv
  BY TurnInit
<1>2. SlotInv /\ TurnInv /\ [Next]_vars => TurnInv'
  BY TurnStep
<1> QED
  BY <1>1, <1>2, SlotInvHolds, PTL DEF Spec

(* A request is sent by the step Send of its worker, when its turn is due. *)
LEMMA OnlySendSends ==
  ASSUME SlotInv, [Next]_vars, NEW w \in Workers, Sends(w)
  PROVE  left[w] <= 0
<1> USE DEF SlotInv, TypeOK, Sends, Go
<1>1. ASSUME NEW v \in Workers, Send(v) PROVE left[w] <= 0
  BY <1>1 DEF Send
<1>2. ASSUME NEW v \in Workers,
             Begin(v) \/ Acquire(v) \/ Settled(v) \/ Retry(v) \/ Abandon(v)
      PROVE  FALSE
  BY <1>2 DEF Begin, Acquire, Settled, Retry, Abandon
<1>3. ASSUME NEW v \in Workers, Trouble(v) PROVE FALSE
  BY <1>3, TroubleType
<1>4. ASSUME NEW v \in Workers, TooMany(v) PROVE FALSE
  BY <1>4, TooManyType
<1>5. CASE NextRun \/ Signal \/ Tick \/ UNCHANGED vars
  BY <1>5 DEF NextRun, Signal, Tick, vars
<1> QED
  BY <1>1, <1>2, <1>3, <1>4, <1>5 DEF Next, WorkerStep

Spaced == \A w \in Workers : Sends(w) => quiet >= HostDelay - Lag
Banned == \A w \in Workers : Sends(w) => ban = 0 \/ w \in stragglers

LEMMA SpacedStep == SlotInv /\ TurnInv /\ [Next]_vars => Spaced
<1> SUFFICES ASSUME SlotInv, TurnInv, [Next]_vars, NEW w \in Workers, Sends(w)
             PROVE  quiet >= HostDelay - Lag
  BY DEF Spaced
<1>1. left[w] <= 0 /\ pc[w] = "wait"
  BY OnlySendSends DEF Sends
<1>2. left[w] \in Int /\ quiet \in Nat /\ HostDelay \in Nat /\ Lag \in Nat
  BY ConstantsType, MemoryType DEF SlotInv, TypeOK
<1>3. Lag < HostDelay => quiet + left[w] >= HostDelay - Lag
  BY <1>1 DEF TurnInv, TurnOf
<1> QED
  BY <1>1, <1>2, <1>3

LEMMA BannedStep == SlotInv /\ TurnInv /\ [Next]_vars => Banned
<1> SUFFICES ASSUME SlotInv, TurnInv, [Next]_vars, NEW w \in Workers, Sends(w)
             PROVE  ban = 0 \/ w \in stragglers
  BY DEF Banned
<1>1. left[w] <= 0 /\ pc[w] = "wait"
  BY OnlySendSends DEF Sends
<1>2. left[w] \in Int /\ ban \in Nat
  BY DEF SlotInv, TypeOK
<1>3. ban = 0 \/ w \in stragglers \/ left[w] >= ban
  BY <1>1 DEF TurnInv, TurnOf
<1> QED
  BY <1>1, <1>2, <1>3

(* Requests to the host are HostDelay apart, up to the lateness of a timer.*)
THEOREM RequestsSpaced == Spec => RequestsAreSpaced
<1>1. SlotInv /\ TurnInv /\ [Next]_vars => Spaced
  BY SpacedStep
<1>2. [][Spaced]_vars => RequestsAreSpaced
  BY DEF RequestsAreSpaced, Spaced
<1> QED
  BY <1>1, <1>2, SlotInvHolds, TurnInvHolds, PTL DEF Spec

(* Who requests while the site wants no request was given its turn before  *)
(* the site said so.                                                       *)
THEOREM BanHeeded == Spec => OnlyStragglersIgnoreBan
<1>1. SlotInv /\ TurnInv /\ [Next]_vars => Banned
  BY BannedStep
<1>2. [][Banned]_vars => OnlyStragglersIgnoreBan
  BY DEF OnlyStragglersIgnoreBan, Banned
<1> QED
  BY <1>1, <1>2, SlotInvHolds, TurnInvHolds, PTL DEF Spec
=============================================================================
