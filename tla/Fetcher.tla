------------------------------- MODULE Fetcher -------------------------------
(***************************************************************************)
(* Fetching the pages of one host (internal/scraper: Quote, fetch, do,     *)
(* handle429 and hostLimiter).  The limiter keeps nothing that two hosts   *)
(* share, so one host is all there is to model.                            *)
(*                                                                         *)
(* Time is in whole units and is kept relative to now: hold is how far     *)
(* nextAllowed lies ahead (0 when it is not after now), left is what       *)
(* remains of the timer a worker sleeps on or of the timeout of its        *)
(* request.  A timer may fire late, by at most Lag.                        *)
(***************************************************************************)
EXTENDS Integers, FiniteSets, FiniteSetsExt

CONSTANTS
  Workers,          \* goroutines of one run with a product of this host
  HostConcurrency, HostDelay, Timeout,
  MaxAttempts, BaseBackoff, MaxBackoff, MaxRetryWait,
  RetryAfters,      \* the pauses the site may name in a 429
  CrawlDelay,       \* the Crawl-delay in its robots.txt, 0 without one
  Lag               \* bound: how late a goroutine may wake

ASSUME LimitsArePositive ==
  {HostConcurrency, MaxAttempts, BaseBackoff, MaxBackoff, Timeout} \subseteq Nat \ {0}
ASSUME WorkersAreFinite == IsFiniteSet(Workers)
ASSUME DelaysAreNat ==
  /\ {HostDelay, MaxRetryWait, CrawlDelay, Lag} \subseteq Nat
  /\ RetryAfters \subseteq Nat

VARIABLES
  hold,        \* hostState.nextAllowed
  taken,       \* hostState.sem: slots in use
  pc,          \* where each worker is
  left,        \* its timer
  attempt,     \* its attempt in the loop of fetch
  cancelled,   \* the context of the process is cancelled
  quiet,       \* observed: time since the last page request, up to Memory
  ban,         \* observed: how long the site still wants no request
  stragglers   \* observed: workers that had their turn when it last said so

limiter == <<hold, taken>>
observed == <<quiet, ban, stragglers>>
vars == <<limiter, pc, left, attempt, cancelled, observed>>

Places == {"idle", "slot", "wait", "request", "backoff", "done"}

(* As much of the past as a delay can refer to.                            *)
Memory == Max({HostDelay, CrawlDelay})

TypeOK ==
  /\ hold \in Nat /\ taken \in Nat
  /\ pc \in [Workers -> Places]
  /\ left \in [Workers -> Int]
  /\ attempt \in [Workers -> 0..MaxAttempts]
  /\ cancelled \in BOOLEAN
  /\ quiet \in 0..Memory /\ ban \in Nat /\ stragglers \subseteq Workers

Init ==
  /\ hold = 0 /\ taken = 0
  /\ pc = [w \in Workers |-> "idle"]
  /\ left = [w \in Workers |-> 0]
  /\ attempt = [w \in Workers |-> 0]
  /\ cancelled = FALSE
  /\ quiet = Memory /\ ban = 0 /\ stragglers = {}

Go(w, place) == pc' = [pc EXCEPT ![w] = place]

Sleep(w, d) == left' = [left EXCEPT ![w] = d]

-----------------------------------------------------------------------------
(* hostLimiter                                                             *)

PenalizeNothing(d) == UNCHANGED hold /\ d = d

(* penalize: nextAllowed only ever moves away.                             *)
Penalize(d) == hold' = Max({hold, d})

ReserveNothing == UNCHANGED hold

(* reserve: the turns given out lie HostDelay apart.                       *)
Reserve == hold' = hold + HostDelay

(* acquire: take a slot, reserve the turn, then sleep until it comes.  A   *)
(* free slot may win over ctx.Done().                                      *)
Acquire(w) ==
  /\ pc[w] = "slot" /\ taken < HostConcurrency
  /\ taken' = taken + 1
  /\ Sleep(w, hold)
  /\ Reserve
  /\ Go(w, "wait")
  /\ UNCHANGED <<attempt, cancelled, observed>>

Holding == {w \in Workers : pc[w] \in {"wait", "request"}}

ReleaseWhenCancelled(w) == taken' = IF pc[w] = "wait" THEN taken - 1 ELSE taken

(* The release of acquire, run by defer in do or on a cancelled sleep.     *)
Release(w) == taken' = IF w \in Holding THEN taken - 1 ELSE taken

(* Every wait of a worker listens to ctx.Done(); an HTTP request is cut    *)
(* off by its context.                                                     *)
Abandon(w) ==
  /\ cancelled
  /\ pc[w] \in {"slot", "wait", "request", "backoff"}
  /\ Release(w)
  /\ Go(w, "done")
  /\ UNCHANGED <<hold, left, attempt, cancelled, observed>>

-----------------------------------------------------------------------------
(* Quote, fetch and do                                                     *)

(* Quote up to fetch.  A bad URL or a robots.txt that forbids the page or  *)
(* does not answer ends it.                                                *)
Begin(w) ==
  /\ pc[w] = "idle"
  /\ \/ /\ Go(w, "slot")
        /\ attempt' = [attempt EXCEPT ![w] = 1]
        /\ IF CrawlDelay > HostDelay THEN Penalize(CrawlDelay) ELSE UNCHANGED hold
     \/ Go(w, "done") /\ UNCHANGED <<hold, attempt>>
  /\ UNCHANGED <<taken, left, cancelled, observed>>

(* The turn has come: client.Do.                                           *)
Send(w) ==
  /\ pc[w] = "wait" /\ left[w] <= 0 /\ ~cancelled
  /\ Go(w, "request")
  /\ Sleep(w, Timeout)
  /\ quiet' = 0
  /\ stragglers' = stragglers \ {w}
  /\ UNCHANGED <<limiter, attempt, cancelled, ban>>

(* backoff: half of the doubled pause for certain, the other half by lot.  *)
Backoff(n) ==
  LET half == Min({BaseBackoff * 2^(n-1), MaxBackoff}) \div 2 IN half..2*half

TryLaterForever(w, d) == Go(w, "backoff") /\ Sleep(w, d)

(* The error branch of fetch's loop: sleep and try again, unless this was  *)
(* the last attempt.                                                       *)
TryLater(w, d) ==
  IF attempt[w] = MaxAttempts
  THEN Go(w, "done") /\ UNCHANGED left
  ELSE Go(w, "backoff") /\ Sleep(w, d)

(* 200, or a 4xx that no retry mends.                                      *)
Settled(w) ==
  /\ pc[w] = "request" /\ ~cancelled
  /\ Release(w)
  /\ Go(w, "done")
  /\ UNCHANGED <<hold, left, attempt, cancelled, observed>>

(* No answer in time, a broken body, or a 5xx.                             *)
Trouble(w) ==
  /\ pc[w] = "request" /\ ~cancelled
  /\ Release(w)
  /\ \E d \in Backoff(attempt[w]) : TryLater(w, d)
  /\ UNCHANGED <<hold, attempt, cancelled, observed>>

(* 429 and handle429.  Without a Retry-After the pause is a backoff.  The  *)
(* whole host is put off, before anything is decided about the worker.     *)
TooMany(w) ==
  /\ pc[w] = "request" /\ ~cancelled
  /\ Release(w)
  /\ \E pause \in RetryAfters \cup Backoff(attempt[w]) :
       /\ Penalize(pause)
       /\ ban' = Max({ban, pause})
       /\ IF pause > MaxRetryWait THEN Go(w, "done") /\ UNCHANGED left
          ELSE IF pause = 0 THEN \E d \in Backoff(attempt[w]) : TryLater(w, d)
          ELSE TryLater(w, pause)
  /\ stragglers' = {v \in Workers : pc[v] = "wait"}
  /\ UNCHANGED <<attempt, cancelled, quiet>>

Retry(w) ==
  /\ pc[w] = "backoff" /\ left[w] <= 0 /\ ~cancelled
  /\ Go(w, "slot")
  /\ attempt' = [attempt EXCEPT ![w] = @ + 1]
  /\ UNCHANGED <<limiter, left, cancelled, observed>>

WorkerStep(w) ==
  \/ Begin(w) \/ Acquire(w) \/ Send(w) \/ Settled(w) \/ Trouble(w) \/ TooMany(w)
  \/ Retry(w) \/ Abandon(w)

-----------------------------------------------------------------------------
(* RunOnce has waited for all workers, and the ticker fires again.         *)
NextRun ==
  /\ \A w \in Workers : pc[w] = "done"
  /\ ~cancelled
  /\ pc' = [w \in Workers |-> "idle"]
  /\ attempt' = [w \in Workers |-> 0]
  /\ left' = [w \in Workers |-> 0]
  /\ UNCHANGED <<limiter, cancelled, observed>>

Signal ==
  /\ ~cancelled
  /\ cancelled' = TRUE
  /\ UNCHANGED <<limiter, pc, left, attempt, observed>>

Timed == {w \in Workers : pc[w] \in {"wait", "request", "backoff"}}

(* Time passes.  No request outlives its timeout and no sleeper oversleeps *)
(* by more than Lag.                                                       *)
Tick ==
  /\ \A w \in Timed : left[w] > IF pc[w] = "request" THEN 0 ELSE -Lag
  /\ hold' = Max({hold - 1, 0})
  /\ left' = [w \in Workers |-> IF w \in Timed THEN left[w] - 1 ELSE 0]
  /\ quiet' = Min({quiet + 1, Memory})
  /\ ban' = Max({ban - 1, 0})
  /\ UNCHANGED <<taken, pc, attempt, cancelled, stragglers>>

Next == (\E w \in Workers : WorkerStep(w)) \/ NextRun \/ Signal \/ Tick

Spec == Init /\ [][Next]_vars

(* Runnable goroutines run, and time does not stop.                        *)
Fairness == WF_vars(Tick) /\ WF_vars(NextRun) /\ \A w \in Workers : WF_vars(WorkerStep(w))

FairSpec == Spec /\ Fairness

-----------------------------------------------------------------------------
(* Properties.                                                             *)

(* Every slot in use belongs to a worker that will give it back, whichever *)
(* way its request or its sleep ends, so the host never runs out of slots. *)
SlotsAreReturned == taken = Cardinality(Holding) /\ taken <= HostConcurrency

Sends(w) == pc[w] = "wait" /\ pc'[w] = "request"

(* Page requests to the host are HostDelay apart, up to the lateness of a  *)
(* timer, although several workers pass the limiter at once.               *)
RequestsAreSpaced ==
  [][\A w \in Workers : Sends(w) => quiet >= HostDelay - Lag]_vars

(* After a 429 nobody gets a turn before the pause is over: who requests   *)
(* all the same was given its turn before the site said so.                *)
OnlyStragglersIgnoreBan ==
  [][\A w \in Workers : Sends(w) => ban = 0 \/ w \in stragglers]_vars

(* A run ends although all workers queue for the slots of one host and the *)
(* site answers every request with a pause.                                *)
EveryRunEnds ==
  \A w \in Workers : pc[w] = "slot" ~> \A v \in Workers : pc[v] = "done"

-----------------------------------------------------------------------------
(* What the repository says and the code does not do.                      *)

(* "After a 429 the whole host is held, not just one worker" (README.md,   *)
(* ratelimit.go:83-85).                                                    *)
HostIsHeldAfter429 == [][\A w \in Workers : Sends(w) => ban = 0]_vars

(* "The declared Crawl-delay is observed" (README.md).                     *)
CrawlDelayIsObserved ==
  [][\A w \in Workers : Sends(w) => quiet >= CrawlDelay - Lag]_vars

(* MaxRetryWait is "the ceiling of the pause we are ready to wait out by   *)
(* Retry-After within one run" (scraper.go:35-38), and "the slot must not  *)
(* be held all that time" (fetch.go:140-142): once a worker has given up   *)
(* in this run, nobody takes a slot to wait out a longer pause.  Without a *)
(* Crawl-delay only a Retry-After is longer than MaxRetryWait.             *)
LongPausesHoldNoSlot ==
  [][\A v, w \in Workers :
       pc[v] = "done" /\ attempt[v] > 0 /\ pc[w] = "slot" /\ pc'[w] = "wait"
         => ban <= MaxRetryWait]_vars
=============================================================================
