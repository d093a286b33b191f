------------------------------- MODULE Robots -------------------------------
(***************************************************************************)
(* The robots.txt cache of one host (internal/scraper/robots.go) under the *)
(* workers of a run: Quote asks allowed, then crawlDelay, then goes for    *)
(* the page.  The mutex of the host is held over the request for           *)
(* robots.txt and over nothing else that takes time, so it is taken        *)
(* exactly while a worker is at "fetch".                                   *)
(*                                                                         *)
(* Of a robots.txt only what it says of our pages is kept: "allow" or      *)
(* "deny".  A 5xx answer is a "deny" and any other error status an         *)
(* "allow", as robotstxt.FromStatusAndBytes has it, and both are kept like *)
(* a real file.                                                            *)
(***************************************************************************)
EXTENDS Integers, FiniteSetsExt

CONSTANTS
  Workers,   \* goroutines of one run with a product of this host
  TTL,       \* robotsTTL
  Timeout    \* http.Client.Timeout

ASSUME TimesAreNat == TTL \in Nat /\ Timeout \in Nat \ {0}
ASSUME WorkersAreFinite == IsFiniteSet(Workers)

VARIABLES
  place,      \* where each worker is in Quote
  rules,      \* robotsHost.data
  age,        \* time since robotsHost.fetched, up to TTL + 1
  left,       \* what remains of the timeout of the request under way
  cancelled,  \* the context of the process is cancelled
  site,       \* what the site serves as robots.txt now
  since,      \* observed: time since it last changed that, up to Memory
  waited      \* observed: how long each worker has waited for its verdict

vars == <<place, rules, age, left, cancelled, site, since, waited>>

Verdicts == {"allow", "deny"}
Places == {"idle", "lock", "fetch", "delay", "page", "refused", "failed"}
Over == {"page", "refused", "failed"}

Memory == TTL + Timeout + 1
AtMost(n, bound) == Min({n, bound})

TypeOK ==
  /\ place \in [Workers -> Places]
  /\ rules \in Verdicts \cup {"none"}
  /\ age \in 0..TTL+1 /\ left \in 0..Timeout
  /\ cancelled \in BOOLEAN
  /\ site \in Verdicts /\ since \in 0..Memory
  /\ waited \in [Workers -> Nat]

Init ==
  /\ place = [w \in Workers |-> "idle"]
  /\ rules = "none" /\ age = 0 /\ left = 0
  /\ cancelled = FALSE
  /\ site \in Verdicts /\ since = Memory
  /\ waited = [w \in Workers |-> 0]

Go(w, p) == place' = [place EXCEPT ![w] = p]

(* h.mu: Lock is not woken by a cancelled context.                         *)
MutexIsFree == \A w \in Workers : place[w] # "fetch"

-----------------------------------------------------------------------------
(* allowed                                                                 *)

Ask(w) ==
  /\ place[w] = "idle"
  /\ Go(w, "lock")
  /\ UNCHANGED <<rules, age, left, cancelled, site, since, waited>>

RulesHoldForEver == rules # "none"

RulesHold == rules # "none" /\ age <= TTL

(* TestAgent; Quote turns a refusal into ErrRobotsDisallow.                *)
Tell(w, verdict) == Go(w, IF verdict = "allow" THEN "delay" ELSE "refused")

TellFromCache(w) ==
  /\ place[w] = "lock" /\ MutexIsFree /\ RulesHold
  /\ Tell(w, rules)
  /\ UNCHANGED <<rules, age, left, cancelled, site, since, waited>>

StartFetch(w) ==
  /\ place[w] = "lock" /\ MutexIsFree /\ ~RulesHold
  /\ Go(w, "fetch")
  /\ left' = Timeout
  /\ UNCHANGED <<rules, age, cancelled, site, since, waited>>

(* What the site served at some moment since the request was sent.         *)
Answers == {v \in Verdicts : v = site \/ since <= Timeout - left}

Answer(w) ==
  /\ place[w] = "fetch" /\ ~cancelled
  /\ \E v \in Answers : rules' = v /\ Tell(w, v)
  /\ age' = 0 /\ left' = 0
  /\ UNCHANGED <<cancelled, site, since, waited>>

RulesForgotten == "none"

RulesKept == rules

GiveUpRepeating(w) == left' = Timeout /\ UNCHANGED place

GiveUpStillLocked(w) == left' = 0 /\ UNCHANGED place

(* The caller has no permission, whatever an older file said.              *)
GiveUp(w) == left' = 0 /\ Go(w, "failed")

(* No answer, a broken body, a file that does not parse, or the context is *)
(* cancelled: nothing is remembered of it, so the next worker asks again.  *)
Fail(w) ==
  /\ place[w] = "fetch"
  /\ GiveUp(w)
  /\ rules' = RulesKept
  /\ UNCHANGED <<age, cancelled, site, since, waited>>

-----------------------------------------------------------------------------
(* crawlDelay takes the mutex once more.                                   *)

ReadDelay(w) ==
  /\ place[w] = "delay" /\ MutexIsFree
  /\ Go(w, "page")
  /\ UNCHANGED <<rules, age, left, cancelled, site, since, waited>>

WorkerStep(w) ==
  Ask(w) \/ TellFromCache(w) \/ StartFetch(w) \/ Answer(w) \/ Fail(w) \/ ReadDelay(w)

-----------------------------------------------------------------------------
(* The surroundings.                                                       *)

(* RunOnce has waited for all workers, and the ticker fires again.         *)
NextRun ==
  /\ \A w \in Workers : place[w] \in Over
  /\ ~cancelled
  /\ place' = [w \in Workers |-> "idle"]
  /\ waited' = [w \in Workers |-> 0]
  /\ UNCHANGED <<rules, age, left, cancelled, site, since>>

Signal ==
  /\ ~cancelled
  /\ cancelled' = TRUE
  /\ UNCHANGED <<place, rules, age, left, site, since, waited>>

(* The site changes its robots.txt, breaks down or recovers.               *)
SiteTurns ==
  /\ site' \in Verdicts \ {site}
  /\ since' = 0
  /\ UNCHANGED <<place, rules, age, left, cancelled, waited>>

NoTimeout == TRUE

TimeoutHolds == left > 0

(* Time passes.  No request outlives its timeout, and a worker waits for   *)
(* its verdict only while the mutex is taken: what the scheduler adds is   *)
(* below one unit.                                                         *)
Tick ==
  /\ IF MutexIsFree THEN \A w \in Workers : place[w] # "lock" ELSE TimeoutHolds
  /\ age' = AtMost(age + 1, TTL + 1)
  /\ left' = IF MutexIsFree THEN 0 ELSE left - 1
  /\ since' = AtMost(since + 1, Memory)
  /\ waited' = [w \in Workers |->
                  IF place[w] \in {"lock", "fetch"} THEN waited[w] + 1 ELSE waited[w]]
  /\ UNCHANGED <<place, rules, cancelled, site>>

Next == (\E w \in Workers : WorkerStep(w)) \/ NextRun \/ Signal \/ SiteTurns \/ Tick

Spec == Init /\ [][Next]_vars

(* Runnable goroutines run, and a timeout comes.                           *)
Fairness == WF_vars(Tick) /\ \A w \in Workers : WF_vars(WorkerStep(w))

FairSpec == Spec /\ Fairness

-----------------------------------------------------------------------------
(* Properties.                                                             *)

IsTold(w, verdict) == place[w] \in {"lock", "fetch"} /\ Tell(w, verdict)

(* No worker gets a verdict, to go or to stay away, that the site took     *)
(* back more than an hour and the time of one request ago, whether it      *)
(* comes from the cache or a late answer, and although failed requests     *)
(* leave the old rules in place (robots.go:16-18).                         *)
VerdictIsFresh ==
  [][\A w \in Workers, v \in Verdicts :
       IsTold(w, v) /\ v # site => since <= TTL + Timeout]_vars

(* Between its permission and crawlDelay a worker does not hold the mutex. *)
(* Whatever others do to the cache meanwhile, crawlDelay never falls back  *)
(* to 0 for want of rules (robots.go:125-127).                             *)
DelayIsKnown == \A w \in Workers : place[w] = "delay" => rules # "none"

(* A worker waits for its verdict no longer than one timeout for each      *)
(* worker of the host.  DECISIONS.md (step 11) says one timeout; that      *)
(* holds only when the requests do not fail, as a failure is not cached.   *)
WaitIsBounded == \A w \in Workers : waited[w] <= Cardinality(Workers) * Timeout

(* Every worker gets past robots.txt, although the mutex is held over a    *)
(* request and Lock heeds neither the context nor a queue.                 *)
EveryoneGetsOn == \A w \in Workers : place[w] = "lock" ~> place[w] \in Over
=============================================================================
