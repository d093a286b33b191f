---------------------------- MODULE RobotsProofs ----------------------------
(***************************************************************************)
(* Proofs about Robots for every number of workers, every validity of the  *)
(* cache and every timeout.                                                *)
(***************************************************************************)
EXTENDS Robots, FiniteSetTheorems, TLAPS

LEMMA AtMostIsMin ==
  ASSUME NEW n \in Int, NEW bound \in Int
  PROVE  AtMost(n, bound) = IF n <= bound THEN n ELSE bound
<1> DEFINE least == IF n <= bound THEN n ELSE bound
<1>1. least \in {n, bound} /\ \A y \in {n, bound} : least <= y
  OBVIOUS
<1>2. \A x \in {n, bound} : (\A y \in {n, bound} : x <= y) => x = least
  OBVIOUS
<1> HIDE DEF least
<1>3. (CHOOSE x \in {n, bound} : \A y \in {n, bound} : x <= y) = least
  BY <1>1, <1>2
<1> QED
  BY <1>3 DEF AtMost, Min, least

-----------------------------------------------------------------------------
(* Type correctness.                                                       *)

LEMMA TypeInit == Init => TypeOK
<1> SUFFICES ASSUME Init PROVE TypeOK
  OBVIOUS
<1>1. Memory \in Nat /\ 0 \in 0..TTL+1 /\ 0 \in 0..Timeout
  BY TimesAreNat DEF Memory
<1>2. since \in 0..Memory
  BY <1>1 DEF Init
<1> QED
  BY <1>1, <1>2 DEF Init, TypeOK, Places

LEMMA TypeTick == TypeOK /\ Tick => TypeOK'
<1> SUFFICES ASSUME TypeOK, Tick PROVE TypeOK'
  OBVIOUS
<1> USE TimesAreNat DEF TypeOK
<1>1. age' \in 0..TTL+1
  BY AtMostIsMin DEF Tick
<1>2. left' \in 0..Timeout
  BY DEF Tick, TimeoutHolds
<1>3. since' \in 0..Memory
  <2>1. Memory \in Nat
    BY DEF Memory
  <2>2. since' = AtMost(since + 1, Memory) /\ since \in Nat
    BY <2>1 DEF Tick
  <2> QED
    BY <2>1, <2>2, AtMostIsMin
<1>4. waited' \in [Workers -> Nat]
  BY DEF Tick
<1> QED
  BY <1>1, <1>2, <1>3, <1>4 DEF Tick

LEMMA TypeStep == TypeOK /\ [Next]_vars => TypeOK'
<1> SUFFICES ASSUME TypeOK, [Next]_vars PROVE TypeOK'
  OBVIOUS
<1> USE TimesAreNat DEF TypeOK, Go
<1>1. ASSUME NEW w \in Workers, Ask(w) PROVE TypeOK'
  BY <1>1 DEF Ask, Places
<1>2. ASSUME NEW w \in Workers, TellFromCache(w) PROVE TypeOK'
  BY <1>2 DEF TellFromCache, Tell, Places
<1>3. ASSUME NEW w \in Workers, StartFetch(w) PROVE TypeOK'
  BY <1>3 DEF StartFetch, Places
<1>4. ASSUME NEW w \in Workers, Answer(w) PROVE TypeOK'
  BY <1>4 DEF Answer, Answers, Tell, Places
<1>5. ASSUME NEW w \in Workers, Fail(w) PROVE TypeOK'
  BY <1>5 DEF Fail, GiveUp, RulesKept, Places
<1>6. ASSUME NEW w \in Workers, ReadDelay(w) PROVE TypeOK'
  BY <1>6 DEF ReadDelay, Places
<1>7. CASE NextRun
  BY <1>7 DEF NextRun, Places
<1>8. CASE Signal
  BY <1>8 DEF Signal
<1>9. CASE SiteTurns
  BY <1>9 DEF SiteTurns, Memory
<1>10. CASE Tick
  BY <1>10, TypeTick
<1>11. CASE UNCHANGED vars
  BY <1>11 DEF vars
<1> QED
  BY <1>1, <1>2, <1>3, <1>4, <1>5, <1>6, <1>7, <1>8, <1>9, <1>10, <1>11
     DEF Next, WorkerStep

(* TypeOK holds in every reachable state.                                  *)
THEOREM TypeCorrect == Spec => []TypeOK
<1>1. Init => TypeOK
  BY TypeInit
<1>2. TypeOK /\ [Next]_vars => TypeOK'
  BY TypeStep
<1> QED
  BY <1>1, <1>2, PTL DEF Spec

-----------------------------------------------------------------------------
(* The cache.                                                              *)

(* Rules are never lost once they are there, and rules that are no longer  *)
(* what the site serves were so when the request for them was sent.        *)
RulesWereTrue ==
  rules \in Verdicts \ {site} => since <= age + Timeout

CacheInv == DelayIsKnown /\ RulesWereTrue

LEMMA CacheInit == Init => CacheInv
BY DEF Init, CacheInv, DelayIsKnown, RulesWereTrue, Verdicts

LEMMA CacheStep == TypeOK /\ CacheInv /\ [Next]_vars => CacheInv'
<1> SUFFICES ASSUME TypeOK, CacheInv, [Next]_vars PROVE CacheInv'
  OBVIOUS
<1> USE TimesAreNat DEF TypeOK, CacheInv, DelayIsKnown, RulesWereTrue, Go
<1>1. ASSUME NEW w \in Workers, Ask(w) PROVE CacheInv'
  BY <1>1 DEF Ask
<1>2. ASSUME NEW w \in Workers, TellFromCache(w) PROVE CacheInv'
  BY <1>2 DEF TellFromCache, RulesHold, Tell
<1>3. ASSUME NEW w \in Workers, StartFetch(w) PROVE CacheInv'
  BY <1>3 DEF StartFetch
<1>4. ASSUME NEW w \in Workers, Answer(w) PROVE CacheInv'
  BY <1>4 DEF Answer, Answers, Tell, Verdicts
<1>5. ASSUME NEW w \in Workers, Fail(w) PROVE CacheInv'
  BY <1>5 DEF Fail, GiveUp, RulesKept
<1>6. ASSUME NEW w \in Workers, ReadDelay(w) PROVE CacheInv'
  BY <1>6 DEF ReadDelay
<1>7. CASE NextRun
  BY <1>7 DEF NextRun
<1>8. CASE Signal
  BY <1>8 DEF Signal
<1>9. CASE SiteTurns
  BY <1>9 DEF SiteTurns
<1>10. CASE Tick
  <2>1. Memory = TTL + Timeout + 1
    BY DEF Memory
  <2>2. /\ age' = IF age + 1 <= TTL + 1 THEN age + 1 ELSE TTL + 1
        /\ since' = IF since + 1 <= Memory THEN since + 1 ELSE Memory
    BY <1>10, <2>1, AtMostIsMin DEF Tick
  <2> QED
    BY <1>10, <2>1, <2>2 DEF Tick
<1>11. CASE UNCHANGED vars
  BY <1>11 DEF vars
<1> QED
  BY <1>1, <1>2, <1>3, <1>4, <1>5, <1>6, <1>7, <1>8, <1>9, <1>10, <1>11
     DEF Next, WorkerStep

LEMMA CacheHolds == Spec => []CacheInv
<1>1. Init => CacheInv
  BY CacheInit
<1>2. TypeOK /\ CacheInv /\ [Next]_vars => CacheInv'
  BY CacheStep
<1> QED
  BY <1>1, <1>2, TypeCorrect, PTL DEF Spec

(* crawlDelay, which takes the mutex a second time, always finds rules.    *)
THEOREM DelayKnown == Spec => []DelayIsKnown
<1>1. CacheInv => DelayIsKnown
  BY DEF CacheInv
<1> QED
  BY <1>1, CacheHolds, PTL

FreshTell ==
  \A w \in Workers, v \in Verdicts :
    IsTold(w, v) /\ v # site => since <= TTL + Timeout

LEMMA FreshStep == TypeOK /\ CacheInv /\ [Next]_vars => FreshTell
<1> SUFFICES ASSUME TypeOK, CacheInv, [Next]_vars,
                    NEW w \in Workers, NEW v \in Verdicts, IsTold(w, v), v # site
             PROVE  since <= TTL + Timeout
  BY DEF FreshTell
<1> USE TimesAreNat DEF TypeOK, CacheInv, RulesWereTrue, Go
<1>1. /\ place[w] \in {"lock", "fetch"}
      /\ place'[w] = IF v = "allow" THEN "delay" ELSE "refused"
  BY DEF IsTold, Tell
<1>2. ASSUME NEW u \in Workers, TellFromCache(u) PROVE since <= TTL + Timeout
  <2>1. u = w
    BY <1>1, <1>2 DEF TellFromCache, Tell
  <2>2. rules = v
    BY <1>1, <1>2, <2>1 DEF TellFromCache, Tell, RulesHold, Verdicts
  <2> QED
    BY <1>2, <2>2 DEF TellFromCache, RulesHold
<1>3. ASSUME NEW u \in Workers, Answer(u) PROVE since <= TTL + Timeout
  <2>1. PICK a \in Answers : Tell(u, a)
    BY <1>3 DEF Answer
  <2>2. u = w
    BY <1>1, <2>1 DEF Tell
  <2>3. a = v
    BY <1>1, <2>1, <2>2 DEF Tell, Answers, Verdicts
  <2> QED
    BY <2>3 DEF Answers
<1>4. ASSUME NEW u \in Workers, Ask(u) \/ StartFetch(u) \/ Fail(u) \/ ReadDelay(u) PROVE FALSE
  BY <1>1, <1>4 DEF Ask, StartFetch, Fail, GiveUp, ReadDelay
<1>5. CASE NextRun \/ Signal \/ SiteTurns \/ Tick \/ UNCHANGED vars
  BY <1>1, <1>5 DEF NextRun, Signal, SiteTurns, Tick, vars
<1> QED
  BY <1>2, <1>3, <1>4, <1>5 DEF Next, WorkerStep

(* No worker acts on a verdict that the site took back more than TTL and   *)
(* one timeout ago.                                                        *)
THEOREM VerdictFresh == Spec => VerdictIsFresh
<1>1. TypeOK /\ CacheInv /\ [Next]_vars => FreshTell
  BY FreshStep
<1>2. [][FreshTell]_vars => VerdictIsFresh
  BY DEF VerdictIsFresh, FreshTell
<1> QED
  BY <1>1, <1>2, TypeCorrect, CacheHolds, PTL DEF Spec

-----------------------------------------------------------------------------
(* The wait for a verdict.  A failed request is not cached, so each worker *)
(* that has failed may have cost the others one timeout; an answer lets    *)
(* everybody go before time passes again.                                  *)

Failed == {w \in Workers : place[w] = "failed"}
Spent == Timeout * Cardinality(Failed)
JustAnswered == rules # "none" /\ age = 0

OneFetches ==
  \A v, w \in Workers : place[v] = "fetch" /\ place[w] = "fetch" => v = w

WaitOf(w) ==
  /\ place[w] = "idle" => waited[w] = 0
  /\ place[w] = "failed" => waited[w] <= Spent
  /\ place[w] # "failed" => waited[w] <= Spent + Timeout
  /\ place[w] = "lock" /\ MutexIsFree /\ ~JustAnswered => waited[w] <= Spent
  /\ place[w] \in {"lock", "fetch"} /\ ~MutexIsFree => waited[w] <= Spent + Timeout - left

WaitInv == OneFetches /\ \A w \in Workers : WaitOf(w)

LEMMA FailedIsFinite ==
  /\ IsFiniteSet(Failed) /\ Cardinality(Failed) \in Nat
  /\ Cardinality(Workers) \in Nat
  /\ Cardinality(Failed) <= Cardinality(Workers)
<1>1. Failed \in SUBSET Workers
  BY DEF Failed
<1> QED
  BY <1>1, WorkersAreFinite, FS_Subset, FS_CardinalityType

LEMMA SpentType == Spent \in Nat
BY FailedIsFinite, TimesAreNat DEF Spent

LEMMA TimesMonotonic ==
  ASSUME NEW a \in Nat, NEW b \in Nat, NEW c \in Nat, a <= b
  PROVE  c * a <= c * b
<1>1. PICK d \in Nat : b = a + d
  <2>1. b - a \in Nat /\ b = a + (b - a)
    OBVIOUS
  <2> QED
    BY <2>1
<1>2. c * b = c * a + c * d /\ c * d \in Nat /\ c * a \in Nat
  BY <1>1
<1> QED
  BY <1>2

LEMMA WaitInit == TypeOK /\ Init => WaitInv
<1> SUFFICES ASSUME TypeOK, Init PROVE WaitInv
  OBVIOUS
<1> QED
  BY SpentType, TimesAreNat DEF Init, WaitInv, OneFetches, WaitOf, MutexIsFree

(* A step of one worker that is neither the start nor the end of a request *)
(* nor a failure.                                                          *)
LEMMA OtherWorkersWait ==
  ASSUME TypeOK, WaitInv, NEW w \in Workers,
         place[w] \in {"idle", "lock", "delay"},
         NEW q \in {"lock", "delay", "page", "refused"}, Go(w, q),
         q = "lock" => place[w] = "idle",
         UNCHANGED <<rules, age, left, waited>>
  PROVE  WaitInv'
<1> USE TimesAreNat DEF TypeOK, Go
<1>1. Failed' = Failed
  BY DEF Failed
<1>2. Spent' = Spent /\ Spent \in Nat
  BY <1>1, SpentType DEF Spent
<1>3. MutexIsFree' = MutexIsFree /\ JustAnswered' = JustAnswered
  BY DEF MutexIsFree, JustAnswered
<1>4. OneFetches'
  BY DEF WaitInv, OneFetches
<1>5. ASSUME NEW v \in Workers PROVE WaitOf(v)'
  BY <1>2, <1>3 DEF WaitInv, WaitOf
<1> QED
  BY <1>4, <1>5 DEF WaitInv

LEMMA WaitStartFetch ==
  ASSUME TypeOK, WaitInv, NEW w \in Workers, StartFetch(w)
  PROVE  WaitInv'
<1> USE TimesAreNat DEF TypeOK, Go
<1>1. Failed' = Failed
  BY DEF Failed, StartFetch
<1>2. Spent' = Spent /\ Spent \in Nat
  BY <1>1, SpentType DEF Spent
<1>3. MutexIsFree /\ ~JustAnswered /\ ~MutexIsFree'
  BY DEF StartFetch, MutexIsFree, JustAnswered, RulesHold
<1>4. OneFetches'
  BY DEF StartFetch, MutexIsFree, OneFetches
<1>5. ASSUME NEW v \in Workers PROVE WaitOf(v)'
  BY <1>2, <1>3 DEF WaitInv, WaitOf, StartFetch, MutexIsFree
<1> QED
  BY <1>4, <1>5 DEF WaitInv

LEMMA WaitAnswer ==
  ASSUME TypeOK, WaitInv, NEW w \in Workers, Answer(w)
  PROVE  WaitInv'
<1> USE TimesAreNat DEF TypeOK, Go
<1>1. Failed' = Failed
  BY DEF Failed, Answer, Tell
<1>2. Spent' = Spent /\ Spent \in Nat
  BY <1>1, SpentType DEF Spent
<1>3. ~MutexIsFree /\ MutexIsFree' /\ JustAnswered'
  BY DEF Answer, Answers, Tell, Verdicts, WaitInv, OneFetches, MutexIsFree, JustAnswered
<1>4. OneFetches'
  BY DEF Answer, Tell, WaitInv, OneFetches
<1>5. ASSUME NEW v \in Workers PROVE WaitOf(v)'
  BY <1>2, <1>3 DEF WaitInv, WaitOf, Answer, Tell
<1> QED
  BY <1>4, <1>5 DEF WaitInv

LEMMA WaitFail ==
  ASSUME TypeOK, WaitInv, NEW w \in Workers, Fail(w)
  PROVE  WaitInv'
<1> USE TimesAreNat DEF TypeOK, Go
<1>1. Failed' = Failed \cup {w} /\ w \notin Failed
  BY DEF Failed, Fail, GiveUp
<1>2. Cardinality(Failed') = Cardinality(Failed) + 1
  BY <1>1, FailedIsFinite, FS_AddElement
<1>3. Spent' = Spent + Timeout /\ Spent \in Nat
  BY <1>2, FailedIsFinite, SpentType DEF Spent
<1>4. ~MutexIsFree /\ MutexIsFree'
  BY DEF Fail, GiveUp, WaitInv, OneFetches, MutexIsFree
<1>5. OneFetches'
  BY DEF Fail, GiveUp, WaitInv, OneFetches
<1>6. ASSUME NEW v \in Workers PROVE WaitOf(v)'
  BY <1>3, <1>4 DEF WaitInv, WaitOf, Fail, GiveUp
<1> QED
  BY <1>5, <1>6 DEF WaitInv

LEMMA WaitNextRun ==
  ASSUME TypeOK, WaitInv, NextRun
  PROVE  WaitInv'
<1>1. Spent' \in Nat
  <2>1. Failed' = {}
    BY DEF Failed, NextRun
  <2> QED
    BY <2>1, FS_EmptySet, TimesAreNat DEF Spent
<1>2. MutexIsFree'
  BY DEF NextRun, MutexIsFree
<1>3. OneFetches'
  BY DEF NextRun, OneFetches
<1>4. ASSUME NEW v \in Workers PROVE WaitOf(v)'
  <2>1. place'[v] = "idle" /\ waited'[v] = 0
    BY DEF NextRun
  <2>2. 0 <= Spent' + Timeout
    <3>1. \A n \in Nat : 0 <= n + Timeout
      BY TimesAreNat
    <3> QED
      BY <1>1, <3>1
  <2> QED
    BY <2>1, <2>2, TimesAreNat DEF WaitOf, NextRun
<1> QED
  BY <1>3, <1>4 DEF WaitInv

LEMMA WaitTick ==
  ASSUME TypeOK, WaitInv, Tick
  PROVE  WaitInv'
<1> USE TimesAreNat DEF TypeOK
<1>1. Failed' = Failed
  BY DEF Failed, Tick
<1>2. Spent' = Spent /\ Spent \in Nat
  BY <1>1, SpentType DEF Spent
<1>3. MutexIsFree' = MutexIsFree
  BY DEF Tick, MutexIsFree
<1>4. OneFetches'
  BY DEF Tick, WaitInv, OneFetches
<1>5. ASSUME NEW v \in Workers PROVE WaitOf(v)'
  <2>1. CASE MutexIsFree
    BY <1>2, <1>3, <2>1 DEF WaitInv, WaitOf, Tick, MutexIsFree
  <2>2. CASE ~MutexIsFree
    BY <1>2, <1>3, <2>2 DEF WaitInv, WaitOf, Tick, TimeoutHolds
  <2> QED
    BY <2>1, <2>2
<1> QED
  BY <1>4, <1>5 DEF WaitInv

LEMMA WaitStep == TypeOK /\ WaitInv /\ [Next]_vars => WaitInv'
<1> SUFFICES ASSUME TypeOK, WaitInv, [Next]_vars PROVE WaitInv'
  OBVIOUS
<1>1. ASSUME NEW w \in Workers, Ask(w) \/ TellFromCache(w) \/ ReadDelay(w) PROVE WaitInv'
  BY <1>1, OtherWorkersWait DEF Ask, TellFromCache, Tell, ReadDelay
<1>2. ASSUME NEW w \in Workers, StartFetch(w) PROVE WaitInv'
  BY <1>2, WaitStartFetch
<1>3. ASSUME NEW w \in Workers, Answer(w) PROVE WaitInv'
  BY <1>3, WaitAnswer
<1>4. ASSUME NEW w \in Workers, Fail(w) PROVE WaitInv'
  BY <1>4, WaitFail
<1>5. CASE NextRun
  BY <1>5, WaitNextRun
<1>6. CASE Tick
  BY <1>6, WaitTick
<1>7. CASE Signal \/ SiteTurns \/ UNCHANGED vars
  BY <1>7 DEF Signal, SiteTurns, vars, WaitInv, OneFetches, WaitOf, Spent, Failed,
              MutexIsFree, JustAnswered
<1> QED
  BY <1>1, <1>2, <1>3, <1>4, <1>5, <1>6, <1>7 DEF Next, WorkerStep

LEMMA WaitHolds == Spec => []WaitInv
<1>1. TypeOK /\ Init => WaitInv
  BY WaitInit
<1>2. TypeOK /\ WaitInv /\ [Next]_vars => WaitInv'
  BY WaitStep
<1> QED
  BY <1>1, <1>2, TypeCorrect, PTL DEF Spec

LEMMA WaitBound == TypeOK /\ WaitInv => WaitIsBounded
<1> SUFFICES ASSUME TypeOK, WaitInv, NEW w \in Workers
             PROVE  waited[w] <= Cardinality(Workers) * Timeout
  BY DEF WaitIsBounded
<1>1. waited[w] \in Nat /\ Timeout \in Nat /\ Spent \in Nat
  BY SpentType, TimesAreNat DEF TypeOK
<1>2. CASE place[w] = "failed"
  <2>1. waited[w] <= Spent
    BY <1>2 DEF WaitInv, WaitOf
  <2>2. Spent <= Timeout * Cardinality(Workers)
    BY <1>1, FailedIsFinite, TimesMonotonic DEF Spent
  <2> QED
    BY <1>1, <2>1, <2>2, FailedIsFinite
<1>3. CASE place[w] # "failed"
  <2>1. waited[w] <= Spent + Timeout
    BY <1>3 DEF WaitInv, WaitOf
  <2>2. Failed \cup {w} \in SUBSET Workers /\ w \notin Failed
    BY <1>3 DEF Failed
  <2>3. Cardinality(Failed) + 1 <= Cardinality(Workers)
    <3>1. Cardinality(Failed \cup {w}) = Cardinality(Failed) + 1
      BY <2>2, FailedIsFinite, FS_AddElement
    <3>2. Cardinality(Failed \cup {w}) <= Cardinality(Workers)
      BY <2>2, FS_Subset, WorkersAreFinite
    <3> QED
      BY <3>1, <3>2
  <2>4. Timeout * (Cardinality(Failed) + 1) <= Timeout * Cardinality(Workers)
    BY <1>1, <2>3, FailedIsFinite, TimesMonotonic
  <2>5. Spent + Timeout = Timeout * (Cardinality(Failed) + 1)
    BY <1>1, FailedIsFinite DEF Spent
  <2> QED
    BY <1>1, <2>1, <2>4, <2>5, FailedIsFinite
<1> QED
  BY <1>2, <1>3

(* No worker waits for its verdict longer than one timeout for each worker *)
(* of the host, however the requests for robots.txt end.                   *)
THEOREM WaitBounded == Spec => []WaitIsBounded
<1>1. TypeOK /\ WaitInv => WaitIsBounded
  BY WaitBound
<1> QED
  BY <1>1, TypeCorrect, WaitHolds, PTL
=============================================================================
