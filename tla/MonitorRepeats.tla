---------------------------- MODULE MonitorRepeats ----------------------------
(***************************************************************************)
(* Repeated messages: how many there can be, for every value of the        *)
(* constants and whatever the database clock does.                         *)
(***************************************************************************)
EXTENDS MonitorProofs, FiniteSetTheorems

(* The ids somebody is about to mark: workers, or retryPending.            *)
Marking ==
  {worker[p].id : p \in {q \in Products : worker[q].pc = "mark"}}
    \cup {n.id : n \in {m \in pending : main = "confirm" /\ IsNext(m)}}

(* The ids that were told and may be told again: nobody is going to mark   *)
(* them, and the next retryPending finds them.                             *)
Open == {id \in ToldIds : ~Notified(id)}
Loose == Open \ Marking

(* Once the context is cancelled no mark works any more.                   *)
Owed == IF cancelled THEN Cardinality(Marking) ELSE 0

Cost == Concurrency * stops

BusyBounded == IsFiniteSet(Busy) /\ Cardinality(Busy) <= Concurrency

(* Each repeat so far and each one still possible is paid for.             *)
Paid == Len(chat) + Cardinality(Loose) + Owed <= Cardinality(ToldIds) + faults + Cost

(* A product that waits for a worker has none yet.                         *)
StillIdle == \A p \in todo : worker[p].pc = "idle"

RepeatInv == BusyBounded /\ StillIdle /\ Paid

-----------------------------------------------------------------------------
(* The sets that are counted are finite.                                   *)

LEMMA SubsetCount ==
  ASSUME NEW S, NEW T, IsFiniteSet(T), S \subseteq T
  PROVE  /\ IsFiniteSet(S) /\ Cardinality(S) \in Nat /\ Cardinality(T) \in Nat
         /\ Cardinality(S) <= Cardinality(T)
<1>1. S \in SUBSET T
  OBVIOUS
<1> QED
  BY <1>1, FS_Subset, FS_CardinalityType

LEMMA OneMoreCount ==
  ASSUME NEW S, NEW T, NEW x, IsFiniteSet(T), S \subseteq T \cup {x}
  PROVE  /\ IsFiniteSet(S) /\ Cardinality(S) \in Nat /\ Cardinality(T) \in Nat
         /\ Cardinality(S) <= Cardinality(T) + 1
<1>1. /\ IsFiniteSet(T \cup {x})
      /\ Cardinality(T \cup {x}) = IF x \in T THEN Cardinality(T) ELSE Cardinality(T) + 1
  BY FS_AddElement
<1>2. IsFiniteSet(S) /\ Cardinality(S) \in Nat /\ Cardinality(S) <= Cardinality(T \cup {x})
  BY <1>1, SubsetCount
<1>3. Cardinality(T) \in Nat
  BY FS_CardinalityType
<1> QED
  BY <1>1, <1>2, <1>3

LEMMA ToldIsFinite ==
  ASSUME TypeInv
  PROVE  IsFiniteSet(ToldIds) /\ Cardinality(ToldIds) \in Nat /\ Len(chat) \in Nat
<1>1. chat \in Seq(Notice) /\ Len(chat) \in Nat
  BY TypeFacts
<1> DEFINE f == [i \in 1..Len(chat) |-> chat[i].id]
<1>2. f \in Surjection(1..Len(chat), ToldIds)
  BY DEF Surjection, ToldIds
<1>3. IsFiniteSet(1..Len(chat))
  BY <1>1, FS_Interval
<1>4. IsFiniteSet(ToldIds)
  BY <1>2, <1>3, FS_Surjection
<1> QED
  BY <1>1, <1>4, FS_CardinalityType

LEMMA LooseIsFinite ==
  ASSUME TypeInv
  PROVE  IsFiniteSet(Loose) /\ Cardinality(Loose) \in Nat
BY ToldIsFinite, SubsetCount DEF Loose, Open

LEMMA MarkingIsBounded ==
  ASSUME ClaimsInv, BusyBounded
  PROVE  /\ IsFiniteSet(Marking) /\ Cardinality(Marking) \in Nat
         /\ Cardinality(Marking) <= Concurrency
<1>1. CASE main = "confirm"
  <2>1. \A p \in Products : worker[p].pc # "mark"
    BY <1>1, IdleUnlessCrawling DEF ClaimsInv
  <2>2. \A m, n \in pending : IsNext(m) /\ IsNext(n) => m.id = n.id
    BY DEF IsNext, ClaimsInv, TypeInv, TypeOK, Notice
  <2>3. Marking = {} \/ \E x : Marking = {x}
    BY <2>1, <2>2 DEF Marking
  <2>4. IsFiniteSet(Marking) /\ Cardinality(Marking) \in {0, 1}
    BY <2>3, FS_EmptySet, FS_Singleton
  <2> QED
    BY <2>4, ConcurrencyIsPositive
<1>2. CASE main # "confirm"
  <2> DEFINE P == {q \in Products : worker[q].pc = "mark"}
             f == [p \in P |-> worker[p].id]
  <2>1. P \subseteq Busy
    BY DEF Busy
  <2>2. IsFiniteSet(P) /\ Cardinality(P) \in Nat /\ Cardinality(P) <= Cardinality(Busy)
        /\ Cardinality(Busy) \in Nat
    <3> HIDE DEF P
    <3> QED
      BY <2>1, SubsetCount DEF BusyBounded
  <2>3. f \in Surjection(P, Marking)
    BY <1>2 DEF Surjection, Marking
  <2>4. IsFiniteSet(Marking) /\ Cardinality(Marking) <= Cardinality(P)
    <3> HIDE DEF P, f
    <3> QED
      BY <2>2, <2>3, FS_Surjection
  <2> QED
    BY <2>2, <2>4, FS_CardinalityType, ConcurrencyIsPositive DEF BusyBounded
<1> QED
  BY <1>1, <1>2

-----------------------------------------------------------------------------
(* The account, in the five ways a step can change it.                     *)

Facts ==
  /\ Cardinality(Loose) \in Nat /\ Cardinality(ToldIds) \in Nat /\ Len(chat) \in Nat
  /\ Owed \in Nat /\ faults \in Nat /\ Cost \in Nat

LEMMA FactsHold ==
  ASSUME ClaimsInv, BusyBounded
  PROVE  Facts
<1>1. faults \in Nat /\ stops \in Nat
  BY DEF ClaimsInv, TypeInv, TypeOK
<1>2. Cost \in Nat
  BY <1>1, ConcurrencyIsPositive DEF Cost
<1>3. Owed \in Nat
  BY MarkingIsBounded DEF Owed
<1> QED
  BY <1>1, <1>2, <1>3, ToldIsFinite, LooseIsFinite DEF Facts, ClaimsInv

(* No message, and nothing gets loose that was not.                        *)
LEMMA PaidSame ==
  ASSUME ClaimsInv, Paid, Facts, Facts', UNCHANGED <<chat, stops>>,
         Loose' \subseteq Loose, Owed' <= Owed, faults' >= faults
  PROVE  Paid'
<1>1. ToldIds' = ToldIds /\ Cost' = Cost /\ Len(chat') = Len(chat)
  BY DEF ToldIds, Cost
<1>2. Cardinality(Loose') <= Cardinality(Loose)
  BY LooseIsFinite, SubsetCount DEF ClaimsInv
<1> QED
  BY <1>1, <1>2 DEF Paid, Facts

(* A mark fails: one row more is loose.                                    *)
LEMMA PaidOne ==
  ASSUME ClaimsInv, Paid, Facts, Facts', UNCHANGED <<chat, stops>>, NEW x,
         Loose' \subseteq Loose \cup {x},
         \/ faults' = faults + 1 /\ Owed' <= Owed
         \/ faults' = faults /\ Owed' + 1 <= Owed
  PROVE  Paid'
<1>1. ToldIds' = ToldIds /\ Cost' = Cost /\ Len(chat') = Len(chat)
  BY DEF ToldIds, Cost
<1>2. Cardinality(Loose') <= Cardinality(Loose) + 1
  BY LooseIsFinite, OneMoreCount DEF ClaimsInv
<1>3. CASE faults' = faults + 1 /\ Owed' <= Owed
  BY <1>1, <1>2, <1>3 DEF Paid, Facts
<1>4. CASE faults' = faults /\ Owed' + 1 <= Owed
  <2>1. \A l, m, y, o, q, r \in Nat :
          l + m + o <= r /\ y <= m + 1 /\ q + 1 <= o => l + y + q <= r
    OBVIOUS
  <2>2. Cardinality(ToldIds) + faults + Cost \in Nat
    BY DEF Facts
  <2>3. Len(chat) + Cardinality(Loose') + Owed' <= Cardinality(ToldIds) + faults + Cost
    BY <1>2, <1>4, <2>1, <2>2 DEF Paid, Facts
  <2> QED
    BY <1>1, <1>4, <2>3 DEF Paid
<1> QED
  BY <1>3, <1>4

(* A stop: every mark that was on its way is lost.                         *)
LEMMA PaidStop ==
  ASSUME ClaimsInv, Paid, Facts, Facts', UNCHANGED <<chat, faults>>, stops' = stops + 1,
         \/ Loose' \subseteq Loose /\ Owed' <= Concurrency
         \/ Cardinality(Loose') <= Cardinality(Loose) + Concurrency /\ Owed' = 0
  PROVE  Paid'
<1>1. ToldIds' = ToldIds /\ Len(chat') = Len(chat)
  BY DEF ToldIds
<1>2. Cost' = Cost + Concurrency
  BY ConcurrencyIsPositive DEF Cost, ClaimsInv, TypeInv, TypeOK
<1>3. Loose' \subseteq Loose => Cardinality(Loose') <= Cardinality(Loose)
  BY LooseIsFinite, SubsetCount DEF ClaimsInv
<1>4. Concurrency \in Nat
  BY ConcurrencyIsPositive
<1> QED
  BY <1>1, <1>2, <1>3, <1>4 DEF Paid, Facts

LEMMA ToldAfterSend ==
  ASSUME TypeInv, NEW n \in Notice, chat' = Append(chat, n)
  PROVE  /\ ToldIds' = ToldIds \cup {n.id}
         /\ Len(chat') = Len(chat) + 1
         /\ Cardinality(ToldIds') =
              IF n.id \in ToldIds THEN Cardinality(ToldIds) ELSE Cardinality(ToldIds) + 1
<1>1. /\ Len(chat') = Len(chat) + 1 /\ Len(chat) \in Nat
      /\ chat'[Len(chat) + 1] = n
      /\ \A i \in 1..Len(chat) : chat'[i] = chat[i]
  BY TypeFacts, AppendType
<1>2. \A i \in 1..Len(chat') : i \in 1..Len(chat) \/ i = Len(chat) + 1
  BY <1>1
<1>3. /\ Len(chat) + 1 \in 1..Len(chat')
      /\ \A i \in 1..Len(chat) : i \in 1..Len(chat')
  BY <1>1
<1>4. ToldIds' = ToldIds \cup {n.id}
  BY <1>1, <1>2, <1>3 DEF ToldIds
<1> QED
  BY <1>1, <1>4, ToldIsFinite, FS_AddElement

(* A message that is out, and its row going to be marked.                  *)
LEMMA PaidSent ==
  ASSUME ClaimsInv, Paid, Facts, Facts', NEW n \in Notice, chat' = Append(chat, n),
         UNCHANGED <<faults, stops>>, Owed' <= Owed,
         n.id \notin ToldIds \/ n.id \in Loose,
         Loose' \subseteq Loose \ {n.id}
  PROVE  Paid'
<1>1. Cost' = Cost
  BY DEF Cost
<1>2. /\ IsFiniteSet(Loose \ {n.id})
      /\ Cardinality(Loose \ {n.id}) =
           IF n.id \in Loose THEN Cardinality(Loose) - 1 ELSE Cardinality(Loose)
  BY LooseIsFinite, FS_RemoveElement DEF ClaimsInv
<1>3. Cardinality(Loose') <= Cardinality(Loose \ {n.id})
  BY <1>2, SubsetCount
<1>4. /\ Len(chat') = Len(chat) + 1
      /\ Cardinality(ToldIds') =
           IF n.id \in ToldIds THEN Cardinality(ToldIds) ELSE Cardinality(ToldIds) + 1
  BY ToldAfterSend DEF ClaimsInv
<1>5. CASE n.id \in Loose
  <2>1. n.id \in ToldIds
    BY <1>5 DEF Loose, Open
  <2> QED
    BY <1>1, <1>2, <1>3, <1>4, <1>5, <2>1 DEF Paid, Facts
<1>6. CASE n.id \notin ToldIds
  <2>1. n.id \notin Loose
    BY <1>6 DEF Loose, Open
  <2> QED
    BY <1>1, <1>2, <1>3, <1>4, <1>6, <2>1 DEF Paid, Facts
<1> QED
  BY <1>5, <1>6

(* A message that is out although its sender got an error.                 *)
LEMMA PaidSentInVain ==
  ASSUME ClaimsInv, Paid, Facts, Facts', NEW n \in Notice, chat' = Append(chat, n),
         faults' = faults + 1, UNCHANGED stops, Owed' <= Owed,
         n.id \notin ToldIds \/ n.id \in Loose,
         Loose' \subseteq Loose \cup {n.id}
  PROVE  Paid'
<1>1. Cost' = Cost
  BY DEF Cost
<1>2. Cardinality(Loose') <= IF n.id \in Loose THEN Cardinality(Loose) ELSE Cardinality(Loose) + 1
  <2>1. CASE n.id \in Loose
    <3>1. Loose' \subseteq Loose
      BY <2>1
    <3> QED
      BY <2>1, <3>1, LooseIsFinite, SubsetCount DEF ClaimsInv
  <2>2. CASE n.id \notin Loose
    BY <2>2, LooseIsFinite, OneMoreCount DEF ClaimsInv
  <2> QED
    BY <2>1, <2>2
<1>3. /\ Len(chat') = Len(chat) + 1
      /\ Cardinality(ToldIds') =
           IF n.id \in ToldIds THEN Cardinality(ToldIds) ELSE Cardinality(ToldIds) + 1
  BY ToldAfterSend DEF ClaimsInv
<1>4. CASE n.id \in Loose
  <2>1. n.id \in ToldIds
    BY <1>4 DEF Loose, Open
  <2> QED
    BY <1>1, <1>2, <1>3, <1>4, <2>1 DEF Paid, Facts
<1>5. CASE n.id \notin ToldIds
  <2>1. n.id \notin Loose
    BY <1>5 DEF Loose, Open
  <2>2. /\ Cardinality(ToldIds') = Cardinality(ToldIds) + 1
        /\ Cardinality(Loose') <= Cardinality(Loose) + 1
    BY <1>2, <1>3, <1>5, <2>1
  <2>3. \A l, x, y, o, q, t, r \in Nat :
          l + x + o <= t + r /\ y <= x + 1 /\ q <= o => l + 1 + y + q <= t + 1 + (r + 1)
    OBVIOUS
  <2>4. /\ faults + Cost \in Nat
        /\ Len(chat) + Cardinality(Loose) + Owed <= Cardinality(ToldIds) + (faults + Cost)
    BY DEF Paid, Facts
  <2>5. Len(chat) + 1 + Cardinality(Loose') + Owed'
          <= Cardinality(ToldIds) + 1 + (faults + Cost + 1)
    BY <2>2, <2>3, <2>4 DEF Facts
  <2>6. Cardinality(ToldIds) + 1 + (faults + Cost + 1)
          = Cardinality(ToldIds') + faults' + Cost'
    BY <1>1, <2>2 DEF Facts
  <2> QED
    BY <1>3, <2>5, <2>6 DEF Paid
<1> QED
  BY <1>4, <1>5

-----------------------------------------------------------------------------
(* The workers of a run are never more than the errgroup lets in.          *)

LEMMA BusyStep ==
  ASSUME ClaimsInv, BusyBounded, [Next]_vars
  PROVE  BusyBounded'
<1> USE DEF dbVars, runVars, budgetVars
<1>1. Busy' \subseteq Busy => BusyBounded'
  BY SubsetCount, ConcurrencyIsPositive DEF BusyBounded
<1>2. UNCHANGED worker => Busy' \subseteq Busy
  BY DEF Busy
<1>3. \A reason : Die(reason) => Busy' \subseteq Busy
  BY DEF Die, Busy, IdleWorker
<1>4. ASSUME NEW p \in Products, Spawn(p) PROVE BusyBounded'
  <2>1. Busy' \subseteq Busy \cup {p}
    BY <1>4 DEF Spawn, Busy, ClaimsInv, TypeInv, TypeOK
  <2>2. /\ IsFiniteSet(Busy') /\ Cardinality(Busy') \in Nat
        /\ Cardinality(Busy) \in Nat /\ Cardinality(Busy') <= Cardinality(Busy) + 1
    BY <2>1, OneMoreCount DEF BusyBounded
  <2>3. Cardinality(Busy) < Concurrency
    BY <1>4 DEF Spawn
  <2> QED
    BY <2>2, <2>3, ConcurrencyIsPositive DEF BusyBounded
<1>5. ASSUME NEW p \in Products, WorkerStep(p) PROVE Busy' \subseteq Busy
  <2>1. worker[p].pc # "idle" /\ \A q \in Products \ {p} : worker'[q] = worker[q]
    BY <1>5 DEF WorkerStep, Scrape, ReadLast, AddPrice, Announce, Mark, Finish,
                ClaimsInv, TypeInv, TypeOK
  <2> QED
    BY <2>1 DEF Busy
<1>6. ASSUME NEW n \in pending, Resend(n) \/ Confirm(n) PROVE Busy' \subseteq Busy
  <2>1. UNCHANGED worker \/ \E reason : Die(reason)
    BY <1>6 DEF Resend, Confirm
  <2> QED
    BY <1>2, <1>3, <2>1
<1>7. CASE Kill \/ ListProducts \/ StopLoop
  <2>1. UNCHANGED worker \/ \E reason : Die(reason)
    BY <1>7 DEF Kill, ListProducts, StopLoop
  <2> QED
    BY <1>1, <1>2, <1>3, <2>1
<1>8. CASE \/ Signal \/ (\E p \in Products : PriceMoves(p)) \/ Start \/ ReadPending
           \/ ResendDone \/ EndRun \/ Tick \/ UNCHANGED vars
  BY <1>1, <1>2, <1>8
     DEF PriceMoves, Signal, Start, ReadPending, ResendDone, EndRun, Tick, vars
<1> HIDE DEF dbVars, runVars, budgetVars
<1> QED
  BY <1>1, <1>4, <1>5, <1>6, <1>7, <1>8 DEF Next, Environment, MainStep, RetryStep

LEMMA StillIdleStep ==
  ASSUME ClaimsInv, StillIdle, [Next]_vars
  PROVE  StillIdle'
<1> USE DEF dbVars, runVars, budgetVars
<1>1. UNCHANGED <<todo, worker>> \/ todo' = {} => StillIdle'
  BY DEF StillIdle
<1>2. ASSUME NEW p \in Products, Spawn(p) PROVE StillIdle'
  BY <1>2 DEF Spawn, StillIdle, ClaimsInv, TypeInv, TypeOK
<1>3. ASSUME NEW p \in Products, WorkerStep(p) PROVE StillIdle'
  <2>1. /\ worker[p].pc # "idle" /\ UNCHANGED todo
        /\ \A q \in Products \ {p} : worker'[q] = worker[q]
    BY <1>3 DEF WorkerStep, Scrape, ReadLast, AddPrice, Announce, Mark, Finish,
                ClaimsInv, TypeInv, TypeOK
  <2>2. todo \subseteq Products
    BY DEF ClaimsInv, TypeInv, TypeOK
  <2> QED
    BY <2>1, <2>2 DEF StillIdle
<1>4. CASE ListProducts
  <2>1. \A p \in Products : worker[p].pc = "idle"
    BY <1>4, IdleUnlessCrawling DEF ListProducts, ClaimsInv
  <2>2. todo' = {} \/ UNCHANGED <<todo, worker>> \/ (todo' = Products /\ UNCHANGED worker)
    BY <1>4 DEF ListProducts, Die
  <2> QED
    BY <1>1, <2>1, <2>2 DEF StillIdle
<1>5. ASSUME NEW n \in pending, Resend(n) \/ Confirm(n) PROVE StillIdle'
  <2>1. UNCHANGED <<todo, worker>> \/ todo' = {}
    BY <1>5 DEF Resend, Confirm, Die
  <2> QED
    BY <1>1, <2>1
<1>6. CASE \/ Kill \/ StopLoop \/ Signal \/ (\E p \in Products : PriceMoves(p)) \/ Start
           \/ ReadPending \/ ResendDone \/ EndRun \/ Tick \/ UNCHANGED vars
  <2>1. UNCHANGED <<todo, worker>> \/ todo' = {}
    BY <1>6 DEF Kill, StopLoop, Die, PriceMoves, Signal, Start, ReadPending, ResendDone,
                EndRun, Tick, vars
  <2> QED
    BY <1>1, <2>1
<1> HIDE DEF dbVars, runVars, budgetVars
<1> QED
  BY <1>2, <1>3, <1>4, <1>5, <1>6 DEF Next, Environment, MainStep, RetryStep

(* With that the account is made of numbers, before a step and after it.   *)
LEMMA FactsHoldNext == ClaimsInv' /\ BusyBounded' => Facts'
<1>1. ClaimsInv /\ BusyBounded => Facts
  BY FactsHold
<1> QED
  BY <1>1, PTL

-----------------------------------------------------------------------------
(* What is being marked, told and loose.                                   *)

LEMMA InMarking ==
  ASSUME NEW x
  PROVE  x \in Marking <=>
           \/ \E p \in Products : worker[p].pc = "mark" /\ worker[p].id = x
           \/ main = "confirm" /\ \E n \in pending : IsNext(n) /\ n.id = x
BY DEF Marking

LEMMA InMarkingNext ==
  ASSUME NEW x
  PROVE  x \in Marking' <=>
           \/ \E p \in Products : worker'[p].pc = "mark" /\ worker'[p].id = x
           \/ main' = "confirm" /\ \E n \in pending' : IsNext(n)' /\ n.id = x
BY DEF Marking

(* Outside crawl and confirm nothing is about to be marked.                *)
LEMMA NoMarking ==
  ASSUME ClaimsInv, main \notin {"crawl", "confirm"}
  PROVE  Marking = {}
<1>1. \A p \in Products : worker[p].pc = "idle"
  BY IdleUnlessCrawling DEF ClaimsInv
<1> QED
  BY <1>1 DEF Marking

LEMMA NoMarkingNext ==
  ASSUME ClaimsInv', main' \notin {"crawl", "confirm"}
  PROVE  Marking' = {}
BY DEF ClaimsInv, TakingTurns, Busy, Marking

(* A worker that neither was nor is about to mark.                         *)
LEMMA SameMarking ==
  ASSUME NEW p \in Products, \A q \in Products \ {p} : worker'[q] = worker[q],
         UNCHANGED <<main, pending>>, worker[p].pc # "mark", worker'[p].pc # "mark"
  PROVE  Marking' = Marking
<1>1. \A n : IsNext(n)' = IsNext(n)
  BY DEF IsNext
<1>2. \A x : x \in Marking' <=> x \in Marking
  BY <1>1, InMarking, InMarkingNext
<1> QED
  BY <1>2

LEMMA FreshOrLoose ==
  ASSUME NEW x, ~Notified(x), x \notin Marking
  PROVE  x \notin ToldIds \/ x \in Loose
BY DEF Loose, Open

LEMMA OpenAfterSend ==
  ASSUME TypeInv, NEW n \in Notice, chat' = Append(chat, n), UNCHANGED history
  PROVE  Open' \subseteq Open \cup {n.id}
<1>1. ToldIds' = ToldIds \cup {n.id}
  BY ToldAfterSend
<1>2. \A x : Notified(x)' = Notified(x)
  BY DEF Notified
<1> QED
  BY <1>1, <1>2 DEF Open

LEMMA OpenAfterMark ==
  ASSUME TypeInv, NEW id \in Nat, history' = MarkNotified(history, id), UNCHANGED chat,
         NEW p \in Products, NEW k \in 1..Len(history[p]), history[p][k].id = id
  PROVE  Open' \subseteq Open \ {id}
<1>1. /\ \A q \in Products : Len(history'[q]) = Len(history[q])
      /\ \A q \in Products : \A j \in 1..Len(history[q]) :
           history'[q][j] = Marked(history[q][j], id)
  BY TypeFacts, MarkNotifiedType
<1>2. \A q \in Products : \A j \in 1..Len(history[q]) :
        /\ history'[q][j].id = history[q][j].id
        /\ history[q][j].notified => history'[q][j].notified
        /\ history[q][j].id = id => history'[q][j].notified
  BY <1>1, TypeFacts DEF Marked, Row
<1>3. \A x : Notified(x) => Notified(x)'
  BY <1>1, <1>2 DEF Notified
<1>4. Notified(id)'
  BY <1>1, <1>2 DEF Notified
<1>5. ToldIds' = ToldIds
  BY DEF ToldIds
<1> QED
  BY <1>3, <1>4, <1>5 DEF Open

LEMMA PaidQuiet ==
  ASSUME ClaimsInv, Paid, Facts, Facts', UNCHANGED <<history, chat, stops>>, faults' >= faults,
         Marking' = Marking, cancelled' = cancelled \/ Marking = {}
  PROVE  Paid'
<1>1. ToldIds' = ToldIds /\ \A x : Notified(x)' = Notified(x)
  BY DEF ToldIds, Notified
<1>2. Loose' \subseteq Loose
  BY <1>1 DEF Loose, Open
<1>3. Marking = {} => Owed' = 0
  BY FS_EmptySet DEF Owed
<1>4. cancelled' = cancelled => Owed' = Owed
  BY DEF Owed
<1>5. Owed' <= Owed
  BY <1>3, <1>4 DEF Facts
<1> QED
  BY <1>2, <1>5, PaidSame

-----------------------------------------------------------------------------
(* The steps of retryPending.                                              *)

LEMMA ResendPaid ==
  ASSUME ClaimsInv, ClaimsInv', Paid, Facts, Facts', NEW n \in pending, Resend(n)
  PROVE  Paid'
<1> USE DEF dbVars, budgetVars
<1>1. n \in Notice /\ n.id \in Nat
  BY DEF ClaimsInv, TypeInv, TypeOK, Notice
<1>2. Marking = {} /\ Owed = 0 /\ UNCHANGED <<history, stops>>
  BY NoMarking DEF Resend, Owed
<1>3. ~Notified(n.id)
  BY PendingIsUnmarked
<1>4. n.id \notin ToldIds \/ n.id \in Loose
  BY <1>2, <1>3, FreshOrLoose
<1>5. chat' = Append(chat, n) => Open' \subseteq Open \cup {n.id}
  BY <1>1, <1>2, OpenAfterSend DEF ClaimsInv
<1>6. ~cancelled' /\ Owed' = 0
  BY DEF Resend, Die, Owed
<1>7. CASE main' = "confirm"
  <2>1. chat' = Append(chat, n) /\ UNCHANGED <<faults, pending>> /\ IsNext(n)
    BY <1>7 DEF Resend, CallWorks, Die
  <2>2. IsNext(n)'
    BY <2>1 DEF IsNext
  <2>3. n.id \in Marking'
    BY <1>7, <2>1, <2>2, InMarkingNext
  <2>4. Loose' \subseteq Loose \ {n.id}
    BY <1>2, <1>5, <2>1, <2>3 DEF Loose
  <2> QED
    BY <1>1, <1>2, <1>4, <1>6, <2>1, <2>4, PaidSent
<1>8. CASE main' # "confirm"
  <2>1. Marking' = {}
    BY <1>8, NoMarkingNext DEF Resend, Die
  <2>2. CASE chat' = chat
    <3>1. faults' >= faults
      BY DEF Resend, CallWorks, CallFails, Fault, ClaimsInv, TypeInv, TypeOK
    <3> QED
      BY <1>2, <2>1, <2>2, <3>1, PaidQuiet
  <2>3. CASE chat' # chat
    <3>1. chat' = Append(chat, n) /\ faults' = faults + 1
      BY <1>8, <2>3 DEF Resend, CallFails, Fault
    <3>2. Loose' \subseteq Loose \cup {n.id}
      BY <1>2, <1>5, <3>1 DEF Loose
    <3> QED
      BY <1>1, <1>2, <1>4, <1>6, <3>1, <3>2, PaidSentInVain
  <2> QED
    BY <2>2, <2>3
<1> QED
  BY <1>7, <1>8

LEMMA ConfirmPaid ==
  ASSUME ClaimsInv, ClaimsInv', Paid, Facts, Facts', NEW n \in pending, Confirm(n)
  PROVE  Paid'
<1> USE DEF dbVars, budgetVars
<1>1. /\ main = "confirm" /\ main' = "resend" /\ IsNext(n) /\ n.id \in Nat
      /\ UNCHANGED <<chat, stops, cancelled>>
  BY DEF Confirm, ClaimsInv, TypeInv, TypeOK, Notice
<1>2. Marking' = {} /\ Owed' = 0
  BY <1>1, NoMarkingNext, FS_EmptySet DEF Owed
<1>3. Marking = {n.id}
  <2>1. \A p \in Products : worker[p].pc = "idle"
    BY <1>1, IdleUnlessCrawling DEF ClaimsInv
  <2>2. \A m \in pending : IsNext(m) => m.id = n.id
    BY <1>1 DEF IsNext, ClaimsInv, TypeInv, TypeOK, Notice
  <2>3. \A x : x \in Marking <=> x = n.id
    BY <1>1, <2>1, <2>2, InMarking
  <2> QED
    BY <2>3
<1>4. Loose = Open \ {n.id} /\ Loose' = Open'
  BY <1>2, <1>3 DEF Loose
<1>5. CASE CallWorks /\ history' = MarkNotified(history, n.id)
  <2>1. PICK p \in Products : HasRow(p, n.id)
    BY PendingIsUnmarked
  <2>2. PICK k \in 1..Len(history[p]) : history[p][k].id = n.id
    BY <2>1 DEF HasRow
  <2>4. Loose' \subseteq Loose
    BY <1>1, <1>4, <1>5, <2>2, OpenAfterMark DEF ClaimsInv
  <2>5. faults' >= faults /\ Owed' <= Owed
    BY <1>2, <1>5 DEF CallWorks, Facts
  <2> QED
    BY <1>1, <2>4, <2>5, PaidSame
<1>6. CASE CallFails /\ UNCHANGED history
  <2>1. Open' = Open
    BY <1>1, <1>6 DEF Open, ToldIds, Notified
  <2>2. Loose' \subseteq Loose \cup {n.id}
    BY <1>4, <2>1
  <2>3. cancelled => Owed = 1
    BY <1>3, FS_Singleton DEF Owed
  <2>4. \/ faults' = faults + 1 /\ Owed' <= Owed
        \/ faults' = faults /\ Owed' + 1 <= Owed
    BY <1>2, <1>6, <2>3 DEF CallFails, Fault, Facts
  <2> QED
    BY <1>1, <2>2, <2>4, PaidOne
<1> QED
  BY <1>5, <1>6 DEF Confirm

-----------------------------------------------------------------------------
(* The steps of processOne.                                                *)

(* No two workers claim the same row.                                      *)
LEMMA OwnIds ==
  ASSUME ClaimsInv, NEW p \in Products, NEW q \in Products, p # q,
         worker[p].pc \in {"notify", "mark"}, worker[q].pc = "mark"
  PROVE  worker[p].id # worker[q].id
<1>1. PICK j \in 1..Len(history[p]) : history[p][j].id = worker[p].id
  BY DEF ClaimsInv, Claims, HasRow, HasUnmarked
<1>2. PICK k \in 1..Len(history[q]) : history[q][k].id = worker[q].id
  BY DEF ClaimsInv, Claims, HasRow
<1> QED
  BY <1>1, <1>2 DEF ClaimsInv, RowIds, RowIdsAreUnique

LEMMA WorkerCrawls ==
  ASSUME ClaimsInv, NEW p \in Products, worker[p].pc # "idle"
  PROVE  main = "crawl"
BY DEF ClaimsInv, TakingTurns, Busy

LEMMA AddPricePaid ==
  ASSUME ClaimsInv, Paid, Facts, Facts', NEW p \in Products, AddPrice(p)
  PROVE  Paid'
<1>1. /\ UNCHANGED <<chat, stops, main, pending, cancelled>> /\ worker[p].pc = "add"
      /\ worker'[p].pc # "mark" /\ \A q \in Products \ {p} : worker'[q] = worker[q]
  <2>1. UNCHANGED <<chat, stops, main, pending, cancelled>> /\ worker[p].pc = "add"
    BY DEF AddPrice, runVars
  <2> DEFINE w == [worker[p] EXCEPT !.pc = "notify", !.id = nextId]
  <2>2. \/ worker' = [worker EXCEPT ![p] = w]
        \/ worker' = [worker EXCEPT ![p] = IdleWorker]
    BY DEF AddPrice, Finish
  <2>3. w.pc = "notify" /\ IdleWorker.pc = "idle"
    BY DEF IdleWorker, ClaimsInv, TypeInv, TypeOK, Worker
  <2> HIDE DEF w
  <2>4. worker'[p].pc # "mark" /\ \A q \in Products \ {p} : worker'[q] = worker[q]
    BY <2>2, <2>3 DEF ClaimsInv, TypeInv, TypeOK
  <2> QED
    BY <2>1, <2>4
<1>2. Marking' = Marking
  BY <1>1, SameMarking
<1>3. \A q \in Products : \A k \in 1..Len(history[q]) :
        \E j \in 1..Len(history'[q]) : history'[q][j] = history[q][k]
  <2>1. UNCHANGED history \/ Insert(p)
    BY DEF AddPrice, dbVars
  <2> QED
    BY <1>1, <2>1, InsertKeepsIds DEF ClaimsInv
<1>4. \A x : Notified(x) => Notified(x)'
  BY <1>3 DEF Notified
<1>5. Loose' \subseteq Loose
  BY <1>1, <1>2, <1>4 DEF Loose, Open, ToldIds
<1>6. faults' >= faults
  BY DEF AddPrice, CallWorks, CallFails, Fault, ClaimsInv, TypeInv, TypeOK
<1>7. Owed' <= Owed
  BY <1>1, <1>2 DEF Owed, Facts
<1> QED
  BY <1>1, <1>5, <1>6, <1>7, PaidSame

LEMMA AnnouncePaid ==
  ASSUME ClaimsInv, Paid, Facts, Facts', NEW p \in Products, Announce(p)
  PROVE  Paid'
<1> DEFINE id == worker[p].id
<1>1. /\ UNCHANGED <<history, stops, main, pending, cancelled>>
      /\ worker[p].pc = "notify" /\ main = "crawl"
      /\ \A q \in Products \ {p} : worker'[q] = worker[q]
  BY WorkerCrawls
     DEF Announce, dbVars, runVars, budgetVars, Finish, ClaimsInv, TypeInv, TypeOK
<1>2. OwnNotice(p) \in Notice /\ OwnNotice(p).id = id
  BY <1>1, OwnIsUnmarked
<1>3. ~Notified(id)
  BY <1>1, OwnIsUnmarked
<1>4. id \notin Marking
  BY <1>1, OwnIds, InMarking
<1>5. id \notin ToldIds \/ id \in Loose
  BY <1>3, <1>4, FreshOrLoose
<1>6. chat' = Append(chat, OwnNotice(p)) => Open' \subseteq Open \cup {id}
  BY <1>1, <1>2, OpenAfterSend DEF ClaimsInv
<1>7. CASE CallWorks /\ chat' = Append(chat, OwnNotice(p))
           /\ worker' = [worker EXCEPT ![p] = [@ EXCEPT !.pc = "mark"]]
  <2>1. worker'[p].pc = "mark" /\ worker'[p].id = id
    BY <1>7 DEF ClaimsInv, TypeInv, TypeOK, Worker
  <2>2. Marking \cup {id} \subseteq Marking'
    <3>1. \A x \in Marking : \E q \in Products \ {p} :
            worker[q].pc = "mark" /\ worker[q].id = x
      BY <1>1, InMarking
    <3>2. \A x \in Marking : x \in Marking'
      BY <1>1, <3>1, InMarkingNext
    <3> QED
      BY <2>1, <3>2, InMarkingNext
  <2>3. Loose' \subseteq Loose \ {id}
    BY <1>6, <1>7, <2>2 DEF Loose
  <2>4. Owed' <= Owed /\ UNCHANGED faults
    BY <1>1, <1>7 DEF CallWorks, Owed
  <2> QED
    BY <1>1, <1>2, <1>5, <1>7, <2>3, <2>4, PaidSent
<1>8. CASE Finish(p)
  <2>1. worker'[p].pc = "idle"
    BY <1>8 DEF Finish, IdleWorker, ClaimsInv, TypeInv, TypeOK
  <2>2. Marking' = Marking
    BY <1>1, <2>1, SameMarking
  <2>3. CASE chat' = chat
    <3>1. faults' >= faults
      BY DEF Announce, CallWorks, CallFails, Fault, ClaimsInv, TypeInv, TypeOK
    <3> QED
      BY <1>1, <2>2, <2>3, <3>1, PaidQuiet
  <2>4. CASE chat' # chat
    <3>1. chat' = Append(chat, OwnNotice(p)) /\ faults' = faults + 1
      <4>1. worker'[p].pc # "mark"
        BY <2>1
      <4>2. (CallWorks /\ p \notin Muted
              /\ worker' = [worker EXCEPT ![p] = [@ EXCEPT !.pc = "mark"]])
              => worker'[p].pc = "mark"
        BY DEF ClaimsInv, TypeInv, TypeOK, Worker
      <4> QED
        BY <2>4, <4>1, <4>2 DEF Announce, Fault
    <3>2. Loose' \subseteq Loose \cup {id}
      BY <1>6, <2>2, <3>1 DEF Loose
    <3>3. Owed' <= Owed
      BY <1>1, <2>2 DEF Owed, Facts
    <3> QED
      BY <1>1, <1>2, <1>5, <3>1, <3>2, <3>3, PaidSentInVain
  <2> QED
    BY <2>3, <2>4
<1> QED
  BY <1>7, <1>8 DEF Announce

LEMMA MarkPaid ==
  ASSUME ClaimsInv, BusyBounded, Paid, Facts, Facts', NEW p \in Products, Mark(p)
  PROVE  Paid'
<1> DEFINE id == worker[p].id
<1>1. /\ UNCHANGED <<chat, stops, main, pending, cancelled>>
      /\ worker[p].pc = "mark" /\ main = "crawl" /\ worker'[p].pc = "idle"
      /\ \A q \in Products \ {p} : worker'[q] = worker[q]
  BY WorkerCrawls
     DEF Mark, runVars, budgetVars, Finish, IdleWorker, ClaimsInv, TypeInv, TypeOK
<1>2. Marking' = Marking \ {id} /\ id \in Marking
  <2>1. \A x : x \in Marking <=> \E q \in Products : worker[q].pc = "mark" /\ worker[q].id = x
    BY <1>1, InMarking
  <2>2. \A x : x \in Marking' <=>
               \E q \in Products \ {p} : worker[q].pc = "mark" /\ worker[q].id = x
    BY <1>1, InMarkingNext
  <2>3. \A q \in Products \ {p} : worker[q].pc = "mark" => worker[q].id # id
    BY <1>1, OwnIds
  <2> QED
    BY <1>1, <2>1, <2>2, <2>3
<1>3. CASE CallWorks /\ history' = MarkNotified(history, id)
  <2>1. id \in Nat /\ \E k \in 1..Len(history[p]) : history[p][k].id = id
    BY <1>1 DEF ClaimsInv, Claims, HasRow, TypeInv, TypeOK, Worker
  <2>2. Open' \subseteq Open \ {id}
    BY <1>1, <1>3, <2>1, OpenAfterMark DEF ClaimsInv
  <2>3. Loose' \subseteq Loose
    BY <1>2, <2>2 DEF Loose
  <2>4. faults' >= faults /\ Owed' <= Owed
    BY <1>1, <1>3 DEF CallWorks, Owed, Facts
  <2> QED
    BY <1>1, <2>3, <2>4, PaidSame
<1>4. CASE CallFails /\ UNCHANGED history
  <2>1. Open' = Open
    BY <1>1, <1>4 DEF Open, ToldIds, Notified
  <2>2. Loose' \subseteq Loose \cup {id}
    BY <1>2, <2>1 DEF Loose
  <2>3. Owed' <= Owed /\ (cancelled => Owed' + 1 <= Owed)
    <3>1. CASE ~cancelled
      BY <1>1, <3>1 DEF Owed
    <3>2. CASE cancelled
      <4>1. IsFiniteSet(Marking)
        BY MarkingIsBounded
      <4>2. Cardinality(Marking') = Cardinality(Marking) - 1
        BY <1>2, <4>1, FS_RemoveElement
      <4>3. Cardinality(Marking) \in Nat
        BY <4>1, FS_CardinalityType
      <4> QED
        BY <1>1, <3>2, <4>2, <4>3 DEF Owed
    <3> QED
      BY <3>1, <3>2
  <2>4. \/ faults' = faults + 1 /\ Owed' <= Owed
        \/ faults' = faults /\ Owed' + 1 <= Owed
    BY <1>4, <2>3 DEF CallFails, Fault
  <2> QED
    BY <1>1, <2>2, <2>4, PaidOne
<1> QED
  BY <1>3, <1>4 DEF Mark

LEMMA WorkerPaid ==
  ASSUME ClaimsInv, BusyBounded, Paid, Facts, Facts', NEW p \in Products, WorkerStep(p)
  PROVE  Paid'
<1>1. ASSUME Scrape(p) \/ ReadLast(p) PROVE Paid'
  <2>1. UNCHANGED <<history, chat, stops, main, pending, cancelled>>
    BY <1>1 DEF Scrape, ReadLast, dbVars, runVars, budgetVars
  <2>2. /\ worker[p].pc # "mark"
        /\ \/ \E w \in Worker : worker' = [worker EXCEPT ![p] = w] /\ w.pc # "mark"
           \/ worker' = [worker EXCEPT ![p] = IdleWorker]
    <3> DEFINE v == [worker[p] EXCEPT !.pc = "last", !.cur = shelf[p]]
               w == [worker[p] EXCEPT !.pc = "add", !.prev = LastQuote(history, p)]
    <3>1. v \in Worker /\ v.pc = "last" /\ w \in Worker /\ w.pc = "add"
      BY LastQuoteType, TypeFacts DEF ClaimsInv, TypeInv, TypeOK, Worker, WorkerStates
    <3>2. /\ worker[p].pc # "mark"
          /\ \/ worker' = [worker EXCEPT ![p] = v]
             \/ worker' = [worker EXCEPT ![p] = w]
             \/ worker' = [worker EXCEPT ![p] = IdleWorker]
      BY <1>1 DEF Scrape, ReadLast, Finish
    <3> HIDE DEF v, w
    <3> QED
      BY <3>1, <3>2
  <2>3. worker'[p].pc # "mark" /\ \A q \in Products \ {p} : worker'[q] = worker[q]
    BY <2>2 DEF IdleWorker, ClaimsInv, TypeInv, TypeOK
  <2>4. Marking' = Marking
    BY <2>1, <2>2, <2>3, SameMarking
  <2>5. faults' >= faults
    BY <1>1 DEF Scrape, ReadLast, CallWorks, CallFails, Fault, ClaimsInv, TypeInv, TypeOK
  <2> QED
    BY <2>1, <2>4, <2>5, PaidQuiet
<1> QED
  BY <1>1, AddPricePaid, AnnouncePaid, MarkPaid DEF WorkerStep

-----------------------------------------------------------------------------
(* The other steps, and the theorem.                                       *)

LEMMA SignalPaid ==
  ASSUME ClaimsInv, BusyBounded, Paid, Facts, Facts', Signal
  PROVE  Paid'
<1>1. /\ UNCHANGED <<history, chat, main, pending, worker, faults>>
      /\ stops' = stops + 1 /\ ~cancelled
  BY DEF Signal, dbVars, runVars
<1>2. Marking' = Marking /\ Open' = Open
  BY <1>1 DEF Marking, IsNext, Open, ToldIds, Notified
<1>3. Cardinality(Marking) \in Nat /\ Cardinality(Marking) <= Concurrency
  BY MarkingIsBounded
<1>4. Owed' <= Concurrency /\ Loose' \subseteq Loose
  BY <1>2, <1>3, ConcurrencyIsPositive DEF Owed, Loose
<1> QED
  BY <1>1, <1>4, PaidStop

LEMMA KillPaid ==
  ASSUME ClaimsInv, ClaimsInv', BusyBounded, Paid, Facts, Facts', Kill
  PROVE  Paid'
<1>1. /\ UNCHANGED <<history, chat, faults>> /\ stops' = stops + 1
      /\ ~cancelled' /\ main' = "down"
  BY DEF Kill, Die, dbVars
<1>2. Open' = Open
  BY <1>1 DEF Open, ToldIds, Notified
<1>3. Loose' \subseteq Loose \cup Marking
  BY <1>2 DEF Loose
<1>4. /\ IsFiniteSet(Loose) /\ Cardinality(Loose) \in Nat
      /\ IsFiniteSet(Marking) /\ Cardinality(Marking) \in Nat
      /\ Cardinality(Marking) <= Concurrency
  BY LooseIsFinite, MarkingIsBounded DEF ClaimsInv
<1>5. /\ IsFiniteSet(Loose \cup Marking)
      /\ Cardinality(Loose \cup Marking) <= Cardinality(Loose) + Cardinality(Marking)
  <2>1. Cardinality(Loose \cap Marking) = 0
    <3>1. Loose \cap Marking = {}
      BY DEF Loose
    <3> QED
      BY <3>1, FS_EmptySet
  <2>2. /\ IsFiniteSet(Loose \cup Marking)
        /\ Cardinality(Loose \cup Marking) =
             Cardinality(Loose) + Cardinality(Marking) - Cardinality(Loose \cap Marking)
    BY <1>4, FS_Union
  <2> QED
    BY <1>4, <2>1, <2>2
<1>6. Cardinality(Loose') <= Cardinality(Loose) + Concurrency
  <2>1. Cardinality(Loose') \in Nat /\ Cardinality(Loose \cup Marking) \in Nat
        /\ Cardinality(Loose') <= Cardinality(Loose \cup Marking)
    BY <1>3, <1>5, SubsetCount
  <2> QED
    BY <1>4, <1>5, <2>1, ConcurrencyIsPositive
<1>7. Owed' = 0
  BY <1>1 DEF Owed
<1> QED
  BY <1>1, <1>6, <1>7, PaidStop

(* A step outside crawl and confirm, and the end of a run: nothing is being*)
(* marked before it or after it.                                           *)
LEMMA CalmPaid ==
  ASSUME ClaimsInv, ClaimsInv', Paid, Facts, Facts',
         \/ Start \/ ReadPending \/ ResendDone \/ ListProducts \/ EndRun \/ Tick \/ StopLoop
  PROVE  Paid'
<1> USE DEF dbVars, budgetVars
<1>1. UNCHANGED <<history, chat, stops>>
  BY DEF Start, ReadPending, ResendDone, ListProducts, EndRun, Tick, StopLoop
<1>2. faults' >= faults
  BY DEF Start, ReadPending, ResendDone, ListProducts, EndRun, Tick, StopLoop,
         CallWorks, CallFails, Fault, ClaimsInv, TypeInv, TypeOK
<1>3. Marking = {}
  <2>1. CASE EndRun
    BY <2>1 DEF EndRun, AllDone, Busy, Marking
  <2>2. CASE ~EndRun
    BY <2>2, NoMarking
       DEF Start, ReadPending, ResendDone, ListProducts, Tick, StopLoop
  <2> QED
    BY <2>1, <2>2
<1>4. Marking' = {}
  <2>1. CASE main' \notin {"crawl", "confirm"}
    BY <2>1, NoMarkingNext
  <2>2. CASE main' \in {"crawl", "confirm"}
    <3>1. main = "list" /\ UNCHANGED worker /\ main' = "crawl"
      BY <2>2 DEF Start, ReadPending, ResendDone, ListProducts, EndRun, Tick, StopLoop, Die
    <3>2. \A p \in Products : worker'[p].pc = "idle"
      BY <3>1, IdleUnlessCrawling DEF ClaimsInv
    <3> QED
      BY <3>1, <3>2 DEF Marking
  <2> QED
    BY <2>1, <2>2
<1> QED
  BY <1>1, <1>2, <1>3, <1>4, PaidQuiet

LEMMA PaidStep ==
  ASSUME ClaimsInv, ClaimsInv', RepeatInv, BusyBounded', [Next]_vars
  PROVE  Paid'
<1>1. Paid /\ BusyBounded
  BY DEF RepeatInv
<1>2. Facts /\ Facts'
  BY <1>1, FactsHold, FactsHoldNext
<1>3. ASSUME NEW p \in Products, Spawn(p) PROVE Paid'
  <2>1. /\ UNCHANGED <<history, chat, stops, main, pending, cancelled, faults>>
        /\ worker[p].pc # "mark"
        /\ worker' = [worker EXCEPT ![p] = [@ EXCEPT !.pc = "quote"]]
    BY <1>3 DEF Spawn, dbVars, budgetVars, RepeatInv, StillIdle
  <2> DEFINE w == [worker[p] EXCEPT !.pc = "quote"]
  <2>2. worker'[p].pc = "quote" /\ \A q \in Products \ {p} : worker'[q] = worker[q]
    <3>1. w.pc = "quote" /\ worker' = [worker EXCEPT ![p] = w]
      BY <2>1 DEF ClaimsInv, TypeInv, TypeOK, Worker
    <3> HIDE DEF w
    <3> QED
      BY <3>1 DEF ClaimsInv, TypeInv, TypeOK
  <2>3. Marking' = Marking
    BY <2>1, <2>2, SameMarking
  <2> QED
    BY <1>1, <1>2, <2>1, <2>3, PaidQuiet DEF Facts
<1>4. ASSUME (\E p \in Products : PriceMoves(p)) \/ UNCHANGED vars PROVE Paid'
  <2>1. UNCHANGED <<history, chat, stops, main, pending, cancelled, faults, worker>>
    BY <1>4 DEF PriceMoves, dbVars, runVars, vars
  <2>2. Marking' = Marking
    BY <2>1 DEF Marking, IsNext
  <2> QED
    BY <1>1, <1>2, <2>1, <2>2, PaidQuiet DEF Facts
<1> QED
  BY <1>1, <1>2, <1>3, <1>4, SignalPaid, KillPaid, CalmPaid, ResendPaid, ConfirmPaid,
     WorkerPaid
  DEF Next, Environment, MainStep, RetryStep

(* A reader gets one message too many from retryPending and processOne     *)
(* only for a call that failed or a process that was stopped, and a stop   *)
(* costs at most as many repeats as there can be workers.  A clock that    *)
(* steps back costs none.                                                  *)
THEOREM RepeatsAreCounted == Spec => []RepeatsAreAccountedFor
<1>1. Init => RepeatInv
  <2> SUFFICES ASSUME Init PROVE RepeatInv
    OBVIOUS
  <2>1. Busy = {} /\ ToldIds = {} /\ Loose = {} /\ Owed = 0
    BY DEF Init, Busy, IdleWorker, ToldIds, Loose, Open, Owed
  <2>2. Cardinality({}) = 0 /\ IsFiniteSet({})
    BY FS_EmptySet
  <2>3. Len(chat) = 0 /\ faults = 0 /\ Cost = 0
    BY ConcurrencyIsPositive DEF Init, Cost
  <2> QED
    BY <2>1, <2>2, <2>3, ConcurrencyIsPositive DEF Init, RepeatInv, BusyBounded, StillIdle, Paid
<1>2. ClaimsInv /\ ClaimsInv' /\ RepeatInv /\ [Next]_vars => RepeatInv'
  BY BusyStep, StillIdleStep, PaidStep DEF RepeatInv
<1>3. ClaimsInv /\ RepeatInv => RepeatsAreAccountedFor
  <2> SUFFICES ASSUME ClaimsInv, RepeatInv PROVE RepeatsAreAccountedFor
    OBVIOUS
  <2>1. Facts /\ Paid
    BY FactsHold DEF RepeatInv
  <2>2. \A l, x, o, r \in Nat : l + x + o <= r => l <= r
    OBVIOUS
  <2>3. Cardinality(ToldIds) + faults + Cost \in Nat
    BY <2>1 DEF Facts
  <2>4. Len(chat) <= Cardinality(ToldIds) + faults + Cost
    BY <2>1, <2>2, <2>3 DEF Paid, Facts
  <2> QED
    BY <2>4 DEF Cost, RepeatsAreAccountedFor
<1> QED
  BY <1>1, <1>2, <1>3, ClaimsHold, PTL DEF Spec
===============================================================================
