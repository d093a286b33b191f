----------------------------- MODULE MonitorOrder -----------------------------
(***************************************************************************)
(* The order of the messages about one product, for every value of the     *)
(* constants and a database clock that never steps back.                   *)
(*                                                                         *)
(* A message can come too late only if its row waits while a newer row of  *)
(* the product is inserted.  As long as no call fails, or one call fails   *)
(* and the process is not stopped besides, every row of a product is       *)
(* marked when a worker takes the product up, so that a row that waits is  *)
(* always the newest one.                                                  *)
(***************************************************************************)
EXTENDS MonitorRefinement, MonitorRepeats

(* What the promise of ChatKeepsOrder is made for.                         *)
Careful == faults = 0 \/ faults + stops <= 1

Readable == Products \ Muted

Settled(p) == \A k \in 1..Len(history[p]) : history[p][k].notified

NewestWaits ==
  \A p \in Readable : \A k \in 1..Len(history[p]) :
    ~history[p][k].notified => k = Len(history[p])

InQueue(id) == \E n \in pending : n.id = id

(* What the run has still to do finds the table in order.                  *)
Prepared(p) ==
  /\ main \in {"resend", "confirm"} =>
       \A k \in 1..Len(history[p]) :
         ~history[p][k].notified => InQueue(history[p][k].id)
  /\ main = "list" => Settled(p)
  /\ main = "crawl" /\ (p \in todo \/ worker[p].pc \in {"quote", "last", "add"})
       => Settled(p)

(* Before anything goes wrong a row waits only for its own worker.         *)
InHand(p) == worker[p].pc \in {"notify", "mark"} \/ Settled(p)

Tidy ==
  /\ NewestWaits
  /\ ~cancelled => \A p \in Readable : Prepared(p)
  /\ faults = 0 /\ stops = 0 => \A p \in Readable : InHand(p)

OrderInv ==
  /\ cancelled => stops > 0
  /\ Careful => Tidy

-----------------------------------------------------------------------------
(* The counters.                                                           *)

LEMMA Counters ==
  ASSUME TypeInv, [Next]_vars
  PROVE  /\ faults \in Nat /\ stops \in Nat /\ faults' \in Nat /\ stops' \in Nat
         /\ faults' >= faults /\ stops' >= stops
         /\ cancelled' => cancelled \/ stops' = stops + 1
<1> USE DEF CallWorks, CallFails, Fault, budgetVars, runVars
<1>1. faults \in Nat /\ stops \in Nat
  BY DEF TypeInv, TypeOK
<1> DEFINE Goal == /\ faults' = faults \/ faults' = faults + 1
                   /\ \/ stops' = stops /\ (cancelled' => cancelled)
                      \/ stops' = stops + 1
<1>2. ASSUME Environment \/ Start \/ StopLoop PROVE Goal
  BY <1>2 DEF Environment, PriceMoves, Signal, Kill, Start, StopLoop, Die
<1>3. ASSUME MainStep PROVE Goal
  BY <1>3 DEF MainStep, RetryStep, ReadPending, ResendDone, Resend, Confirm, ListProducts,
              Spawn, EndRun, Tick, Die
<1>4. ASSUME NEW p \in Products, WorkerStep(p) PROVE Goal
  BY <1>4 DEF WorkerStep, Scrape, ReadLast, AddPrice, Announce, Mark
<1>5. ASSUME UNCHANGED vars PROVE Goal
  BY <1>5 DEF vars
<1>6. Goal
  BY <1>2, <1>3, <1>4, <1>5 DEF Next
<1> QED
  BY <1>1, <1>6

LEMMA CarefulBefore ==
  ASSUME TypeInv, [Next]_vars, Careful'
  PROVE  Careful
BY Counters DEF Careful

(* What a fault means while the tracker is careful: it was the first thing *)
(* that went wrong.                                                        *)
LEMMA FirstTrouble ==
  ASSUME TypeInv, [Next]_vars, OrderInv, Careful', faults' = faults + 1
  PROVE  /\ faults = 0 /\ stops = 0 /\ ~cancelled /\ stops' = stops
         /\ \A p \in Readable : InHand(p)
<1>1. faults = 0 /\ stops = 0 /\ stops' = 0
  BY Counters DEF Careful
<1>2. Careful
  BY CarefulBefore
<1> QED
  BY <1>1, <1>2 DEF OrderInv, Tidy

(* Outside crawl nothing waits before anything goes wrong.                 *)
LEMMA NothingWaitsYet ==
  ASSUME Inv, main # "crawl", NEW p \in Readable, InHand(p)
  PROVE  Settled(p)
<1>1. p \in Products
  BY DEF Readable
<1> QED
  BY <1>1, IdleUnlessCrawling DEF InHand, Inv, IInv

-----------------------------------------------------------------------------
(* The steps that leave the table alone.                                   *)

LEMMA SameRows ==
  ASSUME UNCHANGED history
  PROVE  /\ NewestWaits' <=> NewestWaits
         /\ \A p : Settled(p)' <=> Settled(p)
BY DEF NewestWaits, Settled

(* No promise for the rest of the run, and no worker that lets go of a row *)
(* unless something has gone wrong.                                        *)
LEMMA QuietTidy ==
  ASSUME Tidy, UNCHANGED history,
         cancelled' \/ main' \in {"down", "pending", "select"},
         \/ faults' # 0 \/ stops' # 0
         \/ UNCHANGED <<faults, stops, worker>>
  PROVE  Tidy'
<1>1. NewestWaits'
  BY SameRows DEF Tidy
<1>2. ~cancelled' => \A p \in Readable : Prepared(p)'
  BY DEF Prepared
<1>3. faults' = 0 /\ stops' = 0 => \A p \in Readable : InHand(p)'
  BY SameRows DEF Tidy, InHand
<1> QED
  BY <1>1, <1>2, <1>3 DEF Tidy

LEMMA SameTidy ==
  ASSUME Tidy,
         UNCHANGED <<history, main, cancelled, pending, todo, worker, faults, stops>>
  PROVE  Tidy'
BY DEF Tidy, NewestWaits, Prepared, InHand, Settled, InQueue

(* A step that keeps the tracker careful, and what is known before it.     *)
Steady == Inv /\ OrderInv /\ [Next]_vars /\ Careful'

LEMMA SteadyFacts ==
  ASSUME Steady
  PROVE  /\ Inv /\ Tidy /\ [Next]_vars
         /\ faults \in Nat /\ stops \in Nat /\ faults' >= faults /\ stops' >= stops
         /\ cancelled => stops > 0
         /\ faults' = faults + 1 =>
              /\ faults = 0 /\ stops = 0 /\ ~cancelled /\ stops' = stops
              /\ \A p \in Readable : InHand(p)
BY CarefulBefore, Counters, FirstTrouble DEF Steady, OrderInv, Inv

(* The process starts, ends or goes to sleep, or is told to stop.          *)
LEMMA TurnTidy ==
  ASSUME Steady, \/ Signal \/ Kill \/ Start \/ EndRun \/ Tick \/ StopLoop
  PROVE  Tidy'
<1> USE DEF dbVars, runVars, budgetVars
<1>1. Tidy /\ faults \in Nat /\ stops \in Nat /\ (cancelled => stops > 0)
  BY SteadyFacts
<1>2. CASE Signal
  BY <1>1, <1>2, QuietTidy DEF Signal
<1>3. CASE Kill
  BY <1>1, <1>3, QuietTidy DEF Kill, Die
<1>4. CASE StopLoop
  BY <1>1, <1>4, QuietTidy DEF StopLoop, Die
<1>5. CASE Start \/ EndRun \/ Tick
  BY <1>1, <1>5, QuietTidy DEF Start, EndRun, Tick
<1> QED
  BY <1>2, <1>3, <1>4, <1>5

LEMMA ReadPendingTidy ==
  ASSUME Steady, ReadPending
  PROVE  Tidy'
<1>1. /\ Inv /\ Tidy /\ main = "pending" /\ main' = "resend"
      /\ UNCHANGED <<history, cancelled, stops, worker>>
  BY SteadyFacts DEF ReadPending, dbVars, budgetVars
<1>2. NewestWaits' /\ \A p : Settled(p)' <=> Settled(p)
  BY <1>1, SameRows DEF Tidy
<1>3. CASE CallWorks /\ pending' = Undelivered
  <2>1. UNCHANGED faults
    BY <1>3 DEF CallWorks
  <2>2. \A p \in Readable : Prepared(p)'
    <3> SUFFICES ASSUME NEW p \in Readable, NEW k \in 1..Len(history[p]),
                        ~history[p][k].notified
                 PROVE  \E n \in pending' : n.id = history[p][k].id
      BY <1>1 DEF Prepared, InQueue
    <3>1. p \in Products
      BY DEF Readable
    <3> QED
      BY <1>1, <1>3, <3>1, UnmarkedIsFound DEF PendingFindsAll, Undelivered
  <2>3. faults' = 0 /\ stops' = 0 => \A p \in Readable : InHand(p)'
    BY <1>1, <1>2, <2>1 DEF Tidy, InHand
  <2> QED
    BY <1>2, <2>2, <2>3 DEF Tidy
<1>4. CASE CallFails /\ cancelled
  <2>1. stops' # 0
    BY <1>1, <1>4, SteadyFacts
  <2> QED
    BY <1>1, <1>2, <1>4, <2>1 DEF Tidy
<1>5. CASE Fault
  <2>1. faults' = faults + 1
    BY <1>5 DEF Fault
  <2>2. \A p \in Readable : Settled(p)'
    BY <1>1, <1>2, <2>1, SteadyFacts, NothingWaitsYet
  <2>3. \A p \in Readable : Prepared(p)' /\ InHand(p)'
    BY <1>1, <2>2 DEF Prepared, InHand, Settled
  <2> QED
    BY <1>2, <2>3 DEF Tidy
<1> QED
  BY <1>3, <1>4, <1>5 DEF ReadPending, CallFails

LEMMA ResendDoneTidy ==
  ASSUME Steady, ResendDone
  PROVE  Tidy'
<1>1. /\ Inv /\ Tidy /\ main = "resend" /\ main' = "list"
      /\ UNCHANGED <<history, cancelled, faults, stops, worker>>
      /\ pending = {} \/ cancelled
  BY SteadyFacts DEF ResendDone, dbVars, budgetVars
<1>2. NewestWaits' /\ \A p : Settled(p)' <=> Settled(p)
  BY <1>1, SameRows DEF Tidy
<1>3. ~cancelled' => \A p \in Readable : Prepared(p)'
  BY <1>1, <1>2 DEF Tidy, Prepared, InQueue, Settled
<1>4. faults' = 0 /\ stops' = 0 => \A p \in Readable : InHand(p)'
  BY <1>1, <1>2 DEF Tidy, InHand
<1> QED
  BY <1>2, <1>3, <1>4 DEF Tidy

(* A notice that has the id of a row is about the row's product.           *)
LEMMA QueuedRow ==
  ASSUME Inv, NEW n \in pending, NEW p \in Products, NEW k \in 1..Len(history[p]),
         n.id = history[p][k].id
  PROVE  n.product = p /\ k \in 2..Len(history[p]) /\ n = NoticeOf(history, p, k)
<1>1. PICK q \in Products : \E j \in 2..Len(history[q]) : n = NoticeOf(history, q, j)
  BY DEF Inv, IInv, RetryInv
<1>2. PICK j \in 2..Len(history[q]) : n = NoticeOf(history, q, j)
  BY <1>1
<1>3. j \in 1..Len(history[q]) /\ n.id = history[q][j].id /\ n.product = q
  BY <1>2, TypeFacts DEF NoticeOf, Inv
<1>4. history[p][k].id = history[q][j].id
  BY <1>3
<1>5. p = q /\ k = j
  <2>1. RowIdsAreUnique
    BY DEF Inv, IInv, TableInv
  <2> QED
    BY <1>3, <1>4, <2>1 DEF RowIdsAreUnique
<1> QED
  BY <1>2, <1>3, <1>5

(* A notice leaves the queue without its row being marked: it is that of a *)
(* muted product, or a call has failed for the first time.                 *)
LEMMA ResendTidy ==
  ASSUME Steady, NEW n \in pending, Resend(n)
  PROVE  Tidy'
<1>1. /\ Inv /\ Tidy /\ main = "resend" /\ ~cancelled
      /\ UNCHANGED <<history, stops>>
  BY SteadyFacts DEF Resend, dbVars, budgetVars
<1>2. NewestWaits' /\ \A p : Settled(p)' <=> Settled(p)
  BY <1>1, SameRows DEF Tidy
<1>3. CASE faults' = faults + 1
  <2>1. \A p \in Readable : Settled(p)'
    BY <1>1, <1>2, <1>3, SteadyFacts, NothingWaitsYet
  <2>2. \A p \in Readable : Prepared(p)' /\ InHand(p)'
    BY <2>1 DEF Prepared, InHand, Settled
  <2> QED
    BY <1>2, <2>2 DEF Tidy
<1>4. CASE faults' # faults + 1
  <2>1. UNCHANGED <<faults, worker, cancelled>> /\ main' \in {"resend", "confirm"}
        /\ (pending' = pending \/ (pending' = pending \ {n} /\ n.product \in Muted))
    BY <1>1, <1>4 DEF Resend, CallWorks, CallFails, Fault, AfterError
  <2>2. ASSUME NEW p \in Readable, NEW k \in 1..Len(history[p]), ~history[p][k].notified
        PROVE  InQueue(history[p][k].id)'
    <3>1. p \in Products /\ p \notin Muted
      BY DEF Readable
    <3>2. PICK m \in pending : m.id = history[p][k].id
      BY <1>1, <2>2 DEF Tidy, Prepared, InQueue
    <3>3. n.product \in Muted => m # n
      BY <1>1, <3>1, <3>2, QueuedRow DEF Inv
    <3> QED
      BY <1>1, <2>1, <3>2, <3>3 DEF InQueue
  <2>3. \A p \in Readable : Prepared(p)'
    BY <1>1, <2>1, <2>2 DEF Prepared
  <2>4. faults' = 0 /\ stops' = 0 => \A p \in Readable : InHand(p)'
    BY <1>1, <1>2, <2>1 DEF Tidy, InHand
  <2> QED
    BY <1>2, <2>3, <2>4 DEF Tidy
<1> QED
  BY <1>3, <1>4

(* Marking leaves less to wait for.                                        *)
LEMMA MarkedRows ==
  ASSUME TypeInv, NEW id \in Nat, history' = MarkNotified(history, id)
  PROVE  /\ \A p \in Products : Len(history'[p]) = Len(history[p])
         /\ \A p \in Products : \A k \in 1..Len(history[p]) :
              /\ history'[p][k].id = history[p][k].id
              /\ ~history'[p][k].notified =>
                   ~history[p][k].notified /\ history[p][k].id # id
         /\ NewestWaits => NewestWaits'
         /\ \A p \in Products : Settled(p) => Settled(p)'
<1>1. /\ \A p \in Products : Len(history'[p]) = Len(history[p])
      /\ \A p \in Products : \A k \in 1..Len(history[p]) :
           history'[p][k] = Marked(history[p][k], id)
  BY TypeFacts, MarkNotifiedType
<1>2. \A p \in Products : \A k \in 1..Len(history[p]) :
        /\ history'[p][k].id = history[p][k].id
        /\ ~history'[p][k].notified =>
             ~history[p][k].notified /\ history[p][k].id # id
  BY <1>1, TypeFacts DEF Marked, Row
<1>3. NewestWaits => NewestWaits'
  BY <1>1, <1>2 DEF NewestWaits, Readable
<1>4. \A p \in Products : Settled(p) => Settled(p)'
  BY <1>1, <1>2 DEF Settled
<1> QED
  BY <1>1, <1>2, <1>3, <1>4

LEMMA ConfirmTidy ==
  ASSUME Steady, NEW n \in pending, Confirm(n)
  PROVE  Tidy'
<1>1. /\ Inv /\ Tidy /\ main = "confirm" /\ main' = "resend" /\ n.id \in Nat
      /\ pending' = pending \ {n} /\ UNCHANGED <<cancelled, worker, stops>>
  BY SteadyFacts DEF Confirm, budgetVars, Inv, TypeInv, TypeOK, Notice
<1>2. CASE CallWorks /\ history' = MarkNotified(history, n.id)
  <2>1. /\ NewestWaits' /\ \A p \in Products : Settled(p) => Settled(p)'
        /\ \A p \in Products : Len(history'[p]) = Len(history[p])
        /\ \A p \in Products : \A k \in 1..Len(history[p]) :
             /\ history'[p][k].id = history[p][k].id
             /\ ~history'[p][k].notified =>
                  ~history[p][k].notified /\ history[p][k].id # n.id
    BY <1>1, <1>2, MarkedRows DEF Tidy, Inv
  <2>2. ~cancelled => \A p \in Readable : Prepared(p)'
    <3> SUFFICES ASSUME ~cancelled, NEW p \in Readable, NEW k \in 1..Len(history[p]),
                        ~history[p][k].notified, history[p][k].id # n.id
                 PROVE  InQueue(history[p][k].id)'
      BY <1>1, <2>1 DEF Prepared, Readable
    <3>1. PICK m \in pending : m.id = history[p][k].id
      BY <1>1 DEF Tidy, Prepared, InQueue
    <3>2. m \in pending' /\ m.id = history'[p][k].id
      BY <1>1, <2>1, <3>1 DEF Readable
    <3> QED
      BY <3>2 DEF InQueue
  <2>3. faults' = 0 /\ stops' = 0 => \A p \in Readable : InHand(p)'
    BY <1>1, <1>2, <2>1 DEF CallWorks, Tidy, InHand, Readable
  <2> QED
    BY <1>1, <2>1, <2>2, <2>3 DEF Tidy
<1>3. CASE CallFails /\ UNCHANGED history
  <2>1. NewestWaits' /\ \A p : Settled(p)' <=> Settled(p)
    BY <1>1, <1>3, SameRows DEF Tidy
  <2>2. CASE Fault
    <3>1. \A p \in Readable : Settled(p)'
      BY <1>1, <2>1, <2>2, SteadyFacts, NothingWaitsYet DEF Fault
    <3>2. \A p \in Readable : Prepared(p)' /\ InHand(p)'
      BY <3>1 DEF Prepared, InHand, Settled
    <3> QED
      BY <2>1, <3>2 DEF Tidy
  <2>3. CASE cancelled
    <3>1. stops' # 0
      BY <1>1, <2>3, SteadyFacts
    <3> QED
      BY <1>1, <2>1, <2>3, <3>1 DEF Tidy
  <2> QED
    BY <1>3, <2>2, <2>3 DEF CallFails
<1> QED
  BY <1>2, <1>3 DEF Confirm

LEMMA ListTidy ==
  ASSUME Steady, ListProducts
  PROVE  Tidy'
<1>1. /\ Inv /\ Tidy /\ main = "list" /\ UNCHANGED <<history, stops>>
  BY SteadyFacts DEF ListProducts, dbVars, budgetVars
<1>2. CASE CallWorks
  <2>1. /\ UNCHANGED <<cancelled, faults, worker>> /\ main' \in {"crawl", "select"}
    <3>1. ~CallFails
      BY <1>2, SteadyFacts DEF CallWorks, CallFails, Fault
    <3> QED
      BY <1>2, <3>1 DEF ListProducts, CallWorks
  <2>2. NewestWaits' /\ \A p : Settled(p)' <=> Settled(p)
    BY <1>1, SameRows DEF Tidy
  <2>3. ~cancelled' => \A p \in Readable : Prepared(p)'
    BY <1>1, <2>1, <2>2 DEF Tidy, Prepared
  <2>4. faults' = 0 /\ stops' = 0 => \A p \in Readable : InHand(p)'
    BY <1>1, <2>1, <2>2 DEF Tidy, InHand
  <2> QED
    BY <2>2, <2>3, <2>4 DEF Tidy
<1>3. CASE CallFails
  <2>1. cancelled' \/ main' \in {"down", "pending", "select"}
    <3>1. ~CallWorks
      BY <1>3, SteadyFacts DEF CallWorks, CallFails, Fault
    <3> QED
      BY <3>1 DEF ListProducts, Die
  <2>2. \/ faults' # 0 \/ stops' # 0
        \/ UNCHANGED <<faults, stops, worker>>
    BY <1>1, <1>3, SteadyFacts DEF CallFails, Fault
  <2> QED
    BY <1>1, <2>1, <2>2, QuietTidy
<1> QED
  BY <1>2, <1>3 DEF ListProducts

-----------------------------------------------------------------------------
(* The steps of the crawl.                                                 *)

(* One worker moves, and the row it works on is settled unless it holds it *)
(* in its hand.                                                            *)
LEMMA WorkerTidy ==
  ASSUME Tidy, NEW p \in Products, UNCHANGED <<history, stops>>,
         main' = "crawl" /\ main = "crawl",
         todo' \subseteq todo, cancelled' = cancelled,
         \A q \in Products \ {p} : worker'[q] = worker[q],
         faults' = faults \/ faults' # 0,
         p \in Readable /\ ~cancelled /\ (p \in todo' \/ worker'[p].pc \in {"quote", "last", "add"})
           => Settled(p),
         p \in Readable /\ faults' = 0 /\ stops' = 0 =>
           worker'[p].pc \in {"notify", "mark"} \/ Settled(p)
  PROVE  Tidy'
<1>1. NewestWaits' /\ \A q : Settled(q)' <=> Settled(q)
  BY SameRows DEF Tidy
<1>2. ASSUME ~cancelled', NEW q \in Readable PROVE Prepared(q)'
  <2>1. CASE q = p
    BY <1>1, <1>2, <2>1 DEF Prepared
  <2>2. CASE q # p
    BY <1>1, <1>2, <2>2 DEF Prepared, Tidy, Readable
  <2> QED
    BY <2>1, <2>2
<1>3. ASSUME faults' = 0, stops' = 0, NEW q \in Readable PROVE InHand(q)'
  <2>1. CASE q = p
    BY <1>1, <1>3, <2>1 DEF InHand
  <2>2. CASE q # p
    BY <1>1, <1>3, <2>2 DEF InHand, Tidy, Readable
  <2> QED
    BY <2>1, <2>2
<1> QED
  BY <1>1, <1>2, <1>3 DEF Tidy

LEMMA SpawnTidy ==
  ASSUME Steady, StillIdle, NEW p \in Products, Spawn(p)
  PROVE  Tidy'
<1>1. /\ Inv /\ Tidy /\ main = "crawl" /\ p \in todo
      /\ UNCHANGED <<history, stops, main, cancelled, faults>> /\ todo' = todo \ {p}
  BY SteadyFacts DEF Spawn, dbVars, budgetVars
<1>2. \A q \in Products \ {p} : worker'[q] = worker[q]
  BY <1>1 DEF Spawn, Inv, TypeInv, TypeOK
<1>3. p \in Readable /\ ~cancelled => Settled(p)
  BY <1>1 DEF Tidy, Prepared
<1>4. p \in Readable /\ faults' = 0 /\ stops' = 0 => Settled(p)
  BY <1>1 DEF StillIdle, Tidy, InHand
<1> QED
  BY <1>1, <1>2, <1>3, <1>4, WorkerTidy

(* What a step of a worker never does.                                     *)
LEMMA WorkerAlone ==
  ASSUME Steady, NEW p \in Products, WorkerStep(p)
  PROVE  /\ Inv /\ Tidy /\ main = "crawl" /\ main' = "crawl"
         /\ UNCHANGED <<stops, todo, pending, cancelled>>
         /\ \A q \in Products \ {p} : worker'[q] = worker[q]
         /\ faults' = faults \/ faults' = faults + 1
         /\ faults' = faults \/ faults' # 0
         /\ cancelled => stops' # 0
<1>1. /\ Inv /\ Tidy /\ faults \in Nat /\ stops \in Nat /\ (cancelled => stops > 0)
  BY SteadyFacts
<1>2. /\ worker[p].pc # "idle" /\ UNCHANGED <<stops, main, todo, pending, cancelled>>
      /\ \A q \in Products \ {p} : worker'[q] = worker[q]
  BY <1>1 DEF WorkerStep, Scrape, ReadLast, AddPrice, Announce, Mark, Finish,
              runVars, budgetVars, Inv, TypeInv, TypeOK
<1>3. faults' = faults \/ faults' = faults + 1
  BY DEF WorkerStep, Scrape, ReadLast, AddPrice, Announce, Mark, CallWorks, CallFails, Fault
<1>4. main = "crawl"
  BY <1>1, <1>2, WorkerTurn DEF Inv, IInv
<1> QED
  BY <1>1, <1>2, <1>3, <1>4

LEMMA ReadingTidy ==
  ASSUME Steady, StillIdle, NEW p \in Products, Scrape(p) \/ ReadLast(p)
  PROVE  Tidy'
<1>1. WorkerStep(p) /\ UNCHANGED history /\ worker[p].pc \in {"quote", "last"}
  BY DEF WorkerStep, Scrape, ReadLast, dbVars
<1>2. p \in Readable /\ ~cancelled => Settled(p)
  BY <1>1, WorkerAlone DEF Tidy, Prepared
<1>3. p \in Readable /\ faults = 0 /\ stops = 0 => Settled(p)
  BY <1>1, WorkerAlone DEF Tidy, InHand
<1> QED
  BY <1>1, <1>2, <1>3, WorkerAlone, WorkerTidy

(* What AddPrice does to the table and to its worker.                      *)
LEMMA AddPriceEffects ==
  ASSUME MaxBackdated = 0, TypeInv, NEW p \in Products, AddPrice(p)
  PROVE  /\ UNCHANGED history \/ history' = InsertRow(history, p, NewRow(p))
         /\ worker'[p].pc \in {"idle", "notify"}
         /\ history' = history \/ faults' = faults + 1 \/ ~cancelled
         /\ faults' = faults + 1 \/ cancelled \/ worker'[p].pc = "notify" \/ ~News(p)
<1>1. backdated \in Nat /\ worker[p] \in Worker
  BY DEF TypeInv, TypeOK
<1>2. UNCHANGED history \/ history' = InsertRow(history, p, NewRow(p))
  BY <1>1 DEF AddPrice, Insert, dbVars
<1> DEFINE w == [worker[p] EXCEPT !.pc = "notify", !.id = nextId]
<1>3. w.pc = "notify" /\ IdleWorker.pc = "idle"
  BY <1>1 DEF IdleWorker, Worker
<1>4. /\ \/ worker' = [worker EXCEPT ![p] = w]
         \/ worker' = [worker EXCEPT ![p] = IdleWorker]
      /\ \/ faults' = faults + 1 \/ cancelled \/ ~News(p)
         \/ worker' = [worker EXCEPT ![p] = w]
  BY DEF AddPrice, Finish, CallFails, Fault
<1> HIDE DEF w
<1>5. worker'[p].pc \in {"idle", "notify"}
      /\ (faults' = faults + 1 \/ cancelled \/ ~News(p) \/ worker'[p].pc = "notify")
  BY <1>3, <1>4 DEF TypeInv, TypeOK
<1>6. history' = history \/ faults' = faults + 1 \/ ~cancelled
  BY DEF AddPrice, CallWorks, CallFails, Fault, dbVars
<1> QED
  BY <1>2, <1>5, <1>6

(* The new row is the newest, and the only one of its product that waits.  *)
LEMMA AddPriceTidy ==
  ASSUME MaxBackdated = 0, Steady, StillIdle, NEW p \in Products, AddPrice(p)
  PROVE  Tidy'
<1>1. WorkerStep(p) /\ worker[p].pc = "add"
  BY DEF WorkerStep, AddPrice
<1>2. /\ Inv /\ Tidy /\ main = "crawl" /\ main' = "crawl"
      /\ UNCHANGED <<stops, todo, pending, cancelled>>
      /\ \A q \in Products \ {p} : worker'[q] = worker[q]
      /\ p \notin todo
  BY <1>1, WorkerAlone DEF StillIdle
<1>3. p \in Readable /\ ~cancelled => Settled(p)
  BY <1>1, <1>2 DEF Tidy, Prepared
<1>4. p \in Readable /\ faults = 0 /\ stops = 0 => Settled(p)
  BY <1>1, <1>2 DEF Tidy, InHand
<1>5. CASE UNCHANGED history
  <2>1. worker'[p].pc \in {"idle", "notify"}
    BY <1>2, AddPriceEffects DEF Inv
  <2> QED
    BY <1>1, <1>2, <1>3, <1>4, <1>5, <2>1, WorkerAlone, WorkerTidy
<1>6. CASE history' = InsertRow(history, p, NewRow(p))
  <2>1. /\ Len(history'[p]) = Len(history[p]) + 1 /\ Len(history[p]) \in Nat
        /\ history'[p][Len(history[p]) + 1] = NewRow(p)
        /\ \A k \in 1..Len(history[p]) : history'[p][k] = history[p][k]
        /\ \A q \in Products \ {p} : history'[q] = history[q]
    BY <1>2, <1>6, AddedRow, InsertRowType, TypeFacts DEF Inv
  <2>2. \A k \in 1..Len(history'[p]) : k \in 1..Len(history[p]) \/ k = Len(history'[p])
    BY <2>1
  <2>3. p \in Readable => Settled(p)
    <3>1. faults' = faults + 1 => faults = 0 /\ stops = 0
      BY SteadyFacts
    <3>2. faults' # faults + 1 => ~cancelled
      <4>1. history' # history
        <5>1. Len(history'[p]) # Len(history[p])
          BY <2>1
        <5> QED
          BY <5>1
      <4> QED
        BY <1>2, <4>1, AddPriceEffects DEF Inv
    <3> QED
      BY <1>3, <1>4, <3>1, <3>2
  <2>4. NewestWaits'
    <3> SUFFICES ASSUME NEW q \in Readable, NEW k \in 1..Len(history'[q]),
                        ~history'[q][k].notified
                 PROVE  k = Len(history'[q])
      BY DEF NewestWaits, Readable
    <3>1. CASE q = p
      BY <2>1, <2>2, <2>3, <3>1 DEF Settled
    <3>2. CASE q # p
      BY <1>2, <2>1, <3>2 DEF Tidy, NewestWaits, Readable
    <3> QED
      BY <3>1, <3>2
  <2>5. \A q \in Readable \ {p} : Settled(q) => Settled(q)'
    BY <2>1 DEF Settled, Readable
  <2>6. ASSUME ~cancelled', NEW q \in Readable PROVE Prepared(q)'
    <3>1. CASE q = p
      BY <1>1, <1>2, <3>1, AddPriceEffects DEF Prepared, Inv
    <3>2. CASE q # p
      BY <1>2, <2>5, <2>6, <3>2 DEF Prepared, Tidy, Readable
    <3> QED
      BY <3>1, <3>2
  <2>7. ASSUME faults' = 0, stops' = 0, NEW q \in Readable PROVE InHand(q)'
    <3>1. CASE q = p
      <4>1. CASE worker'[p].pc = "notify"
        BY <3>1, <4>1 DEF InHand
      <4>2. CASE worker'[p].pc # "notify"
        <5>1. NewRow(p).notified
          <6>1. faults' # faults + 1 /\ ~cancelled
            BY <2>7, SteadyFacts, <1>1, WorkerAlone
          <6>2. ~News(p)
            BY <1>2, <4>2, <6>1, AddPriceEffects DEF Inv
          <6> QED
            BY <6>2 DEF NewRow
        <5> QED
          BY <2>1, <2>2, <2>3, <3>1, <5>1 DEF InHand, Settled
      <4> QED
        BY <4>1, <4>2
    <3>2. CASE q # p
      <4>1. faults = 0 /\ stops = 0
        BY <2>7, SteadyFacts
      <4> QED
        BY <1>2, <2>5, <3>2, <4>1 DEF InHand, Tidy, Readable
    <3> QED
      BY <3>1, <3>2
  <2> QED
    BY <2>4, <2>6, <2>7 DEF Tidy
<1> QED
  BY <1>2, <1>5, <1>6, AddPriceEffects DEF Inv

(* A worker lets go of a row that is not marked only after a failure.      *)
LEMMA AnnounceTidy ==
  ASSUME Steady, StillIdle, NEW p \in Products, Announce(p)
  PROVE  Tidy'
<1>1. WorkerStep(p) /\ UNCHANGED history /\ worker[p].pc = "notify"
  BY DEF WorkerStep, Announce, dbVars
<1>2. /\ Inv /\ main = "crawl" /\ p \notin todo /\ worker[p] \in Worker
      /\ UNCHANGED <<todo, cancelled>> /\ (cancelled => stops' # 0)
  BY <1>1, WorkerAlone DEF StillIdle, Inv, TypeInv, TypeOK
<1> DEFINE w == [worker[p] EXCEPT !.pc = "mark"]
<1>3. w.pc = "mark" /\ IdleWorker.pc = "idle"
  BY <1>2 DEF IdleWorker, Worker
<1>4. /\ \/ worker' = [worker EXCEPT ![p] = w]
         \/ worker' = [worker EXCEPT ![p] = IdleWorker]
      /\ \/ faults' = faults + 1 \/ cancelled \/ p \in Muted
         \/ worker' = [worker EXCEPT ![p] = w]
  BY DEF Announce, Finish, CallFails, Fault
<1> HIDE DEF w
<1>5. /\ worker'[p].pc \in {"idle", "mark"}
      /\ faults' = faults + 1 \/ cancelled \/ p \in Muted \/ worker'[p].pc = "mark"
  BY <1>2, <1>3, <1>4 DEF Inv, TypeInv, TypeOK
<1>6. p \in Readable /\ faults' = 0 /\ stops' = 0 => worker'[p].pc = "mark"
  BY <1>2, <1>5, SteadyFacts DEF Readable
<1> QED
  BY <1>1, <1>2, <1>5, <1>6, WorkerAlone, WorkerTidy

LEMMA OwnRow ==
  ASSUME Inv, NEW p \in Products, worker[p].pc \in {"notify", "mark"}
  PROVE  /\ Len(history[p]) \in 2..Len(history[p]) /\ Len(history[p]) \in 1..Len(history[p])
         /\ worker[p].id = history[p][Len(history[p])].id /\ worker[p].id \in Nat
         /\ OwnNotice(p).id = worker[p].id /\ OwnNotice(p) \in Notice
<1>1. /\ Len(history[p]) > 1
      /\ OwnNotice(p) = NoticeOf(history, p, Len(history[p]))
  BY DEF Inv, IInv, WorkerInv, BaselineIsFresh
<1>2. /\ Len(history[p]) \in 2..Len(history[p]) /\ Len(history[p]) \in 1..Len(history[p])
      /\ history \in Tables
  BY <1>1, TypeFacts DEF Inv
<1>3. OwnNotice(p) \in Notice
  BY <1>1, <1>2, NoticeType
<1>4. OwnNotice(p).id = worker[p].id /\ worker[p].id = history[p][Len(history[p])].id
  BY <1>1 DEF OwnNotice, NoticeOf
<1>5. worker[p].id \in Nat
  BY DEF Inv, TypeInv, TypeOK, Worker
<1> QED
  BY <1>2, <1>3, <1>4, <1>5

LEMMA MarkTidy ==
  ASSUME Steady, StillIdle, NEW p \in Products, Mark(p)
  PROVE  Tidy'
<1>1. WorkerStep(p) /\ worker[p].pc = "mark" /\ Finish(p)
  BY DEF WorkerStep, Mark
<1>2. /\ Inv /\ Tidy /\ main = "crawl" /\ main' = "crawl" /\ p \notin todo
      /\ UNCHANGED <<todo, pending, stops, cancelled>> /\ (cancelled => stops' # 0)
      /\ \A q \in Products \ {p} : worker'[q] = worker[q]
  BY <1>1, WorkerAlone DEF StillIdle
<1>3. worker'[p].pc = "idle"
  BY <1>1, <1>2 DEF Finish, IdleWorker, Inv, TypeInv, TypeOK
<1>4. CASE UNCHANGED history /\ CallFails
  <2>1. faults' # 0 \/ stops' # 0
    BY <1>2, <1>4, SteadyFacts DEF CallFails, Fault
  <2> QED
    BY <1>1, <1>2, <1>3, <1>4, <2>1, WorkerAlone, WorkerTidy
<1>5. CASE history' = MarkNotified(history, worker[p].id) /\ CallWorks
  <2>1. /\ Len(history[p]) \in 1..Len(history[p]) /\ worker[p].id \in Nat
        /\ worker[p].id = history[p][Len(history[p])].id
    BY <1>1, <1>2, OwnRow
  <2>2. /\ NewestWaits' /\ \A q \in Products : Settled(q) => Settled(q)'
        /\ \A q \in Products : Len(history'[q]) = Len(history[q])
        /\ \A q \in Products : \A k \in 1..Len(history[q]) :
             ~history'[q][k].notified =>
               ~history[q][k].notified /\ history[q][k].id # worker[p].id
    BY <1>2, <1>5, <2>1, MarkedRows DEF Tidy, Inv
  <2>3. p \in Readable => Settled(p)'
    BY <1>2, <2>1, <2>2 DEF Tidy, NewestWaits, Settled
  <2>4. ~cancelled' => \A q \in Readable : Prepared(q)'
    <3> SUFFICES ASSUME ~cancelled', NEW q \in Readable PROVE Prepared(q)'
      OBVIOUS
    <3>1. CASE q = p
      BY <1>2, <2>3, <3>1 DEF Prepared
    <3>2. CASE q # p
      BY <1>2, <2>2, <3>2 DEF Prepared, Tidy, Readable
    <3> QED
      BY <3>1, <3>2
  <2>5. faults' = 0 /\ stops' = 0 => \A q \in Readable : InHand(q)'
    <3> SUFFICES ASSUME faults' = 0, stops' = 0, NEW q \in Readable PROVE InHand(q)'
      OBVIOUS
    <3>1. CASE q = p
      BY <2>3, <3>1 DEF InHand
    <3>2. CASE q # p
      BY <1>2, <1>5, <2>2, <3>2 DEF CallWorks, InHand, Tidy, Readable
    <3> QED
      BY <3>1, <3>2
  <2> QED
    BY <2>2, <2>4, <2>5 DEF Tidy
<1> QED
  BY <1>4, <1>5 DEF Mark

-----------------------------------------------------------------------------
(* All steps together.                                                     *)

LEMMA TidyStep ==
  ASSUME MaxBackdated = 0, Steady, StillIdle
  PROVE  Tidy'
<1>1. Tidy /\ [Next]_vars
  BY SteadyFacts
<1>2. ASSUME NEW p \in Products, PriceMoves(p) PROVE Tidy'
  BY <1>1, <1>2, SameTidy DEF PriceMoves, dbVars, runVars
<1>3. CASE UNCHANGED vars
  BY <1>1, <1>3, SameTidy DEF vars
<1> QED
  BY <1>1, <1>2, <1>3, TurnTidy, ReadPendingTidy, ResendDoneTidy, ResendTidy, ConfirmTidy,
     ListTidy, SpawnTidy, ReadingTidy, AddPriceTidy, AnnounceTidy, MarkTidy
  DEF Next, Environment, MainStep, RetryStep, WorkerStep

LEMMA OrderInvStep ==
  ASSUME MaxBackdated = 0, Inv, StillIdle, OrderInv, [Next]_vars
  PROVE  OrderInv'
<1>1. cancelled' => stops' > 0
  BY Counters DEF OrderInv, Inv
<1>2. Careful' => Tidy'
  BY TidyStep DEF Steady
<1> QED
  BY <1>1, <1>2 DEF OrderInv

(* A message is sent for a row of a readable product that waits.           *)
LEMMA SentWaits ==
  ASSUME Inv, [Next]_vars, chat' # chat
  PROVE  \E p \in Readable : \E k \in 2..Len(history[p]) :
           Sent(p, k) /\ ~history[p][k].notified
<1> DEFINE Goal == \E p \in Readable : \E k \in 2..Len(history[p]) :
                     Sent(p, k) /\ ~history[p][k].notified
<1>1. ASSUME NEW n \in pending, Resend(n) PROVE Goal
  <2>1. chat' = Append(chat, n) /\ n.product \notin Muted /\ UNCHANGED <<history, nextId>>
    BY <1>1 DEF Resend, dbVars
  <2>2. PICK p \in Products : \E k \in 2..Len(history[p]) :
          n = NoticeOf(history, p, k) /\ ~history[p][k].notified
    BY DEF Inv, IInv, RetryInv
  <2>3. n.product = p
    BY <2>2 DEF NoticeOf
  <2> QED
    BY <2>1, <2>2, <2>3 DEF Sent, Readable
<1>2. ASSUME NEW p \in Products, Announce(p) PROVE Goal
  <2>1. /\ chat' = Append(chat, OwnNotice(p)) /\ p \notin Muted
        /\ UNCHANGED <<history, nextId>>
    BY <1>2 DEF Announce, dbVars
  <2>2. /\ Len(history[p]) \in 2..Len(history[p])
        /\ ~history[p][Len(history[p])].notified
        /\ OwnNotice(p) = NoticeOf(history, p, Len(history[p]))
    BY <1>2, TypeFacts DEF Announce, Inv, IInv, WorkerInv, BaselineIsFresh
  <2> QED
    BY <2>1, <2>2 DEF Sent, Readable
<1> QED
  BY <1>1, <1>2
     DEF Next, Environment, MainStep, RetryStep, WorkerStep, PriceMoves, Signal, Kill,
         Start, ReadPending, ResendDone, Confirm, ListProducts, Spawn, EndRun, Tick,
         StopLoop, Scrape, ReadLast, AddPrice, Mark, vars

(* A message for the newest row of its product comes after those for the   *)
(* older ones.                                                             *)
LEMMA NewestComesLast ==
  ASSUME Inv, RowIdsIncrease, ChatKeepsOrder, Careful, Tidy,
         NEW p \in Readable, NEW k \in 2..Len(history[p]),
         Sent(p, k), ~history[p][k].notified
  PROVE  ChatKeepsOrder'
<1> DEFINE n == NoticeOf(history, p, k)
<1>1. /\ p \in Products /\ k \in 1..Len(history[p]) /\ Len(history[p]) \in Nat
      /\ n \in Notice /\ chat \in Seq(Notice)
      /\ n.id = history[p][k].id /\ n.product = p
  BY TypeFacts, NoticeType DEF Inv, Readable, NoticeOf
<1>2. k = Len(history[p])
  BY <1>1 DEF Tidy, NewestWaits
<1>3. /\ Len(chat') = Len(chat) + 1 /\ Len(chat) \in Nat /\ chat'[Len(chat) + 1] = n
      /\ \A i \in 1..Len(chat) : chat'[i] = chat[i]
  BY <1>1, AppendType DEF Sent
<1>4. ASSUME NEW i \in 1..Len(chat), chat[i].product = p PROVE chat[i].id <= n.id
  <2>1. PICK q \in Products : \E j \in 2..Len(history[q]) : chat[i] = NoticeOf(history, q, j)
    BY DEF Inv, IInv, TableInv, ChatIsTrue
  <2>2. PICK j \in 2..Len(history[q]) : chat[i] = NoticeOf(history, q, j)
    BY <2>1
  <2>3. q = p /\ chat[i].id = history[p][j].id
    BY <1>4, <2>2 DEF NoticeOf
  <2>4. j \in 1..Len(history[p]) /\ (j = k \/ j < k)
    BY <1>1, <1>2, <2>3
  <2>5. history[p][j].id \in Nat /\ history[p][k].id \in Nat
    BY <1>1, <2>4, TypeFacts DEF Inv
  <2> QED
    BY <1>1, <2>3, <2>4, <2>5 DEF RowIdsIncrease
<1>5. ASSUME NEW i \in 1..Len(chat'), NEW j \in 1..Len(chat'), i < j,
             chat'[i].product = chat'[j].product
      PROVE  chat'[i].id <= chat'[j].id
  <2>1. i \in 1..Len(chat) /\ (j \in 1..Len(chat) \/ j = Len(chat) + 1)
    BY <1>3, <1>5
  <2>2. CASE j \in 1..Len(chat)
    BY <1>3, <1>5, <2>1, <2>2 DEF ChatKeepsOrder, Careful
  <2>3. CASE j = Len(chat) + 1
    BY <1>1, <1>3, <1>4, <1>5, <2>1, <2>3
  <2> QED
    BY <2>1, <2>2, <2>3
<1> QED
  BY <1>5 DEF ChatKeepsOrder

(* The messages retryPending and the workers send about one product come   *)
(* in the order of its changes, unless a call fails and something else     *)
(* goes wrong besides.                                                     *)
THEOREM OrderIsKept ==
  ASSUME MaxBackdated = 0
  PROVE  Spec => []ChatKeepsOrder
<1>1. Init => OrderInv /\ StillIdle /\ ChatKeepsOrder
  <2> SUFFICES ASSUME Init PROVE OrderInv /\ StillIdle /\ ChatKeepsOrder
    OBVIOUS
  <2>1. \A p \in Products : Len(history[p]) = 0 /\ 1..0 = {}
    BY DEF Init, EmptyTable
  <2>2. Tidy
    BY <2>1 DEF Tidy, NewestWaits, Prepared, InHand, Settled, Readable, Init
  <2> QED
    BY <2>2 DEF Init, OrderInv, StillIdle, ChatKeepsOrder
<1>2. Inv /\ StillIdle /\ OrderInv /\ [Next]_vars => StillIdle' /\ OrderInv'
  BY InvClaims, StillIdleStep, OrderInvStep
<1>3. Inv /\ RowIdsIncrease /\ OrderInv /\ ChatKeepsOrder /\ [Next]_vars => ChatKeepsOrder'
  <2> SUFFICES ASSUME Inv, RowIdsIncrease, OrderInv, ChatKeepsOrder, [Next]_vars, Careful'
               PROVE  ChatKeepsOrder'
    BY DEF ChatKeepsOrder, Careful
  <2>1. Careful /\ Tidy
    BY CarefulBefore DEF OrderInv, Inv
  <2>2. CASE chat' = chat
    BY <2>1, <2>2 DEF ChatKeepsOrder, Careful
  <2>3. CASE chat' # chat
    BY <2>1, <2>3, SentWaits, NewestComesLast
  <2> QED
    BY <2>2, <2>3
<1> QED
  BY <1>1, <1>2, <1>3, InvHolds, IdsHold, PTL DEF Spec
===============================================================================
