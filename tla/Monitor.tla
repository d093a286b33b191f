------------------------------- MODULE Monitor -------------------------------
(***************************************************************************)
(* The tracker process (internal/monitor: Run, RunOnce, retryPending,      *)
(* processOne) with its surroundings: the price_history table, which       *)
(* survives the process, the Telegram chat, and the shop pages.            *)
(*                                                                         *)
(* A call that leaves the process is one step.  It works, or it fails with *)
(* or without its effect: an INSERT may be committed and a message may be  *)
(* delivered although the caller got an error.  Once the context is        *)
(* cancelled every call fails.  A failing worker and a panicking one leave *)
(* the same state behind (log and return, recover), so they are one case.  *)
(***************************************************************************)
EXTENDS PriceHistory, FiniteSets

CONSTANTS
  Concurrency,   \* errgroup.SetLimit(m.concurrency)
  Broken,        \* products whose page never yields a price
  Muted,         \* products whose message Telegram always refuses
  MaxMoves,      \* bound: how often shop prices change
  MaxFaults,     \* bound: calls that fail although the context is alive
  MaxStops,      \* bound: signals and kills
  MaxBackdated   \* bound: inserts made while the database clock is behind

ASSUME ConcurrencyIsPositive == Concurrency \in Nat \ {0}
ASSUME BoundsAreNat ==
  /\ MaxMoves \in Nat
  /\ MaxFaults \in Nat
  /\ MaxStops \in Nat
  /\ MaxBackdated \in Nat

VARIABLES
  history,    \* table price_history
  nextId,     \* its id sequence
  chat,       \* the messages the Telegram chat has received, oldest first
  shelf,      \* the quote each shop page shows now
  main,       \* where the goroutine of Run is
  first,      \* the current run is the one before the ticker
  cancelled,  \* ctx.Err() # nil: SIGINT or SIGTERM has arrived
  exit,       \* how the process ended
  pending,    \* the notices retryPending still has to send
  todo,       \* products of this run not handed to a worker yet
  worker,     \* the goroutine working on each product
  moves, faults, stops, backdated   \* what is used up of each bound

dbVars     == <<history, nextId>>
runVars    == <<main, first, exit, pending, todo>>
budgetVars == <<moves, stops, backdated>>
vars == <<history, nextId, chat, shelf, main, first, cancelled, exit,
          pending, todo, worker, moves, faults, stops, backdated>>

MainStates == {"down", "pending", "resend", "confirm", "list", "crawl", "select"}
WorkerStates == {"idle", "quote", "last", "add", "notify", "mark"}
Exits == {"none", "ok", "error", "panic", "killed"}

Worker == [pc : WorkerStates, cur : Quotes \cup {Nil},
           prev : Quotes \cup {Nil}, id : Nat]

IdleWorker == [pc |-> "idle", cur |-> Nil, prev |-> Nil, id |-> 0]

TypeOK ==
  /\ history \in [Products -> Seq(Row)]
  /\ nextId \in Nat
  /\ chat \in Seq(Notice)
  /\ shelf \in [Products -> Quotes]
  /\ main \in MainStates
  /\ first \in BOOLEAN
  /\ cancelled \in BOOLEAN
  /\ exit \in Exits
  /\ pending \subseteq Notice
  /\ todo \subseteq Products
  /\ worker \in [Products -> Worker]
  /\ moves \in Nat /\ faults \in Nat /\ stops \in Nat /\ backdated \in Nat

Init ==
  /\ history = EmptyTable
  /\ nextId = 1
  /\ chat = <<>>
  /\ shelf \in [Products -> Quotes]
  /\ main = "down"
  /\ first = TRUE
  /\ cancelled = FALSE
  /\ exit = "none"
  /\ pending = {}
  /\ todo = {}
  /\ worker = [p \in Products |-> IdleWorker]
  /\ moves = 0 /\ faults = 0 /\ stops = 0 /\ backdated = 0

-----------------------------------------------------------------------------
(* Outcomes of a call.                                                     *)

CallWorks == ~cancelled /\ UNCHANGED faults

Fault == faults < MaxFaults /\ faults' = faults + 1

CallFails == Fault \/ (cancelled /\ UNCHANGED faults)

(* The process ends: everything but the table and the chat is lost.        *)
Die(reason) ==
  /\ main' = "down"
  /\ exit' = reason
  /\ first' = TRUE
  /\ cancelled' = FALSE
  /\ pending' = {}
  /\ todo' = {}
  /\ worker' = [p \in Products |-> IdleWorker]

-----------------------------------------------------------------------------
(* The surroundings.                                                       *)

(* A shop changes the price of p.                                          *)
PriceMoves(p) ==
  /\ moves < MaxMoves
  /\ moves' = moves + 1
  /\ \E q \in Quotes \ {shelf[p]} : shelf' = [shelf EXCEPT ![p] = q]
  /\ UNCHANGED <<dbVars, chat, runVars, cancelled, worker, faults, stops, backdated>>

(* The process is started, by hand or by "restart: on-failure".            *)
Start ==
  /\ main = "down"
  /\ main' = "pending"
  /\ exit' = "none"
  /\ UNCHANGED <<dbVars, chat, shelf, first, cancelled, pending, todo, worker,
                 budgetVars, faults>>

(* SIGINT or SIGTERM cancels the one context of the process.               *)
Signal ==
  /\ main # "down" /\ ~cancelled
  /\ stops < MaxStops
  /\ stops' = stops + 1
  /\ cancelled' = TRUE
  /\ UNCHANGED <<dbVars, chat, shelf, runVars, worker, moves, faults, backdated>>

(* SIGKILL, out of memory, power.                                          *)
Kill ==
  /\ main # "down"
  /\ stops < MaxStops
  /\ stops' = stops + 1
  /\ Die("killed")
  /\ UNCHANGED <<dbVars, chat, shelf, moves, faults, backdated>>

-----------------------------------------------------------------------------
(* retryPending: sequential, before any worker of the run.                 *)

UndeliveredOnTick == IF first THEN {} ELSE PendingNotifications(history)

Undelivered == PendingNotifications(history)

ReadPending ==
  /\ main = "pending"
  /\ \/ CallWorks /\ pending' = Undelivered
     \/ CallFails /\ pending' = {}
  /\ main' = "resend"
  /\ UNCHANGED <<dbVars, chat, shelf, first, cancelled, exit, todo, worker, budgetVars>>

(* ORDER BY r.id                                                           *)
IsNext(n) == n \in pending /\ \A m \in pending : n.id <= m.id

(* The loop is over, or is left because ctx.Err() # nil.                   *)
ResendDone ==
  /\ main = "resend"
  /\ pending = {} \/ cancelled
  /\ pending' = {}
  /\ main' = "list"
  /\ UNCHANGED <<dbVars, chat, shelf, first, cancelled, exit, todo, worker,
                 budgetVars, faults>>

AfterErrorStop(n) == {}

(* An error of a send is logged, and the loop goes on with the next notice.*)
AfterError(n) == pending \ {n}

(* NotifyChange for the next notice.  Nothing recovers a panic here.       *)
Resend(n) ==
  /\ main = "resend" /\ ~cancelled /\ IsNext(n)
  /\ \/ /\ CallWorks /\ n.product \notin Muted
        /\ chat' = Append(chat, n)
        /\ main' = "confirm"
        /\ UNCHANGED <<first, cancelled, exit, pending, todo, worker>>
     \/ /\ CallFails \/ (n.product \in Muted /\ UNCHANGED faults)
        /\ chat' = chat \/ (chat' = Append(chat, n) /\ n.product \notin Muted)
        /\ pending' = AfterError(n)
        /\ UNCHANGED <<main, first, cancelled, exit, todo, worker>>
     \/ /\ Fault /\ Die("panic")
        /\ chat' = chat \/ (chat' = Append(chat, n) /\ n.product \notin Muted)
  /\ UNCHANGED <<dbVars, shelf, budgetVars>>

(* MarkNotified after a delivery.  An error is logged and the loop goes on.*)
Confirm(n) ==
  /\ main = "confirm" /\ IsNext(n)
  /\ \/ CallWorks /\ history' = MarkNotified(history, n.id)
     \/ CallFails /\ UNCHANGED history
  /\ pending' = pending \ {n}
  /\ main' = "resend"
  /\ UNCHANGED <<nextId, chat, shelf, first, cancelled, exit, todo, worker, budgetVars>>

-----------------------------------------------------------------------------
(* RunOnce: list the products, feed the errgroup, wait for it.             *)

(* An error ends the process in the first run (Run returns it) and only    *)
(* the run in a later one.  Without products the run is over at once.      *)
ListProducts ==
  /\ main = "list"
  /\ \/ /\ CallWorks
        /\ todo' = Products
        /\ main' = IF Products = {} THEN "select" ELSE "crawl"
        /\ first' = (first /\ Products # {})
        /\ UNCHANGED <<cancelled, exit, pending, worker>>
     \/ /\ CallFails /\ first
        /\ Die("error")
     \/ /\ CallFails /\ ~first
        /\ main' = "select"
        /\ UNCHANGED <<first, cancelled, exit, pending, todo, worker>>
  /\ UNCHANGED <<dbVars, chat, shelf, budgetVars>>

Busy == {p \in Products : worker[p].pc # "idle"}

(* g.Go blocks while Concurrency workers are busy; ORDER BY id.            *)
Spawn(p) ==
  /\ main = "crawl"
  /\ p \in todo /\ \A q \in todo : p <= q
  /\ Cardinality(Busy) < Concurrency
  /\ todo' = todo \ {p}
  /\ worker' = [worker EXCEPT ![p] = [@ EXCEPT !.pc = "quote"]]
  /\ UNCHANGED <<dbVars, chat, shelf, main, first, cancelled, exit, pending,
                 budgetVars, faults>>

AllHandedOut == todo = {}

AllDone == todo = {} /\ Busy = {}

(* g.Wait returns nil when the last worker is done.                        *)
EndRun ==
  /\ main = "crawl" /\ AllDone
  /\ main' = "select"
  /\ first' = FALSE
  /\ UNCHANGED <<dbVars, chat, shelf, cancelled, exit, pending, todo, worker,
                 budgetVars, faults>>

(* <-ticker.C.  When ctx.Done() is ready as well, select takes either.     *)
Tick ==
  /\ main = "select"
  /\ main' = "pending"
  /\ UNCHANGED <<dbVars, chat, shelf, first, cancelled, exit, pending, todo, worker,
                 budgetVars, faults>>

StopLoopMissing == FALSE /\ UNCHANGED vars

(* <-ctx.Done(): Run returns nil.                                          *)
StopLoop ==
  /\ main = "select" /\ cancelled
  /\ Die("ok")
  /\ UNCHANGED <<dbVars, chat, shelf, budgetVars, faults>>

-----------------------------------------------------------------------------
(* processOne, the body of one worker.                                     *)

Finish(p) == worker' = [worker EXCEPT ![p] = IdleWorker]

(* source.Quote, after the check of ctx.Err(): both just return when the   *)
(* context is cancelled.                                                   *)
Scrape(p) ==
  /\ worker[p].pc = "quote"
  /\ \/ /\ CallWorks /\ p \notin Broken
        /\ worker' = [worker EXCEPT ![p] = [@ EXCEPT !.pc = "last", !.cur = shelf[p]]]
     \/ /\ CallFails \/ (p \in Broken /\ UNCHANGED faults)
        /\ Finish(p)
  /\ UNCHANGED <<dbVars, chat, shelf, runVars, cancelled, budgetVars>>

(* store.LastQuote and Classify; an unchanged price ends the work.         *)
ReadLast(p) ==
  /\ worker[p].pc = "last"
  /\ \/ /\ CallWorks
        /\ LET previous == LastQuote(history, p)
           IN IF ShouldRecord(Classify(previous, worker[p].cur))
              THEN worker' = [worker EXCEPT ![p] =
                                [@ EXCEPT !.pc = "add", !.prev = previous]]
              ELSE Finish(p)
     \/ CallFails /\ Finish(p)
  /\ UNCHANGED <<dbVars, chat, shelf, runVars, cancelled, budgetVars>>

News(p) == ShouldNotify(Classify(worker[p].prev, worker[p].cur))

NewRowNotified(p) == [id |-> nextId, quote |-> worker[p].cur, notified |-> TRUE]

(* The arguments of AddPrice: a change is committed as not yet announced.  *)
NewRow(p) == [id |-> nextId, quote |-> worker[p].cur, notified |-> ~News(p)]

(* The INSERT commits; now() may put the row before older ones.            *)
Insert(p) ==
  /\ nextId' = nextId + 1
  /\ \/ /\ history' = InsertRow(history, p, NewRow(p))
        /\ UNCHANGED backdated
     \/ /\ backdated < MaxBackdated
        /\ backdated' = backdated + 1
        /\ \E k \in 1..Len(history[p]) :
             history' = InsertBackdated(history, p, k, NewRow(p))

(* store.AddPrice.  A change goes on to be announced, a first sighting     *)
(* ends here.  After an error nothing is announced, even if the row is in. *)
AddPrice(p) ==
  /\ worker[p].pc = "add"
  /\ \/ /\ CallWorks /\ Insert(p)
        /\ IF News(p)
           THEN worker' = [worker EXCEPT ![p] = [@ EXCEPT !.pc = "notify", !.id = nextId]]
           ELSE Finish(p)
     \/ /\ CallFails /\ Finish(p)
        /\ UNCHANGED <<dbVars, backdated>>
     \/ /\ Fault /\ Finish(p)
        /\ Insert(p)
  /\ UNCHANGED <<chat, shelf, runVars, cancelled, moves, stops>>

(* The message of the worker: p, *previous, current.                       *)
OwnNotice(p) ==
  [id |-> worker[p].id, product |-> p, old |-> worker[p].prev, new |-> worker[p].cur]

(* notifier.NotifyChange.  After an error the row stays notified = FALSE.  *)
Announce(p) ==
  /\ worker[p].pc = "notify"
  /\ \/ /\ CallWorks /\ p \notin Muted
        /\ chat' = Append(chat, OwnNotice(p))
        /\ worker' = [worker EXCEPT ![p] = [@ EXCEPT !.pc = "mark"]]
     \/ /\ CallFails \/ (p \in Muted /\ UNCHANGED faults)
        /\ UNCHANGED chat
        /\ Finish(p)
     \/ /\ Fault /\ p \notin Muted
        /\ chat' = Append(chat, OwnNotice(p))
        /\ Finish(p)
  /\ UNCHANGED <<dbVars, shelf, runVars, cancelled, budgetVars>>

(* store.MarkNotified                                                      *)
Mark(p) ==
  /\ worker[p].pc = "mark"
  /\ \/ CallWorks /\ history' = MarkNotified(history, worker[p].id)
     \/ CallFails /\ UNCHANGED history
  /\ Finish(p)
  /\ UNCHANGED <<nextId, chat, shelf, runVars, cancelled, budgetVars>>

-----------------------------------------------------------------------------
RetryStep == \/ ReadPending
             \/ ResendDone
             \/ \E n \in pending : Resend(n) \/ Confirm(n)

MainStep == \/ RetryStep
            \/ ListProducts
            \/ \E p \in Products : Spawn(p)
            \/ EndRun
            \/ Tick

WorkerStep(p) == Scrape(p) \/ ReadLast(p) \/ AddPrice(p) \/ Announce(p) \/ Mark(p)

Environment == (\E p \in Products : PriceMoves(p)) \/ Signal \/ Kill

Next == \/ Environment
        \/ Start
        \/ MainStep
        \/ StopLoop
        \/ \E p \in Products : WorkerStep(p)

Spec == Init /\ [][Next]_vars

(* Goroutines that can run do run and the ticker keeps ticking.  When both *)
(* channels are ready select chooses at random, so ctx.Done() is not       *)
(* passed over forever.  docker-compose.yml has "restart: on-failure": a   *)
(* process that ended in any way but well is started again.                *)
Fairness == /\ WF_vars(MainStep)
            /\ SF_vars(StopLoop)
            /\ WF_vars(Start /\ exit # "ok")
            /\ \A p \in Products : WF_vars(WorkerStep(p))

FairSpec == Spec /\ Fairness
===============================================================================
