----------------------------- MODULE MonitorProps -----------------------------
(***************************************************************************)
(* What the tracker owes its reader, stated over the state of Monitor:     *)
(* invariants, properties of single steps, liveness, and the refinement of *)
(* PriceWatch.                                                             *)
(***************************************************************************)
EXTENDS Monitor

ToldIds == {chat[i].id : i \in 1..Len(chat)}

-----------------------------------------------------------------------------
(* Safety.                                                                 *)

(* A message never reports a change that is not in the table, a first      *)
(* sighting, or another pair of prices than the row and the one before it, *)
(* whether a worker sends it or a later run or process does (monitor.go,   *)
(* "NotifyChange only after a successful AddPrice").                       *)
ChatIsTrue ==
  \A i \in 1..Len(chat) : \E p \in Products : \E k \in 2..Len(history[p]) :
    chat[i] = NoticeOf(history, p, k)

(* A change that has not been announced is one the next retryPending will  *)
(* find: no committed row with notified = FALSE is outside the query,      *)
(* whatever error or crash left it behind (migration 00002,                *)
(* products.go:70-72).  It needs a database clock that does not step back. *)
PendingFindsAll ==
  \A p \in Products : \A k \in 1..Len(history[p]) :
    ~history[p][k].notified =>
      \E n \in PendingNotifications(history) : n.id = history[p][k].id

(* notified = TRUE on a change means that the chat has got the message: no *)
(* failure between INSERT, send and UPDATE makes a change look announced.  *)
MarkedWasTold ==
  \A p \in Products : \A k \in 2..Len(history[p]) :
    history[p][k].notified => history[p][k].id \in ToldIds

(* price_history is a journal of changes: two neighbouring rows of one     *)
(* product never hold the same quote, although the worker reads the last   *)
(* quote and inserts in two statements without a transaction.              *)
JournalOfChanges ==
  \A p \in Products : \A k \in 2..Len(history[p]) :
    history[p][k].quote # history[p][k-1].quote

(* A reader gets one message more than there are changes only for a call   *)
(* that failed or a process that was stopped, and a stop costs at most one *)
(* repeat per worker.  retryPending and the workers never announce the     *)
(* same row both ("no race for MarkNotified", monitor.go).                 *)
RepeatsAreAccountedFor ==
  Len(chat) <= Cardinality(ToldIds) + faults + Concurrency * stops

(* The messages about one product come in the order of its changes, so     *)
(* that the last one names the price of today, unless a call fails and     *)
(* something else goes wrong besides: one failing call alone, or stops and *)
(* kills alone, never turn the order round.  The retry goes by id and runs *)
(* before the crawl (monitor.go:68, products.go:113).                      *)
ChatKeepsOrder ==
  faults = 0 \/ faults + stops <= 1 =>
    \A i, j \in 1..Len(chat) :
      i < j /\ chat[i].product = chat[j].product => chat[i].id <= chat[j].id

(* A worker about to INSERT still knows the last row of its product, and a *)
(* worker about to announce or to mark still holds the very notice the     *)
(* window query would build for that row: nothing changed the table under  *)
(* it between its statements.                                              *)
BaselineIsFresh ==
  \A p \in Products :
    /\ worker[p].pc = "add" =>
         /\ worker[p].prev = LastQuote(history, p)
         /\ worker[p].cur # worker[p].prev
    /\ worker[p].pc \in {"notify", "mark"} =>
         /\ Len(history[p]) > 1
         /\ OwnNotice(p) = NoticeOf(history, p, Len(history[p]))

-----------------------------------------------------------------------------
(* The inductive invariant behind them, for a database clock that never    *)
(* steps back (MaxBackdated = 0): what a step needs of the state it starts *)
(* from, besides the types.                                                *)

RowIdsAreBelowNext ==
  \A p \in Products : \A k \in 1..Len(history[p]) : history[p][k].id < nextId

RowIdsAreUnique ==
  \A p, q \in Products : \A j \in 1..Len(history[p]), k \in 1..Len(history[q]) :
    history[p][j].id = history[q][k].id => p = q /\ j = k

(* The row without a LAG is never one that waits to be announced.          *)
FirstRowIsSilent ==
  \A p \in Products : history[p] # <<>> => history[p][1].notified

TableInv ==
  /\ RowIdsAreBelowNext /\ RowIdsAreUnique /\ FirstRowIsSilent
  /\ JournalOfChanges /\ ChatIsTrue /\ MarkedWasTold

(* retryPending and the workers take turns.                                *)
TakingTurns ==
  /\ Busy # {} => main = "crawl"
  /\ pending # {} => main \in {"resend", "confirm"}

(* The notices still to be sent are those of unmarked rows, and the one    *)
(* about to be marked has been sent.                                       *)
RetryInv ==
  /\ \A n \in pending : \E p \in Products : \E k \in 2..Len(history[p]) :
       n = NoticeOf(history, p, k) /\ ~history[p][k].notified
  /\ main = "confirm" => \A n \in pending : IsNext(n) => n.id \in ToldIds

WorkerInv ==
  /\ BaselineIsFresh
  /\ \A p \in Products :
       /\ worker[p].pc = "notify" => ~history[p][Len(history[p])].notified
       /\ worker[p].pc = "mark" => worker[p].id \in ToldIds

IInv == TableInv /\ TakingTurns /\ RetryInv /\ WorkerInv

-----------------------------------------------------------------------------
(* Properties of single steps.                                             *)

Notified(id) ==
  \E p \in Products : \E k \in 1..Len(history[p]) :
    history[p][k].id = id /\ history[p][k].notified

(* A message is sent only for a row that is not marked at that moment: the *)
(* list retryPending works through is never stale.                         *)
NoRepeatAfterMark ==
  [][chat' # chat => ~Notified(chat'[Len(chat')].id)]_vars

-----------------------------------------------------------------------------
(* Liveness, unless somebody stops the tracker and never starts it again.  *)

StaysStopped == <>[](main = "down" /\ exit = "ok")

(* Every id a history can use within the bounds.                           *)
Ids == 1..(Cardinality(Products) + MaxMoves)

Waiting(id) ==
  \E p \in Products \ Muted : \E k \in 2..Len(history[p]) :
    history[p][k].id = id /\ ~history[p][k].notified

(* A recorded change that waits to be announced reaches the chat in the    *)
(* end, through failing calls, lost answers, crashes and restarts, and     *)
(* although the messages of other products are refused for ever and come   *)
(* before it in the queue.                                                 *)
EveryChangeIsTold ==
  StaysStopped \/ \A id \in Ids : Waiting(id) ~> id \in ToldIds

(* Once the shops are quiet the journal of a readable product ends in the  *)
(* price on its page, although other products never yield a price.         *)
JournalCatchesUp ==
  StaysStopped \/
    \A p \in Products \ Broken : <>[](LastQuote(history, p) = shelf[p])

(* A signal ends the process from wherever it is in a run.                 *)
SignalEndsProcess == cancelled ~> main = "down"

-----------------------------------------------------------------------------
(* Refinement.                                                             *)

KnownChanges ==
  UNION {{NoticeOf(history, p, k) : k \in 2..Len(history[p])} : p \in Products}

PW == INSTANCE PriceWatch WITH known <- KnownChanges, told <- ToSet(chat)

(* The tracker with its table, workers, retries and restarts implements    *)
(* the promise of PriceWatch.                                              *)
ImplementsPriceWatch == PW!Spec
===============================================================================
