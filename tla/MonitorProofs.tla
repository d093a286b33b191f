---------------------------- MODULE MonitorProofs ----------------------------
(***************************************************************************)
(* Proofs about Monitor for every value of its constants.                  *)
(***************************************************************************)
EXTENDS MonitorProps, TLAPS

-----------------------------------------------------------------------------
(* The table keeps its type under the three statements of storage.         *)

Tables == [Products -> Seq(Row)]

Marked(row, id) == IF row.id = id THEN [row EXCEPT !.notified = TRUE] ELSE row

LEMMA MarkNotifiedType ==
  ASSUME NEW h \in Tables, NEW id \in Nat
  PROVE  /\ MarkNotified(h, id) \in Tables
         /\ \A p \in Products : Len(MarkNotified(h, id)[p]) = Len(h[p])
         /\ \A p \in Products : \A k \in 1..Len(h[p]) :
              MarkNotified(h, id)[p][k] =
                Marked(h[p][k], id)
<1> DEFINE mark(p) == [k \in 1..Len(h[p]) |->
                        Marked(h[p][k], id)]
<1>1. ASSUME NEW p \in Products
      PROVE  mark(p) \in Seq(Row) /\ Len(mark(p)) = Len(h[p])
  <2>1. h[p] \in Seq(Row) /\ Len(h[p]) \in Nat
    BY DEF Tables
  <2>2. \A k \in 1..Len(h[p]) : h[p][k] \in Row
    BY <2>1
  <2>3. \A k \in 1..Len(h[p]) :
          Marked(h[p][k], id) \in Row
    BY <2>2 DEF Row, Marked
  <2> QED
    BY <2>1, <2>3
<1>2. MarkNotified(h, id) = [p \in Products |-> mark(p)]
  BY DEF MarkNotified, Marked
<1> HIDE DEF mark
<1>3. MarkNotified(h, id) \in Tables
  BY <1>1, <1>2 DEF Tables
<1>4. \A p \in Products : Len(MarkNotified(h, id)[p]) = Len(h[p])
  BY <1>1, <1>2
<1>5. \A p \in Products : \A k \in 1..Len(h[p]) :
        MarkNotified(h, id)[p][k] =
          Marked(h[p][k], id)
  BY <1>2 DEF mark
<1> QED
  BY <1>3, <1>4, <1>5

LEMMA InsertRowType ==
  ASSUME NEW h \in Tables, NEW p \in Products, NEW row \in Row
  PROVE  /\ InsertRow(h, p, row) \in Tables
         /\ Len(InsertRow(h, p, row)[p]) = Len(h[p]) + 1
         /\ InsertRow(h, p, row)[p][Len(h[p]) + 1] = row
         /\ \A k \in 1..Len(h[p]) : InsertRow(h, p, row)[p][k] = h[p][k]
         /\ \A q \in Products \ {p} : InsertRow(h, p, row)[q] = h[q]
<1>1. h[p] \in Seq(Row)
  BY DEF Tables
<1>2. Append(h[p], row) \in Seq(Row)
  BY <1>1
<1>3. InsertRow(h, p, row)[p] = Append(h[p], row)
  BY DEF Tables, InsertRow
<1> QED
  BY <1>1, <1>2, <1>3 DEF Tables, InsertRow

LEMMA InsertBackdatedType ==
  ASSUME NEW h \in Tables, NEW p \in Products, NEW row \in Row,
         NEW k \in 1..Len(h[p])
  PROVE  InsertBackdated(h, p, k, row) \in Tables
<1>1. h[p] \in Seq(Row) /\ Len(h[p]) \in Nat
  BY DEF Tables
<1>2. SubSeq(h[p], 1, k - 1) \in Seq(Row) /\ SubSeq(h[p], k, Len(h[p])) \in Seq(Row)
  BY <1>1
<1>3. InsertAt(h[p], k, row) \in Seq(Row)
  BY <1>1, <1>2 DEF InsertAt
<1> QED
  BY <1>3 DEF Tables, InsertBackdated

LEMMA LastQuoteType ==
  ASSUME NEW h \in Tables, NEW p \in Products
  PROVE  LastQuote(h, p) \in Quotes \cup {Nil}
<1>1. h[p] \in Seq(Row)
  BY DEF Tables
<1>2. CASE h[p] = <<>>
  BY <1>2 DEF LastQuote
<1>3. CASE h[p] # <<>>
  <2>1. h[p][Len(h[p])] \in Row
    BY <1>1, <1>3
  <2> QED
    BY <1>3, <2>1 DEF LastQuote, Row
<1> QED
  BY <1>2, <1>3

LEMMA AppendType ==
  ASSUME NEW S, NEW s \in Seq(S), NEW e \in S
  PROVE  /\ Append(s, e) \in Seq(S)
         /\ Len(Append(s, e)) = Len(s) + 1
         /\ Append(s, e)[Len(s) + 1] = e
         /\ \A i \in 1..Len(s) : Append(s, e)[i] = s[i]
OBVIOUS

LEMMA SequencesEqual ==
  ASSUME NEW S, NEW s \in Seq(S), NEW t \in Seq(S), Len(s) = Len(t),
         \A i \in 1..Len(s) : s[i] = t[i]
  PROVE  s = t
OBVIOUS

LEMMA NoticeType ==
  ASSUME NEW h \in Tables, NEW p \in Products, NEW k \in 2..Len(h[p])
  PROVE  NoticeOf(h, p, k) \in Notice
<1>1. h[p] \in Seq(Row) /\ Len(h[p]) \in Nat
  BY DEF Tables
<1>2. h[p][k] \in Row /\ h[p][k-1] \in Row
  BY <1>1
<1> QED
  BY <1>2 DEF NoticeOf, Notice, Row

LEMMA PendingType ==
  ASSUME NEW h \in Tables
  PROVE  PendingNotifications(h) \subseteq Notice
BY NoticeType DEF PendingNotifications

-----------------------------------------------------------------------------
(* Type correctness.  TypeOK is not inductive: that a message has two      *)
(* quotes needs a worker to hold them when it comes to announcing.         *)

WorkerQuotes(p) ==
  /\ worker[p].pc \in {"last", "add", "notify", "mark"} => worker[p].cur \in Quotes
  /\ worker[p].pc \in {"notify", "mark"} => worker[p].prev \in Quotes

TypeInv == TypeOK /\ \A p \in Products : WorkerQuotes(p)

LEMMA IdleWorkerType ==
  /\ IdleWorker \in Worker
  /\ IdleWorker.pc = "idle"
BY DEF IdleWorker, Worker, WorkerStates

(* Every worker but that of p is as before, and p's own is well typed.     *)
LEMMA WorkerUpdate ==
  ASSUME TypeInv, NEW p \in Products, NEW w \in Worker,
         worker' = [worker EXCEPT ![p] = w],
         w.pc \in {"last", "add", "notify", "mark"} => w.cur \in Quotes,
         w.pc \in {"notify", "mark"} => w.prev \in Quotes
  PROVE  worker' \in [Products -> Worker] /\ \A q \in Products : WorkerQuotes(q)'
BY DEF TypeInv, TypeOK, WorkerQuotes

LEMMA DieType ==
  ASSUME NEW reason \in Exits, Die(reason)
  PROVE  /\ main' \in MainStates /\ exit' \in Exits /\ first' \in BOOLEAN
         /\ cancelled' \in BOOLEAN /\ pending' \subseteq Notice
         /\ todo' \subseteq Products /\ worker' \in [Products -> Worker]
         /\ \A p \in Products : WorkerQuotes(p)'
<1>1. \A p \in Products : worker'[p] = IdleWorker
  BY DEF Die
<1> QED
  BY <1>1, IdleWorkerType DEF Die, WorkerQuotes, MainStates

LEMMA InitType == Init => TypeInv
<1> SUFFICES ASSUME Init PROVE TypeInv
  OBVIOUS
<1>1. history \in [Products -> Seq(Row)]
  BY DEF Init, EmptyTable
<1>2. worker \in [Products -> Worker] /\ \A p \in Products : WorkerQuotes(p)
  BY IdleWorkerType DEF Init, WorkerQuotes
<1>3. chat \in Seq(Notice)
  BY DEF Init
<1>4. pending \subseteq Notice /\ todo \subseteq Products
  BY DEF Init
<1> QED
  BY <1>1, <1>2, <1>3, <1>4 DEF Init, TypeInv, TypeOK, MainStates, Exits

LEMMA StepType == TypeInv /\ [Next]_vars => TypeInv'
<1> SUFFICES ASSUME TypeInv, [Next]_vars PROVE TypeInv'
  OBVIOUS
<1> USE DEF CallWorks, CallFails, Fault, dbVars, runVars, budgetVars
<1>1. ASSUME NEW p \in Products, PriceMoves(p) PROVE TypeInv'
  BY <1>1 DEF PriceMoves, TypeInv, TypeOK, WorkerQuotes
<1>2. CASE Signal
  BY <1>2 DEF Signal, TypeInv, TypeOK, WorkerQuotes
<1>3. CASE Kill
  BY <1>3, DieType DEF Kill, TypeInv, TypeOK, Exits
<1>4. CASE Start
  BY <1>4 DEF Start, TypeInv, TypeOK, WorkerQuotes, MainStates, Exits
<1>5. CASE ReadPending
  BY <1>5, PendingType
     DEF ReadPending, Undelivered, TypeInv, TypeOK, WorkerQuotes, MainStates, Tables
<1>6. CASE ResendDone
  BY <1>6 DEF ResendDone, TypeInv, TypeOK, WorkerQuotes, MainStates
<1>7. ASSUME NEW n \in pending, Resend(n) PROVE TypeInv'
  <2>1. n \in Notice
    BY DEF TypeInv, TypeOK
  <2>2. chat' \in Seq(Notice)
    <3>1. chat \in Seq(Notice)
      BY DEF TypeInv, TypeOK
    <3>2. (chat' = chat) \/ (chat' = Append(chat, n))
      BY <1>7 DEF Resend, AfterError
    <3> QED
      BY <2>1, <3>1, <3>2, AppendType
  <2>3. CASE Die("panic")
    BY <1>7, <2>2, <2>3, DieType DEF Resend, AfterError, TypeInv, TypeOK, Exits
  <2>4. CASE ~Die("panic")
    BY <1>7, <2>2, <2>4 DEF Resend, AfterError, TypeInv, TypeOK, WorkerQuotes, MainStates
  <2> QED
    BY <2>3, <2>4
<1>8. ASSUME NEW n \in pending, Confirm(n) PROVE TypeInv'
  <2>1. n.id \in Nat
    BY DEF TypeInv, TypeOK, Notice
  <2>2. history' \in [Products -> Seq(Row)]
    BY <1>8, <2>1, MarkNotifiedType DEF Confirm, TypeInv, TypeOK, Tables
  <2> QED
    BY <1>8, <2>2 DEF Confirm, TypeInv, TypeOK, WorkerQuotes, MainStates
<1>9. CASE ListProducts
  <2>1. CASE Die("error")
    BY <1>9, <2>1, DieType DEF ListProducts, TypeInv, TypeOK, Exits
  <2>2. CASE ~Die("error")
    BY <1>9, <2>2 DEF ListProducts, TypeInv, TypeOK, WorkerQuotes, MainStates
  <2> QED
    BY <2>1, <2>2
<1>10. ASSUME NEW p \in Products, Spawn(p) PROVE TypeInv'
  <2>1. worker[p] \in Worker
    BY DEF TypeInv, TypeOK
  <2> DEFINE w == [worker[p] EXCEPT !.pc = "quote"]
  <2>2. w \in Worker /\ w.pc = "quote"
    BY <2>1 DEF Worker, WorkerStates
  <2>3. worker' = [worker EXCEPT ![p] = w]
    BY <1>10 DEF Spawn
  <2> HIDE DEF w
  <2>4. worker' \in [Products -> Worker] /\ \A q \in Products : WorkerQuotes(q)'
    BY <2>2, <2>3, WorkerUpdate
  <2> QED
    BY <1>10, <2>4 DEF Spawn, TypeInv, TypeOK
<1>11. CASE EndRun
  BY <1>11 DEF EndRun, AllDone, TypeInv, TypeOK, WorkerQuotes, MainStates
<1>12. CASE Tick
  BY <1>12 DEF Tick, TypeInv, TypeOK, WorkerQuotes, MainStates
<1>13. CASE StopLoop
  BY <1>13, DieType DEF StopLoop, TypeInv, TypeOK, Exits
<1>14. ASSUME NEW p \in Products, Scrape(p) PROVE TypeInv'
  <2> DEFINE w == [worker[p] EXCEPT !.pc = "last", !.cur = shelf[p]]
  <2>1. w \in Worker /\ w.pc = "last" /\ w.cur \in Quotes
    BY DEF TypeInv, TypeOK, Worker, WorkerStates
  <2>2. \/ worker' = [worker EXCEPT ![p] = w]
        \/ worker' = [worker EXCEPT ![p] = IdleWorker]
    BY <1>14 DEF Scrape, Finish
  <2> HIDE DEF w
  <2>3. worker' \in [Products -> Worker] /\ \A q \in Products : WorkerQuotes(q)'
    BY <2>1, <2>2, IdleWorkerType, WorkerUpdate
  <2> QED
    BY <1>14, <2>3 DEF Scrape, TypeInv, TypeOK
<1>15. ASSUME NEW p \in Products, ReadLast(p) PROVE TypeInv'
  <2> DEFINE w == [worker[p] EXCEPT !.pc = "add", !.prev = LastQuote(history, p)]
  <2>1. w \in Worker /\ w.pc = "add" /\ w.cur \in Quotes
    BY <1>15, LastQuoteType
       DEF ReadLast, TypeInv, TypeOK, WorkerQuotes, Worker, WorkerStates, Tables
  <2>2. \/ worker' = [worker EXCEPT ![p] = w]
        \/ worker' = [worker EXCEPT ![p] = IdleWorker]
    BY <1>15 DEF ReadLast, Finish
  <2> HIDE DEF w
  <2>3. worker' \in [Products -> Worker] /\ \A q \in Products : WorkerQuotes(q)'
    BY <2>1, <2>2, IdleWorkerType, WorkerUpdate
  <2> QED
    BY <1>15, <2>3 DEF ReadLast, TypeInv, TypeOK
<1>16. ASSUME NEW p \in Products, AddPrice(p) PROVE TypeInv'
  <2> DEFINE w == [worker[p] EXCEPT !.pc = "notify", !.id = nextId]
  <2>1. NewRow(p) \in Row
    <3>1. worker[p].cur \in Quotes /\ nextId \in Nat /\ News(p) \in BOOLEAN
      BY <1>16 DEF AddPrice, News, ShouldNotify, TypeInv, TypeOK, WorkerQuotes
    <3> QED
      BY <3>1 DEF NewRow, Row
  <2>2. history' \in [Products -> Seq(Row)] /\ nextId' \in Nat /\ backdated' \in Nat
    <3>1. history \in Tables /\ nextId \in Nat /\ backdated \in Nat
      BY DEF TypeInv, TypeOK, Tables
    <3>2. \/ Insert(p)
          \/ UNCHANGED <<history, nextId, backdated>>
      BY <1>16 DEF AddPrice
    <3>3. CASE Insert(p)
      <4>1. nextId' \in Nat /\ backdated' \in Nat
        BY <3>1, <3>3 DEF Insert
      <4>2. CASE history' = InsertRow(history, p, NewRow(p))
        BY <2>1, <3>1, <4>1, <4>2, InsertRowType DEF Tables
      <4>3. CASE \E k \in 1..Len(history[p]) :
                   history' = InsertBackdated(history, p, k, NewRow(p))
        BY <2>1, <3>1, <4>1, <4>3, InsertBackdatedType DEF Tables
      <4> QED
        BY <3>3, <4>2, <4>3 DEF Insert
    <3> QED
      BY <3>1, <3>2, <3>3 DEF Tables
  <2>3. w \in Worker /\ w.pc = "notify" /\ w.cur \in Quotes
    BY <1>16 DEF AddPrice, TypeInv, TypeOK, WorkerQuotes, Worker, WorkerStates
  <2>4. \/ worker' = [worker EXCEPT ![p] = w] /\ News(p)
        \/ worker' = [worker EXCEPT ![p] = IdleWorker]
    BY <1>16 DEF AddPrice, Finish
  <2>5. News(p) => w.prev \in Quotes
    BY DEF News, ShouldNotify, Classify, TypeInv, TypeOK, Worker
  <2> HIDE DEF w
  <2>6. worker' \in [Products -> Worker] /\ \A q \in Products : WorkerQuotes(q)'
    BY <2>3, <2>4, <2>5, IdleWorkerType, WorkerUpdate
  <2> QED
    BY <1>16, <2>2, <2>6 DEF AddPrice, TypeInv, TypeOK
<1>17. ASSUME NEW p \in Products, Announce(p) PROVE TypeInv'
  <2> DEFINE w == [worker[p] EXCEPT !.pc = "mark"]
  <2>1. worker[p] \in Worker /\ worker[p].cur \in Quotes /\ worker[p].prev \in Quotes
    BY <1>17 DEF Announce, TypeInv, TypeOK, WorkerQuotes
  <2>2. OwnNotice(p) \in Notice
    BY <2>1 DEF OwnNotice, Notice, Worker
  <2>3. (chat' = chat) \/ (chat' = Append(chat, OwnNotice(p)))
    BY <1>17 DEF Announce
  <2>4. chat' \in Seq(Notice)
    <3>1. chat \in Seq(Notice)
      BY DEF TypeInv, TypeOK
    <3> QED
      BY <2>2, <2>3, <3>1, AppendType
  <2>5. w \in Worker /\ w.pc = "mark" /\ w.cur \in Quotes /\ w.prev \in Quotes
    BY <2>1 DEF Worker, WorkerStates
  <2>6. \/ worker' = [worker EXCEPT ![p] = w]
        \/ worker' = [worker EXCEPT ![p] = IdleWorker]
    BY <1>17 DEF Announce, Finish
  <2> HIDE DEF w
  <2>7. worker' \in [Products -> Worker] /\ \A q \in Products : WorkerQuotes(q)'
    BY <2>5, <2>6, IdleWorkerType, WorkerUpdate
  <2> QED
    BY <1>17, <2>4, <2>7 DEF Announce, TypeInv, TypeOK
<1>18. ASSUME NEW p \in Products, Mark(p) PROVE TypeInv'
  <2>1. worker[p].id \in Nat
    BY DEF TypeInv, TypeOK, Worker
  <2>2. history' \in [Products -> Seq(Row)]
    BY <1>18, <2>1, MarkNotifiedType DEF Mark, TypeInv, TypeOK, Tables
  <2>3. worker' \in [Products -> Worker] /\ \A q \in Products : WorkerQuotes(q)'
    BY <1>18, IdleWorkerType, WorkerUpdate DEF Mark, Finish
  <2> QED
    BY <1>18, <2>2, <2>3 DEF Mark, TypeInv, TypeOK
<1>19. CASE UNCHANGED vars
  BY <1>19 DEF vars, TypeInv, TypeOK, WorkerQuotes
<1> QED
  BY <1>1, <1>2, <1>3, <1>4, <1>5, <1>6, <1>7, <1>8, <1>9, <1>10, <1>11, <1>12,
     <1>13, <1>14, <1>15, <1>16, <1>17, <1>18, <1>19
  DEF Next, Environment, MainStep, RetryStep, WorkerStep

(* TypeOK holds in every reachable state of the process, its table and the *)
(* chat, whatever the clock of the database does.                          *)
THEOREM TypeCorrect == Spec => []TypeOK
<1>1. TypeInv => TypeOK
  BY DEF TypeInv
<1> QED
  BY <1>1, InitType, StepType, PTL DEF Spec

-----------------------------------------------------------------------------
(* What the three kinds of steps that touch the table or the chat keep.    *)

LEMMA TypeFacts ==
  ASSUME TypeInv
  PROVE  /\ history \in Tables /\ nextId \in Nat /\ chat \in Seq(Notice)
         /\ \A p \in Products : history[p] \in Seq(Row) /\ Len(history[p]) \in Nat
         /\ \A p \in Products : \A k \in 1..Len(history[p]) :
              history[p][k] \in Row /\ history[p][k].id \in Nat
<1>1. history \in Tables /\ nextId \in Nat /\ chat \in Seq(Notice)
  BY DEF TypeInv, TypeOK, Tables
<1>2. \A p \in Products : history[p] \in Seq(Row) /\ Len(history[p]) \in Nat
  BY <1>1 DEF Tables
<1>3. \A p \in Products : \A k \in 1..Len(history[p]) : history[p][k] \in Row
  BY <1>2
<1> QED
  BY <1>1, <1>2, <1>3 DEF Row

(* Marking touches nothing but the flag of one row.                        *)
LEMMA MarkKeepsRows ==
  ASSUME TypeInv, NEW id \in Nat, history' = MarkNotified(history, id)
  PROVE  /\ \A p \in Products : Len(history'[p]) = Len(history[p])
         /\ \A p \in Products : \A k \in 1..Len(history[p]) :
              /\ history'[p][k].id = history[p][k].id
              /\ history'[p][k].quote = history[p][k].quote
              /\ history[p][k].notified => history'[p][k].notified
              /\ history'[p][k].notified => history[p][k].notified \/ history[p][k].id = id
              /\ history[p][k].id # id => history'[p][k] = history[p][k]
         /\ \A p \in Products : \A k \in 2..Len(history[p]) :
              NoticeOf(history', p, k) = NoticeOf(history, p, k)
<1>1. /\ \A p \in Products : Len(history'[p]) = Len(history[p])
      /\ \A p \in Products : \A k \in 1..Len(history[p]) :
           history'[p][k] = Marked(history[p][k], id)
  BY TypeFacts, MarkNotifiedType
<1>2. \A p \in Products : \A k \in 1..Len(history[p]) :
        /\ history'[p][k].id = history[p][k].id
        /\ history'[p][k].quote = history[p][k].quote
        /\ history[p][k].notified => history'[p][k].notified
        /\ history'[p][k].notified => history[p][k].notified \/ history[p][k].id = id
        /\ history[p][k].id # id => history'[p][k] = history[p][k]
  BY <1>1, TypeFacts DEF Marked, Row
<1>3. \A p \in Products : \A k \in 2..Len(history[p]) :
        NoticeOf(history', p, k) = NoticeOf(history, p, k)
  <2> TAKE p \in Products
  <2> TAKE k \in 2..Len(history[p])
  <2>1. k \in 1..Len(history[p]) /\ k - 1 \in 1..Len(history[p])
    BY TypeFacts
  <2>2. /\ history'[p][k].id = history[p][k].id
        /\ history'[p][k].quote = history[p][k].quote
        /\ history'[p][k-1].quote = history[p][k-1].quote
    BY <1>2, <2>1
  <2> QED
    BY <2>2 DEF NoticeOf
<1> QED
  BY <1>1, <1>2, <1>3

(* Marking a row the chat was told of.                                     *)
LEMMA MarkKeepsTable ==
  ASSUME TypeInv, TableInv, NEW id \in ToldIds, id \in Nat,
         history' = MarkNotified(history, id), UNCHANGED <<nextId, chat>>
  PROVE  /\ TableInv'
         /\ \A p \in Products : Len(history'[p]) = Len(history[p])
         /\ \A p \in Products : \A k \in 2..Len(history[p]) :
              NoticeOf(history', p, k) = NoticeOf(history, p, k)
         /\ \A p \in Products : \A k \in 1..Len(history[p]) :
              history[p][k].id # id => history'[p][k] = history[p][k]
<1>1. \A p \in Products : Len(history'[p]) = Len(history[p])
  BY MarkKeepsRows
<1>2. \A p \in Products : \A k \in 1..Len(history[p]) :
        /\ history'[p][k].id = history[p][k].id
        /\ history'[p][k].quote = history[p][k].quote
        /\ history[p][k].notified => history'[p][k].notified
        /\ history'[p][k].notified => history[p][k].notified \/ history[p][k].id = id
        /\ history[p][k].id # id => history'[p][k] = history[p][k]
  BY MarkKeepsRows
<1>3. \A p \in Products : \A k \in 2..Len(history[p]) :
        NoticeOf(history', p, k) = NoticeOf(history, p, k)
  BY MarkKeepsRows
<1>4. RowIdsAreBelowNext'
  BY <1>1, <1>2 DEF TableInv, RowIdsAreBelowNext
<1>5. RowIdsAreUnique'
  BY <1>1, <1>2 DEF TableInv, RowIdsAreUnique
<1>6. FirstRowIsSilent'
  BY <1>1, <1>2, TypeFacts, MarkNotifiedType DEF TableInv, FirstRowIsSilent, Tables
<1>7. JournalOfChanges'
  <2> SUFFICES ASSUME NEW p \in Products, NEW k \in 2..Len(history[p])
               PROVE  history'[p][k].quote # history'[p][k-1].quote
    BY <1>1 DEF JournalOfChanges
  <2>1. k \in 1..Len(history[p]) /\ k - 1 \in 1..Len(history[p])
    BY TypeFacts
  <2> QED
    BY <1>2, <2>1 DEF TableInv, JournalOfChanges
<1>8. ChatIsTrue'
  BY <1>1, <1>3 DEF TableInv, ChatIsTrue
<1>9. MarkedWasTold'
  <2> SUFFICES ASSUME NEW p \in Products, NEW k \in 2..Len(history[p]),
                      history'[p][k].notified
               PROVE  history[p][k].id \in ToldIds
    <3>1. ToldIds' = ToldIds
      BY DEF ToldIds
    <3>2. \A p \in Products : 2..Len(history'[p]) = 2..Len(history[p])
      BY <1>1
    <3>3. \A p \in Products : \A k \in 2..Len(history[p]) :
            history'[p][k].id = history[p][k].id
      BY <1>2, TypeFacts
    <3> QED
      BY <3>1, <3>2, <3>3 DEF MarkedWasTold
  <2>1. k \in 1..Len(history[p])
    BY TypeFacts
  <2> QED
    BY <1>2, <2>1 DEF TableInv, MarkedWasTold
<1> QED
  BY <1>1, <1>2, <1>3, <1>4, <1>5, <1>6, <1>7, <1>8, <1>9 DEF TableInv

(* Sending the message of a row.                                           *)
LEMMA TellKeepsTable ==
  ASSUME TypeInv, TableInv, NEW p \in Products, NEW k \in 2..Len(history[p]),
         chat' = Append(chat, NoticeOf(history, p, k)), UNCHANGED <<history, nextId>>
  PROVE  /\ TableInv'
         /\ ToldIds \subseteq ToldIds'
         /\ history[p][k].id \in ToldIds'
<1> DEFINE n == NoticeOf(history, p, k)
<1>1. n \in Notice /\ n.id = history[p][k].id
  BY TypeFacts, NoticeType DEF NoticeOf
<1> HIDE DEF n
<1>2. /\ Len(chat') = Len(chat) + 1 /\ Len(chat) \in Nat
      /\ chat'[Len(chat) + 1] = n
      /\ \A i \in 1..Len(chat) : chat'[i] = chat[i]
  BY <1>1, TypeFacts, AppendType DEF n
<1>3. ToldIds \subseteq ToldIds' /\ n.id \in ToldIds'
  BY <1>2 DEF ToldIds
<1>4. ChatIsTrue'
  <2> SUFFICES ASSUME NEW i \in 1..Len(chat')
               PROVE  \E q \in Products : \E j \in 2..Len(history[q]) :
                        chat'[i] = NoticeOf(history, q, j)
    BY DEF ChatIsTrue
  <2>1. CASE i \in 1..Len(chat)
    BY <1>2, <2>1 DEF TableInv, ChatIsTrue
  <2>2. CASE i = Len(chat) + 1
    BY <1>2, <2>2 DEF n
  <2> QED
    BY <1>2, <2>1, <2>2
<1>5. MarkedWasTold'
  BY <1>3 DEF TableInv, MarkedWasTold
<1>6. RowIdsAreBelowNext' /\ RowIdsAreUnique'
  BY DEF TableInv, RowIdsAreBelowNext, RowIdsAreUnique
<1>7. FirstRowIsSilent' /\ JournalOfChanges'
  BY DEF TableInv, FirstRowIsSilent, JournalOfChanges
<1> QED
  BY <1>1, <1>3, <1>4, <1>5, <1>6, <1>7 DEF TableInv

(* Inserting a row that differs from the last one and is silent exactly    *)
(* when it is the first.                                                   *)
LEMMA InsertKeepsTable ==
  ASSUME TypeInv, TableInv, NEW p \in Products, NEW row \in Row,
         row.id = nextId, row.quote # LastQuote(history, p),
         history[p] = <<>> => row.notified,
         history[p] # <<>> => ~row.notified,
         history' = InsertRow(history, p, row), nextId' = nextId + 1, UNCHANGED chat
  PROVE  /\ TableInv'
         /\ Len(history'[p]) = Len(history[p]) + 1
         /\ history'[p][Len(history[p]) + 1] = row
         /\ \A k \in 1..Len(history[p]) : history'[p][k] = history[p][k]
         /\ \A q \in Products \ {p} : history'[q] = history[q]
         /\ \A q \in Products : \A k \in 2..Len(history[q]) :
              /\ k \in 2..Len(history'[q])
              /\ NoticeOf(history', q, k) = NoticeOf(history, q, k)
<1> DEFINE last == Len(history[p])
<1>1. /\ history' \in Tables
      /\ Len(history'[p]) = last + 1
      /\ history'[p][last + 1] = row
      /\ \A k \in 1..last : history'[p][k] = history[p][k]
      /\ \A q \in Products \ {p} : history'[q] = history[q]
  <2>1. history \in Tables
    BY TypeFacts DEF Tables
  <2> HIDE DEF last
  <2> QED
    BY <2>1, InsertRowType DEF last
<1>2. last \in Nat /\ (history[p] = <<>> <=> last = 0)
  BY TypeFacts
<1>3. \A q \in Products : \A k \in 1..Len(history[q]) :
        k \in 1..Len(history'[q]) /\ history'[q][k] = history[q][k]
  BY <1>1, <1>2
<1>4. \A q \in Products : \A k \in 1..Len(history'[q]) :
        k \in 1..Len(history[q]) \/ (q = p /\ k = last + 1)
  BY <1>1, <1>2
<1> HIDE DEF last
<1>5. \A q \in Products : \A k \in 2..Len(history[q]) :
        k \in 2..Len(history'[q]) /\ NoticeOf(history', q, k) = NoticeOf(history, q, k)
  <2> TAKE q \in Products
  <2> TAKE k \in 2..Len(history[q])
  <2>1. k \in 1..Len(history[q]) /\ k - 1 \in 1..Len(history[q])
    BY TypeFacts
  <2> QED
    BY <1>3, <2>1 DEF NoticeOf
<1>oldIds. \A q \in Products : \A k \in 1..Len(history[q]) :
             history'[q][k].id = history[q][k].id /\ history[q][k].id < nextId
  BY <1>3 DEF TableInv, RowIdsAreBelowNext
<1>6. RowIdsAreBelowNext'
  <2> SUFFICES ASSUME NEW q \in Products, NEW k \in 1..Len(history'[q])
               PROVE  history'[q][k].id < nextId + 1
    BY DEF RowIdsAreBelowNext
  <2>1. CASE k \in 1..Len(history[q])
    <3>1. history[q][k].id \in Nat /\ nextId \in Nat
      BY <2>1, TypeFacts
    <3>2. history'[q][k].id = history[q][k].id /\ history[q][k].id < nextId
      BY <1>oldIds, <2>1
    <3> QED
      BY <3>1, <3>2
  <2>2. CASE q = p /\ k = last + 1
    BY <1>1, <2>2, TypeFacts
  <2> QED
    BY <1>4, <2>1, <2>2
<1>7. RowIdsAreUnique'
  <2> SUFFICES ASSUME NEW q \in Products, NEW r \in Products,
                      NEW j \in 1..Len(history'[q]), NEW k \in 1..Len(history'[r]),
                      history'[q][j].id = history'[r][k].id
               PROVE  q = r /\ j = k
    BY DEF RowIdsAreUnique
  <2>1. \A s \in Products : \A i \in 1..Len(history[s]) : history'[s][i].id # nextId
    <3>1. \A i \in Nat : i < nextId => i # nextId
      BY TypeFacts
    <3> QED
      BY <1>oldIds, <3>1, TypeFacts
  <2>2. CASE j \in 1..Len(history[q]) /\ k \in 1..Len(history[r])
    BY <1>oldIds, <2>2 DEF TableInv, RowIdsAreUnique
  <2>3. CASE q = p /\ j = last + 1
    BY <1>1, <1>4, <2>1, <2>3
  <2>4. CASE r = p /\ k = last + 1
    BY <1>1, <1>4, <2>1, <2>4
  <2> QED
    BY <1>4, <2>2, <2>3, <2>4
<1>8. FirstRowIsSilent'
  <2> SUFFICES ASSUME NEW q \in Products, history'[q] # <<>>
               PROVE  history'[q][1].notified
    BY DEF FirstRowIsSilent
  <2>1. CASE history[q] # <<>>
    <3>1. 1 \in 1..Len(history[q])
      BY <2>1, TypeFacts
    <3> QED
      BY <1>3, <2>1, <3>1 DEF TableInv, FirstRowIsSilent
  <2>2. CASE history[q] = <<>>
    BY <1>1, <1>2, <2>2
  <2> QED
    BY <2>1, <2>2
<1>9. JournalOfChanges'
  <2> SUFFICES ASSUME NEW q \in Products, NEW k \in 2..Len(history'[q])
               PROVE  history'[q][k].quote # history'[q][k-1].quote
    BY DEF JournalOfChanges
  <2>1. k \in 1..Len(history'[q]) /\ k - 1 \in 1..Len(history'[q]) /\ k >= 2
    BY <1>1, <1>2, <1>4, TypeFacts
  <2>2. CASE k \in 1..Len(history[q])
    <3>1. k \in 2..Len(history[q]) /\ k - 1 \in 1..Len(history[q])
      BY <2>1, <2>2, TypeFacts
    <3> QED
      BY <1>3, <2>2, <3>1 DEF TableInv, JournalOfChanges
  <2>3. CASE q = p /\ k = last + 1
    <3>1. k - 1 = last /\ last \in 1..Len(history[p]) /\ history[p] # <<>>
      BY <1>2, <2>1, <2>3 DEF last
    <3>2. history'[p][k-1].quote = LastQuote(history, p)
      BY <1>3, <3>1 DEF LastQuote, last
    <3> QED
      BY <1>1, <2>3, <3>2
  <2> QED
    BY <1>4, <2>1, <2>2, <2>3
<1>10. ChatIsTrue'
  BY <1>5 DEF TableInv, ChatIsTrue
<1>11. MarkedWasTold'
  <2> SUFFICES ASSUME NEW q \in Products, NEW k \in 2..Len(history'[q]),
                      history'[q][k].notified
               PROVE  history'[q][k].id \in ToldIds
    BY DEF MarkedWasTold, ToldIds
  <2>1. k \in 1..Len(history'[q]) /\ k >= 2
    BY <1>1, <1>2, <1>4, TypeFacts
  <2>2. CASE k \in 1..Len(history[q])
    <3>1. k \in 2..Len(history[q])
      BY <2>1, <2>2, TypeFacts
    <3> QED
      BY <1>3, <2>2, <3>1 DEF TableInv, MarkedWasTold
  <2>3. CASE q = p /\ k = last + 1
    BY <1>1, <1>2, <2>1, <2>3
  <2> QED
    BY <1>4, <2>1, <2>2, <2>3
<1> QED
  BY <1>1, <1>5, <1>6, <1>7, <1>8, <1>9, <1>10, <1>11 DEF TableInv, last

-----------------------------------------------------------------------------
(* The inductive invariant.                                                *)

Inv == TypeInv /\ IInv

LEMMA InitInv == Init => Inv
<1> SUFFICES ASSUME Init PROVE IInv
  BY InitType DEF Inv
<1>1. \A p \in Products : history[p] = <<>> /\ Len(history[p]) = 0
  BY DEF Init, EmptyTable
<1>2. \A p \in Products : worker[p].pc = "idle"
  BY IdleWorkerType DEF Init
<1>3. TableInv
  <2>1. RowIdsAreBelowNext /\ RowIdsAreUnique /\ FirstRowIsSilent
    BY <1>1 DEF RowIdsAreBelowNext, RowIdsAreUnique, FirstRowIsSilent
  <2>2. JournalOfChanges /\ MarkedWasTold
    BY <1>1 DEF JournalOfChanges, MarkedWasTold
  <2>3. ChatIsTrue
    BY DEF Init, ChatIsTrue
  <2> QED
    BY <2>1, <2>2, <2>3 DEF TableInv
<1>4. TakingTurns /\ RetryInv
  BY <1>2 DEF Init, TakingTurns, RetryInv, Busy
<1>5. WorkerInv
  BY <1>2 DEF WorkerInv, BaselineIsFresh
<1> QED
  BY <1>3, <1>4, <1>5 DEF IInv

(* A step that leaves table and chat alone keeps what is said of them.     *)
LEMMA QuietTable ==
  ASSUME TableInv, UNCHANGED <<history, nextId, chat>>
  PROVE  TableInv' /\ ToldIds' = ToldIds
BY DEF TableInv, RowIdsAreBelowNext, RowIdsAreUnique, FirstRowIsSilent,
       JournalOfChanges, ChatIsTrue, MarkedWasTold, ToldIds

(* So does one that leaves the workers alone, or ends the work of some.    *)
LEMMA QuietWorkers ==
  ASSUME WorkerInv, UNCHANGED history, ToldIds \subseteq ToldIds',
         \A p \in Products : worker'[p] = worker[p] \/ worker'[p].pc \in {"idle", "quote", "last"}
  PROVE  WorkerInv'
BY DEF WorkerInv, BaselineIsFresh, OwnNotice

LEMMA QuietRetry ==
  ASSUME RetryInv, UNCHANGED history, ToldIds \subseteq ToldIds',
         pending' \subseteq pending, main' # "confirm" \/ UNCHANGED <<main, pending>>
  PROVE  RetryInv'
BY DEF RetryInv, IsNext

LEMMA DieInv ==
  ASSUME NEW reason, Die(reason), Inv, UNCHANGED <<history>>, TableInv',
         ToldIds \subseteq ToldIds'
  PROVE  IInv'
<1>1. \A p \in Products : worker'[p].pc = "idle"
  BY IdleWorkerType DEF Die
<1>2. TakingTurns' /\ RetryInv'
  BY <1>1 DEF Die, TakingTurns, RetryInv, Busy
<1>3. WorkerInv'
  BY <1>1 DEF WorkerInv, BaselineIsFresh
<1> QED
  BY <1>2, <1>3 DEF IInv

LEMMA IdleUnlessCrawling ==
  ASSUME TypeInv, TakingTurns, main # "crawl"
  PROVE  \A p \in Products : worker[p].pc = "idle"
BY DEF TakingTurns, Busy

(* The steps of the main goroutine and of the surroundings.                *)

LEMMA ReadPendingInv == ASSUME Inv, ReadPending PROVE IInv'
<1>1. TableInv' /\ ToldIds' = ToldIds
  BY QuietTable DEF Inv, IInv, ReadPending, Undelivered, dbVars
<1>2. TakingTurns'
  BY DEF Inv, IInv, ReadPending, Undelivered, TakingTurns, Busy
<1>3. RetryInv'
  BY DEF ReadPending, Undelivered, RetryInv, PendingNotifications, dbVars
<1>4. WorkerInv'
  BY <1>1, QuietWorkers DEF Inv, IInv, ReadPending, Undelivered, dbVars
<1> QED
  BY <1>1, <1>2, <1>3, <1>4 DEF IInv

LEMMA ResendInv == ASSUME Inv, NEW n \in pending, Resend(n) PROVE IInv'
<1>p. PICK p \in Products : \E k \in 2..Len(history[p]) : n = NoticeOf(history, p, k)
  BY DEF Inv, IInv, RetryInv
<1>1. PICK k \in 2..Len(history[p]) : n = NoticeOf(history, p, k)
  BY <1>p
<1>2. UNCHANGED <<history, nextId>>
  BY DEF Resend, AfterError, dbVars
<1>3. TableInv' /\ ToldIds \subseteq ToldIds'
  <2>1. CASE chat' = Append(chat, n)
    BY <1>1, <1>2, <2>1, TellKeepsTable DEF Inv, IInv
  <2>2. CASE chat' = chat
    BY <1>2, <2>2, QuietTable DEF Inv, IInv
  <2> QED
    BY <2>1, <2>2 DEF Resend, AfterError
<1>4. CASE Die("panic")
  BY <1>2, <1>3, <1>4, DieInv
<1>5. CASE main' = "confirm" /\ chat' = Append(chat, n) /\ UNCHANGED <<pending, worker>>
  <2>1. n.id \in ToldIds'
    <3>1. n.id = history[p][k].id
      BY <1>1 DEF NoticeOf
    <3> QED
      BY <1>1, <1>2, <1>5, <3>1, TellKeepsTable DEF Inv, IInv
  <2>2. \A m \in pending : IsNext(m) => m = n
    <3> SUFFICES ASSUME NEW m \in pending, IsNext(m) PROVE m = n
      OBVIOUS
    <3>q. PICK q \in Products : \E j \in 2..Len(history[q]) : m = NoticeOf(history, q, j)
      BY DEF Inv, IInv, RetryInv
    <3>1. PICK j \in 2..Len(history[q]) : m = NoticeOf(history, q, j)
      BY <3>q
    <3>2. m.id = history[q][j].id /\ n.id = history[p][k].id
      BY <1>1, <3>1 DEF NoticeOf
    <3>3. j \in 1..Len(history[q]) /\ k \in 1..Len(history[p])
      BY TypeFacts DEF Inv
    <3>4. m.id \in Nat /\ n.id \in Nat
      BY <3>2, <3>3, TypeFacts DEF Inv
    <3>5. m.id <= n.id /\ n.id <= m.id
      BY DEF Resend, AfterError, IsNext
    <3>6. history[q][j].id = history[p][k].id
      BY <3>2, <3>4, <3>5
    <3>7. p = q /\ j = k
      BY <3>3, <3>6 DEF Inv, IInv, TableInv, RowIdsAreUnique
    <3> QED
      BY <1>1, <3>1, <3>7
  <2>3. RetryInv'
    BY <1>2, <1>5, <2>1, <2>2 DEF Inv, IInv, RetryInv, IsNext
  <2>4. WorkerInv'
    BY <1>2, <1>3, <1>5, QuietWorkers DEF Inv, IInv
  <2>5. TakingTurns'
    <3>1. main # "crawl"
      BY DEF Resend, AfterError
    <3> QED
      BY <1>5, <3>1, IdleUnlessCrawling DEF Inv, IInv, TakingTurns, Busy
  <2> QED
    BY <1>3, <2>3, <2>4, <2>5 DEF IInv
<1>6. CASE UNCHANGED <<main, worker>> /\ pending' = pending \ {n}
  <2>1. main = "resend"
    BY DEF Resend, AfterError
  <2>2. RetryInv'
    BY <1>2, <1>3, <1>6, <2>1, QuietRetry DEF Inv, IInv
  <2>3. WorkerInv'
    BY <1>2, <1>3, <1>6, QuietWorkers DEF Inv, IInv
  <2>4. TakingTurns'
    BY <1>6 DEF Inv, IInv, TakingTurns, Busy
  <2> QED
    BY <1>3, <2>2, <2>3, <2>4 DEF IInv
<1> QED
  BY <1>4, <1>5, <1>6 DEF Resend, AfterError

LEMMA ConfirmInv == ASSUME Inv, NEW n \in pending, Confirm(n) PROVE IInv'
<1>1. n \in Notice /\ n.id \in Nat
  BY DEF Inv, TypeInv, TypeOK, Notice
<1>2. n.id \in ToldIds /\ main = "confirm"
  BY DEF Confirm, Inv, IInv, RetryInv
<1>3. \A p \in Products : worker'[p].pc = "idle"
  BY <1>2, IdleUnlessCrawling DEF Inv, IInv, Confirm
<1>4. WorkerInv' /\ TakingTurns'
  BY <1>3 DEF Confirm, WorkerInv, BaselineIsFresh, TakingTurns, Busy
<1>5. CASE UNCHANGED history
  <2>1. TableInv' /\ ToldIds' = ToldIds
    BY <1>5, QuietTable DEF Inv, IInv, Confirm
  <2>2. RetryInv'
    BY <1>5, <2>1, QuietRetry DEF Inv, IInv, Confirm
  <2> QED
    BY <1>4, <2>1, <2>2 DEF IInv
<1>6. CASE history' = MarkNotified(history, n.id)
  <2>1. /\ TableInv'
        /\ \A p \in Products : Len(history'[p]) = Len(history[p])
        /\ \A p \in Products : \A k \in 2..Len(history[p]) :
             NoticeOf(history', p, k) = NoticeOf(history, p, k)
        /\ \A p \in Products : \A k \in 1..Len(history[p]) :
             history[p][k].id # n.id => history'[p][k] = history[p][k]
    BY <1>1, <1>2, <1>6, MarkKeepsTable DEF Inv, IInv, Confirm
  <2>2. RetryInv'
    <3> SUFFICES ASSUME NEW m \in pending \ {n}
                 PROVE  \E p \in Products : \E k \in 2..Len(history'[p]) :
                          m = NoticeOf(history', p, k) /\ ~history'[p][k].notified
      BY DEF Confirm, RetryInv
    <3>p. PICK p \in Products : \E k \in 2..Len(history[p]) :
            m = NoticeOf(history, p, k) /\ ~history[p][k].notified
      BY DEF Inv, IInv, RetryInv
    <3>1. PICK k \in 2..Len(history[p]) :
            m = NoticeOf(history, p, k) /\ ~history[p][k].notified
      BY <3>p
    <3>q. PICK q \in Products : \E j \in 2..Len(history[q]) : n = NoticeOf(history, q, j)
      BY DEF Inv, IInv, RetryInv
    <3>2. PICK j \in 2..Len(history[q]) : n = NoticeOf(history, q, j)
      BY <3>q
    <3>3. j \in 1..Len(history[q]) /\ k \in 1..Len(history[p])
      BY TypeFacts DEF Inv
    <3>4. n.id = history[q][j].id
      BY <3>2 DEF NoticeOf
    <3>5. history[p][k].id # n.id
      BY <3>1, <3>2, <3>3, <3>4 DEF Inv, IInv, TableInv, RowIdsAreUnique
    <3>6. history'[p][k] = history[p][k]
      BY <2>1, <3>3, <3>5
    <3> QED
      BY <2>1, <3>1, <3>6
  <2> QED
    BY <1>4, <2>1, <2>2 DEF IInv
<1> QED
  BY <1>5, <1>6 DEF Confirm

(* The steps of a worker: the table has one writer per product, since no   *)
(* notice is being sent again while a worker is busy.                      *)

LEMMA WorkerTurn ==
  ASSUME Inv, NEW p \in Products, worker[p].pc # "idle", UNCHANGED <<main, pending>>
  PROVE  /\ main = "crawl" /\ pending = {}
         /\ TakingTurns' /\ RetryInv'
BY DEF Inv, IInv, TakingTurns, RetryInv, Busy

LEMMA ScrapeInv == ASSUME Inv, NEW p \in Products, Scrape(p) PROVE IInv'
<1>1. TableInv' /\ ToldIds' = ToldIds
  BY QuietTable DEF Inv, IInv, Scrape, dbVars
<1>2. \A q \in Products :
        worker'[q] = worker[q] \/ worker'[q].pc \in {"idle", "quote", "last"}
  BY IdleWorkerType DEF Inv, TypeInv, TypeOK, Worker, Scrape, Finish
<1>3. WorkerInv'
  BY <1>1, <1>2, QuietWorkers DEF Inv, IInv, Scrape, dbVars
<1>4. TakingTurns' /\ RetryInv'
  BY WorkerTurn DEF Scrape, runVars
<1> QED
  BY <1>1, <1>3, <1>4 DEF IInv

LEMMA ReadLastInv == ASSUME Inv, NEW p \in Products, ReadLast(p) PROVE IInv'
<1>1. TableInv' /\ ToldIds' = ToldIds /\ UNCHANGED history
  BY QuietTable DEF Inv, IInv, ReadLast, dbVars
<1>2. TakingTurns' /\ RetryInv'
  BY WorkerTurn DEF ReadLast, runVars
<1> DEFINE w == [worker[p] EXCEPT !.pc = "add", !.prev = LastQuote(history, p)]
<1>3. worker[p] \in Worker /\ worker[p].cur \in Quotes /\ worker \in [Products -> Worker]
  BY DEF ReadLast, Inv, TypeInv, TypeOK, WorkerQuotes
<1>4. \/ worker' = [worker EXCEPT ![p] = IdleWorker]
      \/ worker' = [worker EXCEPT ![p] = w] /\ worker[p].cur # LastQuote(history, p)
  BY <1>3, NilIsNoQuote DEF ReadLast, Finish, ShouldRecord, Classify
<1>5. w.pc = "add" /\ w.prev = LastQuote(history, p) /\ w.cur = worker[p].cur
  BY <1>3 DEF Worker
<1> HIDE DEF w
<1>6. CASE worker' = [worker EXCEPT ![p] = IdleWorker]
  <2>1. \A q \in Products :
          worker'[q] = worker[q] \/ worker'[q].pc \in {"idle", "quote", "last"}
    BY <1>3, <1>6, IdleWorkerType
  <2> QED
    BY <1>1, <1>2, <2>1, QuietWorkers DEF Inv, IInv
<1>7. CASE worker' = [worker EXCEPT ![p] = w] /\ worker[p].cur # LastQuote(history, p)
  <2>1. worker'[p] = w /\ \A q \in Products \ {p} : worker'[q] = worker[q]
    BY <1>3, <1>7
  <2>2. LastQuote(history, p)' = LastQuote(history, p)
    BY <1>1 DEF LastQuote
  <2>3. WorkerInv'
    BY <1>1, <1>5, <1>7, <2>1, <2>2
       DEF Inv, IInv, WorkerInv, BaselineIsFresh, OwnNotice, LastQuote, NoticeOf
  <2> QED
    BY <1>1, <1>2, <2>3 DEF IInv
<1> QED
  BY <1>4, <1>6, <1>7

(* The row AddPrice commits: a first sighting is silent, a change is not,  *)
(* and it differs from the row before it.                                  *)
LEMMA AddedRow ==
  ASSUME Inv, NEW p \in Products, AddPrice(p)
  PROVE  /\ News(p) <=> history[p] # <<>>
         /\ NewRow(p) \in Row /\ NewRow(p).id = nextId /\ NewRow(p).quote = worker[p].cur
         /\ history[p] = <<>> => NewRow(p).notified
         /\ history[p] # <<>> => ~NewRow(p).notified
         /\ worker[p].prev = LastQuote(history, p) /\ worker[p].cur # worker[p].prev
<1>1. worker[p].cur \in Quotes /\ nextId \in Nat
  BY DEF AddPrice, Inv, TypeInv, TypeOK, WorkerQuotes
<1>2. worker[p].prev = LastQuote(history, p) /\ worker[p].cur # worker[p].prev
  BY DEF AddPrice, Inv, IInv, WorkerInv, BaselineIsFresh
<1>3. News(p) <=> history[p] # <<>>
  <2>1. history[p] \in Seq(Row) /\ Len(history[p]) \in Nat
    BY TypeFacts DEF Inv
  <2>2. history[p] # <<>> => LastQuote(history, p) \in Quotes
    <3>1. history[p] # <<>> => history[p][Len(history[p])] \in Row
      BY <2>1
    <3> QED
      BY <3>1 DEF LastQuote, Row
  <2>3. history[p] = <<>> => LastQuote(history, p) = Nil
    BY DEF LastQuote
  <2> QED
    BY <1>2, <2>2, <2>3, NilIsNoQuote DEF News, ShouldNotify, Classify
<1>4. News(p) \in BOOLEAN
  BY DEF News, ShouldNotify
<1> QED
  BY <1>1, <1>2, <1>3, <1>4 DEF NewRow, Row

LEMMA AddPriceInv ==
  ASSUME MaxBackdated = 0, Inv, NEW p \in Products, AddPrice(p)
  PROVE  IInv'
<1>1. TakingTurns' /\ RetryInv'
  BY WorkerTurn DEF AddPrice, runVars
<1> DEFINE w == [worker[p] EXCEPT !.pc = "notify", !.id = nextId]
<1>2. /\ worker[p] \in Worker /\ worker \in [Products -> Worker]
      /\ nextId \in Nat /\ backdated \in Nat /\ history \in Tables
  BY DEF AddPrice, Inv, TypeInv, TypeOK, WorkerQuotes, Tables
<1>3. /\ w.pc = "notify" /\ w.id = nextId
      /\ w.cur = worker[p].cur /\ w.prev = worker[p].prev
  BY <1>2 DEF Worker
<1>4. worker[p].prev = LastQuote(history, p) /\ worker[p].cur # worker[p].prev
  BY AddedRow
<1>5. News(p) <=> history[p] # <<>>
  BY AddedRow
<1>6. /\ NewRow(p) \in Row /\ NewRow(p).id = nextId /\ NewRow(p).quote = worker[p].cur
      /\ history[p] = <<>> => NewRow(p).notified
      /\ history[p] # <<>> => ~NewRow(p).notified
  BY AddedRow
<1> HIDE DEF w
<1>7. CASE ~Insert(p)
  <2>1. TableInv' /\ ToldIds' = ToldIds /\ UNCHANGED history
    BY <1>7, QuietTable DEF AddPrice, Inv, IInv, dbVars
  <2>2. worker' = [worker EXCEPT ![p] = IdleWorker]
    BY <1>7 DEF AddPrice, Finish
  <2>3. WorkerInv'
    BY <1>2, <2>1, <2>2, IdleWorkerType, QuietWorkers DEF Inv, IInv
  <2> QED
    BY <1>1, <2>1, <2>3 DEF IInv
<1>8. CASE Insert(p)
  <2>1. history' = InsertRow(history, p, NewRow(p)) /\ nextId' = nextId + 1
    BY <1>2, <1>8 DEF Insert
  <2>2. UNCHANGED chat /\ ToldIds' = ToldIds
    BY DEF AddPrice, ToldIds
  <2>3. /\ TableInv'
        /\ Len(history'[p]) = Len(history[p]) + 1
        /\ history'[p][Len(history[p]) + 1] = NewRow(p)
        /\ \A k \in 1..Len(history[p]) : history'[p][k] = history[p][k]
        /\ \A q \in Products \ {p} : history'[q] = history[q]
    BY <1>4, <1>6, <2>1, <2>2, InsertKeepsTable DEF Inv, IInv
  <2>4. /\ \A q \in Products \ {p} : worker'[q] = worker[q]
        /\ \/ worker'[p] = IdleWorker
           \/ worker'[p] = w /\ history[p] # <<>>
    BY <1>2, <1>5 DEF AddPrice, Finish, w
  <2>5. ASSUME NEW q \in Products \ {p}
        PROVE  /\ worker'[q].pc = "add" =>
                    worker'[q].prev = LastQuote(history', q) /\ worker'[q].cur # worker'[q].prev
               /\ worker'[q].pc \in {"notify", "mark"} =>
                    /\ Len(history'[q]) > 1
                    /\ OwnNotice(q)' = NoticeOf(history', q, Len(history'[q]))
               /\ worker'[q].pc = "notify" => ~history'[q][Len(history'[q])].notified
               /\ worker'[q].pc = "mark" => worker'[q].id \in ToldIds'
    BY <2>2, <2>3, <2>4
       DEF Inv, IInv, WorkerInv, BaselineIsFresh, OwnNotice, NoticeOf, LastQuote
  <2>6. ASSUME worker'[p] = w, history[p] # <<>>
        PROVE  /\ Len(history'[p]) > 1
               /\ OwnNotice(p)' = NoticeOf(history', p, Len(history'[p]))
               /\ ~history'[p][Len(history'[p])].notified
    <3>1. Len(history[p]) \in Nat \ {0}
      BY <2>6, TypeFacts DEF Inv
    <3>2. history'[p][Len(history[p])] = history[p][Len(history[p])]
      BY <2>3, <3>1
    <3>3. worker[p].prev = history[p][Len(history[p])].quote
      BY <1>4, <2>6 DEF LastQuote
    <3>4. Len(history'[p]) > 1 /\ Len(history'[p]) - 1 = Len(history[p])
      BY <2>3, <3>1
    <3>5. ~history'[p][Len(history'[p])].notified
      BY <1>6, <2>3, <2>6
    <3>6. OwnNotice(p)' = NoticeOf(history', p, Len(history'[p]))
      BY <1>3, <1>6, <2>3, <2>6, <3>2, <3>3, <3>4 DEF OwnNotice, NoticeOf
    <3> QED
      BY <3>4, <3>5, <3>6
  <2>7. WorkerInv'
    BY <1>3, <2>4, <2>5, <2>6, IdleWorkerType DEF WorkerInv, BaselineIsFresh
  <2> QED
    BY <1>1, <2>3, <2>7 DEF IInv
<1> QED
  BY <1>7, <1>8

LEMMA AnnounceInv == ASSUME Inv, NEW p \in Products, Announce(p) PROVE IInv'
<1>1. TakingTurns' /\ RetryInv'
  BY WorkerTurn DEF Announce, runVars
<1> DEFINE k == Len(history[p])
<1>2. k \in 2..Len(history[p]) /\ OwnNotice(p) = NoticeOf(history, p, k)
  BY TypeFacts DEF Announce, Inv, IInv, WorkerInv, BaselineIsFresh
<1>3. UNCHANGED <<history, nextId>> /\ worker \in [Products -> Worker]
  BY DEF Announce, dbVars, Inv, TypeInv, TypeOK
<1> HIDE DEF k
<1>4. TableInv' /\ ToldIds \subseteq ToldIds'
  <2>1. CASE chat' = Append(chat, OwnNotice(p))
    BY <1>2, <1>3, <2>1, TellKeepsTable DEF Inv, IInv
  <2>2. CASE chat' = chat
    BY <1>3, <2>2, QuietTable DEF Inv, IInv
  <2> QED
    BY <2>1, <2>2 DEF Announce
<1>5. CASE worker' = [worker EXCEPT ![p] = IdleWorker]
  <2>1. \A q \in Products :
          worker'[q] = worker[q] \/ worker'[q].pc \in {"idle", "quote", "last"}
    BY <1>3, <1>5, IdleWorkerType
  <2> QED
    BY <1>1, <1>3, <1>4, <2>1, QuietWorkers DEF Inv, IInv
<1>6. CASE /\ chat' = Append(chat, OwnNotice(p))
           /\ worker' = [worker EXCEPT ![p] = [@ EXCEPT !.pc = "mark"]]
  <2>1. /\ \A q \in Products \ {p} : worker'[q] = worker[q]
        /\ worker'[p].pc = "mark" /\ worker'[p].id = worker[p].id
        /\ worker'[p].prev = worker[p].prev /\ worker'[p].cur = worker[p].cur
    BY <1>3, <1>6 DEF Worker
  <2>2. worker[p].id = history[p][k].id
    BY <1>2 DEF OwnNotice, NoticeOf
  <2>3. worker[p].id \in ToldIds'
    BY <1>2, <1>3, <1>6, <2>2, TellKeepsTable DEF Inv, IInv
  <2>4. OwnNotice(p)' = OwnNotice(p) /\ worker[p].pc = "notify"
    BY <2>1 DEF OwnNotice, Announce
  <2>5. \A q \in Products :
          /\ LastQuote(history', q) = LastQuote(history, q)
          /\ NoticeOf(history', q, Len(history'[q])) = NoticeOf(history, q, Len(history[q]))
    BY <1>3
  <2>6. \A q \in Products \ {p} : OwnNotice(q)' = OwnNotice(q)
    BY <2>1 DEF OwnNotice
  <2>7. WorkerInv'
    BY <1>3, <1>4, <2>1, <2>3, <2>4, <2>5, <2>6 DEF Inv, IInv, WorkerInv, BaselineIsFresh
  <2> QED
    BY <1>1, <1>4, <2>7 DEF IInv
<1> QED
  BY <1>5, <1>6 DEF Announce, Finish

LEMMA MarkInv == ASSUME Inv, NEW p \in Products, Mark(p) PROVE IInv'
<1>1. TakingTurns' /\ RetryInv'
  BY WorkerTurn DEF Mark, runVars
<1>2. /\ worker \in [Products -> Worker] /\ worker[p].id \in Nat
      /\ worker[p].id \in ToldIds /\ ToldIds' = ToldIds /\ UNCHANGED <<nextId, chat>>
  BY DEF Mark, Inv, IInv, WorkerInv, TypeInv, TypeOK, Worker, ToldIds
<1>3. \A q \in Products \ {p} : worker'[q] = worker[q]
  BY <1>2 DEF Mark, Finish
<1>4. worker'[p].pc = "idle"
  BY <1>2, IdleWorkerType DEF Mark, Finish
<1>5. CASE UNCHANGED history
  <2>1. TableInv'
    BY <1>2, <1>5, QuietTable DEF Inv, IInv
  <2>2. WorkerInv'
    BY <1>2, <1>3, <1>4, <1>5, QuietWorkers DEF Inv, IInv
  <2> QED
    BY <1>1, <2>1, <2>2 DEF IInv
<1>6. CASE history' = MarkNotified(history, worker[p].id)
  <2>1. /\ TableInv'
        /\ \A q \in Products : Len(history'[q]) = Len(history[q])
        /\ \A q \in Products : \A k \in 2..Len(history[q]) :
             NoticeOf(history', q, k) = NoticeOf(history, q, k)
        /\ \A q \in Products : \A k \in 1..Len(history[q]) :
             history[q][k].id # worker[p].id => history'[q][k] = history[q][k]
    BY <1>2, <1>6, MarkKeepsTable DEF Inv, IInv
  <2>2. ASSUME NEW q \in Products \ {p} PROVE history'[q] = history[q]
    <3>1. Len(history[p]) \in 1..Len(history[p])
          /\ worker[p].id = history[p][Len(history[p])].id
      <4>1. Len(history[p]) > 1 /\ OwnNotice(p) = NoticeOf(history, p, Len(history[p]))
        BY DEF Mark, Inv, IInv, WorkerInv, BaselineIsFresh
      <4>2. Len(history[p]) \in 1..Len(history[p])
        BY <4>1, TypeFacts DEF Inv
      <4> QED
        BY <4>1, <4>2 DEF OwnNotice, NoticeOf
    <3>2. \A k \in 1..Len(history[q]) : history[q][k].id # worker[p].id
      BY <3>1 DEF Inv, IInv, TableInv, RowIdsAreUnique
    <3>3. \A k \in 1..Len(history[q]) : history'[q][k] = history[q][k]
      BY <2>1, <3>2
    <3>4. history[q] \in Seq(Row) /\ history'[q] \in Seq(Row)
      BY <1>2, <1>6, TypeFacts, MarkNotifiedType DEF Inv, Tables
    <3>5. Len(history'[q]) = Len(history[q])
      BY <2>1
    <3> QED
      BY <3>3, <3>4, <3>5, SequencesEqual
  <2>3. WorkerInv'
    BY <1>2, <1>3, <1>4, <2>2
       DEF Inv, IInv, WorkerInv, BaselineIsFresh, OwnNotice, NoticeOf, LastQuote
  <2> QED
    BY <1>1, <2>1, <2>3 DEF IInv
<1> QED
  BY <1>5, <1>6 DEF Mark

LEMMA StepInv ==
  ASSUME MaxBackdated = 0
  PROVE  Inv /\ [Next]_vars => Inv'
<1> SUFFICES ASSUME Inv, [Next]_vars PROVE IInv'
  BY StepType DEF Inv
<1> USE DEF dbVars, runVars, budgetVars
<1>1. ASSUME UNCHANGED <<history, nextId, chat, main, pending>>,
             \A p \in Products : worker'[p] = worker[p]
      PROVE  IInv'
  <2>1. TableInv' /\ ToldIds' = ToldIds
    BY <1>1, QuietTable DEF Inv, IInv
  <2>2. RetryInv' /\ WorkerInv'
    BY <1>1, <2>1, QuietRetry, QuietWorkers DEF Inv, IInv
  <2>3. TakingTurns'
    BY <1>1 DEF Inv, IInv, TakingTurns, Busy
  <2> QED
    BY <2>1, <2>2, <2>3 DEF IInv
<1>2. ASSUME UNCHANGED <<history, nextId, chat, worker>>, main # "crawl",
             pending' = pending \/ pending' = {}, pending' # {} => main' = "resend",
             main' # "confirm"
      PROVE  IInv'
  <2>1. TableInv' /\ ToldIds' = ToldIds
    BY <1>2, QuietTable DEF Inv, IInv
  <2>2. RetryInv' /\ WorkerInv'
    BY <1>2, <2>1, QuietRetry, QuietWorkers DEF Inv, IInv
  <2>3. TakingTurns'
    BY <1>2, IdleUnlessCrawling DEF Inv, IInv, TakingTurns, Busy
  <2> QED
    BY <2>1, <2>2, <2>3 DEF IInv
<1>3. ASSUME NEW reason, Die(reason), UNCHANGED <<history, nextId, chat>> PROVE IInv'
  <2>1. TableInv' /\ ToldIds' = ToldIds
    BY <1>3, QuietTable DEF Inv, IInv
  <2> QED
    BY <1>3, <2>1, DieInv
<1>4. ASSUME NEW p \in Products, PriceMoves(p) PROVE IInv'
  BY <1>1, <1>4 DEF PriceMoves
<1>5. CASE Signal
  BY <1>1, <1>5 DEF Signal
<1>6. CASE Kill
  BY <1>3, <1>6 DEF Kill
<1>7. CASE Start
  <2>1. pending = {}
    BY <1>7 DEF Start, Inv, IInv, TakingTurns
  <2> QED
    BY <1>2, <1>7, <2>1 DEF Start
<1>8. CASE ReadPending
  BY <1>8, ReadPendingInv
<1>9. CASE ResendDone
  BY <1>2, <1>9 DEF ResendDone
<1>10. ASSUME NEW n \in pending, Resend(n) PROVE IInv'
  BY <1>10, ResendInv
<1>11. ASSUME NEW n \in pending, Confirm(n) PROVE IInv'
  BY <1>11, ConfirmInv
<1>12. CASE ListProducts
  <2>1. pending = {}
    BY <1>12 DEF ListProducts, Inv, IInv, TakingTurns
  <2>2. CASE Die("error")
    BY <1>3, <1>12, <2>2 DEF ListProducts
  <2>3. CASE main' \in {"select", "crawl"} /\ UNCHANGED <<pending, worker>>
    BY <1>2, <1>12, <2>1, <2>3 DEF ListProducts
  <2> QED
    BY <1>12, <2>2, <2>3 DEF ListProducts
<1>13. ASSUME NEW p \in Products, Spawn(p) PROVE IInv'
  <2>1. TableInv' /\ ToldIds' = ToldIds
    BY <1>13, QuietTable DEF Spawn, Inv, IInv
  <2>2. RetryInv'
    BY <1>13, <2>1, QuietRetry DEF Spawn, Inv, IInv
  <2>3. \A q \in Products :
          worker'[q] = worker[q] \/ worker'[q].pc \in {"idle", "quote", "last"}
    BY <1>13 DEF Spawn, Inv, TypeInv, TypeOK, Worker
  <2>4. WorkerInv'
    BY <1>13, <2>1, <2>3, QuietWorkers DEF Spawn, Inv, IInv
  <2>5. TakingTurns'
    BY <1>13 DEF Spawn, Inv, IInv, TakingTurns
  <2> QED
    BY <2>1, <2>2, <2>4, <2>5 DEF IInv
<1>14. CASE EndRun
  <2>1. TableInv' /\ ToldIds' = ToldIds
    BY <1>14, QuietTable DEF EndRun, AllDone, Inv, IInv
  <2>2. RetryInv' /\ WorkerInv'
    BY <1>14, <2>1, QuietRetry, QuietWorkers DEF EndRun, AllDone, Inv, IInv
  <2>3. TakingTurns'
    BY <1>14 DEF EndRun, AllDone, Inv, IInv, TakingTurns, Busy
  <2> QED
    BY <2>1, <2>2, <2>3 DEF IInv
<1>15. CASE Tick
  <2>1. pending = {}
    BY <1>15 DEF Tick, Inv, IInv, TakingTurns
  <2> QED
    BY <1>2, <1>15, <2>1 DEF Tick
<1>16. CASE StopLoop
  BY <1>3, <1>16 DEF StopLoop
<1>17. ASSUME NEW p \in Products, WorkerStep(p) PROVE IInv'
  BY <1>17, ScrapeInv, ReadLastInv, AddPriceInv, AnnounceInv, MarkInv DEF WorkerStep
<1>18. CASE UNCHANGED vars
  BY <1>1, <1>18 DEF vars
<1> QED
  BY <1>4, <1>5, <1>6, <1>7, <1>8, <1>9, <1>10, <1>11, <1>12, <1>13, <1>14, <1>15,
     <1>16, <1>17, <1>18
  DEF Next, Environment, MainStep, RetryStep

-----------------------------------------------------------------------------
(* What holds whatever the database clock does.  When it steps back rows   *)
(* change their places and their neighbours, but not their ids: what is    *)
(* about to be sent or marked still names one row, and a row that is about *)
(* to be sent is not marked.                                               *)

HasRow(p, id) == \E k \in 1..Len(history[p]) : history[p][k].id = id

HasUnmarked(p, id) ==
  \E k \in 1..Len(history[p]) : history[p][k].id = id /\ ~history[p][k].notified

Claims ==
  \A p \in Products :
    /\ worker[p].pc = "notify" => HasUnmarked(p, worker[p].id)
    /\ worker[p].pc = "mark" => HasRow(p, worker[p].id)

RowIds == RowIdsAreBelowNext /\ RowIdsAreUnique

ClaimsInv == TypeInv /\ RowIds /\ TakingTurns /\ RetryInv /\ Claims

(* It follows from the inductive invariant above, but does not need a      *)
(* clock that never steps back.                                            *)
LEMMA InvClaims == Inv => ClaimsInv
<1> SUFFICES ASSUME Inv PROVE Claims
  BY DEF Inv, IInv, TableInv, RowIds, ClaimsInv
<1> SUFFICES ASSUME NEW p \in Products, worker[p].pc \in {"notify", "mark"}
             PROVE  \E k \in 1..Len(history[p]) :
                      /\ history[p][k].id = worker[p].id
                      /\ worker[p].pc = "notify" => ~history[p][k].notified
  BY DEF Claims, HasRow, HasUnmarked
<1>1. Len(history[p]) \in 1..Len(history[p])
  BY TypeFacts DEF Inv, IInv, WorkerInv, BaselineIsFresh
<1>2. history[p][Len(history[p])].id = worker[p].id
  BY DEF Inv, IInv, WorkerInv, BaselineIsFresh, OwnNotice, NoticeOf
<1> QED
  BY <1>1, <1>2 DEF Inv, IInv, WorkerInv

LEMMA InitClaimsInv == Init => ClaimsInv
BY InitInv, InvClaims

(* Where a row put before others leaves them.                              *)
LEMMA BackdatedRow ==
  ASSUME NEW h \in Tables, NEW p \in Products, NEW row \in Row, NEW k \in 1..Len(h[p])
  PROVE  LET g == InsertBackdated(h, p, k, row)
         IN /\ Len(g[p]) = Len(h[p]) + 1 /\ g[p][k] = row
            /\ \A j \in 1..Len(h[p]) : j < k => g[p][j] = h[p][j]
            /\ \A j \in 1..Len(h[p]) : j >= k => g[p][j + 1] = h[p][j]
            /\ \A q \in Products \ {p} : g[q] = h[q]
<1> DEFINE front == SubSeq(h[p], 1, k - 1)
           back == SubSeq(h[p], k, Len(h[p]))
           head == front \o <<row>>
<1>1. h[p] \in Seq(Row) /\ Len(h[p]) \in Nat
  BY DEF Tables
<1>2. /\ front \in Seq(Row) /\ Len(front) = k - 1
      /\ \A j \in 1..Len(h[p]) : j < k => front[j] = h[p][j]
  BY <1>1
<1>3. /\ back \in Seq(Row) /\ Len(back) = Len(h[p]) - k + 1
      /\ \A j \in 1..Len(h[p]) : j >= k => back[j - k + 1] = h[p][j]
  BY <1>1
<1>4. /\ InsertBackdated(h, p, k, row)[p] = head \o back
      /\ \A q \in Products \ {p} : InsertBackdated(h, p, k, row)[q] = h[q]
  BY DEF InsertBackdated, InsertAt, Tables
<1> HIDE DEF front, back
<1>5. /\ head \in Seq(Row) /\ Len(head) = k /\ head[k] = row
      /\ \A j \in 1..Len(h[p]) : j < k => head[j] = front[j]
  <2>1. k \in Nat /\ k # 0 /\ Len(front) + 1 = k
    BY <1>1, <1>2
  <2>2. Append(front, row) = head
    BY <1>2
  <2>3. \A j \in 1..Len(h[p]) : j < k => j \in 1..Len(front)
    BY <1>1, <1>2
  <2> QED
    BY <1>2, <2>1, <2>2, <2>3, AppendType
<1> HIDE DEF head
<1>6. /\ Len(head \o back) = k + Len(back)
      /\ \A i \in 1..Len(head) : (head \o back)[i] = head[i]
      /\ \A i \in 1..Len(back) : (head \o back)[k + i] = back[i]
  BY <1>3, <1>5
<1>7. /\ k + Len(back) = Len(h[p]) + 1 /\ k \in 1..Len(head)
      /\ \A j \in 1..Len(h[p]) : j < k => j \in 1..Len(head)
  BY <1>1, <1>3, <1>5
<1>8. \A j \in 1..Len(h[p]) : j >= k =>
        j - k + 1 \in 1..Len(back) /\ k + (j - k + 1) = j + 1
  BY <1>1, <1>3
<1>9. \A j \in 1..Len(h[p]) : j >= k => (head \o back)[j + 1] = h[p][j]
  BY <1>3, <1>6, <1>8
<1> QED
  BY <1>2, <1>4, <1>5, <1>6, <1>7, <1>9

LEMMA NewRowType ==
  ASSUME TypeInv, NEW p \in Products, worker[p].pc = "add"
  PROVE  NewRow(p) \in Row /\ NewRow(p).id = nextId /\ (News(p) => ~NewRow(p).notified)
<1>1. worker[p].cur \in Quotes /\ nextId \in Nat
  BY DEF TypeInv, TypeOK, WorkerQuotes
<1>2. News(p) \in BOOLEAN
  BY DEF News, ShouldNotify
<1> QED
  BY <1>1, <1>2 DEF NewRow, Row

(* A row more, at whatever place: the ids stay apart, and who had a row    *)
(* still has it.                                                           *)
LEMMA InsertKeepsIds ==
  ASSUME TypeInv, RowIds, NEW p \in Products, worker[p].pc = "add", Insert(p)
  PROVE  /\ RowIds'
         /\ \A q \in Products : \A k \in 1..Len(history[q]) :
              \E j \in 1..Len(history'[q]) : history'[q][j] = history[q][k]
         /\ \E j \in 1..Len(history'[p]) : history'[p][j] = NewRow(p)
<1> DEFINE row == NewRow(p)
<1>1. row \in Row /\ row.id = nextId /\ nextId \in Nat /\ history \in Tables
  BY NewRowType, TypeFacts
<1> HIDE DEF row
<1>2. nextId' = nextId + 1
  BY DEF Insert
<1>3. \/ history' = InsertRow(history, p, row)
      \/ \E k \in 1..Len(history[p]) : history' = InsertBackdated(history, p, k, row)
  BY DEF Insert, row
<1>4. PICK at \in 1..Len(history[p]) + 1 :
        /\ Len(history'[p]) = Len(history[p]) + 1 /\ history'[p][at] = row
        /\ \A j \in 1..Len(history[p]) : j < at => history'[p][j] = history[p][j]
        /\ \A j \in 1..Len(history[p]) : j >= at => history'[p][j + 1] = history[p][j]
        /\ \A q \in Products \ {p} : history'[q] = history[q]
  <2>1. Len(history[p]) \in Nat
    BY TypeFacts
  <2>2. CASE history' = InsertRow(history, p, row)
    <3>1. /\ Len(history[p]) + 1 \in 1..Len(history[p]) + 1
          /\ \A j \in 1..Len(history[p]) : ~(j >= Len(history[p]) + 1)
      BY <2>1
    <3>2. /\ Len(history'[p]) = Len(history[p]) + 1
          /\ history'[p][Len(history[p]) + 1] = row
          /\ \A k \in 1..Len(history[p]) : history'[p][k] = history[p][k]
          /\ \A q \in Products \ {p} : history'[q] = history[q]
      BY <1>1, <2>2, InsertRowType
    <3> QED
      BY <3>1, <3>2
  <2>3. ASSUME NEW k \in 1..Len(history[p]), history' = InsertBackdated(history, p, k, row)
        PROVE  /\ k \in 1..Len(history[p]) + 1
               /\ Len(history'[p]) = Len(history[p]) + 1 /\ history'[p][k] = row
               /\ \A j \in 1..Len(history[p]) : j < k => history'[p][j] = history[p][j]
               /\ \A j \in 1..Len(history[p]) : j >= k => history'[p][j + 1] = history[p][j]
               /\ \A q \in Products \ {p} : history'[q] = history[q]
    BY <1>1, <2>1, <2>3, BackdatedRow
  <2> QED
    BY <1>3, <2>2, <2>3
<1>5. Len(history[p]) \in Nat /\ at \in Nat /\ at \in 1..Len(history'[p])
  BY <1>4, TypeFacts
(* Each row but the new one was there, at a place of its own.              *)
<1> DEFINE was(j) == IF j < at THEN j ELSE j - 1
<1>6. \A j \in 1..Len(history'[p]) : j # at =>
        was(j) \in 1..Len(history[p]) /\ history'[p][j] = history[p][was(j)]
  <2> SUFFICES ASSUME NEW j \in 1..Len(history[p]) + 1, j # at
               PROVE  was(j) \in 1..Len(history[p]) /\ history'[p][j] = history[p][was(j)]
    BY <1>4
  <2>1. CASE j < at
    <3>1. j \in 1..Len(history[p])
      BY <1>5, <2>1
    <3> QED
      BY <1>4, <2>1, <3>1
  <2>2. CASE j > at
    <3>1. PICK i \in 1..Len(history[p]) : j = i + 1 /\ i >= at
      <4>1. j - 1 \in 1..Len(history[p]) /\ j = (j - 1) + 1 /\ j - 1 >= at
        BY <1>5, <2>2
      <4> QED
        BY <4>1
    <3>2. was(j) = i
      BY <1>5, <2>2, <3>1
    <3> QED
      BY <1>4, <3>1, <3>2
  <2> QED
    BY <1>5, <2>1, <2>2
<1>7. \A i, j \in 1..Len(history'[p]) : i # at /\ j # at /\ was(i) = was(j) => i = j
  BY <1>4, <1>5
<1>8. \A k \in 1..Len(history[p]) :
        \E j \in 1..Len(history'[p]) : history'[p][j] = history[p][k]
  <2> TAKE k \in 1..Len(history[p])
  <2>1. k \in 1..Len(history'[p]) /\ k + 1 \in 1..Len(history'[p])
    BY <1>4, <1>5
  <2> QED
    BY <1>4, <1>5, <2>1
<1> HIDE DEF was
<1>9. \A q \in Products : \A k \in 1..Len(history[q]) :
        history[q][k].id \in Nat /\ history[q][k].id < nextId
  BY TypeFacts DEF RowIds, RowIdsAreBelowNext
<1>10. \A j \in 1..Len(history'[p]) :
         \/ j = at /\ history'[p][j].id = nextId
         \/ \E k \in 1..Len(history[p]) :
              j # at /\ k = was(j) /\ history'[p][j] = history[p][k]
  BY <1>1, <1>4, <1>6
<1>11. RowIdsAreBelowNext'
  <2> SUFFICES ASSUME NEW q \in Products, NEW j \in 1..Len(history'[q])
               PROVE  history'[q][j].id < nextId + 1
    BY <1>2 DEF RowIdsAreBelowNext
  <2>1. CASE q = p
    BY <1>1, <1>9, <1>10, <2>1
  <2>2. CASE q # p
    BY <1>1, <1>4, <1>9, <2>2
  <2> QED
    BY <2>1, <2>2
<1>12. RowIdsAreUnique'
  <2> SUFFICES ASSUME NEW q \in Products, NEW r \in Products,
                      NEW i \in 1..Len(history'[q]), NEW j \in 1..Len(history'[r]),
                      history'[q][i].id = history'[r][j].id
               PROVE  q = r /\ i = j
    BY DEF RowIdsAreUnique
  <2>1. \A x, y \in Products : \A k \in 1..Len(history[x]), l \in 1..Len(history[y]) :
          history[x][k].id = history[y][l].id => x = y /\ k = l
    BY DEF RowIds, RowIdsAreUnique
  <2>2. \A x \in Products : \A k \in 1..Len(history[x]) : history[x][k].id # nextId
    BY <1>1, <1>9
  <2>3. CASE q = p /\ r = p
    <3>1. i \in 1..Len(history'[p]) /\ j \in 1..Len(history'[p])
      BY <2>3
    <3>2. i = at => j = at
      BY <1>10, <2>2, <2>3, <3>1
    <3>3. j = at => i = at
      BY <1>10, <2>2, <2>3, <3>1
    <3>4. CASE i # at /\ j # at
      <4>1. PICK k \in 1..Len(history[p]) : k = was(i) /\ history'[p][i] = history[p][k]
        BY <1>10, <3>1, <3>4
      <4>2. PICK l \in 1..Len(history[p]) : l = was(j) /\ history'[p][j] = history[p][l]
        BY <1>10, <3>1, <3>4
      <4>3. k = l
        BY <2>1, <2>3, <4>1, <4>2
      <4> QED
        BY <1>7, <2>3, <3>1, <3>4, <4>1, <4>2, <4>3
    <3> QED
      BY <2>3, <3>2, <3>3, <3>4
  <2>4. CASE q = p /\ r # p
    <3>1. i \in 1..Len(history'[p]) /\ history'[r] = history[r]
      BY <1>4, <2>4
    <3> QED
      BY <1>10, <2>1, <2>2, <2>4, <3>1
  <2>5. CASE q # p /\ r = p
    <3>1. j \in 1..Len(history'[p]) /\ history'[q] = history[q]
      BY <1>4, <2>5
    <3> QED
      BY <1>10, <2>1, <2>2, <2>5, <3>1
  <2>6. CASE q # p /\ r # p
    BY <1>4, <2>1, <2>6
  <2> QED
    BY <2>3, <2>4, <2>5, <2>6
<1>13. \A q \in Products : \A k \in 1..Len(history[q]) :
         \E j \in 1..Len(history'[q]) : history'[q][j] = history[q][k]
  BY <1>4, <1>8
<1> QED
  BY <1>4, <1>5, <1>11, <1>12, <1>13 DEF RowIds, row

LEMMA QuietIds ==
  ASSUME RowIds, UNCHANGED <<history, nextId>>
  PROVE  RowIds'
BY DEF RowIds, RowIdsAreBelowNext, RowIdsAreUnique

LEMMA MarkKeepsIds ==
  ASSUME TypeInv, RowIds, NEW id \in Nat, history' = MarkNotified(history, id),
         UNCHANGED nextId
  PROVE  RowIds'
BY MarkKeepsRows DEF RowIds, RowIdsAreBelowNext, RowIdsAreUnique

LEMMA QuietClaims ==
  ASSUME Claims, UNCHANGED history,
         \A p \in Products : worker'[p] = worker[p] \/ worker'[p].pc \notin {"notify", "mark"}
  PROVE  Claims'
BY DEF Claims, HasRow, HasUnmarked

LEMMA IdleClaims ==
  ASSUME \A p \in Products : worker'[p].pc = "idle"
  PROVE  Claims'
BY DEF Claims

(* Two notices that wait are never of the same row.                        *)
LEMMA NoticesDiffer ==
  ASSUME ClaimsInv, NEW m \in pending, NEW n \in pending, m.id = n.id
  PROVE  m = n
<1>1. \A x \in pending : \E p \in Products : \E k \in 2..Len(history[p]) :
        x = NoticeOf(history, p, k)
  BY DEF ClaimsInv, RetryInv
<1>2. PICK p \in Products : \E k \in 2..Len(history[p]) : m = NoticeOf(history, p, k)
  BY <1>1
<1>3. PICK j \in 2..Len(history[p]) : m = NoticeOf(history, p, j)
  BY <1>2
<1>4. PICK q \in Products : \E k \in 2..Len(history[q]) : n = NoticeOf(history, q, k)
  BY <1>1
<1>5. PICK k \in 2..Len(history[q]) : n = NoticeOf(history, q, k)
  BY <1>4
<1>6. history[p][j].id = history[q][k].id
  BY <1>3, <1>5 DEF NoticeOf
<1>7. j \in 1..Len(history[p]) /\ k \in 1..Len(history[q])
  BY TypeFacts DEF ClaimsInv
<1>8. p = q /\ j = k
  BY <1>6, <1>7 DEF ClaimsInv, RowIds, RowIdsAreUnique
<1> QED
  BY <1>3, <1>5, <1>8

LEMMA ResendClaims ==
  ASSUME ClaimsInv, NEW n \in pending, Resend(n)
  PROVE  RowIds' /\ TakingTurns' /\ RetryInv' /\ Claims'
<1>1. /\ UNCHANGED <<history, nextId>> /\ main = "resend" /\ IsNext(n)
      /\ n \in Notice /\ n.id \in Nat
  BY DEF Resend, dbVars, ClaimsInv, TypeInv, TypeOK, Notice
<1>2. ToldIds \subseteq ToldIds' /\ (chat' = Append(chat, n) => n.id \in ToldIds')
  <2>1. chat \in Seq(Notice) /\ (chat' = chat \/ chat' = Append(chat, n))
    BY TypeFacts DEF Resend, ClaimsInv
  <2>2. CASE chat' = chat /\ chat' # Append(chat, n)
    BY <2>2 DEF ToldIds
  <2>3. CASE chat' = Append(chat, n)
    <3>1. /\ Len(chat') = Len(chat) + 1 /\ chat'[Len(chat) + 1] = n /\ Len(chat) \in Nat
          /\ \A i \in 1..Len(chat) : chat'[i] = chat[i]
      BY <1>1, <2>1, <2>3, AppendType
    <3>2. \A i \in 1..Len(chat) : i \in 1..Len(chat')
      BY <3>1
    <3>3. Len(chat) + 1 \in 1..Len(chat')
      BY <3>1
    <3> QED
      BY <3>1, <3>2, <3>3 DEF ToldIds
  <2> QED
    BY <2>1, <2>2, <2>3
<1>3. RowIds'
  BY <1>1, QuietIds DEF ClaimsInv
<1>4. \A p \in Products : worker[p].pc = "idle"
  BY <1>1, IdleUnlessCrawling DEF ClaimsInv
<1>5. \A p \in Products : worker'[p].pc = "idle"
  <2>1. UNCHANGED worker \/ Die("panic")
    BY DEF Resend
  <2> QED
    BY <1>4, <2>1, IdleWorkerType DEF Die
<1>6. Claims'
  BY <1>5, IdleClaims
<1>7. TakingTurns'
  <2>1. Busy' = {}
    BY <1>5 DEF Busy
  <2>2. pending' = {} \/ main' \in {"resend", "confirm"}
    BY <1>1 DEF Resend, Die
  <2> QED
    BY <2>1, <2>2 DEF TakingTurns
<1>8. RetryInv'
  <2>1. CASE main' = "confirm"
    <3>1. chat' = Append(chat, n) /\ pending' = pending
      BY <1>1, <2>1 DEF Resend, Die
    <3>2. \A m \in pending : IsNext(m) => m.id = n.id
      BY <1>1 DEF IsNext, ClaimsInv, TypeInv, TypeOK, Notice
    <3> QED
      BY <1>1, <1>2, <3>1, <3>2 DEF ClaimsInv, RetryInv, IsNext
  <2>2. CASE main' # "confirm"
    <3>1. pending' \subseteq pending
      BY <2>2 DEF Resend, Die, AfterError
    <3> QED
      BY <1>1, <1>2, <2>2, <3>1, QuietRetry DEF ClaimsInv
  <2> QED
    BY <2>1, <2>2
<1> QED
  BY <1>3, <1>6, <1>7, <1>8

LEMMA ConfirmClaims ==
  ASSUME ClaimsInv, NEW n \in pending, Confirm(n)
  PROVE  RowIds' /\ TakingTurns' /\ RetryInv' /\ Claims'
<1>1. /\ n.id \in Nat /\ main = "confirm" /\ main' = "resend"
      /\ pending' = pending \ {n} /\ UNCHANGED <<nextId, chat, worker>>
  BY DEF Confirm, ClaimsInv, TypeInv, TypeOK, Notice
<1>2. \A p \in Products : worker'[p].pc = "idle"
  BY <1>1, IdleUnlessCrawling DEF ClaimsInv
<1>3. Claims' /\ TakingTurns'
  BY <1>1, <1>2, IdleClaims DEF TakingTurns, Busy
<1>4. CASE UNCHANGED history
  <2>1. ToldIds \subseteq ToldIds'
    BY <1>1 DEF ToldIds
  <2> QED
    BY <1>1, <1>3, <1>4, <2>1, QuietIds, QuietRetry DEF ClaimsInv
<1>5. CASE history' = MarkNotified(history, n.id)
  <2>1. RowIds'
    BY <1>1, <1>5, MarkKeepsIds DEF ClaimsInv
  <2>2. RetryInv'
    <3> SUFFICES ASSUME NEW m \in pending \ {n}
                 PROVE  \E p \in Products : \E k \in 2..Len(history'[p]) :
                          m = NoticeOf(history', p, k) /\ ~history'[p][k].notified
      BY <1>1 DEF RetryInv
    <3>1. PICK p \in Products : \E k \in 2..Len(history[p]) :
            m = NoticeOf(history, p, k) /\ ~history[p][k].notified
      BY DEF ClaimsInv, RetryInv
    <3>2. PICK k \in 2..Len(history[p]) :
            m = NoticeOf(history, p, k) /\ ~history[p][k].notified
      BY <3>1
    <3>3. k \in 1..Len(history[p]) /\ m.id = history[p][k].id
      BY <3>2, TypeFacts DEF NoticeOf, ClaimsInv
    <3>4. m.id # n.id
      BY NoticesDiffer
    <3>5. /\ Len(history'[p]) = Len(history[p]) /\ history'[p][k] = history[p][k]
          /\ NoticeOf(history', p, k) = NoticeOf(history, p, k)
      BY <1>1, <1>5, <3>3, <3>4, MarkKeepsRows DEF ClaimsInv
    <3> QED
      BY <3>2, <3>5
  <2> QED
    BY <1>3, <2>1, <2>2
<1> QED
  BY <1>4, <1>5 DEF Confirm

LEMMA AddPriceClaims ==
  ASSUME ClaimsInv, NEW p \in Products, AddPrice(p)
  PROVE  RowIds' /\ Claims'
<1>1. worker[p].pc = "add" /\ worker \in [Products -> Worker]
  BY DEF AddPrice, ClaimsInv, TypeInv, TypeOK
<1>2. \A q \in Products \ {p} : worker'[q] = worker[q]
  BY <1>1 DEF AddPrice, Finish
<1>3. CASE ~Insert(p)
  <2>1. UNCHANGED <<history, nextId>> /\ worker' = [worker EXCEPT ![p] = IdleWorker]
    BY <1>3 DEF AddPrice, Finish, dbVars
  <2>2. worker'[p].pc = "idle"
    BY <1>1, <2>1, IdleWorkerType
  <2> QED
    BY <1>2, <2>1, <2>2, QuietIds, QuietClaims DEF ClaimsInv
<1>4. CASE Insert(p)
  <2>1. /\ RowIds'
        /\ \A q \in Products : \A k \in 1..Len(history[q]) :
             \E j \in 1..Len(history'[q]) : history'[q][j] = history[q][k]
        /\ \E j \in 1..Len(history'[p]) : history'[p][j] = NewRow(p)
    BY <1>1, <1>4, InsertKeepsIds DEF ClaimsInv
  <2>2. \A q \in Products : \A id :
          (HasRow(q, id) => HasRow(q, id)') /\ (HasUnmarked(q, id) => HasUnmarked(q, id)')
    <3> TAKE q \in Products
    <3> TAKE id
    <3>1. HasRow(q, id) => HasRow(q, id)'
      <4>1. SUFFICES ASSUME NEW k \in 1..Len(history[q]), history[q][k].id = id
                     PROVE  \E j \in 1..Len(history'[q]) : history'[q][j].id = id
        BY DEF HasRow
      <4>2. PICK j \in 1..Len(history'[q]) : history'[q][j] = history[q][k]
        BY <2>1
      <4> QED
        BY <4>1, <4>2
    <3>2. HasUnmarked(q, id) => HasUnmarked(q, id)'
      <4>1. SUFFICES ASSUME NEW k \in 1..Len(history[q]),
                            history[q][k].id = id, ~history[q][k].notified
                     PROVE  \E j \in 1..Len(history'[q]) :
                              history'[q][j].id = id /\ ~history'[q][j].notified
        BY DEF HasUnmarked
      <4>2. PICK j \in 1..Len(history'[q]) : history'[q][j] = history[q][k]
        BY <2>1
      <4> QED
        BY <4>1, <4>2
    <3> QED
      BY <3>1, <3>2
  <2>3. \/ worker'[p].pc = "idle"
        \/ News(p) /\ worker'[p].pc = "notify" /\ worker'[p].id = nextId
    <3>1. \/ worker' = [worker EXCEPT ![p] = IdleWorker]
          \/ News(p) /\ worker' = [worker EXCEPT ![p] = [@ EXCEPT !.pc = "notify", !.id = nextId]]
      BY DEF AddPrice, Finish
    <3> QED
      BY <1>1, <3>1, IdleWorkerType DEF Worker
  <2>4. \A id : News(p) /\ id = nextId => HasUnmarked(p, id)'
    <3>1. NewRow(p).id = nextId /\ (News(p) => ~NewRow(p).notified)
      BY <1>1, NewRowType DEF ClaimsInv
    <3> QED
      BY <2>1, <3>1 DEF HasUnmarked
  <2>5. Claims'
    <3> SUFFICES ASSUME NEW q \in Products, NEW id, worker'[q].id = id
                 PROVE  /\ worker'[q].pc = "notify" => HasUnmarked(q, id)'
                        /\ worker'[q].pc = "mark" => HasRow(q, id)'
      BY DEF Claims, HasRow, HasUnmarked
    <3>1. CASE q = p
      BY <2>3, <2>4, <3>1
    <3>2. CASE q # p
      <4>1. worker[q].id = id /\ worker'[q].pc = worker[q].pc
        BY <1>2, <3>2
      <4>2. /\ worker[q].pc = "notify" => HasUnmarked(q, id)
            /\ worker[q].pc = "mark" => HasRow(q, id)
        BY <4>1 DEF ClaimsInv, Claims
      <4> QED
        BY <2>2, <4>1, <4>2
    <3> QED
      BY <3>1, <3>2
  <2> QED
    BY <2>1, <2>5
<1> QED
  BY <1>3, <1>4

(* A worker claims a row of its own product, so no other one marks it.     *)
LEMMA MarkClaims ==
  ASSUME ClaimsInv, NEW p \in Products, Mark(p)
  PROVE  RowIds' /\ Claims'
<1> DEFINE id == worker[p].id
<1>1. /\ id \in Nat /\ UNCHANGED nextId /\ worker'[p].pc = "idle"
      /\ \A q \in Products \ {p} : worker'[q] = worker[q]
  BY IdleWorkerType DEF Mark, Finish, ClaimsInv, TypeInv, TypeOK, Worker
<1>2. PICK i \in 1..Len(history[p]) : history[p][i].id = id
  BY DEF Mark, ClaimsInv, Claims, HasRow
<1>3. CASE UNCHANGED history
  BY <1>1, <1>3, QuietIds, QuietClaims DEF ClaimsInv
<1>4. CASE history' = MarkNotified(history, id)
  <2>1. RowIds'
    BY <1>1, <1>4, MarkKeepsIds DEF ClaimsInv
  <2>2. /\ \A q \in Products : Len(history'[q]) = Len(history[q])
        /\ \A q \in Products : \A k \in 1..Len(history[q]) :
             /\ history'[q][k].id = history[q][k].id
             /\ history[q][k].id # id => history'[q][k] = history[q][k]
    BY <1>1, <1>4, MarkKeepsRows DEF ClaimsInv
  <2>3. \A q \in Products \ {p} : \A k \in 1..Len(history[q]) : history'[q][k] = history[q][k]
    BY <1>2, <2>2 DEF ClaimsInv, RowIds, RowIdsAreUnique
  <2>4. Claims'
    BY <1>1, <2>2, <2>3 DEF ClaimsInv, Claims, HasRow, HasUnmarked
  <2> QED
    BY <2>1, <2>4
<1> QED
  BY <1>3, <1>4 DEF Mark

LEMMA WorkerClaims ==
  ASSUME ClaimsInv, NEW p \in Products, WorkerStep(p)
  PROVE  RowIds' /\ TakingTurns' /\ RetryInv' /\ Claims'
<1> USE DEF dbVars, runVars
<1>1. /\ worker[p].pc # "idle" /\ UNCHANGED <<main, pending>>
      /\ \A q \in Products \ {p} : worker'[q] = worker[q]
  BY DEF WorkerStep, Scrape, ReadLast, AddPrice, Announce, Mark, Finish,
         ClaimsInv, TypeInv, TypeOK
<1>2. TakingTurns' /\ RetryInv'
  BY <1>1 DEF ClaimsInv, TakingTurns, RetryInv, Busy
<1>3. CASE Scrape(p) \/ ReadLast(p)
  <2>1. UNCHANGED <<history, nextId>>
    BY <1>3 DEF Scrape, ReadLast
  <2>2. worker'[p].pc \notin {"notify", "mark"}
    BY <1>3, IdleWorkerType
       DEF Scrape, ReadLast, Finish, ClaimsInv, TypeInv, TypeOK, Worker
  <2> QED
    BY <1>1, <1>2, <2>1, <2>2, QuietIds, QuietClaims DEF ClaimsInv
<1>4. CASE Announce(p)
  <2>1. UNCHANGED <<history, nextId>>
    BY <1>4 DEF Announce
  <2>2. HasUnmarked(p, worker[p].id)
    BY <1>4 DEF Announce, ClaimsInv, Claims
  <2>3. \/ worker'[p].pc = "idle"
        \/ worker'[p].pc = "mark" /\ worker'[p].id = worker[p].id
    BY <1>4, IdleWorkerType DEF Announce, Finish, ClaimsInv, TypeInv, TypeOK, Worker
  <2>4. Claims'
    BY <1>1, <2>1, <2>2, <2>3 DEF ClaimsInv, Claims, HasRow, HasUnmarked
  <2> QED
    BY <1>2, <2>1, <2>4, QuietIds DEF ClaimsInv
<1> QED
  BY <1>2, <1>3, <1>4, AddPriceClaims, MarkClaims DEF WorkerStep

LEMMA ClaimsStep == ClaimsInv /\ [Next]_vars => ClaimsInv'
<1> SUFFICES ASSUME ClaimsInv, [Next]_vars PROVE RowIds' /\ TakingTurns' /\ RetryInv' /\ Claims'
  BY StepType DEF ClaimsInv
<1> USE DEF dbVars, runVars, budgetVars
<1>1. ASSUME UNCHANGED <<history, nextId, chat>>,
             \A p \in Products : worker'[p] = worker[p] \/ worker'[p].pc \in {"idle", "quote"},
             Busy' # {} => main' = "crawl",
             pending' = {} \/ (pending' = pending /\ main' \in {"resend", main}),
             main' = "confirm" => pending' = pending /\ main' = main
      PROVE  RowIds' /\ TakingTurns' /\ RetryInv' /\ Claims'
  <2>1. RowIds' /\ Claims'
    BY <1>1, QuietIds, QuietClaims DEF ClaimsInv
  <2>2. TakingTurns'
    BY <1>1 DEF ClaimsInv, TakingTurns
  <2>3. RetryInv'
    BY <1>1, QuietRetry DEF ClaimsInv, ToldIds
  <2> QED
    BY <2>1, <2>2, <2>3
<1>2. ASSUME NEW reason, Die(reason), UNCHANGED <<history, nextId, chat>>
      PROVE  RowIds' /\ TakingTurns' /\ RetryInv' /\ Claims'
  <2>1. \A p \in Products : worker'[p].pc = "idle"
    BY <1>2, IdleWorkerType DEF Die
  <2>2. Busy' = {} /\ pending' = {} /\ main' = "down"
    BY <1>2, <2>1 DEF Die, Busy
  <2> QED
    BY <1>1, <1>2, <2>1, <2>2
<1>3. ASSUME \/ (\E p \in Products : PriceMoves(p)) \/ Signal \/ Start \/ ResendDone
             \/ EndRun \/ Tick \/ UNCHANGED vars
      PROVE  RowIds' /\ TakingTurns' /\ RetryInv' /\ Claims'
  <2>1. UNCHANGED <<history, nextId, chat, worker>>
    BY <1>3 DEF PriceMoves, Signal, Start, ResendDone, EndRun, Tick, vars
  <2>2. Busy' = Busy
    BY <2>1 DEF Busy
  <2>3. Busy' # {} => main' = "crawl"
    BY <1>3, <2>2
       DEF PriceMoves, Signal, Start, ResendDone, EndRun, AllDone, Tick, vars, ClaimsInv, TakingTurns
  <2>4. /\ pending' = {} \/ (pending' = pending /\ main' \in {"resend", main})
        /\ main' = "confirm" => pending' = pending /\ main' = main
    BY <1>3 DEF PriceMoves, Signal, Start, ResendDone, EndRun, Tick, vars, ClaimsInv, TakingTurns
  <2> QED
    BY <1>1, <2>1, <2>3, <2>4
<1>4. CASE Kill \/ StopLoop
  BY <1>2, <1>4 DEF Kill, StopLoop
<1>5. CASE ListProducts
  <2>1. pending = {} /\ \A p \in Products : worker[p].pc = "idle"
    BY <1>5, IdleUnlessCrawling DEF ListProducts, ClaimsInv, TakingTurns
  <2>2. CASE Die("error")
    BY <1>2, <1>5, <2>2 DEF ListProducts
  <2>3. CASE main' \in {"select", "crawl"} /\ UNCHANGED <<pending, worker>>
    <3>1. Busy' = {}
      BY <2>1, <2>3 DEF Busy
    <3> QED
      BY <1>1, <1>5, <2>1, <2>3, <3>1 DEF ListProducts
  <2> QED
    BY <1>5, <2>2, <2>3 DEF ListProducts
<1>6. ASSUME NEW p \in Products, Spawn(p)
      PROVE  RowIds' /\ TakingTurns' /\ RetryInv' /\ Claims'
  <2>1. \A q \in Products :
          worker'[q] = worker[q] \/ worker'[q].pc \in {"idle", "quote"}
    BY <1>6 DEF Spawn, ClaimsInv, TypeInv, TypeOK, Worker
  <2> QED
    BY <1>1, <1>6, <2>1 DEF Spawn, ClaimsInv, TakingTurns
<1>7. CASE ReadPending
  <2>1. UNCHANGED <<history, nextId, chat, worker>> /\ main = "pending" /\ main' = "resend"
    BY <1>7 DEF ReadPending
  <2>2. \A p \in Products : worker'[p].pc = "idle"
    BY <2>1, IdleUnlessCrawling DEF ClaimsInv
  <2>3. TakingTurns' /\ Claims'
    BY <2>1, <2>2, IdleClaims DEF TakingTurns, Busy
  <2>4. RetryInv'
    BY <1>7, <2>1 DEF ReadPending, Undelivered, RetryInv, PendingNotifications
  <2> QED
    BY <2>1, <2>3, <2>4, QuietIds DEF ClaimsInv
<1> HIDE DEF dbVars, runVars, budgetVars
<1> QED
  BY <1>3, <1>4, <1>5, <1>6, <1>7, ResendClaims, ConfirmClaims, WorkerClaims
  DEF Next, Environment, MainStep, RetryStep

LEMMA ClaimsHold == Spec => []ClaimsInv
<1> QED
  BY InitClaimsInv, ClaimsStep, PTL DEF Spec

-----------------------------------------------------------------------------
(* The theorems.  All but the last assume a database clock that never      *)
(* steps back.                                                             *)

(* Types and inductive invariant hold in every reachable state, in every   *)
(* step of Run, RunOnce, retryPending and processOne and through restarts. *)
LEMMA InvHolds ==
  ASSUME MaxBackdated = 0
  PROVE  Spec => []Inv
<1>1. Inv /\ [Next]_vars => Inv'
  BY StepInv
<1> QED
  BY <1>1, InitInv, PTL DEF Spec

(* The inductive invariant holds in every reachable state: retryPending    *)
(* and the workers of RunOnce take turns, and what each of them holds is   *)
(* what the table says.                                                    *)
THEOREM IInvHolds ==
  ASSUME MaxBackdated = 0
  PROVE  Spec => []IInv
<1>1. Inv => IInv
  BY DEF Inv
<1> QED
  BY <1>1, InvHolds, PTL

(* NotifyChange never reports what AddPrice has not committed, nor other   *)
(* prices than the row and the one before it, in any run or process.       *)
THEOREM ChatTells ==
  ASSUME MaxBackdated = 0
  PROVE  Spec => []ChatIsTrue
<1>1. Inv => ChatIsTrue
  BY DEF Inv, IInv, TableInv
<1> QED
  BY <1>1, InvHolds, PTL

(* MarkNotified and AddPrice never make a change look announced that       *)
(* Telegram has not accepted.                                              *)
THEOREM MarkedTold ==
  ASSUME MaxBackdated = 0
  PROVE  Spec => []MarkedWasTold
<1>1. Inv => MarkedWasTold
  BY DEF Inv, IInv, TableInv
<1> QED
  BY <1>1, InvHolds, PTL

(* LastQuote, Classify and AddPrice together never repeat a price in       *)
(* price_history, although they are no transaction.                        *)
THEOREM JournalHolds ==
  ASSUME MaxBackdated = 0
  PROVE  Spec => []JournalOfChanges
<1>1. Inv => JournalOfChanges
  BY DEF Inv, IInv, TableInv
<1> QED
  BY <1>1, InvHolds, PTL

(* What processOne has read stays true until it has used it.               *)
THEOREM BaselineHolds ==
  ASSUME MaxBackdated = 0
  PROVE  Spec => []BaselineIsFresh
<1>1. Inv => BaselineIsFresh
  BY DEF Inv, IInv, WorkerInv
<1> QED
  BY <1>1, InvHolds, PTL

LEMMA UnmarkedIsFound ==
  ASSUME Inv
  PROVE  PendingFindsAll
<1> SUFFICES ASSUME NEW p \in Products, NEW k \in 1..Len(history[p]),
                    ~history[p][k].notified
             PROVE  \E n \in PendingNotifications(history) : n.id = history[p][k].id
  BY DEF PendingFindsAll
<1>1. k # 1
  BY TypeFacts DEF Inv, IInv, TableInv, FirstRowIsSilent
<1>2. k \in {j \in 2..Len(history[p]) : ~history[p][j].notified}
  BY <1>1, TypeFacts DEF Inv
<1>3. NoticeOf(history, p, k) \in PendingNotifications(history)
  BY <1>2 DEF PendingNotifications
<1>4. NoticeOf(history, p, k).id = history[p][k].id
  BY DEF NoticeOf
<1> QED
  BY <1>3, <1>4

(* PendingNotifications returns every committed change that is not marked, *)
(* whatever error, lost answer or crash left it so.                        *)
THEOREM NothingIsLost ==
  ASSUME MaxBackdated = 0
  PROVE  Spec => []PendingFindsAll
<1>1. Inv => PendingFindsAll
  BY UnmarkedIsFound
<1> QED
  BY <1>1, InvHolds, PTL

LEMMA UnmarkedRow ==
  ASSUME ClaimsInv, NEW p \in Products, NEW id, HasUnmarked(p, id)
  PROVE  ~Notified(id)
BY DEF HasUnmarked, Notified, ClaimsInv, RowIds, RowIdsAreUnique

(* A notice that waits to be sent is of a row that is not marked.          *)
LEMMA PendingIsUnmarked ==
  ASSUME ClaimsInv, NEW n \in pending
  PROVE  n \in Notice /\ ~Notified(n.id) /\ \E p \in Products : HasRow(p, n.id)
<1>1. PICK p \in Products : \E k \in 2..Len(history[p]) :
        n = NoticeOf(history, p, k) /\ ~history[p][k].notified
  BY DEF ClaimsInv, RetryInv
<1>2. PICK k \in 2..Len(history[p]) :
        n = NoticeOf(history, p, k) /\ ~history[p][k].notified
  BY <1>1
<1>3. k \in 1..Len(history[p]) /\ n.id = history[p][k].id
  BY <1>2, TypeFacts DEF NoticeOf, ClaimsInv
<1>4. HasUnmarked(p, n.id) /\ HasRow(p, n.id)
  BY <1>2, <1>3 DEF HasUnmarked, HasRow
<1>5. n \in Notice
  BY DEF ClaimsInv, TypeInv, TypeOK
<1> QED
  BY <1>4, <1>5, UnmarkedRow

(* So is the one a worker is about to send.                                *)
LEMMA OwnIsUnmarked ==
  ASSUME ClaimsInv, NEW p \in Products, worker[p].pc = "notify"
  PROVE  OwnNotice(p) \in Notice /\ OwnNotice(p).id = worker[p].id /\ ~Notified(worker[p].id)
<1>1. OwnNotice(p) \in Notice /\ OwnNotice(p).id = worker[p].id
  BY DEF ClaimsInv, TypeInv, TypeOK, WorkerQuotes, Worker, OwnNotice, Notice
<1>2. HasUnmarked(p, worker[p].id)
  BY DEF ClaimsInv, Claims
<1> QED
  BY <1>1, <1>2, UnmarkedRow

(* Neither retryPending nor a worker calls NotifyChange for a row that is  *)
(* marked at that moment, even when the database clock steps back.         *)
THEOREM NoRepeat == Spec => NoRepeatAfterMark
<1>1. ClaimsInv /\ [Next]_vars => [chat' # chat => ~Notified(chat'[Len(chat')].id)]_vars
  <2> SUFFICES ASSUME ClaimsInv, Next, chat' # chat
               PROVE  ~Notified(chat'[Len(chat')].id)
    BY DEF vars
  <2>1. ASSUME NEW n \in Notice, chat' = Append(chat, n) PROVE chat'[Len(chat')] = n
    BY <2>1, TypeFacts, AppendType DEF ClaimsInv
  <2>2. ASSUME NEW n \in pending, Resend(n) PROVE ~Notified(chat'[Len(chat')].id)
    <3>1. chat' = Append(chat, n)
      BY <2>2 DEF Resend
    <3> QED
      BY <2>1, <3>1, PendingIsUnmarked
  <2>3. ASSUME NEW p \in Products, Announce(p) PROVE ~Notified(chat'[Len(chat')].id)
    <3>1. chat' = Append(chat, OwnNotice(p)) /\ worker[p].pc = "notify"
      BY <2>3 DEF Announce
    <3> QED
      BY <2>1, <3>1, OwnIsUnmarked
  <2> QED
    BY <2>2, <2>3
       DEF Next, Environment, MainStep, RetryStep, WorkerStep, PriceMoves, Signal, Kill,
           Start, ReadPending, ResendDone, Confirm, ListProducts, Spawn, EndRun, Tick,
           StopLoop, Scrape, ReadLast, AddPrice, Mark, dbVars, runVars, budgetVars
<1> QED
  BY <1>1, ClaimsHold, PTL DEF Spec, NoRepeatAfterMark
=============================================================================
