-------------------------- MODULE MonitorRefinement --------------------------
(***************************************************************************)
(* The tracker implements PriceWatch, for every value of the constants and *)
(* a database clock that never steps back.                                 *)
(***************************************************************************)
EXTENDS MonitorProofs

(* The ids of one product's rows rise in the order of checked_at, so that  *)
(* the last change of a product is the one with the greatest id.           *)
RowIdsIncrease ==
  \A p \in Products : \A j, k \in 1..Len(history[p]) :
    j < k => history[p][j].id < history[p][k].id

-----------------------------------------------------------------------------
(* Every step does one of four things to the table and the chat.           *)

Sent(p, k) == UNCHANGED <<history, nextId>> /\ chat' = Append(chat, NoticeOf(history, p, k))

MarkedAs(id) ==
  /\ id \in ToldIds \cap Nat
  /\ history' = MarkNotified(history, id)
  /\ UNCHANGED <<nextId, chat>>

Inserted(p, row) ==
  /\ row.id = nextId /\ row.quote # LastQuote(history, p)
  /\ history[p] = <<>> => row.notified
  /\ history[p] # <<>> => ~row.notified
  /\ history' = InsertRow(history, p, row) /\ nextId' = nextId + 1
  /\ UNCHANGED chat

LEMMA KindsOfSteps ==
  ASSUME MaxBackdated = 0, Inv, [Next]_vars
  PROVE  \/ UNCHANGED <<history, nextId, chat>>
         \/ \E p \in Products : \E k \in 2..Len(history[p]) : Sent(p, k)
         \/ \E id \in Nat : MarkedAs(id)
         \/ \E p \in Products : \E row \in Row : Inserted(p, row)
<1> DEFINE Goal == \/ UNCHANGED <<history, nextId, chat>>
                   \/ \E p \in Products : \E k \in 2..Len(history[p]) : Sent(p, k)
                   \/ \E id \in Nat : MarkedAs(id)
                   \/ \E p \in Products : \E row \in Row : Inserted(p, row)
<1>1. ASSUME NEW n \in pending, Resend(n) PROVE Goal
  <2>1. UNCHANGED <<history, nextId>> /\ (chat' = chat \/ chat' = Append(chat, n))
    BY <1>1 DEF Resend, dbVars
  <2>2. PICK p \in Products : \E k \in 2..Len(history[p]) : n = NoticeOf(history, p, k)
    BY DEF Inv, IInv, RetryInv
  <2> QED
    BY <2>1, <2>2 DEF Sent
<1>2. ASSUME NEW n \in pending, Confirm(n) PROVE Goal
  <2>1. n.id \in ToldIds
    BY <1>2 DEF Confirm, Inv, IInv, RetryInv
  <2>2. n.id \in Nat
    BY DEF Inv, TypeInv, TypeOK, Notice
  <2>3. \/ UNCHANGED <<history, nextId, chat>>
        \/ history' = MarkNotified(history, n.id) /\ UNCHANGED <<nextId, chat>>
    BY <1>2 DEF Confirm
  <2> QED
    BY <2>1, <2>2, <2>3 DEF MarkedAs
<1>3. ASSUME NEW p \in Products, AddPrice(p) PROVE Goal
  <2>1. UNCHANGED chat /\ (Insert(p) \/ UNCHANGED dbVars)
    BY <1>3 DEF AddPrice
  <2>2. backdated \in Nat
    BY DEF Inv, TypeInv, TypeOK
  <2>3. CASE Insert(p)
    <3>1. history' = InsertRow(history, p, NewRow(p)) /\ nextId' = nextId + 1
      BY <2>2, <2>3 DEF Insert
    <3> QED
      BY <1>3, <2>1, <3>1, AddedRow DEF Inserted
  <2>4. CASE UNCHANGED dbVars
    BY <2>1, <2>4 DEF dbVars
  <2> QED
    BY <2>1, <2>3, <2>4
<1>4. ASSUME NEW p \in Products, Announce(p) PROVE Goal
  <2>1. UNCHANGED <<history, nextId>> /\ (chat' = chat \/ chat' = Append(chat, OwnNotice(p)))
    BY <1>4 DEF Announce, dbVars
  <2>2. Len(history[p]) \in 2..Len(history[p])
    BY <1>4, TypeFacts DEF Announce, Inv, IInv, WorkerInv, BaselineIsFresh
  <2>3. OwnNotice(p) = NoticeOf(history, p, Len(history[p]))
    BY <1>4 DEF Announce, Inv, IInv, WorkerInv, BaselineIsFresh
  <2> QED
    BY <2>1, <2>2, <2>3 DEF Sent
<1>5. ASSUME NEW p \in Products, Mark(p) PROVE Goal
  <2>1. worker[p].id \in ToldIds /\ worker[p].id \in Nat
    BY <1>5 DEF Mark, Inv, IInv, WorkerInv, TypeInv, TypeOK, Worker
  <2>2. \/ UNCHANGED <<history, nextId, chat>>
        \/ history' = MarkNotified(history, worker[p].id) /\ UNCHANGED <<nextId, chat>>
    BY <1>5 DEF Mark
  <2> QED
    BY <2>1, <2>2 DEF MarkedAs
<1>6. ASSUME NEW p \in Products, PriceMoves(p) \/ Spawn(p) \/ Scrape(p) \/ ReadLast(p)
      PROVE  Goal
  BY <1>6 DEF PriceMoves, Spawn, Scrape, ReadLast, dbVars
<1>7. CASE \/ Signal \/ Kill \/ Start \/ ReadPending \/ ResendDone \/ ListProducts \/ EndRun
           \/ Tick \/ StopLoop \/ UNCHANGED vars
  BY <1>7 DEF Signal, Kill, Start, ReadPending, ResendDone, ListProducts, EndRun, Tick,
              StopLoop, vars, dbVars
<1> QED
  BY <1>1, <1>2, <1>3, <1>4, <1>5, <1>6, <1>7
     DEF Next, Environment, MainStep, RetryStep, WorkerStep

-----------------------------------------------------------------------------
(* The ids rise.                                                           *)

LEMMA IdsStep ==
  ASSUME MaxBackdated = 0, Inv, RowIdsIncrease, [Next]_vars
  PROVE  RowIdsIncrease'
<1>1. CASE UNCHANGED <<history, nextId, chat>>
  BY <1>1 DEF RowIdsIncrease
<1>2. ASSUME NEW p \in Products, NEW k \in 2..Len(history[p]), Sent(p, k)
      PROVE  RowIdsIncrease'
  BY <1>2 DEF Sent, RowIdsIncrease
<1>3. ASSUME NEW id \in Nat, MarkedAs(id) PROVE RowIdsIncrease'
  <2>1. /\ \A p \in Products : Len(history'[p]) = Len(history[p])
        /\ \A p \in Products : \A k \in 1..Len(history[p]) :
             history'[p][k] = Marked(history[p][k], id)
    BY <1>3, TypeFacts, MarkNotifiedType DEF MarkedAs, Inv
  <2>2. \A p \in Products : \A k \in 1..Len(history[p]) :
          history'[p][k].id = history[p][k].id
    BY <2>1, TypeFacts DEF Marked, Row, Inv
  <2> QED
    BY <2>1, <2>2 DEF RowIdsIncrease
<1>4. ASSUME NEW p \in Products, NEW row \in Row, Inserted(p, row) PROVE RowIdsIncrease'
  <2>1. /\ Len(history'[p]) = Len(history[p]) + 1
        /\ history'[p][Len(history[p]) + 1] = row
        /\ \A k \in 1..Len(history[p]) : history'[p][k] = history[p][k]
        /\ \A q \in Products \ {p} : history'[q] = history[q]
    BY <1>4, InsertKeepsTable DEF Inserted, Inv, IInv
  <2>2. ASSUME NEW j \in 1..Len(history'[p]), NEW k \in 1..Len(history'[p]), j < k
        PROVE  history'[p][j].id < history'[p][k].id
    <3>1. j \in 1..Len(history[p]) /\ Len(history[p]) \in Nat
      BY <2>1, <2>2, TypeFacts DEF Inv
    <3>2. CASE k \in 1..Len(history[p])
      BY <2>1, <2>2, <3>1, <3>2 DEF RowIdsIncrease
    <3>3. CASE k = Len(history[p]) + 1
      <4>1. history[p][j].id < nextId
        BY <3>1 DEF Inv, IInv, TableInv, RowIdsAreBelowNext
      <4> QED
        BY <1>4, <2>1, <3>1, <3>3, <4>1 DEF Inserted
    <3> QED
      BY <2>1, <3>1, <3>2, <3>3
  <2>3. ASSUME NEW q \in Products \ {p},
               NEW j \in 1..Len(history'[q]), NEW k \in 1..Len(history'[q]), j < k
        PROVE  history'[q][j].id < history'[q][k].id
    BY <2>1, <2>3 DEF RowIdsIncrease
  <2> QED
    BY <2>2, <2>3 DEF RowIdsIncrease
<1> QED
  BY <1>1, <1>2, <1>3, <1>4, KindsOfSteps

LEMMA IdsHold ==
  ASSUME MaxBackdated = 0
  PROVE  Spec => []RowIdsIncrease
<1>1. Init => RowIdsIncrease
  BY DEF Init, EmptyTable, RowIdsIncrease
<1>2. Inv /\ RowIdsIncrease /\ [Next]_vars => RowIdsIncrease'
  BY IdsStep
<1> QED
  BY <1>1, <1>2, InvHolds, PTL DEF Spec

-----------------------------------------------------------------------------
(* The four kinds of steps seen as steps of PriceWatch.                    *)

LEMMA Known ==
  ASSUME NEW c
  PROVE  c \in KnownChanges <=>
           \E p \in Products : \E k \in 2..Len(history[p]) : c = NoticeOf(history, p, k)
BY DEF KnownChanges

LEMMA ToldGrows ==
  ASSUME NEW S, NEW s \in Seq(S), NEW n \in S
  PROVE  ToSet(Append(s, n)) = ToSet(s) \cup {n}
<1>1. /\ Append(s, n) \in Seq(S) /\ Len(Append(s, n)) = Len(s) + 1 /\ Len(s) \in Nat
      /\ Append(s, n)[Len(s) + 1] = n
      /\ \A i \in 1..Len(s) : Append(s, n)[i] = s[i]
  BY AppendType
<1>2. DOMAIN s = 1..Len(s) /\ DOMAIN Append(s, n) = 1..(Len(s) + 1)
  BY <1>1
<1>3. \A i \in 1..(Len(s) + 1) : i \in 1..Len(s) \/ i = Len(s) + 1
  BY <1>1
<1>4. \A i \in 1..Len(s) : i \in 1..(Len(s) + 1)
  BY <1>1
<1>5. Len(s) + 1 \in 1..(Len(s) + 1)
  BY <1>1
<1> QED
  BY <1>1, <1>2, <1>3, <1>4, <1>5 DEF ToSet

LEMMA SentTells ==
  ASSUME Inv, NEW p \in Products, NEW k \in 2..Len(history[p]), Sent(p, k)
  PROVE  PW!Next
<1> DEFINE c == NoticeOf(history, p, k)
<1>1. c \in KnownChanges
  BY Known
<1>2. c \in Notice /\ chat \in Seq(Notice)
  BY TypeFacts, NoticeType DEF Inv
<1>3. ToSet(chat') = ToSet(chat) \cup {c}
  BY <1>2, ToldGrows DEF Sent
<1>4. KnownChanges' = KnownChanges
  BY DEF Sent, KnownChanges
<1>5. PW!Tell(c)
  BY <1>3, <1>4 DEF PW!Tell
<1> QED
  BY <1>1, <1>5 DEF PW!Next

LEMMA MarkedStutters ==
  ASSUME Inv, NEW id \in Nat, MarkedAs(id)
  PROVE  UNCHANGED PW!vars
<1>1. /\ \A p \in Products : Len(history'[p]) = Len(history[p])
      /\ \A p \in Products : \A k \in 2..Len(history[p]) :
           NoticeOf(history', p, k) = NoticeOf(history, p, k)
  BY MarkKeepsTable DEF MarkedAs, Inv, IInv
<1>2. KnownChanges' = KnownChanges
  BY <1>1 DEF KnownChanges
<1> QED
  BY <1>2 DEF PW!vars, MarkedAs

LEMMA InsertedRecords ==
  ASSUME Inv, RowIdsIncrease, NEW p \in Products, NEW row \in Row, Inserted(p, row)
  PROVE  PW!Next \/ UNCHANGED PW!vars
<1> DEFINE last == Len(history[p])
           c == NoticeOf(history', p, last + 1)
<1>1. /\ TableInv'
      /\ Len(history'[p]) = last + 1
      /\ history'[p][last + 1] = row
      /\ \A k \in 1..last : history'[p][k] = history[p][k]
      /\ \A q \in Products \ {p} : history'[q] = history[q]
      /\ \A q \in Products : \A k \in 2..Len(history[q]) :
           /\ k \in 2..Len(history'[q])
           /\ NoticeOf(history', q, k) = NoticeOf(history, q, k)
  BY InsertKeepsTable DEF Inserted, Inv, IInv
<1>2. last \in Nat /\ (history[p] = <<>> <=> last = 0) /\ history[p] \in Seq(Row)
  BY TypeFacts DEF Inv
<1>3. ToSet(chat') = ToSet(chat)
  BY DEF Inserted
<1>4. ASSUME NEW q \in Products, NEW k \in 2..Len(history'[q])
      PROVE  k \in 2..Len(history[q]) \/ (q = p /\ k = last + 1)
  BY <1>1, <1>2
<1>5. CASE last = 0
  <2>1. \A q \in Products : 2..Len(history'[q]) = 2..Len(history[q])
    <3>1. 2..Len(history'[p]) = {} /\ 2..Len(history[p]) = {}
      <4>1. Len(history'[p]) = 1 /\ Len(history[p]) = 0
        BY <1>1, <1>5
      <4>2. 2..1 = {} /\ 2..0 = {}
        OBVIOUS
      <4> QED
        BY <4>1, <4>2
    <3>2. \A q \in Products \ {p} : history'[q] = history[q]
      BY <1>1
    <3> QED
      BY <3>1, <3>2
  <2>2. KnownChanges' = KnownChanges
    BY <1>1, <2>1 DEF KnownChanges
  <2> QED
    BY <1>3, <2>2 DEF PW!vars
<1>6. CASE last > 0
  <2>1. last + 1 \in 2..Len(history'[p]) /\ last \in 1..last
    BY <1>1, <1>2, <1>6
  <2>2. /\ c.id = nextId /\ c.product = p /\ c.new = row.quote
        /\ c.old = history[p][last].quote
    BY <1>1, <1>2, <2>1 DEF NoticeOf, Inserted
  <2>3. KnownChanges' = KnownChanges \cup {c}
    <3>1. ASSUME NEW e PROVE e \in KnownChanges' => e \in KnownChanges \cup {c}
      BY <1>1, <1>4 DEF KnownChanges
    <3>2. ASSUME NEW e PROVE e \in KnownChanges => e \in KnownChanges'
      BY <1>1 DEF KnownChanges
    <3>3. c \in KnownChanges'
      BY <2>1 DEF KnownChanges
    <3> QED
      BY <3>1, <3>2, <3>3
  <2>4. c \in PW!Change
    <3>1. history[p][last] \in Row
      BY <1>2, <2>1
    <3> QED
      BY <2>2, <3>1, TypeFacts DEF Inv, PW!Change, Row, NoticeOf
  <2>5. c.old # c.new
    BY <1>2, <1>6, <2>2 DEF Inserted, LastQuote
  <2>6. \A d \in KnownChanges : d.id < c.id
    <3> SUFFICES ASSUME NEW q \in Products, NEW k \in 2..Len(history[q])
                 PROVE  NoticeOf(history, q, k).id < nextId
      BY <2>2, Known
    <3>1. k \in 1..Len(history[q])
      BY TypeFacts DEF Inv
    <3> QED
      BY <3>1 DEF NoticeOf, Inv, IInv, TableInv, RowIdsAreBelowNext
  <2>7. ASSUME NEW d \in KnownChanges, d.product = c.product,
               \A e \in KnownChanges : e.product = c.product => e.id <= d.id
        PROVE  d.new = c.old
    <3>1. PICK k \in 2..last : d = NoticeOf(history, p, k)
      BY <2>2, <2>7, Known DEF NoticeOf
    <3>2. k \in 1..last /\ last \in 2..last
      BY <1>2, <3>1
    <3>3. NoticeOf(history, p, last) \in KnownChanges
      BY <3>2, Known
    <3>4. history[p][last].id <= history[p][k].id
      BY <2>2, <2>7, <3>1, <3>3 DEF NoticeOf
    <3>5. k = last
      <4>1. k < last => history[p][k].id < history[p][last].id
        BY <2>1, <3>2 DEF RowIdsIncrease
      <4>2. history[p][k].id \in Nat /\ history[p][last].id \in Nat
        BY <2>1, <3>2, TypeFacts DEF Inv
      <4> QED
        BY <1>2, <3>2, <3>4, <4>1, <4>2
    <3> QED
      BY <2>2, <3>1, <3>5 DEF NoticeOf
  <2>8. c \notin KnownChanges
    <3>1. c.id \in Nat
      BY <2>2, TypeFacts DEF Inv
    <3> QED
      BY <2>6, <3>1
  <2> HIDE DEF c
  <2>9. PW!Record(c)
    BY <1>3, <2>3, <2>4, <2>5, <2>6, <2>7 DEF PW!Record
  <2> QED
    BY <2>3, <2>8, <2>9 DEF PW!Next
<1> QED
  BY <1>2, <1>5, <1>6

(* The tracker with its table, workers, retries, crashes and restarts does *)
(* nothing that PriceWatch does not allow: changes get known one after the *)
(* other, each from the price the last one led to, and only known changes  *)
(* are told.                                                               *)
THEOREM TrackerImplementsPriceWatch ==
  ASSUME MaxBackdated = 0
  PROVE  Spec => ImplementsPriceWatch
<1>1. Init => PW!Init
  BY DEF Init, EmptyTable, PW!Init, KnownChanges, ToSet
<1>2. Inv /\ RowIdsIncrease /\ [Next]_vars => [PW!Next]_(PW!vars)
  <2> SUFFICES ASSUME Inv, RowIdsIncrease, [Next]_vars
               PROVE  PW!Next \/ UNCHANGED PW!vars
    OBVIOUS
  <2>1. CASE UNCHANGED <<history, nextId, chat>>
    BY <2>1 DEF PW!vars, KnownChanges
  <2> QED
    BY <2>1, KindsOfSteps, SentTells, MarkedStutters, InsertedRecords
<1> QED
  BY <1>1, <1>2, InvHolds, IdsHold, PTL DEF Spec, ImplementsPriceWatch, PW!Spec
=============================================================================
