---------------------------- MODULE StartupProofs ----------------------------
(***************************************************************************)
(* Proofs about Startup for every number of migrations, seeds and pings,   *)
(* and any bounds on what goes wrong.                                      *)
(***************************************************************************)
EXTENDS Startup, TLAPS

(* What holds at the places of run: what is open, what the database has    *)
(* got by then, and the mode that leads there.                             *)
HandlesAt ==
  /\ pc \in {"down", "config", "pool"} => handles = {}
  /\ pc = "migrate" => handles \subseteq {"migrations"}
  /\ pc \notin {"down", "config", "migrate", "pool"} => handles = {"pool"}

DatabaseAt ==
  /\ pc \notin {"down", "config", "migrate"} => version = Migrations
  /\ pc \in {"bot", "first", "serve"} => products \in [Seeds -> {"seeded", "edited"}]

ModeAt ==
  /\ pc \in {"seed", "bot", "first", "serve"} => mode = "run"
  /\ pc \in {"history", "create", "write"} => mode = "export"

ExitAt ==
  /\ pc # "down" => exit = "none"
  /\ ExportIsHonest

Place == HandlesAt /\ DatabaseAt /\ ModeAt /\ ExitAt

(* A ping is tried only with attempts left.                                *)
TypeInv == TypeOK /\ (pc = "ping" => tries < Attempts)

StartInv == TypeInv /\ Place

LEMMA BoundsType ==
  /\ DOMAIN Bounds = {"launches", "outages", "faults", "stops", "edits"}
  /\ \A b \in DOMAIN Bounds : Bounds[b] \in Nat
BY CountsAreNat DEF Bounds

UsedType == used \in [DOMAIN Bounds -> Nat] /\ \A b \in DOMAIN Bounds : used[b] <= Bounds[b]

LEMMA UseType ==
  ASSUME UsedType, NEW b \in DOMAIN Bounds, Use(b)
  PROVE  UsedType'
<1>1. used[b] < Bounds[b] /\ used' = [used EXCEPT ![b] = @ + 1]
  BY DEF Use
<1>2. Bounds' = Bounds
  BY DEF Bounds
<1>3. used' \in [DOMAIN Bounds -> Nat]
  BY <1>1 DEF UsedType
<1>4. ASSUME NEW c \in DOMAIN Bounds PROVE used'[c] <= Bounds[c]
  BY <1>1, BoundsType DEF UsedType
<1> QED
  BY <1>2, <1>3, <1>4 DEF UsedType

LEMMA StartInit == Init => StartInv
<1> SUFFICES ASSUME Init PROVE StartInv
  OBVIOUS
<1>1. UsedType
  BY BoundsType DEF Init, UsedType
<1>2. TypeInv
  <2>1. 0 \in 0..Attempts /\ 0 \in 0..Migrations
    BY CountsAreNat
  <2>2. products \in [Seeds -> {"absent", "seeded", "edited"}]
    BY DEF Init
  <2> QED
    BY <1>1, <2>1, <2>2 DEF Init, TypeInv, TypeOK, UsedType, Places, Exits
<1>3. Place
  BY DEF Init, Place, HandlesAt, DatabaseAt, ModeAt, ExitAt, ExportIsHonest
<1> QED
  BY <1>2, <1>3 DEF StartInv

LEMMA UsedSame ==
  ASSUME StartInv,
         \/ UNCHANGED used
         \/ Use("launches") \/ Use("outages") \/ Use("faults") \/ Use("stops") \/ Use("edits")
  PROVE  UsedType'
<1>1. UsedType
  BY DEF StartInv, TypeInv, TypeOK, UsedType
<1>2. CASE UNCHANGED used
  BY <1>1, <1>2 DEF UsedType, Bounds
<1>3. ASSUME NEW b \in DOMAIN Bounds, Use(b) PROVE UsedType'
  BY <1>1, <1>3, UseType
<1> QED
  BY <1>2, <1>3, BoundsType

-----------------------------------------------------------------------------
(* Every step of the process, the restart policy and the surroundings      *)
(* keeps the invariant.                                                    *)

LEMMA LaunchStep ==
  ASSUME StartInv, Launch \/ Restart
  PROVE  StartInv'
<1> USE CountsAreNat DEF StartInv, TypeInv, TypeOK, Place, HandlesAt, DatabaseAt, ModeAt, ExitAt,
                         ExportIsHonest, process, disk
<1>1. UsedType'
  BY UsedSame DEF Launch, Restart, Launched, WillRestart
<1>2. TypeInv'
  <2>1. /\ pc' \in Places /\ mode' \in {"run", "export"} /\ exit' \in Exits
        /\ cancelled' \in BOOLEAN /\ env' \subseteq Settings /\ up' \subseteq Services
    BY DEF Launch, Restart, Launched, WillRestart, Go, Return, Places, Exits
  <2>2. /\ tries' \in 0..Attempts /\ version' \in 0..Migrations
        /\ (pc' = "ping" => tries' < Attempts)
    BY DEF Launch, Restart, Launched, WillRestart, Go, Return
  <2>3. /\ handles' \subseteq {"migrations", "pool"}
        /\ products' \in [Seeds -> {"absent", "seeded", "edited"}]
        /\ file' \in {"none", "old", "broken", "new", "cut"}
    BY DEF Launch, Restart, Launched, WillRestart, Go, Return
  <2> QED
    BY <1>1, <2>1, <2>2, <2>3 DEF UsedType
<1>3. Place'
  BY DEF Launch, Restart, Launched, WillRestart, Go, Return, DatabaseAnswers
<1> QED
  BY <1>2, <1>3

LEMMA LoadConfigStep ==
  ASSUME StartInv, LoadConfig
  PROVE  StartInv'
<1> USE CountsAreNat DEF StartInv, TypeInv, TypeOK, Place, HandlesAt, DatabaseAt, ModeAt, ExitAt,
                         ExportIsHonest, process, disk
<1>1. UsedType'
  BY UsedSame DEF LoadConfig
<1>2. TypeInv'
  BY <1>1 DEF LoadConfig, Go, Return, Places, Exits, UsedType
<1>3. Place'
  BY DEF LoadConfig, Go, Return, DatabaseAnswers
<1> QED
  BY <1>2, <1>3

LEMMA MigrateStep ==
  ASSUME StartInv, Migrate
  PROVE  StartInv'
<1> USE CountsAreNat DEF StartInv, TypeInv, TypeOK, Place, HandlesAt, DatabaseAt, ModeAt, ExitAt,
                         ExportIsHonest, process, disk
<1>1. UsedType'
  BY UsedSame DEF Migrate
<1>2. TypeInv'
  <2>1. /\ pc' \in Places /\ mode' \in {"run", "export"} /\ exit' \in Exits
        /\ cancelled' \in BOOLEAN /\ env' \subseteq Settings /\ up' \subseteq Services
    BY DEF Migrate, Go, Return, Places, Exits
  <2>2. /\ tries' \in 0..Attempts /\ version' \in 0..Migrations
        /\ (pc' = "ping" => tries' < Attempts)
    BY DEF Migrate, Go, Return
  <2>3. /\ handles' \subseteq {"migrations", "pool"}
        /\ products' \in [Seeds -> {"absent", "seeded", "edited"}]
        /\ file' \in {"none", "old", "broken", "new", "cut"}
    BY DEF Migrate, Go, Return
  <2> QED
    BY <1>1, <2>1, <2>2, <2>3 DEF UsedType
<1>3. Place'
  BY DEF Migrate, Go, Return, DatabaseAnswers
<1> QED
  BY <1>2, <1>3

LEMMA NewPoolStep ==
  ASSUME StartInv, NewPool
  PROVE  StartInv'
<1> USE CountsAreNat DEF StartInv, TypeInv, TypeOK, Place, HandlesAt, DatabaseAt, ModeAt, ExitAt,
                         ExportIsHonest, process, disk
<1>1. UsedType'
  BY UsedSame DEF NewPool
<1>2. TypeInv'
  BY <1>1 DEF NewPool, Go, Return, Places, Exits, UsedType
<1>3. Place'
  BY DEF NewPool, Go, Return, DatabaseAnswers
<1> QED
  BY <1>2, <1>3

LEMMA PingStep ==
  ASSUME StartInv, Ping \/ Pause
  PROVE  StartInv'
<1> USE CountsAreNat DEF StartInv, TypeInv, TypeOK, Place, HandlesAt, DatabaseAt, ModeAt, ExitAt,
                         ExportIsHonest, process, disk
<1>1. UsedType'
  BY UsedSame DEF Ping, Pause, AfterPing, ClosedByNew, AttemptsLeft
<1>2. TypeInv'
  <2>1. /\ pc' \in Places /\ mode' \in {"run", "export"} /\ exit' \in Exits
        /\ cancelled' \in BOOLEAN /\ env' \subseteq Settings /\ up' \subseteq Services
    BY DEF Ping, Pause, AfterPing, ClosedByNew, AttemptsLeft, Go, Return, Places, Exits
  <2>2. /\ tries' \in 0..Attempts /\ version' \in 0..Migrations
        /\ (pc' = "ping" => tries' < Attempts)
    BY DEF Ping, Pause, AfterPing, ClosedByNew, AttemptsLeft, Go, Return
  <2>3. /\ handles' \subseteq {"migrations", "pool"}
        /\ products' \in [Seeds -> {"absent", "seeded", "edited"}]
        /\ file' \in {"none", "old", "broken", "new", "cut"}
    BY DEF Ping, Pause, AfterPing, ClosedByNew, AttemptsLeft, Go, Return
  <2> QED
    BY <1>1, <2>1, <2>2, <2>3 DEF UsedType
<1>3. Place'
  BY DEF Ping, Pause, AfterPing, ClosedByNew, AttemptsLeft, Go, Return, DatabaseAnswers
<1> QED
  BY <1>2, <1>3

LEMMA SeedStep ==
  ASSUME StartInv, Seed
  PROVE  StartInv'
<1> USE CountsAreNat DEF StartInv, TypeInv, TypeOK, Place, HandlesAt, DatabaseAt, ModeAt, ExitAt,
                         ExportIsHonest, process, disk
<1>1. UsedType'
  BY UsedSame DEF Seed, Unseeded, IsNextSeed
<1>2. TypeInv'
  BY <1>1 DEF Seed, Unseeded, IsNextSeed, Go, Return, Places, Exits, UsedType
<1>3. Place'
  BY DEF Seed, Unseeded, IsNextSeed, Go, Return, DatabaseAnswers
<1> QED
  BY <1>2, <1>3

LEMMA ServeStep ==
  ASSUME StartInv, StartBot \/ FirstRun \/ StopServing
  PROVE  StartInv'
<1> USE CountsAreNat DEF StartInv, TypeInv, TypeOK, Place, HandlesAt, DatabaseAt, ModeAt, ExitAt,
                         ExportIsHonest, process, disk
<1>1. UsedType'
  BY UsedSame DEF StartBot, FirstRun, StopServing
<1>2. TypeInv'
  BY <1>1 DEF StartBot, FirstRun, StopServing, Go, Return, Places, Exits, UsedType
<1>3. Place'
  BY DEF StartBot, FirstRun, StopServing, Go, Return, DatabaseAnswers
<1> QED
  BY <1>2, <1>3

LEMMA ExportStep ==
  ASSUME StartInv, ReadHistory \/ CreateFile \/ WriteFile
  PROVE  StartInv'
<1> USE CountsAreNat DEF StartInv, TypeInv, TypeOK, Place, HandlesAt, DatabaseAt, ModeAt, ExitAt,
                         ExportIsHonest, process, disk
<1>1. UsedType'
  BY UsedSame DEF ReadHistory, CreateFile, WriteFile, WriteFails
<1>2. TypeInv'
  BY <1>1 DEF ReadHistory, CreateFile, WriteFile, WriteFails, Go, Return, Places, Exits, UsedType
<1>3. Place'
  BY DEF ReadHistory, CreateFile, WriteFile, WriteFails, Go, Return, DatabaseAnswers
<1> QED
  BY <1>2, <1>3

LEMMA StopStep ==
  ASSUME StartInv, Signal \/ Kill
  PROVE  StartInv'
<1> USE CountsAreNat DEF StartInv, TypeInv, TypeOK, Place, HandlesAt, DatabaseAt, ModeAt, ExitAt,
                         ExportIsHonest, process, disk
<1>1. UsedType'
  BY UsedSame DEF Signal, Kill
<1>2. TypeInv'
  BY <1>1 DEF Signal, Kill, Go, Return, Places, Exits, UsedType
<1>3. Place'
  BY DEF Signal, Kill, Go, Return, DatabaseAnswers
<1> QED
  BY <1>2, <1>3

LEMMA OutageStep ==
  ASSUME StartInv, NEW s \in Services, GoesDown(s) \/ ComesUp(s)
  PROVE  StartInv'
<1> USE CountsAreNat DEF StartInv, TypeInv, TypeOK, Place, HandlesAt, DatabaseAt, ModeAt, ExitAt,
                         ExportIsHonest, process, disk
<1>1. UsedType'
  BY UsedSame DEF GoesDown, ComesUp
<1>2. TypeInv'
  BY <1>1 DEF GoesDown, ComesUp, Go, Return, Places, Exits, UsedType
<1>3. Place'
  BY DEF GoesDown, ComesUp, Go, Return, DatabaseAnswers
<1> QED
  BY <1>2, <1>3

LEMMA EditStep ==
  ASSUME StartInv, NEW k \in Seeds, Edit(k)
  PROVE  StartInv'
<1> USE CountsAreNat DEF StartInv, TypeInv, TypeOK, Place, HandlesAt, DatabaseAt, ModeAt, ExitAt,
                         ExportIsHonest, process, disk
<1>1. UsedType'
  BY UsedSame DEF Edit
<1>2. TypeInv'
  BY <1>1 DEF Edit, Go, Return, Places, Exits, UsedType
<1>3. Place'
  BY DEF Edit, Go, Return, DatabaseAnswers
<1> QED
  BY <1>2, <1>3

LEMMA StartStep == StartInv /\ [Next]_vars => StartInv'
<1> SUFFICES ASSUME StartInv, [Next]_vars PROVE StartInv'
  OBVIOUS
<1>1. CASE Launch \/ Restart
  BY <1>1, LaunchStep
<1>2. CASE ProcessStep
  BY <1>2, LoadConfigStep, MigrateStep, NewPoolStep, PingStep, SeedStep, ServeStep, ExportStep
     DEF ProcessStep
<1>3. CASE Environment
  BY <1>3, StopStep, OutageStep, EditStep DEF Environment
<1>4. CASE UNCHANGED vars
  <2>1. UsedType'
    BY <1>4, UsedSame DEF vars
  <2> QED
    BY <1>4, <2>1 DEF vars, process, disk, StartInv, TypeInv, TypeOK, UsedType, Place,
                      HandlesAt, DatabaseAt, ModeAt, ExitAt, ExportIsHonest
<1> QED
  BY <1>1, <1>2, <1>3, <1>4 DEF Next

LEMMA StartInvHolds == Spec => []StartInv
<1>1. Init => StartInv
  BY StartInit
<1>2. StartInv /\ [Next]_vars => StartInv'
  BY StartStep
<1> QED
  BY <1>1, <1>2, PTL DEF Spec

-----------------------------------------------------------------------------

(* TypeOK holds in every reachable state.                                  *)
THEOREM TypeCorrect == Spec => []TypeOK
<1>1. StartInv => TypeOK
  BY DEF StartInv, TypeInv
<1> QED
  BY <1>1, StartInvHolds, PTL

(* Every way out of run closes what was opened of the database.            *)
THEOREM NothingOpen == Spec => []NothingLeftOpen
<1>1. StartInv => NothingLeftOpen
  BY DEF StartInv, Place, HandlesAt, NothingLeftOpen
<1> QED
  BY <1>1, StartInvHolds, PTL

(* The monitor starts with the pool open and the connection of the         *)
(* migrations closed, on a migrated database with every seed in it.        *)
THEOREM StartReady == Spec => []StartedIsReady
<1>1. StartInv => StartedIsReady
  BY DEF StartInv, Place, HandlesAt, DatabaseAt, StartedIsReady
<1> QED
  BY <1>1, StartInvHolds, PTL

(* An export that ends well has read a migrated database and has written   *)
(* its file without an error WriteXLSX is told of; it passes off no older  *)
(* file, and no broken one.                                                *)
THEOREM ExportHonest == Spec => []ExportIsHonest
<1>1. StartInv => ExportIsHonest
  BY DEF StartInv, Place, ExitAt
<1> QED
  BY <1>1, StartInvHolds, PTL

EditsStay == \A k \in Seeds : products[k] = "edited" => products'[k] = "edited"

LEMMA EditsStep == StartInv /\ [Next]_vars => EditsStay
<1> SUFFICES ASSUME StartInv, [Next]_vars PROVE EditsStay
  OBVIOUS
<1> USE DEF StartInv, TypeInv, TypeOK, EditsStay, process, disk
<1>1. CASE Seed
  BY <1>1 DEF Seed, IsNextSeed
<1>2. ASSUME NEW k \in Seeds, Edit(k) PROVE EditsStay
  BY <1>2 DEF Edit
<1>3. CASE Launch \/ Restart
  BY <1>3 DEF Launch, Restart, Launched
<1>4. CASE LoadConfig \/ Migrate \/ NewPool \/ Ping \/ Pause \/ StartBot \/ FirstRun \/ StopServing
  BY <1>4 DEF LoadConfig, Migrate, NewPool, Ping, Pause, StartBot, FirstRun, StopServing
<1>5. CASE ReadHistory \/ CreateFile \/ WriteFile \/ Signal \/ Kill
  BY <1>5 DEF ReadHistory, CreateFile, WriteFile, Signal, Kill
<1>6. ASSUME NEW s \in Services, GoesDown(s) \/ ComesUp(s) PROVE EditsStay
  BY <1>6 DEF GoesDown, ComesUp
<1>7. CASE UNCHANGED vars
  BY <1>7 DEF vars
<1> QED
  BY <1>1, <1>2, <1>3, <1>4, <1>5, <1>6, <1>7 DEF Next, ProcessStep, Environment

(* No start, however it ends, touches a product edited by hand.            *)
THEOREM SeedsKeepEdits == Spec => SeedKeepsEdits
<1>1. StartInv /\ [Next]_vars => EditsStay
  BY EditsStep
<1>2. [][EditsStay]_vars => SeedKeepsEdits
  BY DEF SeedKeepsEdits, EditsStay
<1> QED
  BY <1>1, <1>2, StartInvHolds, PTL DEF Spec
=============================================================================
