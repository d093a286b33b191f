------------------------------- MODULE Startup -------------------------------
(***************************************************************************)
(* The life of a process before and after the monitor (cmd/parser/main.go: *)
(* run and runExport; storage.Migrate, New, pingWithRetry, Seed;           *)
(* notifier.New; config.Load).  "first" and "serve" stand for monitor.Run, *)
(* which is the subject of Monitor: its first run and its loop.            *)
(*                                                                         *)
(* The database and Telegram come and go.  A statement against the         *)
(* database fails when it is down or the context is cancelled, and may     *)
(* fail after it has been committed.  Pings count, durations do not.       *)
(***************************************************************************)
EXTENDS Integers, FiniteSets

CONSTANTS
  Attempts,     \* attempts of pingWithRetry
  Migrations,   \* number of files in migrations/
  Seeds,        \* 1..n, the entries of seedProducts in their order
  MaxLaunches,  \* bound: launches by hand
  MaxOutages,   \* bound: outages of the database and of Telegram
  MaxFaults,    \* bound: statements that are committed and reported as failed
  MaxStops,     \* bound: signals and kills
  MaxEdits      \* bound: rows of products edited by hand

ASSUME CountsAreNat ==
  /\ {Attempts, Migrations} \subseteq Nat \ {0}
  /\ {MaxLaunches, MaxOutages, MaxFaults, MaxStops, MaxEdits} \subseteq Nat
  /\ Seeds \subseteq Nat

VARIABLES
  pc,         \* where run is
  mode,       \* "run", or "export" with -export
  env,        \* the variables of the environment with a usable value
  cancelled,  \* the context of the process is cancelled
  exit,       \* how the last process ended
  tries,      \* its failed pings of the database
  handles,    \* what it holds open: "migrations" (sql.DB), "pool"
  version,    \* goose_db_version
  products,   \* table products: each seed url is absent, seeded or edited
  file,       \* the xlsx file: none, old (an earlier process closed it), broken,
              \* new, or cut: written, but not all of it reached the disk
  up,         \* which of "database" and "telegram" answer
  used        \* what is used up of each bound

process == <<pc, mode, cancelled, exit, tries, handles>>
disk == <<version, products, file>>
vars == <<process, env, disk, up, used>>

Services == {"database", "telegram"}
Settings == {"BOT_TOKEN", "NOTIFY_CHAT_ID", "DATABASE_URL"}
Places == {"down", "config", "migrate", "pool", "ping", "pause", "seed", "bot",
           "first", "serve", "history", "create", "write"}
Exits == {"none", "ok", "config", "nodb", "error", "killed"}
Bounds == [launches |-> MaxLaunches, outages |-> MaxOutages, faults |-> MaxFaults,
           stops |-> MaxStops, edits |-> MaxEdits]

TypeOK ==
  /\ pc \in Places /\ mode \in {"run", "export"}
  /\ env \subseteq Settings
  /\ cancelled \in BOOLEAN /\ exit \in Exits
  /\ tries \in 0..Attempts
  /\ handles \subseteq {"migrations", "pool"}
  /\ version \in 0..Migrations
  /\ products \in [Seeds -> {"absent", "seeded", "edited"}]
  /\ file \in {"none", "old", "broken", "new", "cut"}
  /\ up \subseteq Services
  /\ used \in [DOMAIN Bounds -> Nat]
  /\ \A b \in DOMAIN Bounds : used[b] <= Bounds[b]

Init ==
  /\ pc = "down" /\ mode = "run" /\ exit = "none"
  /\ env \in SUBSET Settings
  /\ cancelled = FALSE /\ tries = 0 /\ handles = {}
  /\ version = 0
  /\ products = [k \in Seeds |-> "absent"]
  /\ file = "none"
  /\ up \in SUBSET Services
  /\ used = [b \in DOMAIN Bounds |-> 0]

Use(b) == used[b] < Bounds[b] /\ used' = [used EXCEPT ![b] = @ + 1]

Go(place) == pc' = place /\ UNCHANGED <<mode, cancelled, exit, tries, handles>>

(* run returns to main with all that is deferred done, when it has opened  *)
(* and not closed only what is in deferred.                                *)
Return(reason, deferred) ==
  /\ pc' = "down" /\ exit' = reason
  /\ handles' = handles \ deferred
  /\ cancelled' = FALSE
  /\ UNCHANGED <<mode, tries>>

DatabaseAnswers == "database" \in up /\ ~cancelled

-----------------------------------------------------------------------------
(* main                                                                    *)

Launched(m) ==
  /\ pc' = "config" /\ mode' = m
  /\ exit' = "none" /\ tries' = 0
  /\ file' = IF file \in {"new", "cut"} THEN "old" ELSE file
  /\ UNCHANGED <<env, cancelled, handles, version, products, up>>

RestartsWhenKilled == pc = "down" /\ mode = "run" /\ exit = "killed"

(* docker-compose.yml: restart: on-failure                                 *)
WillRestart == pc = "down" /\ mode = "run" /\ exit \notin {"none", "ok"}

Restart == WillRestart /\ Launched("run") /\ UNCHANGED used

(* Somebody starts the program, with or without -export.                   *)
Launch ==
  /\ pc = "down" /\ ~WillRestart
  /\ Use("launches")
  /\ \E m \in {"run", "export"} : Launched(m)

(* Load collects every problem and returns them as one error.              *)
LoadConfig ==
  /\ pc = "config"
  /\ IF env = Settings THEN Go("migrate") ELSE Return("config", {})
  /\ UNCHANGED <<env, disk, up, used>>

-----------------------------------------------------------------------------
(* storage.Migrate and storage.New                                         *)

(* goose.UpContext applies the files one after another, each in its own    *)
(* transaction, over a sql.DB that is closed on every way out.             *)
Migrate ==
  /\ pc = "migrate"
  /\ \/ /\ DatabaseAnswers /\ version < Migrations
        /\ version' = version + 1
        /\ handles' = {"migrations"}
        /\ UNCHANGED <<pc, mode, cancelled, exit, tries, used>>
     \/ /\ DatabaseAnswers /\ version = Migrations
        /\ pc' = "pool" /\ handles' = {}
        /\ UNCHANGED <<mode, cancelled, exit, tries, version, used>>
     \/ /\ cancelled
        /\ Return("error", {"migrations"})
        /\ UNCHANGED <<version, used>>
     \/ /\ ~cancelled /\ "database" \notin up
        /\ Return("nodb", {"migrations"})
        /\ UNCHANGED <<version, used>>
     \/ /\ DatabaseAnswers /\ version < Migrations /\ Use("faults")
        /\ version' = version + 1
        /\ Return("error", {"migrations"})
  /\ UNCHANGED <<env, products, file, up>>

(* pgxpool.NewWithConfig opens no connection yet.                          *)
NewPool ==
  /\ pc = "pool"
  /\ pc' = "ping" /\ handles' = handles \cup {"pool"} /\ tries' = 0
  /\ UNCHANGED <<mode, cancelled, exit, env, disk, up, used>>

AfterPing == IF mode = "export" THEN "history" ELSE "seed"

NothingClosed == {}

(* New closes the pool before it returns an error.                         *)
ClosedByNew == {"pool"}

(* One attempt of pingWithRetry.                                           *)
Ping ==
  /\ pc = "ping"
  /\ IF DatabaseAnswers THEN Go(AfterPing)
     ELSE IF cancelled THEN Return("error", ClosedByNew)
     ELSE /\ pc' = "pause" /\ tries' = tries + 1
          /\ UNCHANGED <<mode, cancelled, exit, handles>>
  /\ UNCHANGED <<env, disk, up, used>>

OneMorePing == tries <= Attempts

AttemptsLeft == tries < Attempts

(* The second between two attempts, also after the last one.               *)
Pause ==
  /\ pc = "pause"
  /\ \/ cancelled /\ Return("error", ClosedByNew)
     \/ AttemptsLeft /\ Go("ping")
     \/ ~AttemptsLeft /\ Return("nodb", ClosedByNew)
  /\ UNCHANGED <<env, disk, up, used>>

-----------------------------------------------------------------------------
(* From here on defer store.Close() is in force.                           *)

IsNextToUpsert(k) == products[k] # "seeded" /\ \A j \in Seeds : j < k => products[j] = "seeded"

IsNextSeed(k) == products[k] = "absent" /\ \A j \in Seeds : j < k => products[j] # "absent"

UnseededButLast == {k \in Seeds : products[k] = "absent" /\ \E j \in Seeds : k < j}

Unseeded == {k \in Seeds : products[k] = "absent"}

(* INSERT ... ON CONFLICT (url) DO NOTHING for each seed, without a        *)
(* transaction around them.  A conflict changes nothing, so a step stands  *)
(* for the next seed that is not there yet.                                *)
Seed ==
  /\ pc = "seed"
  /\ \/ /\ DatabaseAnswers
        /\ \E k \in Seeds : IsNextSeed(k) /\ products' = [products EXCEPT ![k] = "seeded"]
        /\ UNCHANGED <<process, used>>
     \/ /\ DatabaseAnswers /\ Unseeded = {}
        /\ UNCHANGED <<products, used>>
        /\ Go("bot")
     \/ /\ ~DatabaseAnswers
        /\ UNCHANGED <<products, used>>
        /\ Return("error", {"pool"})
     \/ /\ DatabaseAnswers /\ Use("faults")
        /\ \E k \in Seeds : IsNextSeed(k) /\ products' = [products EXCEPT ![k] = "seeded"]
        /\ Return("error", {"pool"})
  /\ UNCHANGED <<env, version, file, up>>

(* notifier.New: getMe                                                     *)
StartBot ==
  /\ pc = "bot"
  /\ IF "telegram" \in up /\ ~cancelled THEN Go("first") ELSE Return("error", {"pool"})
  /\ UNCHANGED <<env, disk, up, used>>

(* monitor.Run: without the list of products the first run is an error.    *)
FirstRun ==
  /\ pc = "first"
  /\ IF DatabaseAnswers THEN Go("serve") ELSE Return("error", {"pool"})
  /\ UNCHANGED <<env, disk, up, used>>

(* monitor.Run returns nil after a signal.                                 *)
StopServing ==
  /\ pc = "serve" /\ cancelled
  /\ Return("ok", {"pool"})
  /\ UNCHANGED <<env, disk, up, used>>

-----------------------------------------------------------------------------
(* runExport                                                               *)

ReadHistory ==
  /\ pc = "history"
  /\ IF DatabaseAnswers THEN Go("create") ELSE Return("error", {"pool"})
  /\ UNCHANGED <<env, disk, up, used>>

(* os.Create truncates what was there.                                     *)
CreateFile ==
  /\ pc = "create"
  /\ \/ file' = "broken" /\ Go("write")
     \/ UNCHANGED file /\ Return("error", {"pool"})
  /\ UNCHANGED <<env, version, products, up, used>>

WriteFailsUnseen == UNCHANGED file /\ Return("ok", {"pool"})

WriteFails == UNCHANGED file /\ Return("error", {"pool"})

(* exporter.WriteXLSX.  The deferred Close drops its error, so what the    *)
(* file system reports only there passes for a success.                    *)
WriteFile ==
  /\ pc = "write"
  /\ \/ file' \in {"new", "cut"} /\ Return("ok", {"pool"})
     \/ WriteFails
  /\ UNCHANGED <<env, version, products, up, used>>

-----------------------------------------------------------------------------
(* The surroundings.                                                       *)

Signal ==
  /\ pc # "down" /\ ~cancelled /\ Use("stops")
  /\ cancelled' = TRUE
  /\ UNCHANGED <<pc, mode, exit, tries, handles, env, disk, up>>

Kill ==
  /\ pc # "down" /\ Use("stops")
  /\ Return("killed", handles)
  /\ UNCHANGED <<env, disk, up>>

GoesDown(s) ==
  /\ s \in up /\ Use("outages")
  /\ up' = up \ {s}
  /\ UNCHANGED <<process, env, disk>>

ComesUp(s) ==
  /\ s \notin up
  /\ up' = up \cup {s}
  /\ UNCHANGED <<process, env, disk, used>>

(* Somebody changes the selector of a product or clears is_active.         *)
Edit(k) ==
  /\ products[k] = "seeded" /\ Use("edits")
  /\ products' = [products EXCEPT ![k] = "edited"]
  /\ UNCHANGED <<process, env, version, file, up>>

ProcessStep ==
  \/ LoadConfig \/ Migrate \/ NewPool \/ Ping \/ Pause \/ Seed \/ StartBot
  \/ FirstRun \/ StopServing \/ ReadHistory \/ CreateFile \/ WriteFile

Environment ==
  \/ Signal \/ Kill
  \/ \E s \in Services : GoesDown(s) \/ ComesUp(s)
  \/ \E k \in Seeds : Edit(k)

Next == Launch \/ Restart \/ ProcessStep \/ Environment

Spec == Init /\ [][Next]_vars

(* The process and the restart policy do their steps, and no outage lasts  *)
(* for ever.                                                               *)
Fairness ==
  /\ WF_vars(ProcessStep) /\ WF_vars(Restart)
  /\ \A s \in Services : WF_vars(ComesUp(s))

FairSpec == Spec /\ Fairness

-----------------------------------------------------------------------------
(* Properties.                                                             *)

(* On every way out of run, with the deferred calls on that way, nothing   *)
(* of the database stays open (storage.New closes the pool itself when the *)
(* pings fail, run closes it afterwards).                                  *)
NothingLeftOpen == pc = "down" => handles = {}

(* The monitor starts on a migrated and fully seeded database, whatever    *)
(* earlier processes left half done.                                       *)
StartedIsReady ==
  pc = "first" => /\ version = Migrations /\ handles = {"pool"}
                  /\ products \in [Seeds -> {"seeded", "edited"}]

(* A successful exit of the export means that this very process has read   *)
(* the history of a fully migrated database and has handed all of it to    *)
(* the file: no error that WriteXLSX is told of, and no file of an earlier *)
(* export passed off.  The error of Close is dropped (main.go:94), so the  *)
(* file may still be cut.                                                  *)
ExportIsHonest ==
  mode = "export" /\ exit = "ok" => file \in {"new", "cut"} /\ version = Migrations

(* "A new start does not touch products whose selector was changed or      *)
(* whose is_active was cleared by hand" (seed.go:45-46).                   *)
SeedKeepsEdits ==
  [][\A k \in Seeds : products[k] = "edited" => products'[k] = "edited"]_vars

(* A well configured process comes to serve, through outages, crashes, and *)
(* starts that died between two migrations or two seeds.                   *)
EventuallyServes ==
  (pc = "config" /\ mode = "run" /\ env = Settings) ~> pc = "serve"

-----------------------------------------------------------------------------
(* What the repository says and the code does not do.                      *)

(* "The export mode does not start the bot: no token is needed"            *)
(* (README.md:67).                                                         *)
ExportNeedsNoToken ==
  ~(mode = "export" /\ exit = "config" /\ env = Settings \ {"BOT_TOKEN"})

(* "Postgres may not be ready yet ..., so we try the first connections     *)
(* several times and do not fail at once" (storage.go:52-53).              *)
FirstConnectionsAreRetried == exit = "nodb" => tries = Attempts
=============================================================================
