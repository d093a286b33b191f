# A TLA+ model of go-price-tracker

go-price-tracker watches product pages, writes every change of a price to
Postgres and announces it in a Telegram chat. This directory models the program
in TLA+, checks the models with TLC on small instances, and proves with TLAPS the
safety properties of the monitor, the host limiter, the robots.txt cache and the
process start for every number of products, workers, faults and restarts, and what
the arithmetic of money and pauses promises for every width of the integers and
the parsing of prices for texts of every length.

## 1. The system

| part | state it keeps | operations | model |
|---|---|---|---|
| domain rules (`internal/domain/domain.go`) | none | `Classify`, `ShouldRecord`, `ShouldNotify` | `Domain` |
| storage (`internal/storage/products.go`, `migrations/`) | tables `products`, `price_history` | `ActiveProducts`, `LastQuote`, `AddPrice`, `MarkNotified`, `PendingNotifications`, `History` | `PriceHistory`, `Monitor`, `Startup` |
| monitor (`internal/monitor`) | the goroutine of `Run`, up to five workers | `Run`, `RunOnce`, `retryPending`, `processOne` | `Monitor` |
| scraper (`internal/scraper/scraper.go`, `fetch.go`, `ratelimit.go`) | per host: slots and `nextAllowed` | `Quote`, `fetch`, `do`, `handle429`, `acquire`, `penalize`, `parseRetryAfter`, `backoff` | `Fetcher`, `Conversions` |
| robots cache (`robots.go`) | per host: rules, time of the fetch, a mutex | `allowed`, `fetch`, `crawlDelay` | `Robots` |
| price text (`price.go`) | none | `ExtractPrice`, `ParsePrice`, `parseAmount`, `splitDecimal`, `detectCurrency` | `PriceText` |
| money (`domain/money.go`, `storage/money.go`) | none | `String`, `Format`, `groupThousands`, `moneyToNumeric`, `numericToMoney` | `PriceText`, `Conversions` |
| configuration (`config.go`) | none | `Load`, `ParseCheckInterval`, `parseChatID` | `Load` in `Startup`, as the settings that are usable |
| process (`cmd/parser/main.go`, `storage.go`, `seed.go`, `notifier.New`) | what it has opened; migrations and seeds done | start, export, stop | `Startup` |
| notifier (`internal/notifier`) | none | `NotifyChange` | outcome of a call in `Monitor`, amounts in `PriceText` |
| exporter (`internal/exporter`) | a file | `WriteXLSX` | the write in `Startup`, the cells in `Conversions` |

How they meet. `main` opens the database, seeds it and calls `Monitor.Run`. `Run`
makes a first run at once and then one for each tick, until the context of the process
is cancelled by a signal. A run first resends what earlier runs could not announce,
alone, and then crawls all active products with a limited number of workers. A worker
asks the scraper for the page's quote, reads the last recorded quote, and when they
differ inserts a row with `notified = FALSE`, sends the message and marks the row. The
workers meet in the database only through their own product's rows, and in the scraper
through the robots.txt cache and the limiter of the host: `Quote` asks the cache for a
verdict and a Crawl-delay, takes a slot and a turn, requests the page, and reads the
price from the text of the first element the selector matches. The table survives the
process; everything else is lost with it, and `restart: on-failure` starts a failed
process again.

What is hard to test: errors and lost answers between INSERT, send and UPDATE;
a process that dies between them; a signal in the middle of a run; a message
that is refused for ever and is first in every retry; workers that sleep in the
limiter while another one gets a 429; workers that wait for a robots.txt another
one is fetching; starts that die half way; numbers at the edge of int64 and of
numeric(12,2). `PROJECT.json`
lists these hazards at their lines with the properties that cover them.

## 2. The modules

| module | what it is |
|---|---|
| `Domain` | the rules, as operators |
| `PriceHistory` | the table and its queries, as operators |
| `Monitor` | the process, the table, the chat and the shops: one action per call |
| `MonitorProps` | its properties, the inductive invariant, the refinement mapping |
| `PriceWatch` | the abstract specification: changes become known once, known changes are told |
| `MonitorProofs` | the inductive invariant of `Monitor` and the theorems that follow from it |
| `MonitorRefinement` | the proof that `Monitor` implements `PriceWatch` |
| `MonitorRepeats` | the proof that repeated messages are paid for |
| `MonitorOrder` | the proof that the messages about a product keep the order of its changes |
| `MCMonitor` | instances of it for TLC |
| `Fetcher`, `FetcherProofs`, `MCFetcher` | limiter, retries and 429 for the workers of one host, with time |
| `Robots`, `RobotsProofs`, `MCRobots` | the robots.txt cache of one host, with time |
| `Startup`, `StartupProofs`, `MCStartup` | the life of a process around the monitor, with the export mode |
| `PriceText` | from the text of a page to a price and back, as operators |
| `Conversions` | money, pauses and the sheet, as operators over integers and floats of a given width |
| `Values`, `ValuesProofs`, `MCValues` | what these operators are for, over an enumeration of inputs |

Operators whose names say what they get wrong (`AfterErrorStop`, `ReserveNothing`,
`RulesForgotten`, `NarrowScale`, ...) are not part of any specification. They are
plausible mistakes, each written next to the operator it distorts; putting one in
the place of that operator makes the property it is listed with in `PROJECT.json`
fail, which shows that the property depends on that piece of the code.

### Domain and PriceHistory

A quote is one opaque value: the code compares amount and currency as one
struct. A product's rows are a sequence in the order of `checked_at`, since the
queries use that column for ordering only. `InsertRow` appends; `InsertBackdated`
puts a row before older ones, which is what an INSERT does when the clock of the
database has stepped back, because `checked_at` is `now()`. Equal stamps are left
out: the column counts microseconds and a product gets at most one row in a run.

### Monitor

| action | code |
|---|---|
| `ReadPending`, `Resend`, `Confirm`, `ResendDone` | `retryPending`: the query, the loop with its send, its UPDATE, and its end |
| `ListProducts`, `Spawn`, `EndRun` | `RunOnce`: the list, `g.Go`, `g.Wait` |
| `Tick`, `StopLoop` | the `select` of `Run` |
| `Scrape`, `ReadLast`, `AddPrice`, `Announce`, `Mark` | `processOne`, one call each |
| `Start`, `Signal`, `Kill`, `PriceMoves` | operator and restart policy, signals, crashes, shops |

A call is one step. It works; it fails without effect; or it fails after its
effect, so that an INSERT is committed or a message delivered while the caller
gets an error. A call that is under way when a signal or a crash comes either had
its effect or not, and that is the order of the call's step and the `Signal` or
`Kill` step. After a cancellation every call fails. A worker's panic and its
error return leave the same state; in `retryPending`, where nothing recovers, a
panic is an outcome of its own and ends the process.

`Broken` and `Muted` are products whose page never yields a price and whose
message Telegram always refuses. They are permanent failures on top of the
counted ones.

### Fetcher

One host is modelled, since the limiter keeps nothing two hosts share. Time is
relative to now: `hold` is how far `nextAllowed` lies ahead, `left` what remains of
a timer or of the client's timeout, and `Tick` lets one unit pass. A timer may fire
up to `Lag` late. `quiet`, `ban` and `stragglers` only observe: how long ago the
last request was, how long the site (or the backoff chosen for it) still wants
none, and who had its turn already when that was said. `Begin` takes from the
robots cache only its verdict and its Crawl-delay. Redirects and the request for
robots.txt itself pass the limiter by in the code and are not counted.

### Robots

| action | code |
|---|---|
| `Ask`, `TellFromCache` | `allowed` up to `h.mu.Lock`, and with rules that are young enough |
| `StartFetch`, `Answer`, `Fail` | `fetch` under the mutex: an answer is kept for an hour, a failure is not kept at all |
| `ReadDelay` | `crawlDelay`, which takes the mutex once more |
| `NextRun`, `Signal`, `SiteTurns`, `Tick` | ticker, context, site, clock |

The mutex is held over the request and over nothing else that takes time, so it is
taken exactly while a worker is at `fetch`. Of a robots.txt only its verdict on our
pages is kept. A 5xx answer is a file that denies and any other error status one
that allows, as `FromStatusAndBytes` has it. `since` and `waited` only observe. The
library is external, and the map of hosts is left out: its own mutex guards one map
access. `Robots` and `Fetcher` are the two halves of `Quote`. They share nothing but
the verdict and the Crawl-delay that the first hands to the second, so `Fetcher`
takes any of them in `Begin` and the two are not composed.

### PriceText, Conversions, Values

A text is a sequence of characters; a currency code stands for its sign and its names,
`" "` for all that means nothing to the parser. What may fail returns the set of its
result. `Conversions` has integers of `Bits` bits, `Second` units to a second,
numerics as `int * 10^exp`, and for the price of the sheet, which exporter.go:67
divides by 100, floats of `Mantissa` bits: the fraction `digits/unit` whose unit is
the largest power of two the mantissa has room for, rounded to even. float64 has 53
bits; its exponent plays no part for prices, and the int64 itself is exact in it,
since the ceiling is below 2^53. What excelize makes of a `time.Time` is left out; the
cell of a date holds the date. `Values` has the properties. Most are stated against a
second reading of the same thing that does not follow the code: the digits of a text
counted from its last separator, a numeric compared by multiplying both sides, a pause
by the moment it ends.

### Startup

`run` as a sequence of places with its error returns, and with what is deferred at
that point (`Return`). Two error returns are left out, those of `ParseConfig` and
`NewWithConfig` (storage.go:29-40): they concern the DSN alone, which `Migrate` has
just connected with. Services go down and come up; the environment is the subset of
the three required variables that are set to something usable. Migrations and seeds
are committed one at a time, so a start can die between two of them. `WriteFile` of an
export that ends well leaves the file `new` or `cut`: the error of the deferred
`Close` is dropped (main.go:94), so that a write the file system reports only then
goes unnoticed. `first` and `serve` stand for the first run and the loop of `Monitor`.
One process runs at a time: an export beside a running daemon only reads what the
daemon writes.

## 3. What is checked

| run | instance | shows |
|---|---|---|
| `safety` | 2 products, 2 workers, 3 quotes, 2 price moves, 2 faults, 1 stop | `TypeOK`, `ChatIsTrue`, `PendingFindsAll`, `MarkedWasTold`, `JournalOfChanges`, `RepeatsAreAccountedFor`, `ChatKeepsOrder`, `BaselineIsFresh`, `IInv`, `NoRepeatAfterMark`, and that the monitor implements `PriceWatch` |
| `liveness` | 3 products (one muted, one broken), 1 worker, 2 moves, 1 fault, 1 stop, the clock steps back once | `EveryChangeIsTold`, `JournalCatchesUp`, `SignalEndsProcess`, and `RepeatsAreAccountedFor`, `NoRepeatAfterMark` through the clock step |
| `lost_change` | 1 product, the clock steps back once | `PendingFindsAll` fails |
| `fetch` | 3 workers, 2 slots, 2 attempts, delays of 2 and 3 units, pauses below and above `MaxRetryWait`, timers up to 1 unit late | `TypeOK`, `SlotsAreReturned`, `RequestsAreSpaced`, `OnlyStragglersIgnoreBan`, `EveryRunEnds` |
| `host_held`, `crawl_delay`, `long_wait` | the same, timers on time; no Crawl-delay in `long_wait`, so that nothing but a Retry-After makes a long pause | `HostIsHeldAfter429`, `CrawlDelayIsObserved`, `LongPausesHoldNoSlot` fail |
| `robots` | 3 workers, a validity and a timeout of 2 units, any number of runs, turns of the site and failures | `TypeOK`, `DelayIsKnown`, `WaitIsBounded`, `VerdictIsFresh`, `EveryoneGetsOn` |
| `startup` | 2 migrations, 2 seeds, 2 pings, 2 launches by hand, 2 outages, 2 stops, 1 lost answer, 1 edit | `TypeOK`, `NothingLeftOpen`, `StartedIsReady`, `ExportIsHonest`, `SeedKeepsEdits`, `EventuallyServes` |
| `export_token`, `first_connection` | smaller bounds | `ExportNeedsNoToken`, `FirstConnectionsAreRetried` fail |
| `values` | all texts of up to 6 of 8 characters, numbers up to 600, integers of 8 bits and floats of 24, exponents from -6 to 3, a ceiling of 4999.99 | `ReadsWhatIsShown`, `FormatIsReadBack`, `MoneyIsExact`, `PausesAreExact`, `SheetIsTheHistory` |

Why these bounds. Two products on two workers let two `processOne` interleave in
every way, and two workers of one product never exist. Two moves make a first
sighting, a change and a change back or onwards, so that a row is both the "new" of
one notice and the "old" of the next. Two faults lose an answer and then fail its
retry; a stop adds the crash between them. Three products are needed in `liveness`
so that a notice that never goes out precedes one that must. Three workers on two
slots give the limiter one that runs, one that sleeps and one that queues.
`safety` uses symmetry in the quotes; runs with a liveness property use none.
In `robots` one worker fetches, one waits and one is past the cache; runs repeat, so
that rules grow old, a refresh fails and the next one works. `robots` has no bound
but its constants. Six characters have room for two separators with up to three
digits behind the last, a sign and a currency. Eight bits bring the edges of an
int64 into reach of a number that is counted up, and 4999.99 is a ceiling with four
digits of rubles that ends in 99 kopeks as the one of the code does, so that the
amounts just below and above it have a thousands separator. Twenty-four bits of a
mantissa are the most for which TLC, whose integers have 32, can tell the fractions
apart. They leave 11 bits behind the point of the largest price, a float64 leaves 19
behind the point of the largest price of the code, and seven are enough (section 4).
The exponents reach from a numeric with four
digits too many after the point to one in thousands.

`startup` turns the deadlock check off: the program really stops, after a signal or
an export, and nobody has to start it again. `values` does so because its
enumeration ends. All other passing runs check for deadlock.

Fairness. `MainStep` and each worker are weakly fair, as goroutines are.
`StopLoop` is strongly fair: when a tick and the cancellation are both ready, Go's
`select` chooses at random, so the cancellation is not passed over for ever.
`Start` is weakly fair only after an exit that is not `ok`, which is what
`restart: on-failure` in docker-compose.yml says; the liveness properties therefore
except a tracker that was stopped by a signal and stays stopped (`StaysStopped`).
Nothing is assumed of prices, signals or crashes. `Fetcher` assumes that workers
run and time passes, `Robots` that a runnable goroutine runs and that time passes,
which with `left` makes the client's timeout come, `Startup` that the process runs,
the restart policy acts and no outage is for ever. A Go mutex starves nobody, since
a waiter of more than a millisecond gets it next, so weak fairness of each worker is
enough there. Faults and stops are bounded in number: without a bound no
message need ever be delivered.

## 4. What is proved

All theorems hold for every value of the constants that meets the assumptions of
the modules: products and seeds are numbers, `Nil` is no quote, `Concurrency` is
positive, there are finitely many workers, times and bounds are numbers.

The monitor, with a database clock that does anything:

* `TypeCorrect`: `Spec => []TypeOK`;
* `NoRepeat`: the action property `NoRepeatAfterMark`;
* `RepeatsAreCounted`: the invariant `RepeatsAreAccountedFor` (`MonitorRepeats`).

And under `MaxBackdated = 0`, that is for a database clock that never steps back:

* `IInvHolds`, `ChatTells`, `MarkedTold`, `JournalHolds`, `BaselineHolds`,
  `NothingIsLost`: the invariants `IInv`, `ChatIsTrue`, `MarkedWasTold`,
  `JournalOfChanges`, `BaselineIsFresh`, `PendingFindsAll`;
* `OrderIsKept`: the invariant `ChatKeepsOrder` (`MonitorOrder`);
* `TrackerImplementsPriceWatch`: the refinement `ImplementsPriceWatch`
  (`MonitorRefinement`).

There the assumption is needed: run `lost_change` is the counterexample for
`PendingFindsAll` without it. A row that is put before the first one makes that one a
change that is marked and was never told; one that is put between two told rows
changes what the later message should have said; and one that is put between a told
row and the next to come can make the same quote follow itself.

The argument. `TypeOK` alone is not inductive, because a worker about to insert
must hold a quote and not `Nil`; `TypeInv` adds that. None of the safety properties
is inductive either. `ChatIsTrue` needs to know that the notices in `pending` and
the one a worker is about to send are still those the table yields (`RetryInv`,
`WorkerInv`), that needs the rows not to be touched meanwhile (`TakingTurns`: no
worker is busy while `retryPending` works, and a worker's product is its own), and
marking by id needs ids to be unique and below the sequence (`RowIdsAreUnique`,
`RowIdsAreBelowNext`). `PendingFindsAll` rests on `FirstRowIsSilent`: the only row
the window query drops is never one that waits. `IInv` is the conjunction;
`safety` checks it with TLC. The step lemma goes action by action; what the three
kinds of steps that touch table or chat preserve is stated once each
(`MarkKeepsTable`, `TellKeepsTable`, `InsertKeepsTable`).

The refinement. Each step does one of four things to table and chat: nothing, one
message of a row, one mark, or one new row (`KindsOfSteps`). A message is `Tell`, a
new row that is no first sighting is `Record`, the rest are stutters. That a new
change continues the last known one needs the ids of a product to rise along its
rows (`RowIdsIncrease`), which is an invariant of its own.

The repeats. `Paid` is an account: the messages sent, plus one for each told row
that nobody will mark any more (`Loose`), plus the marks under way when the context
is cancelled already (`Owed`), are no more than the told ids, the failed calls and
`Concurrency` for each stop. A repeat moves a row out of `Loose`; a failing call
puts at most one in; a stop at most as many as there are busy workers, which
`BusyBounded` counts and `StillIdle` (a product waiting for a worker has none)
keeps apart.

Any clock. A clock that steps back changes the places and the neighbours of rows, so
that most of `IInv` is lost, but no row's id and no row's mark. `ClaimsInv` is what is
left, and it is inductive: ids are unique and below the sequence, workers and
`retryPending` take turns, a notice in `pending` is one of an unmarked row, and a
worker at `notify` or `mark` names a row of its own product, an unmarked one at
`notify` (`Claims`). A message is therefore never one of a marked row, and no two marks
under way have the same id, which is all `NoRepeat` and the account of repeats need.

The order. `ChatKeepsOrder` promises something while no call has failed, or one has and
no process was stopped (`Careful`). `OrderInv` says that a cancellation has cost a stop,
and that, while `Careful` holds, only the newest row of a product waits
(`NewestWaits`); that while the context lives `retryPending` has every waiting row in
its queue, and a product a worker is about to crawl has none (`Prepared`); and that
before anything goes wrong a row waits only for the worker that inserted it (`InHand`).
A failing call therefore leaves one row behind, and a stop at most one for each product
a worker has in hand; the next `retryPending` sends them before a crawl can add newer
ones. It would miss only a row whose message fails once more, and that is what
`Careful` leaves out. Products that are `Muted` are never in the chat, so their rows may
wait for ever.

`FetcherProofs`: `TypeCorrect`, `SlotsReturned` (`SlotsAreReturned`),
`RequestsSpaced` (`RequestsAreSpaced`), `BanHeeded` (`OnlyStragglersIgnoreBan`). The
invariant about slots adds only that a worker that may retry has attempts left. The
invariant about turns (`TurnInv`) says that the turns of the waiting workers lie
`HostDelay` apart from each other and before the next one to give out, that the
last request lies `HostDelay` before all of them but for the lateness of a timer,
and that a turn given after a pause was named lies behind it.

`RobotsProofs`: `TypeCorrect`, `DelayKnown` (`DelayIsKnown`), `VerdictFresh`
(`VerdictIsFresh`), `WaitBounded` (`WaitIsBounded`). Freshness rests on what the
cached rules say of the past: if the site has turned since, it was at most one
request before they were stored. The wait rests on paying with failures: each
worker that has failed may have cost the others one timeout, and an answer lets
everybody go before time passes again, so |`Workers`| timeouts are enough, and the
counterexample to fewer is that all requests fail.

`StartupProofs`: `TypeCorrect`, `NothingOpen` (`NothingLeftOpen`), `StartReady`
(`StartedIsReady`), `ExportHonest` (`ExportIsHonest`), `SeedsKeepEdits`
(`SeedKeepsEdits`). `ExportIsHonest` says that an export that ends well had every
migration under it and does not pass off the file of an earlier export or one that
`WriteXLSX` failed on; a file cut short by a failing `Close` it cannot exclude. The
invariant says for each place of `run` what is open, how far the database is, which
mode leads there, and what the exit will mean.

`ValuesProofs`: `MoneyKept` (`MoneyIsExact`), `PausesKept` (`PausesAreExact`),
`SheetHolds` (`SheetIsTheHistory`), for every width of the integers, every length of a
second and every number. The behaviour of `Values` only enumerates inputs, so the
invariant needed is that `number` is one; the work is in the operators. `TwoTo` and
`TenTo` are recursive functions, and that there are such functions, and what holds for
all their arguments, is shown by the smallest argument for which it would fail
(`Least`), since the induction theorems of the library are out of reach
(`PowersExist`, `PowersMultiply`).

* Money, for every exponent a numeric of PostgreSQL can have (`ExponentsOfNumeric`; an
  int32 is never near its end there): an exponent of -2 or more multiplies, one below
  divides, and `QuoRem` leaves no rest just when some amount makes the number
  (`Divides`).
* Pauses: the shift of `backoff` needs that a power of two grows with its exponent. Of
  the seconds of a Retry-After only those are covered that fit into a duration.
* The sheet, under `CeilingFitsFloat`, that a float has room for the ceiling and seven
  bits behind its point, which 53 bits meet for the ceiling of the code: the rounding
  moves a price by half of a 128th of a ruble at most (`ScaleIsFine`, `RoundedIsNear`),
  that is less than half a kopek, so `#,##0.00` shows the price (`PriceIsShown`).

The other two theorems of `ValuesProofs` are about texts of any length over any set of
characters: `ShownIsRead` (`ReadsWhatIsShown`) says which texts `ParsePrice` accepts
and what it reads from them by its own rule, odd texts included (section 5),
`WrittenReadBack` (`FormatIsReadBack`) that a price survives `Format` and
`ParsePrice`. `ParseInt` fails above 2^63; the model leaves that to the ceiling, which
is far lower (`price.go:18-21`). The two are inductions over data, done over sets:
what holds for every number up to `n` is `UpTo`, for every sequence `OnSequences`, and
both are about the least that would fail. From there upwards:

* a fold over a sequence is a recursive function on the sets of its positions, and
  there is one for every step (`FoldExists`). This gives `Keep`, `Number` and
  `FlattenSeq` their equations for the empty sequence, `Append` and `\o`, and the
  recursive `DigitsOf` its own (`DigitsOfEquation`);
* `DigitsAreRead`: `Number` undoes `DigitsOf`. `GroupThousands` adds nothing but spaces,
  which `Keep` drops again;
* a sequence is what stands before its last element of a set, that element, and a rest
  (`LastOf`). With the set of digits this says what `TrimRight` leaves (`Cleaning`), with
  the separators where `SplitDecimal` splits (`SplitAtPoint`);
* `ReadWhole`, `ReadFraction`, `SignRefused` and `DigitlessRefused` say what `ParseAmount`
  returns for the four kinds of text, and `AmountShown` and the two theorems follow.

`Keep` is a fold where the library has `SelectSeq`, which the prover cannot unfold.

Only model-checked. Liveness (`EveryChangeIsTold`, `JournalCatchesUp`,
`SignalEndsProcess`, `EveryRunEnds`, `EveryoneGetsOn`, `EventuallyServes`) is out of the
prover's reach. Every other property of a passing run is stated by a theorem.

## 5. Where the repository says otherwise

Each has a run that ends in the counterexample.

* `lost_change`: a change whose row sorts before the product's first row, because
  the database clock stepped back, and whose first message failed is never retried
  (`products.go:106-112`), against "it is picked up in the next run and not lost for
  ever" (`00002_notified.sql:4-5`, `products.go:70-72`).
* `host_held`: after a 429 a worker that already sleeps until its turn still
  requests within the pause (`ratelimit.go:69-77`), against "the whole host is held"
  (README.md:113).
* `crawl_delay`: the Crawl-delay puts off the next turn once per `Quote`, later turns
  are `HostDelay` apart (`scraper.go:102-105`), against "the declared Crawl-delay is
  observed" (README.md:131).
* `long_wait`: after a Retry-After above `MaxRetryWait` the worker that got it gives
  up, but the next one to acquire takes a slot and sleeps the pause off within the same
  run (`fetch.go:137-143` with `ratelimit.go:57-77`), against "the ceiling of the
  Retry-After pause we are ready to wait out within one run" (`scraper.go:35-38`) and
  "the slot of the host must not be held all that time" (`fetch.go:140-142`).
* `export_token`: `-export` demands `BOT_TOKEN` (`main.go:35`), against README.md:67.
* `first_connection`: `Migrate` connects first and does not retry (`main.go:46`),
  against `storage.go:52-53`.

Seen while modelling, without a run: `retryPending` sends outside of any `recover`,
so a panic there ends the process although monitor.go:86-88 wants no product to do
that; `Resend` has this outcome, and the properties hold with it thanks to the
restart policy.

A Retry-After of more seconds than a `time.Duration` holds (about 292 years) wraps round
(`fetch.go:160`) and is then any pause, although fetch.go:78 says that the request is
repeated after exactly the time the site asked for. `ParseRetryAfter` wraps as the code
does, and `PausesAreExact` speaks of the seconds that fit.

An export whose `Close` fails ends well (`main.go:94`), as described in section 2.

`docs/DECISIONS.md:120` (step 11) says that a worker waits for the mutex of
robots.txt no longer than the client's timeout. That holds as long as requests do
not fail; with failures it is one timeout for each worker of the host
(`WaitIsBounded`).

`splitDecimal` refuses what it cannot read, but reads some texts that are no
price: two numbers with a dash of another kind between them are glued together
(`price.go:106` looks for the two signs of a minus only), and groups of any length
before the last separator are taken together, so `1,23,4` is 123.40.
`ReadsWhatIsShown` states this as it is.

## 6. Not modelled

* The wording of messages and logs, the arrow, the escaping of HTML, the header style
  and the widths of the xlsx file: they change no state and no property is about them.
* HTML and selectors: a page yields the text of its first match or nothing.
* The choice between hosts in limiter and cache: a map access under a mutex.
* Signs and names of currencies as strings, letter case, and the spaces of a text.
* Edits of `price_history` by hand, and a product that is switched off while a run
  is under way. `products` is edited by hand in `Startup` only.
* An INSERT of a killed process that commits after its successor has read the
  table; a call ends with its process here.
* How a single setting is read: `ParseCheckInterval`, `parseChatID`, `envOrDefault`.
  `Startup` has only whether a required setting is usable; a malformed `CHECK_INTERVAL`
  ends `Load` as one that is not usable does, and has no value of its own.
* The serial number excelize makes of a date.
* Two daemons on one database. Nothing in the program or its deployment starts two.

## 7. Plan

Done, in this order: `Domain`, `PriceHistory`, `Monitor` with its proofs, `PriceWatch`,
`Fetcher`, `Startup`, `Robots`, `PriceText` and `Conversions` with `Values`, the proofs
about `Fetcher`, `Robots` and `Startup`, the refinement and the account of repeats, the
order of the messages, the proofs about numbers, the monitor under a clock
that steps back, and the proofs about texts.

Left to prove: nothing but liveness; every safety property that a passing run checks is
a theorem. Left to model: nothing that changes state, see section 6.
