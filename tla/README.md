# A verification project for the equities prediction model

This directory models the core of the repository in TLA+, checks the models with TLC and proves
theorems about them with TLAPS. Every definition is translated from the C++ under `src/source`
(paths below are relative to it); `PROJECT.json` maps each one to the lines it stands for.

1. [The system](#1-the-system) 2. [Plan](#2-plan) 3. [Modules and code](#3-modules-and-code)
4. [Runs](#4-runs) 5. [Bounds, fairness and assumptions](#5-bounds-fairness-and-assumptions)
6. [Proofs](#6-proofs) 7. [Findings](#7-findings) 8. [What is not modelled](#8-what-is-not-modelled)

## 1. The system

`mx` reads a configuration file and runs a list of *modules* over markets, dates and tickers. A
module (`MModuleBase`) is a set of callbacks; it keeps its own state, reads the global environment
`MEnv` and exchanges objects with the other modules through the global store `MEvent`. A model is
built by several runs of `mx`: index filters, samples (signal files), fits (trees), predictions,
analysis; `scripts/model/pmodel.sh` starts them one after another or side by side.

### Inventory

| Component | Where | State | Operations | Interaction |
|---|---|---|---|---|
| Scheduler | `src/MCore/MCore.cpp` | module multimap, loop positions, ticker and endDay threads | `init`, `runImpl`, `loop_*` | calls every module; sets `MEnv::market`, `MEnv::idate`; reads `MEnv::tickers` |
| Environment | `MFramework/MEnv` | markets, dates, tickers, settings | set by the `MInit*` constructors and by ticker-selecting modules | read by all modules and threads, without a lock |
| Event store | `MFramework/MEvent` | a map of bare pointers and its mutex; the store owns copies but not published members | `add` (copy), `add` (pointer), `get`, `find`, `remove` | producer and consumer modules of a ticker, in all ticker threads |
| Tick reader | `MSignal/MTickRead` | directories of the market day, readers and series per thread id, eight mutexes | `beginJob` .. `endJob` | produces what the sampling modules read |
| Exchanging modules | `MMakePredIndex`, `MMakeSampleMicro`, `MPseudoTradePrep`, `MFastSim` | members shared by address | callbacks | through `MEvent` |
| Dates and tickers | `MFramework/MInitModel`, `MInitFut`, `MSelectTickers` | model dates, per-market ticker lists | constructors, `beginJob`, `beginMarket` | fill `MEnv`; look at the files earlier jobs left |
| Linear models | `gtlib_linmod` | accumulators, coefficients, a covariance file per date | `beginDay`, `update`, `endDay` | driven by `MMakeSampleMicro`; files read by later jobs |
| Sampling | `MSigMod/MMakeSampleTP`, `gtlib_signal` | order books, hedge pools, per-day signal files | `beginTicker`, `endTicker`, `endDay` | consume `MEvent`, write signal files |
| Order books | `jl_lib/Book`, `SpreadBook`, `jlutil_tickdata` | bid and ask volume by price | `remove_crosses`, `order2quote`, auction, difference | used by sampling and order modules |
| Boosted trees | `gtlib_fitting` | nodes, the node of each sample, the list to prune | `fit`, `get_pred` | read signal files |
| Model files | `gtlib_fitting/DTFtns`, `PredFromBoostedTree`, `MFitter` | directories `coef` and `preds` | fit and write, list, read, predict | jobs of different processes |
| Simulation | `gtlib_fastsim` | positions, limits, daily P&L | `beginDay`, `endDay` | read predictions and closing prices |
| Signal files | `gtlib_sigread` | a position in one or several files of the same rows | `next`, `getInput` | read by fitting and simulation |
| Databases, caches | `jl_lib/GODBC`, `GFee`, `GEX`, `GCurr` | process-wide connections and tables, a mutex each | `get`, `read`, `close`, `getFees` | called from any thread |
| Configuration | `jl_lib/HPreProcessor`, `HConfig` | the lines of the configuration, its variables | `set`, `call`, `if`, `foreach` | read before `MCore::init` |
| Pipeline | `scripts/model/pmodel.sh` | files of a model directory, background jobs | `index`, `sample`, `fit`, `pred`, `ana`, `write` | runs `mx` several times |
| Older scheduler | `HCore`, `HLib`, `HOrders`, `HTickSeries`, `HLearn*`, `HFitting`, `HNews` | as `MCore`, without ticker threads | `hf` | twin of `mx` |
| Analysis, statistics, display | `MOrders`, `jl_learn`, `gtlib_*ana`, `guis`, `cronjobs` | reports | | read what the others write |

### What is hard, and what makes each component correct

* **Scheduler.** Two looping orders (markets then dates, dates then markets), each with its own
  nesting of callbacks; ticker threads that read `MEnv` without a lock; `endDay` threads per
  execution group; integer partition of the tickers through floating point. Correct if scopes nest,
  each ticker is begun and ended once by every module, no ticker ends before all modules have
  begun it, joins are barriers, and the configured order of the modules is kept.
* **Event store and exchanging modules.** Untyped pointers whose ownership depends on which `add`
  stored them; `get` hands out a pointer that outlives the lock; members are cleared and filled in
  place while their address is in the store. Correct if a pointer in use stays what its reader
  takes it for, nothing is deleted twice and nothing is left behind.
* **Tick reader.** Thread-id keyed caches which are searched without a lock, thread ids that are
  given again, an unexpected mutex, an uninitialised flag. Correct if a thread reads the
  directories of its market day and always returns.
* **Linear models and their dates.** The model of a date comes from the files of the dates before;
  the files come from jobs that may be killed while writing, and from the one that is running; an
  excluded date makes every job start over behind it. Correct if no model has seen the date it
  predicts, a model called good is a full window, and a restart changes nothing.
* **Model files.** Fitting and predicting jobs share a directory and no lock; a file that is being
  rewritten can be read half way. Correct if predictions on disk never look ahead and a date gets
  the latest model there is.
* **Order books.** Long sequences of adds and deletes, uncrossing by generated deletes that wait
  for a later order, statics shared by all books. Correct if the output replays to the book that
  was kept, the book is uncrossed in trading hours and quotes and auctions are those of the book.
* **Boosted trees.** A sample's node is carried from pass to pass while predictions traverse the
  tree anew; three places test the least size of a node; a pruning list is kept up to date.
* **Simulation.** Positions carried over days and past their limits by prices and splits; the
  profit of a day is added in two places.
* **Caches.** A search outside the lock. **Preprocessor.** Does it end, and does a file mean what
  it seems to mean? **Sampling.** Pools filled by ticker threads. **Pipeline.** Steps that fail in
  the background.

`PROJECT.json` lists these hazards at their lines with the properties that would catch them.

## 2. Plan

Most important behaviour first; the rows marked *done* are in this directory.

| | Module | Composes | What for | Theorems |
|---|---|---|---|---|
| done | `TickerPartition` | | the slices of the ticker threads | disjoint, covering, in range |
| done | `ModuleLifecycle` | | abstract: what a module may rely on | |
| done | `MCore` | `TickerPartition` | the scheduler | its safety properties, `MarketDayOnce` |
| done | `MCoreLifecycle` | `MCore`, `ModuleLifecycle` | the refinement mapping | the refinement |
| done | `MEvent`, `Blackboard` | `MCore`, `MEvent` | the store under the scheduler's threads | its three properties |
| done | `MTickRead` | | directories and per-thread readers | `RootsCurrent` |
| done | `OrderBook` | | three books along one stream of orders | its five properties, the types |
| done | `DecisionTree` | | growth, forced levels and pruning | its five properties, the types |
| done | `FastSim` | | positions over days, limits, adjustments | both limits, the profit, the types |
| done | `FeeCache` | | a table shared by ticker threads | its three safety properties, the types |
| done | `LinMod` | | covariance files over jobs, days and crashes | its four safety properties |
| done | `ModelFiles` | | model files shared by jobs | its two properties |
| done | `Preprocessor` | | the passes over a configuration | out of reach (recursive operators) |
| next | `SampleDay` | `MCore` | hedge pools filled by ticker threads, the files of a day | |
| next | `SignalBuffer` | | readers stacked over files of the same rows | |
| later | `InitModel` | `MCore` | the remaining date and ticker lists | |
| later | `HCore` | `ModuleLifecycle` | the older loops against the same promise | |

Abstract specifications: the module lifecycle, implemented by `MCore` (`ImplementsLifecycle`); the
meaning of a configuration read in order, against which the preprocessor's passes are checked
(`Flatten`); the kept book, which the written orders must replay to (`ReplayMatches`).

## 3. Modules and code

**`TickerPartition`** - the arithmetic of `MCore::loop_tickers_thread`: chunk length, the two
offsets and the slice. The chunk is an argument of the operators: the code computes it in single
precision, exact below 2^24 tickers, and the slices are disjoint and cover the list whatever the
chunk is (section 6).

**`MCore`** - the process from `MCore::init` to the end of `runImpl`. The main thread's location
`pc` and counter `k` name the callback it is inside; a step is the return of one call and the entry
of the next. `conf` holds the settings of `MEnv`, `market`, `idate`, `nTickers` its current values;
`thr` the ticker threads, `eday` the `endDay` threads; `modules` is the multimap in iteration
order, built entry by entry with the insertion rule of `std::multimap`. Callbacks are opaque, but
for replacing `MEnv`'s ticker list (`SelectTickers`): a list that comes out empty leaves the old
one, so any length may follow.

**`ModuleLifecycle`** - the promise to a module: scopes nest in one of two orders, tickers run only
inside a market day that all modules have entered, in module order, every ticker once, and nobody
ends a ticker that somebody has yet to begin. **`MCoreLifecycle`** computes its variables from
`MCore`'s control state.

**`MCoreProperties`** - the other properties of the scheduler; **`MCoreProofs`** - the proofs of the
slices, of the scheduler's safety, of the refinement and of `Blackboard`'s properties, which rest on
them; **`MCMCore`** - the instances.

**`MEvent`** - `add` of a copy, `add` of an address, `remove`, `get`. The heap maps an address to
what its object was made for; the void pointer has no type, so nothing stops a wrong `delete` but
the order of calls. Each operation holds the mutex to its end and is one step.

**`Blackboard`** - `MCore` and `MEvent` with modules put in. A callback is a sequence of accesses
(to the store, to members shared by address); a thread can leave the callback only when its
accesses are done (`Schedule`). The sequences are the ones of `MTickRead` (nbbo of a ticker),
`MMakePredIndex` (a day's prediction, which may be missing), `MMakeSampleMicro`,
`MPseudoTradePrep` (`mMid_` filled by the ticker threads, `mClose_` filled in `endDay`, both
published by address) and `MFastSim`. The other keys these modules exchange follow the same
patterns, and one of each pattern is modelled. `mMid_` is indexed by unique id in the code and by
ticker here: two tickers without an id share an entry in the code, which no property looks at. The
proofs are in `MCoreProofs`, **`MCBlackboard`** has the instances.

**`MTickRead`** - `set_directories`, `init_TickAccess`, `beginTicker` in each ticker thread with
the lookups of its reader and its series, `endMarketDay`. A search of a map and a change of it take
two steps each, so that they can overlap; the outcome of a search that overlaps a change is
undefined, and the model lets it miss the entry. `*ta = map.end()` is the location "end".
`TickSources` is the constant `DefaultDirs`; tick files and symbol names are left out.
**`MTickReadProofs`** holds the invariant and the proof of `RootsCurrent`.

**`OrderBook`** - `Book.cpp` along the ticks of one ticker, then of another. An order goes through
three books at once: the one `remove_crosses` keeps (with `uncrossedAfterOpen` and the generated
orders that wait, `pending`), the one a reader of its output has (`replay`), and the one of
`order2quote` (`live`), which uncrosses itself in `update`. `Consumed` is the loop that takes an
aggressive order's size from the other side. A level of volume 0 stays until `remove_zeros`, as in
the code's `std::map`. `last_quote` of `Book::get_quote` is a function-local static and survives
`NextTicker`. `Auction` and `BookDiff` are `get_auction` and `get_book_diff` as operators;
`Added` knows that `operator[]` has by then given the new book an empty level for each of the old.
`InDay` is the session of a book that `order2quote` makes, the whole day; `Trading` is the market's,
which `remove_crosses` uses. `collided` records where a logged order met a generated one otherwise
than by replacing it; it, `shown` (the quote of the book as each msecs ended) and `carried` (the
static as a ticker began) are history and read by no action. **`OrderBookProofs`** has the proofs.

**`DecisionTree`** - `fit` of `DecisionTreeRegression`, its `Force` and `Prune` variants and the
loop of `BoostedDecisionTree` over trees: statistics, a cut for each new node, children node by
node (`MayCreate`, `CreateChildren`, `LeaveTerminal`), the node of each sample, the list of nodes
to prune. Which admissible cut has the best deviance is left open, because the deviances are
floating point; the threads of a pass write disjoint elements and are joined, so a pass is a step.
`nForceCutLevel` is a parameter of a fit and chosen once. A forced level splits a node whether or not
it found a cut for it, the root too.
An uninitialised `leftMax` holds any value of `Garbage`; an operation of undefined effect leads to
`pc = "undefined"`. **`MCDecisionTree`** takes the inputs up to the order of the samples;
**`DecisionTreeProofs`** has the proofs.

**`FastSim`** - `endDay` of `FastSimNet`, which `MFastSim` runs, and of `FastSimSimple`: the
overnight loop over the positions, a trade per sample within `getShrTrd`'s limits, the loop at the
close, and the adjustment of positions by splits - looked up by unique id in a map of tickers, as
in the code. Prices are whole dollars and sums exact. **`FastSimProofs`** has the proofs.

**`FeeCache`** - `GFee::getFees` with its mutex, statement by statement, and `getLoc`. The insertion
of a key and the search after the unlock take time, so that they can overlap. `market` is the market,
or the model, that every caller of a job asks for: `MEnv`'s, which changes (`NextMarket`) when no
thread is left. `Make` makes a table for the four locations of the chain and leaves the null pointer
for any other; a caller that computes with it may stop the process (`UseNull`). **`MCFeeCache`** has
the markets, **`FeeCacheProofs`** the proofs.

**`LinMod`** - a sequence of processes over the same directory of covariance files. `StartJob`
takes the dates `MInitModel` finds with `dateAutoDetect cov`: from the first of the last `NPast`
dates that has no file, without the excluded ones. A date is `beginDay` (which reads the model if
the process has none), an update per ticker (under the flags of `batch_update_biLin`, `FitsUniv`
and `FitsErr`), the signal file, `write_cov` (opened, then written piece by piece: two headers,
the universal matrices, and the name and the matrices of each ticker), `read_cov` and
`calculate_coeffs`, the weights. `Crash` may come between any two steps, `NextDate` between jobs.
A file holds which tickers had points; a model holds how often the data of each date were loaded,
which is what tells a window from a mixture. A header that is not there leaves the sizes of the
collection uninitialised: they are those of the file before, or the assertions behind it fail. A
file that ends among the tickers is read to its end and on: the loop goes on under the last name
it got and leaves empty matrices there, so that this ticker is lost with those behind it
(`ErrData`). `MapOrder` is the order of the code's hash map. **`MCLinMod`** has the
configurations, **`LinModProofs`** the proofs.

**`ModelFiles`** - processes that fit (all samples before `udate`) or predict (none before it),
side by side. A model file is written and read line by line; a tree is two lines, so that a reader
can meet a file that ends within a tree (`exit(12)`), between two trees (a smaller model), or before
the first, and, as the file is truncated and written again beside it, can go on with lines of the new
writing or find no further one. Beside its lines a file has the last date its model was fitted on;
what was read has the latest of its lines (`Later`). Lines of two writings need not make a model: the
reading job may then end, as if killed. A prediction file is truncated first and gets its rows in a
step of its own, in which another job may have it open too. **`ModelFilesProofs`** has the proofs.

**`Preprocessor`** - the five passes of `HPreprocessor::preprocess`, line by line, repeated while a
line begins with a keyword. `Flatten` is what the same lines mean read in order;
`SetsOutsideBlocks` and `SetsBeforeUse` are the rules under which the two agree. Each rule is
needed: without it TLC finds a configuration on which they differ. **`MCPreprocessor`** makes the
configurations.

## 4. Runs

| Run | Question | Answer |
|---|---|---|
| `mcore` | Does the scheduler keep `ModuleLifecycle`'s promise in both looping orders, with and without ticker threads, `endDay` groups, markets, dates? Are joins barriers, is `MEnv` stable under the threads, are tickers unshared? Is the configured order kept for every list of up to 3 modules with orders from -1 to 2? Is every market day run, once, and does the job end? | yes: ten properties |
| `blackboard` | Copies in the store: a ticker listed twice across two threads, a module configured twice, a consumer before its producer. Members published by address, `endDay` in sequence or in concurrent threads. | nothing deleted twice, nothing left; pointers good under the premises below |
| `tickread_roots` | Do reused thread ids read the current directories, do calls return? | yes (`RootsCurrent`, `TickerReturns`) |
| `tickread_maps` | Are the maps of readers used safely by several threads? | no, section 7 |
| `orderbook` | For every log of up to 4 orders: is the book uncrossed, does the output replay to it, do the written quotes tell what it showed, are auctions and differences those of the books? | yes, but for levels where a logged order met a generated one without replacing it, and for the quotes before a ticker's first |
| `tree` | Plain, forced and pruned trees: is there room, is every sample where its prediction comes from, is the pruning list exact, is the least size kept, and what can make a fit undefined? | yes; four causes (`UndefinedHasCause`) |
| `fastsim` | Do trades respect both limits when prices have moved positions past them, and is the profit that of the positions carried out? | yes |
| `fees` | Can a search meet an insertion, a caller an unfinished table, a call never return? | no; but a market without a location gives a null pointer |
| `linmod` | With crashes, excluded dates, dates without data and models switched off: look-ahead, mixed windows, errors of a bad model, restarts that change the model, dates never written? | none, with the premises in the properties |
| `modelfiles` | Can jobs side by side leave a prediction that looks ahead, or use another model than the latest? | no |
| `preprocess` | Does preprocessing end, and with the meaning of the lines read in order? | yes, under the two rules |
| `preprocess_if` | Is what an `if` excludes without effect? | no, section 7 |

`HeldValid` has two premises, which are what a configuration has to respect. `Supplied`: every
module is listed after one that supplies what it needs, in an earlier execution group if it is
handed over in a concurrent `endDay`. `TickersApart`: no ticker is listed in the slices of two
threads (the sorted list puts duplicates side by side, and a slice boundary may separate them).
Without either, TLC finds a reader whose object has been deleted, replaced, or is of the day before.
`StoredLive` and `NothingLeft` need no premise.

`ResidualsOfGoodModel` holds without excluded dates only: a job that goes on over an excluded date
keeps the model of the date before it. `RestartTransparent` has the same premise for the date
before. `EveryDateWritten` assumes that no job dies of a file, which does happen in the run, so that
the premise is not idle; it promises each date a whole file or one that a killed job has torn.

`QuoteFollowsBook` is about who reads the quotes back: at the end of each msecs the last one written
is what the book showed. `last_quote` is a static, so that the first quote of a second ticker is not
written while it equals the last of the ticker before; until the first written one, and at worst
until the end, the book has shown just that quote (`carried`), and the reader has none.

`TableReady` says which callers get a table and which a null pointer. `PredNoLookAhead` covers models
mixed from two writings of a file, but does not deny that a model cut between two trees is used.

`LatestOfListing` is about what a job has listed: a model fitted after the listing is not used.

## 5. Bounds, fairness and assumptions

* `mcore`, `blackboard`: three modules, enough for a group of two and one alone, in either order,
  and for two producers with a consumer between them. Threads: up to three, so that an inner, a full
  and an empty slice occur. Tickers: up to `MaxTickers` = 4, more than one per thread and not a
  multiple of the threads. Markets and dates: two each, so that a second iteration, a reset and a
  carried-over value occur. `MCInstances` pairs each kind of module list with the settings that make
  it interesting.
* `Copies`: four heap addresses; `AddCopy` needs a free one. At most three copies can be alive (two
  tickers' quotes and the prediction) unless they leak, so that the bound cuts nothing off.
* `MaxDays` = 2 market days of `MTickRead`: thread ids of the first are reused in the second.
* `orderbook`: three prices (a best level, one behind it, one across), sizes 1 and 2 (a level is
  consumed in full or in part), four orders of all tickers together over three msecs: before, in and
  after the trading hours, several with the same msecs. Four are enough for a generated deletion, one
  that replaces it, and a second ticker whose first quote is not written.
* `tree`: eight samples, values 0..2 of two inputs, two levels of children below the root, three
  leaves, at least two samples to a node; `MCDecisionTree` keeps one input of each class under
  renaming of the samples. Two forced levels, or all three that are cut. `Reduction` = 100 prunes
  as many nodes as `setPrune(1)` asks for.
* `fastsim`: two tickers whose prices double or halve, so that positions pass their limits without
  a trade, two days, two samples a day.
* `fees`: three threads; a market of the US, two that share a location, and one without.
* `linmod`: windows of two and one dates, `NPast` = 3 of the code's 61, nine dates of which jobs
  write five, two crashes: enough for a crash while a crash's file is being replaced, for a window
  that slides past it, and for an excluded date to leave the last `NPast`. Two tickers, so that a
  file may end before, within and behind one; five configurations (`MCConfs`).
* `modelfiles`: two processes, four jobs, three dates, two udates, two trees: fit, refit, predict
  and predict again, with a kill anywhere. Processes are interchangeable, and the run uses that
  symmetry; its properties are invariants.
* `preprocess`: three statements and two files, each from a list that has every construct, nested
  once.
* Fairness. `MCore`: weak fairness of the main thread, of the ticker threads together and of the
  `endDay` threads together; callbacks return and the operating system runs what can run.
  `MTickRead`: weak fairness of each thread; a thread waits for a mutex only while another makes its
  last insertion of the market day, so finitely often. `FeeCache`: weak fairness of each thread's
  steps and strong fairness of its lock: the other threads come back for the mutex over and over,
  and `boost::mutex` promises nothing, but a scheduler that starves one thread for ever would be
  broken. `LinMod`: a running job goes on (weak), and the calendar advances although jobs are
  started (strong). `Preprocessor`: the constructor runs to its end. Nothing is fair about `Crash`
  and `Kill`.
* Deadlock is checked in `mcore` and `blackboard`, which stutter explicitly at their end, in `fees`
  and in `orderbook`. The other runs switch it off: their jobs stop after the last day, date, job,
  line or tree, or at an operation of undefined effect.
* `ModelFiles` assumes that a model is fitted by one job at a time (`Writing`): two writers of the
  same file interleave without any order the code would define.

## 6. Proofs

`MCoreProofs` first shows, for every number of tickers and threads and *every* chunk length, that
slices are disjoint, cover the list and stay inside it: the last thread takes what is left. Then it
proves, for every set of module lists, settings and bound on the tickers that satisfy
the three assumptions of `MCore`:

| Theorem | Inductive invariant it rests on |
|---|---|
| `TypeCorrect` | `TypeInv`: `TypeOK` and the ranges of `k` and of the current market and date at each location, without which `Goto` and `modules[m]` are out of range |
| `TickersNotShared` | `ThreadInv`: a thread inside a ticker is inside its slice; then `SlicesDisjoint` |
| `JoinsAreBarriers`, `EnvIsStable` | `ThreadInv` and `EdayInv`: which threads can be live at each location; while threads are joined those below `k` are at rest |
| `OrderIsConfigured` | `ModInv`: during `init` the multimap is sorted, its ids count up, its last key is `execOrder` |
| `EndDayInGroup` | `ModInv` and `EdayInv`: live `endDay` threads are of one group, and equal keys of consecutive modules come from declared orders |

The type invariant alone is not inductive for the safety properties: that a join is a barrier
depends on the threads already joined, and that an insertion keeps the order depends on
`execOrder` being the largest key so far.

`MarketDaysRunOnce` says, of any number of markets and dates, that the tickers of a market day do
not run again once its `endMarketDay` calls have begun (`MarketDayOnce` names the first two of
each). `Past(a, b)`, that the loops have left market `a` and date `b` behind, is stable (`PastNext`)
and excludes being in that market day. The variable of the inner loop keeps its last value until
the loop is entered again, so `Past` has to look at the location beside the two variables.

It also proves `SchedulerKeepsPromise`: `Spec => ImplementsLifecycle`, under one more
assumption on the settings, that `multiThreadTicker` comes with at least one thread. With
`nMaxThreadTicker = 0` a market day ends without a ticker having begun, and the promise fails
(`SlicesOfThreads` is where the proof needs it). The argument:

* `LifeInv` adds to the invariants above that sweeps stay among the modules, threads are created in
  order, a thread in a callback is at a position of its own slice with the rest of the slice ahead,
  and a group is joined when its last module has its thread.
* `DepthTable`, `TickView`, `LoopView` and `View` read the mapped variables off the control state:
  at each location how deep every module is, whether tickers are under way, and which are begun.
* One lemma for each step of the promise (`BeginScopeStep`, `EndScopeStep`, `EndMarketDayStep`,
  `BeginTickerStep`, `EndTickerStep`, `StutterStep`) says which change of depths and tickers is that
  step; one or two lemmas for each action of `MCore` show that it makes such a change. A thread that
  goes from the last `endTicker` of one ticker to the first `beginTicker` of the next is
  `BeginTicker` of the promise, or a stutter at the end of its slice (`GoesOn`).
* That a module leaves a market day with all its tickers ended is the partition of the list into
  slices together with the join: all threads are at rest, and the union of their slices is the list.

`MTickReadProofs` proves `RootsAreCurrent`: a thread that reads ticks uses exactly the directories
of the current market day, for every configuration, set of directories and set of thread ids. Its
inductive invariant `RootsInv` has five parts:

* `Typed`, and `Working`: a thread at work is inside a market day and on a source that is read;
* `MainRoots`: the main thread's reader has the day's directories during the day and none outside;
* `ThreadRoots`: a thread's reader *together with the roots the thread is about to add* has the
  day's directories, and outside the market day there is no reader. The second part is what
  `endMarketDay`'s `clear` is for, since the next day's threads have the ids of this day's;
* `Progress`: a thread has its reader when it turns to the series and the ticks.

`RootsCurrent` alone is not inductive: roots are added one at a time, so that a reader is incomplete
in between, and a search that races with an insertion may miss the thread's own entry, in which case
the roots are added again.

`MCoreProofs` ends with the theorems about `Blackboard`, for every list of modules, settings and
list of tickers that its assumptions allow (`MembersAssumption`, `ProgramsAssumption`,
`TickerAtAssumption`, `KeysAssumption`, and for the number of heap addresses only that `AddCopy`
finds a free one). They rest on `Base`, the scheduler's invariants with the types of the store and
`TodoInv`: what a thread has left to do is an end of the accesses of the callback it is in.

* `EntriesAreLive` (`StoredLive`) and `CopiesAreRemoved` (`NothingLeft`) need no premise about the
  configuration. `StoreInv` adds to `StoredLive` that the members keep their keys and that every
  copy that is alive is the one its key points to, so that two keys never share an object.
  `NothingLeft` needs to know who will remove an entry: `NbboInv`, that quotes in the store are those
  of a ticker some thread is inside and has yet to end, and `PredInv`, that a prediction in the store
  is of the current date and its module's `endDay` is still due.
* `PointersStayGood` (`HeldValid`) keeps the two premises of the property, `Supplied` and
  `TickersApart` (section 4), and assumes that `multiThreadTicker` comes with at least one thread.
  `NbboThere`: the quotes of a thread's ticker are in the store, of the current date and market, for
  the modules behind their producer. `MidInv`: `mMid_` has the series of the current date of every
  ticker whose `beginTicker` is past, and of all tickers after the loop. `CloseInv`: what
  `MPseudoTradePrep`'s `endDay` has filled and published by the time the modules behind it run.
  `HeldInv` ties the pointers a thread has got to these. What is past is read off `ThreadInv`,
  `LifeInv` and, for the `endDay` threads, `EdayInv` and `ModInv`.

`DecisionTreeProofs` proves five properties, for every finite set of samples and every parameter:

* `TreeInRoom`: children come in pairs after a test for one, so `IInv` says that the number of nodes
  is odd and that `MaxNodes` is, beside keeping the links to children among the nodes.
* `PruneListIsExact` from `TreeInv`: a node and its two children point to each other, and what is
  ahead of the pass is a leaf.
* `UndefinedIsCaused` from `CauseInv`: whatever node was split without a cut was offered none, by
  its forced level or by the test that its unset `leftMax` passed (`Uncut`); a leaf behind the
  pass that still has samples was left there by a level that found no room or no cut
  (`LeftBehind`), and a child has a higher number than its parent (`Downward`), so that the last
  node that is split is one to prune, and an empty list means that only the root is split
  (`LastSplitIsTwig`). A node with an admissible cut gets one (`CutOffered`), and the `leftMax` of
  the root, which is set, admits no split.
* `SamplesAreRouted` from `RouteInv`: whatever labels the leaves have, following the decisions from
  the root gives the label that following them from the sample's node gives (`Routed`), and between
  passes that node is a leaf. Said of all labels, a split or a pruning is one step at one node.
* `SplitsAreBig` from `SizeInv`: `indnum` is the number of samples in a node, the children's add
  up to it, and a cut that was accepted had enough on both sides. It assumes that there is a
  sample.

`FastSimProofs` proves `TradesKeepTickerLimit` and `TradesKeepNetLimit`: for any prices, sizes and
limits a trade leaves a dollar position inside its limit, or takes one outside towards it and not
past zero. The argument is about `Shares` alone (what `getShrTrd` allows), once `SimTypeCorrect`
says that the loops find the entries they use; the arithmetic is a chain of inequalities over
products. `ProfitsAddUp`: while the loop over the positions carried in goes on, the profit is the sum
over those it has been to (`ProfitInv`), and moving a trade's shares from one sum to the other is
`Regroup`.

`OrderBookProofs` proves the five properties of the books and their types, for every finite set of
prices, set of sizes, session and number of orders. The run has checked the same invariant, `IInv`:

* `BooksOK`: books hold positive volumes at known prices between two orders.
* `QuoteOK`: while orders are read the quote that waits is later than those written, is the static
  `last_quote`, and is what the book has shown since its msecs (`Waiting`); the written ones tell
  what it showed before (`Told`), and without any the book has shown what the static held.
* `OpenOK`: a book is seen uncrossed after the open only, and not crossed from then on. An aggressive
  order takes every level it crosses (`PastLevels`), so what is left on the other side is behind it.
* `EvenOK`: at each level that did not collide the reader of the output either has the volume of
  the book, or has exactly the one deletion ahead that empties the level there as it is empty in
  the book. A logged deletion that replaces that one is at least as large, and empties it just as
  well. `ReplayMatches` is not inductive without the second case: it says what comes of all
  pending orders, and not that no level has two of them.
* `AuctionFindsBest`: what can be traded at a price is the smaller of a sum that falls along the
  prices and one that rises, so a price at which less trades than at the best so far is followed
  by none that is better (`WorseFromHere`); that is why `get_auction` may stop there.
* `DifferencesApply`: the orders of `get_book_diff` touch every level of the two books once.

`LinModProofs` proves `NoLookAhead`, `GoodModelIsWindow` and `RestartTransparent` from one
invariant (`ModelOfTheFiles`): the model in force is *exactly* `ReadCov(x)` of the files as they
are now, for a date `x` before the one being processed, with only excluded dates between the two.
It is inductive because a job writes no file at or before such an `x`; that the model equals what
is on disk now, and not what was there when it was read, is what makes a restart harmless. Torn
files need nothing of their own: how much of a file is read back depends on nothing but its
pieces, so the files the model was read from are as much read back as ever. The window properties
then follow from `ReadCov`, with the cardinality of an interval.

`ModelFilesProofs` proves `PredNoLookAhead` and `LatestOfListing`. The invariant
(`FittedOnThePast`) says that whatever holds a model - a file, the lines a reader has of it, its
copy, a prediction - has it fitted before its `udate`, of whichever writing, and that a reader's
`read` and `toRead` together are the used part of its listing; `UsedAreEnough` shows that cutting
the listing below the latest model of the first date, and above the last date, changes the latest
model of no date between them.

`FeeCacheProofs` proves the three safety properties of the shared table, for any number of threads,
markets and calls. The invariant (`IInv`) ties a thread's place to the entry of the location: past
`Make` it is what the location allows, a table or the null pointer, and stays so, because whoever is
between `lock` and `unlock` owns the mutex, and the market changes only when every thread is idle.
That is also why `SearchesDoNotRace`, with the search made without the mutex, holds for any markets.

Sums and searches along a sequence are folds in the models. The proofs unfold a fold into the
function it chooses, show that such a function exists, and argue by the least number for which a
claim fails (`AllNaturals`, from the well-foundedness of the naturals), which takes the place of
the induction rule.

Only model-checked: the liveness properties (`EveryMarketDay`, `Termination`, `TickerReturns`,
`CallReturns`, `EveryDateWritten`), which are out of the prover's reach, and `FlattensAsRead` of
`Preprocessor`, whose recursive operators the prover does not accept. Every other property of a
passing run is a theorem.

## 7. Findings

* `MTickRead.cpp:445` (and its seven siblings) searches a `std::map` without the mutex under which
  other threads insert into it (`tickread_maps`).
* `HPreProcessor.cpp:68` executes a `set` inside an `if` before the condition is looked at, so that
  the branch which `README.md:127` calls conditionally included has its effect although it is not
  taken, and may make a later `if` be taken (`preprocess_if`).

Seen while modelling, and kept by the models where they are in their scope, without a run of their
own:

* `README.md:67` draws `beginTicker(t), endTicker(t)` of one module, then of the next; `loopModule`
  runs all the `beginTicker` calls before the first `endTicker`. The code is right: with the drawn
  order a ticker's data would be gone before the second module sees it. `ImplementsLifecycle` has
  the code's order.
* `multiThreadTicker` with `nMaxThreadTicker` 0 processes no ticker.
* `MTickRead.cpp:365` assigns the trades' own directories where the comment of line 364 promises
  the quotes'; the list is then empty, and with several threads `map::end()` is dereferenced
  (line 457). `nbbo_trade_` (line 354) is uninitialised unless configured.
* `GFee.cpp:53`: `getFees` makes no table for a market outside the US, Europe, Canada, Asia (`A`) and
  Korea, and returns a null pointer that its callers pass on, although `hff.cpp:99` and `pmodel.sh`
  accept markets as `MJ` and `SS`. Line 52 compares with `nullptr` where it means to assign.
* `Book.cpp:438`: the first quote of a ticker is not written if it equals the last of the ticker
  before.
* `Book.cpp:84`: where two generated deletions of a level, or one and a logged addition, meet a
  logged deletion that is as large as each but not as all, the output no longer replays to the
  book; these are levels that `ReplayMatches` leaves out.
* `Book.cpp:90`: orders generated by the last order of a log are never written; `ReplayMatches`
  replays them nevertheless, as pending.
* `fittingObjs.cpp:75` leaves `leftMax` of a child uninitialised;
  `DecisionTreeRegressionForce.cpp:24` ignores that a forced level failed;
  `DecisionTreeRegressionPrune.cpp:69` dereferences `begin()` of an empty list. With a forced
  level that has no cut for a node (`DecisionTreeRegressionForce.cpp:46` splits it all the same)
  these are the four causes of `UndefinedHasCause`. `setPrune` takes the configured fraction as an
  `int`, so that a reduction below 1 prunes nothing.
* `FastSim.cpp:207` looks up unique ids in a map of tickers, so that positions are not adjusted for
  splits unless the two coincide; the model does the same. `FastSim.cpp:98` reads a second prediction
  that need not be there, `getStat` (line 131) returns nothing, `FastSimSimple.cpp:92` uses the net
  position of the day before (no module creates a `FastSimSimple`), and at `fastsimObjs.cpp:109` a
  position of exactly its limit allows no trade.
* `BiLinearModel.cpp:127`: a covariance file torn by a crash counts as written. It either kills the
  jobs that read it or leaves models without its date until it has left every window. A crash
  between `write_cov` and `write_weights` leaves a date without weights, which no later job writes.
  `MInitModel.cpp:604` prints the first of a list that is empty if every date is excluded.
* `DTFtns.cpp:16` tells a truncated model file only if it ends within a tree. `MFitter.cpp:175`
  takes the last of a list of dates that may be empty. `PredFromBoostedTree.cpp:207` and `:244` write
  as many columns in the header and in a row only if all models have the same number of trees.
* Of the preprocessor: a `call` whose name is a loop's variable is executed before the loop and
  silently finds no file; the variables set two calls deep come after the blocks of the first round
  are decided; a `set` given on the command line comes first, so that one in the file wins over it;
  `set x $x` recurses for ever when `x` is not set, as does a file that calls itself; a block that
  is not closed runs past the end of the lines.

## 8. What is not modelled

`PROJECT.json` lists every component with its status. Left out for good: floating-point numerics
(regressions, signals, moments), report formats, GUIs, SQL text, project files; there is no
discrete state in them that a property here could tell apart, and they are most of the code.
Left for later: the *next* and *later* rows of section 2. The pipeline is a shell script outside the
program; `LinMod` and `ModelFiles` let its jobs start, overlap and die at any point instead. `HCore`
is `MCore`'s loop without ticker threads.

Within the modelled components:

* `MEnv`'s paths and model parameters, `MEvent::clear` (never called) and `find` (called in
  `beginJob` only), the choice of tickers itself;
* the weighted trees (the same control with weights in the sums), the printed statistics of fits
  and simulations, `FastSimDataDump`;
* the connections of `GODBC` (line 95: used after the mutex is released): the callbacks that read
  through it run in the main thread, and what two threads do to one connection is the external
  library's. `GEX` and `GCurr` look up as `GFee` does. If two threads asked for different markets
  at a time, one could search `GFee`'s map while the other inserts; no caller does;
* `BiLinearModel`'s ranges and weights read from files, and more than one horizon or time slice: with
  several horizons `CovMatSetCollErr.cpp:23` lists each ticker once for each, and
  `BiLinearModel.cpp:238` loads it as often; the shipped configurations have one. A kill tears a
  covariance file between its pieces, not within a number;
* models in a database; a model file cut within a line;
* programs of the preprocessor whose `call` finds no file, of which `FlattensAsRead` says nothing,
  and nodes of a tree while they are pruned, of which `RoutedToLeaf` says nothing;
* references inside a word of a configuration (`foo_$M`), and `HConfig::parse_conf` after the
  preprocessor.
