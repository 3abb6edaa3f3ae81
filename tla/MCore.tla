--------------------------------- MODULE MCore ---------------------------------
(***************************************************************************)
(* The scheduler of mx: MCore::init builds the ordered list of modules and *)
(* MCore::runImpl drives their callbacks over markets, dates and tickers,  *)
(* with ticker threads (loop_tickers) and one thread per module of an      *)
(* execution group (loop_endDay).                                          *)
(*                                                                         *)
(* A location names the callback a thread is inside: pc = "beginDay" with  *)
(* k = 2 is the main thread inside the second module's beginDay(), and a   *)
(* step from it is the return of that call together with the entry of the  *)
(* next one.  Callbacks are opaque but for the one thing they do to the    *)
(* scheduler: some of them replace MEnv's ticker list.                     *)
(***************************************************************************)
EXTENDS Integers, Sequences, FiniteSets, TickerPartition

CONSTANTS
    Blocks,      (* module lists a configuration may declare: the execOrder *)
                 (* of each module, -1 where none is written                *)
    Confs,       (* settings the MInit* constructors put in MEnv            *)
    MaxTickers   (* bound on the length of MEnv's ticker list               *)

ConfType ==
    [ loopingOrder : {"mdt", "dmt"},
      multiThreadTicker : BOOLEAN, nMaxThreadTicker : Nat,
      multiThreadModule : BOOLEAN,
      nMarkets : Nat, nIdates : Nat, nTickersDebug : Nat ]

ASSUME BlocksAssumption == Blocks \subseteq Seq(Nat \cup {-1}) \ {<<>>}
ASSUME ConfsAssumption  == Confs \subseteq ConfType
ASSUME TickersAssumption == MaxTickers \in Nat

VARIABLES
    block,     (* the configured module list                               *)
    conf,      (* MEnv's settings                                          *)
    execOrder, (* MCore::init's running execution order                    *)
    modules,   (* the multimap modules_ in iteration order: ord is a key,  *)
               (* id the position of its module in the configuration       *)
    pc, k,     (* location of the main thread and its inner loop counter   *)
    market,    (* MEnv::market, as a position in MEnv::markets; 0 before the loops *)
    idate,     (* MEnv::idate, as a position in MEnv::idates; 0 before the loops   *)
    nTickers,  (* the length of MEnv::tickers                              *)
    thr,       (* the ticker threads                                       *)
    eday       (* the endDay threads, one per module                       *)

vars == <<block, conf, execOrder, modules, pc, k, market, idate, nTickers, thr, eday>>
setup == <<block, conf, execOrder, modules>>
env   == <<market, idate, nTickers>>

--------------------------------------------------------------------------------

NModules == Len(block)
Mods     == 1 .. NModules

(* Ticker threads.  Without multiThreadTicker the main thread runs the     *)
(* ticker loop itself: it is then the only member, 0.                      *)
Threads == IF conf.multiThreadTicker THEN 0 .. conf.nMaxThreadTicker - 1 ELSE {0}

(* The tickers loop_tickers runs over: tickersDebug when it is not empty.  *)
NLoop == IF conf.nTickersDebug > 0 THEN conf.nTickersDebug ELSE nTickers

(* A thread: at is where it is; inside a callback, tk is the position of   *)
(* its ticker, to the end of its slice and mod the module.                 *)
AtRest(at) == [at |-> at, tk |-> 0, to |-> 0, mod |-> 0]
Inside(at, tk, to, m) == [at |-> at, tk |-> tk, to |-> to, mod |-> m]

FromTo(from, to) ==
    IF from < to THEN Inside("beginTicker", from, to, 1) ELSE AtRest("done")

(* The modules that share an execution order with module m.                *)
Group(m) == {j \in Mods : modules[j].ord = modules[m].ord}
(* Mutant: threads for all the remaining modules, not for one group.       *)
LastOfGroupMutant(m) == m = NModules
LastOfGroup(m) == m = NModules \/ modules[m + 1].ord # modules[m].ord

(* The main thread runs module m's endDay itself.                          *)
Alone(m) == ~ conf.multiThreadModule \/ Group(m) = {m}

Goto(loc, n) == pc' = loc /\ k' = n

Init ==
    /\ block \in Blocks
    /\ conf \in Confs
    /\ execOrder = -1 /\ modules = <<>>
    /\ pc = "init" /\ k = 1
    /\ market = 0 /\ idate = 0 /\ nTickers = 0
    /\ thr = [i \in Threads |-> AtRest("none")]
    /\ eday = [m \in Mods |-> "none"]

--------------------------------------------------------------------------------
(* MCore::init: each module gets its configured execution order, or the    *)
(* next number; an order lower than the one before ends the process.       *)

(* multimap::insert places an entry after those with the same key.         *)
Insert(entries, e) ==
    LET n == Cardinality({j \in DOMAIN entries : entries[j].ord <= e.ord})
    IN  SubSeq(entries, 1, n) \o <<e>> \o SubSeq(entries, n + 1, Len(entries))

(* Mutant: a declared order lower than the previous one is accepted.       *)
InitModuleMutant ==
    /\ pc = "init"
    /\ execOrder' = IF block[k] >= 0 THEN block[k] ELSE execOrder + 1
    /\ modules' = Insert(modules, [ord |-> execOrder', id |-> k])
    /\ IF k < NModules THEN Goto("init", k + 1) ELSE Goto("beginJob", 1)
    /\ UNCHANGED <<block, conf, env, thr, eday>>

InitModule ==
    /\ pc = "init"
    /\ block[k] >= 0 => execOrder <= block[k]
    /\ execOrder' = IF block[k] >= 0 THEN block[k] ELSE execOrder + 1
    /\ modules' = Insert(modules, [ord |-> execOrder', id |-> k])
    /\ IF k < NModules THEN Goto("init", k + 1) ELSE Goto("beginJob", 1)
    /\ UNCHANGED <<block, conf, env, thr, eday>>

InitError ==
    /\ pc = "init"
    /\ block[k] >= 0 /\ execOrder > block[k]
    /\ Goto("exit", k)
    /\ UNCHANGED <<block, conf, execOrder, modules, env, thr, eday>>

--------------------------------------------------------------------------------
(* The loops over markets and dates.  Each Enter operator is what follows  *)
(* the last call of a loop: the next iteration, or what comes after it.    *)

EnterMarkets(m, after) ==
    IF m <= conf.nMarkets
    THEN market' = m /\ Goto("beginMarket", 1)
    ELSE Goto(after, 1) /\ UNCHANGED market

(* Mutants: one date too many, and the last date left out.                 *)
EnterIdatesOneMore(d, after) ==
    IF d <= conf.nIdates + 1
    THEN idate' = d /\ Goto("beginDay", 1)
    ELSE Goto(after, 1) /\ UNCHANGED idate

EnterIdatesOneLess(d, after) ==
    IF d < conf.nIdates
    THEN idate' = d /\ Goto("beginDay", 1)
    ELSE Goto(after, 1) /\ UNCHANGED idate

EnterIdates(d, after) ==
    IF d <= conf.nIdates
    THEN idate' = d /\ Goto("beginDay", 1)
    ELSE Goto(after, 1) /\ UNCHANGED idate

(* The callbacks that select tickers replace MEnv::tickers or, when they   *)
(* find none, leave the list of the previous market or day.                *)
SelectTickers == nTickers' \in 0 .. MaxTickers

BeginJob ==
    /\ pc = "beginJob"
    /\ IF k < NModules THEN Goto("beginJob", k + 1) /\ UNCHANGED <<market, idate>>
       ELSE IF conf.loopingOrder = "mdt"
            THEN EnterMarkets(1, "endJob") /\ UNCHANGED idate
            ELSE /\ IF conf.nMarkets > 0 THEN EnterIdates(1, "endJob")
                    ELSE Goto("endJob", 1) /\ UNCHANGED idate
                 /\ UNCHANGED market
    /\ UNCHANGED <<setup, nTickers, thr, eday>>

(* mdt: every module's beginMarket, then the dates.  dmt: each module's    *)
(* beginMarket is followed by its beginMarketDay.                          *)
BeginMarket ==
    /\ pc = "beginMarket"
    /\ IF conf.loopingOrder = "dmt" THEN Goto("beginMarketDay", k) /\ UNCHANGED idate
       ELSE IF k < NModules THEN Goto("beginMarket", k + 1) /\ UNCHANGED idate
            ELSE EnterIdates(1, "endMarket")
    /\ SelectTickers
    /\ UNCHANGED <<setup, market, thr, eday>>

(* mdt: each module's beginDay is followed by its beginMarketDay.  dmt:    *)
(* every module's beginDay, then the markets.                              *)
BeginDay ==
    /\ pc = "beginDay"
    /\ IF conf.loopingOrder = "mdt" THEN Goto("beginMarketDay", k) /\ UNCHANGED market
       ELSE IF k < NModules THEN Goto("beginDay", k + 1) /\ UNCHANGED market
            ELSE EnterMarkets(1, "endDay")
    /\ SelectTickers
    /\ UNCHANGED <<setup, idate, thr, eday>>

BeginMarketDay ==
    /\ pc = "beginMarketDay"
    /\ IF k < NModules
       THEN Goto(IF conf.loopingOrder = "mdt" THEN "beginDay" ELSE "beginMarket", k + 1)
       ELSE Goto("create", 0)
    /\ SelectTickers
    /\ UNCHANGED <<setup, market, idate, thr, eday>>

--------------------------------------------------------------------------------
(* loop_tickers: the main thread creates the ticker threads, or runs the   *)
(* whole list itself, and waits until all of them have ended.              *)

CreateThread ==
    /\ pc = "create" /\ conf.multiThreadTicker /\ k < conf.nMaxThreadTicker
    /\ thr' = [thr EXCEPT ![k] = AtRest("created")]
    /\ Goto("create", k + 1)
    /\ UNCHANGED <<setup, env, eday>>

AllCreated ==
    /\ pc = "create" /\ conf.multiThreadTicker /\ k = conf.nMaxThreadTicker
    /\ Goto("join", 0)
    /\ UNCHANGED <<setup, env, thr, eday>>

LoopTickersAlone ==
    /\ pc = "create" /\ ~ conf.multiThreadTicker
    /\ thr' = [thr EXCEPT ![0] = FromTo(0, NLoop)]
    /\ Goto("join", 0)
    /\ UNCHANGED <<setup, env, eday>>

JoinThread ==
    /\ pc = "join" /\ k \in Threads
    /\ thr[k].at = "done"
    /\ thr' = [thr EXCEPT ![k] = AtRest("none")]
    /\ Goto("join", k + 1)
    /\ UNCHANGED <<setup, env, eday>>

(* Mutant: only the first thread is waited for.                            *)
AllJoinedMutant ==
    /\ pc = "join" /\ k # 0
    /\ Goto("endMarketDay", 1)
    /\ UNCHANGED <<setup, env, thr, eday>>

AllJoined ==
    /\ pc = "join" /\ k \notin Threads
    /\ Goto("endMarketDay", 1)
    /\ UNCHANGED <<setup, env, thr, eday>>

(* loop_tickers_thread(i): reads MEnv::tickers and computes its slice.     *)
ThreadStart(i) ==
    LET T == conf.nMaxThreadTicker
        c == TickerEachThread(NLoop, T)
    IN  /\ thr[i].at = "created"
        /\ thr' = [thr EXCEPT ![i] =
               FromTo(Offset1(c, i),
                      IF Offset1(c, i) < NLoop THEN Offset2(NLoop, T, c, i) ELSE 0)]
        /\ UNCHANGED <<setup, pc, k, env, eday>>

(* Mutant: endTicker follows the first module's beginTicker.               *)
BeginTickerMutant(i) ==
    /\ thr[i].at = "beginTicker"
    /\ thr' = [thr EXCEPT ![i] = Inside("endTicker", @.tk, @.to, 1)]
    /\ UNCHANGED <<setup, pc, k, env, eday>>

(* loopModule(ticker): beginTicker of every module, in order ...           *)
BeginTicker(i) ==
    /\ thr[i].at = "beginTicker"
    /\ thr' = [thr EXCEPT ![i] =
           IF @.mod < NModules THEN Inside("beginTicker", @.tk, @.to, @.mod + 1)
           ELSE Inside("endTicker", @.tk, @.to, 1)]
    /\ UNCHANGED <<setup, pc, k, env, eday>>

(* ... then endTicker of every module, in order, and the next ticker.      *)
EndTicker(i) ==
    /\ thr[i].at = "endTicker"
    /\ thr' = [thr EXCEPT ![i] =
           IF @.mod < NModules THEN Inside("endTicker", @.tk, @.to, @.mod + 1)
           ELSE FromTo(@.tk + 1, @.to)]
    /\ UNCHANGED <<setup, pc, k, env, eday>>

--------------------------------------------------------------------------------
(* Ends of the market day, the day, the market and the job.                *)

EndMarketDay ==
    /\ pc = "endMarketDay"
    /\ IF conf.loopingOrder = "dmt" THEN Goto("endMarket", k)
       ELSE IF k < NModules THEN Goto("endMarketDay", k + 1) ELSE Goto("endDay", 1)
    /\ UNCHANGED <<setup, env, thr, eday>>

(* Mutant: the date iterator is not advanced.                              *)
NextDayMutant ==
    /\ EnterIdates(idate, IF conf.loopingOrder = "mdt" THEN "endMarket" ELSE "endJob")
    /\ UNCHANGED <<market, nTickers>>

(* What follows loop_endDay.                                               *)
NextDay ==
    /\ EnterIdates(idate + 1, IF conf.loopingOrder = "mdt" THEN "endMarket" ELSE "endJob")
    /\ UNCHANGED <<market, nTickers>>

(* endDay by the main thread: every module in turn, or the only module of  *)
(* its execution order.                                                    *)
EndDay ==
    /\ pc = "endDay"
    /\ Alone(k)
    /\ IF k < NModules THEN Goto("endDay", k + 1) /\ UNCHANGED env ELSE NextDay
    /\ UNCHANGED <<setup, thr, eday>>

(* A group of several modules: one thread each, then join_all.             *)
CreateEndDay ==
    /\ pc = "endDay" /\ ~ Alone(k)
    /\ eday' = [eday EXCEPT ![k] = "created"]
    /\ IF LastOfGroup(k) THEN Goto("joinEndDay", k) ELSE Goto("endDay", k + 1)
    /\ UNCHANGED <<setup, env, thr>>

EndDayStart(m) ==
    /\ eday[m] = "created"
    /\ eday' = [eday EXCEPT ![m] = "endDay"]
    /\ UNCHANGED <<setup, pc, k, env, thr>>

EndDayReturn(m) ==
    /\ eday[m] = "endDay"
    /\ eday' = [eday EXCEPT ![m] = "done"]
    /\ UNCHANGED <<setup, pc, k, env, thr>>

(* Mutant: the group's threads have started, but are not waited for.       *)
JoinEndDayMutant ==
    /\ pc = "joinEndDay"
    /\ \A m \in Group(k) : eday[m] # "created"
    /\ eday' = [m \in Mods |-> "none"]
    /\ IF k < NModules THEN Goto("endDay", k + 1) /\ UNCHANGED env ELSE NextDay
    /\ UNCHANGED <<setup, thr>>

JoinEndDay ==
    /\ pc = "joinEndDay"
    /\ \A m \in Group(k) : eday[m] = "done"
    /\ eday' = [m \in Mods |-> "none"]
    /\ IF k < NModules THEN Goto("endDay", k + 1) /\ UNCHANGED env ELSE NextDay
    /\ UNCHANGED <<setup, thr>>

(* Mutant: the market iterator is not advanced.                            *)
EndMarketMutant ==
    /\ pc = "endMarket"
    /\ IF k < NModules
       THEN /\ Goto(IF conf.loopingOrder = "mdt" THEN "endMarket" ELSE "endMarketDay", k + 1)
            /\ UNCHANGED market
       ELSE EnterMarkets(market, IF conf.loopingOrder = "mdt" THEN "endJob" ELSE "endDay")
    /\ UNCHANGED <<setup, idate, nTickers, thr, eday>>

EndMarket ==
    /\ pc = "endMarket"
    /\ IF k < NModules
       THEN /\ Goto(IF conf.loopingOrder = "mdt" THEN "endMarket" ELSE "endMarketDay", k + 1)
            /\ UNCHANGED market
       ELSE EnterMarkets(market + 1, IF conf.loopingOrder = "mdt" THEN "endJob" ELSE "endDay")
    /\ UNCHANGED <<setup, idate, nTickers, thr, eday>>

EndJob ==
    /\ pc = "endJob"
    /\ IF k < NModules THEN Goto("endJob", k + 1) ELSE Goto("end", 0)
    /\ UNCHANGED <<setup, env, thr, eday>>

(* The process has ended.                                                  *)
Terminated ==
    /\ pc \in {"end", "exit"}
    /\ UNCHANGED vars

--------------------------------------------------------------------------------

Main ==
    \/ InitModule \/ InitError \/ BeginJob \/ BeginMarket \/ BeginDay \/ BeginMarketDay
    \/ CreateThread \/ AllCreated \/ LoopTickersAlone \/ JoinThread \/ AllJoined
    \/ EndMarketDay \/ EndDay \/ CreateEndDay \/ JoinEndDay \/ EndMarket \/ EndJob

TickerThread(i) == ThreadStart(i) \/ BeginTicker(i) \/ EndTicker(i)

EndDayThread(m) == EndDayStart(m) \/ EndDayReturn(m)

Next ==
    \/ Main
    \/ \E i \in Threads : TickerThread(i)
    \/ \E m \in Mods : EndDayThread(m)
    \/ Terminated

Spec == Init /\ [][Next]_vars

(* Callbacks return, and the operating system runs every runnable thread.  *)
Fairness ==
    /\ WF_vars(Main)
    /\ WF_vars(\E i \in Threads : TickerThread(i))
    /\ WF_vars(\E m \in Mods : EndDayThread(m))

FairSpec == Spec /\ Fairness

================================================================================
