------------------------------- MODULE MTickRead -------------------------------
(***************************************************************************)
(* MTickRead: where ticks are read from, and the readers of each thread.   *)
(*                                                                         *)
(* On a market day set_directories picks the directories of every source.  *)
(* With one thread all tickers are read by one reader per source; with     *)
(* several, a thread makes its own in std::map's indexed by thread id:     *)
(* mta (mtaQ_ ...) for access, mts (mtsQ_ ...) for the series.  The maps   *)
(* are searched without their mutex and changed under one.  A search and   *)
(* a change therefore take two steps here, their start and their end.      *)
(***************************************************************************)
EXTENDS Naturals, FiniteSets

CONSTANTS
    Markets, Dirs,
    Tids,          (* thread ids; an id is given again to a later thread   *)
    Confs,         (* configurations of the module                         *)
    DefaultDirs,   (* DefaultDirs[kind][market]: what TickSources answers  *)
    MaxDays        (* bound on the number of market days                   *)

Sources == {"trade", "quote", "nbbo", "order"}
Kinds   == {"stocks", "nbbo", "book"}

(* read: the sources to read; given: those with directories of their own,  *)
(* mktDirs; nbboTrade: the entry of that name, or "absent".                *)
ConfType ==
    [ read : SUBSET Sources, given : SUBSET Sources,
      mktDirs : [Sources -> [Markets -> SUBSET Dirs]],
      nbboTrade : {"true", "false", "absent"}, nThreads : Nat ]

ASSUME ConfsAssumption == Confs \subseteq ConfType
ASSUME DefaultAssumption == DefaultDirs \in [Kinds -> [Markets -> SUBSET Dirs]]

VARIABLES
    conf, nbbo_trade,
    days,     (* the market days begun                                     *)
    phase,    (* "between" market days, or the "tickers" of one            *)
    market,
    dirs,     (* si<Source>_.dirs                                          *)
    ta,       (* ta<Source>_: the roots of the reader of the main thread   *)
    mta,      (* mta[s][t]: the roots of thread t's reader, if t \in DOMAIN *)
    mts,      (* mts[s]: the threads that have a series                    *)
    lock,     (* lock[x]: the thread that holds the mutex of the map x     *)
    thr       (* the threads: what each is doing                           *)

vars == <<conf, nbbo_trade, days, phase, market, dirs, ta, mta, mts, lock, thr>>

Maps == {"mta", "mts"} \X Sources

(* A thread at work on the map x, or on its way; `left` are the sources    *)
(* this ticker has yet to read, `add` the roots yet to be added, and       *)
(* `again` tells the second search of get_TickAccess from the first.       *)
Idle == [at |-> "idle", x |-> <<"mta", "trade">>, left |-> {}, add |-> {}, again |-> FALSE]

NoThread == "nobody"

MultiThread == conf.nThreads > 1

Empty == [t \in {} |-> {}]

Init ==
    /\ conf \in Confs
    (* The constructor sets nbbo_trade_ only if the configuration does.    *)
    /\ nbbo_trade \in CASE conf.nbboTrade = "true" -> {TRUE}
                        [] conf.nbboTrade = "false" -> {FALSE}
                        [] conf.nbboTrade = "absent" -> BOOLEAN
    /\ days = 0 /\ phase = "between" /\ market \in Markets
    /\ dirs = [s \in Sources |-> {}]
    /\ ta = [s \in Sources |-> {}]
    /\ mta = [s \in Sources |-> Empty] /\ mts = [s \in Sources |-> {}]
    /\ lock = [x \in Maps |-> NoThread]
    /\ thr = [t \in Tids |-> Idle]

--------------------------------------------------------------------------------
(* Directories.                                                            *)

KindOf == [trade |-> "nbbo", quote |-> "stocks", nbbo |-> "nbbo", order |-> "book"]

Listed(s, m) ==
    IF s \in conf.given THEN conf.mktDirs[s][m] ELSE DefaultDirs[KindOf[s]][m]

(* Trades come from the nbbo's directories, from their own, or, where the  *)
(* quotes' are given, from the trades' entry, which is then empty.         *)
set_directories(m) ==
    LET others == [s \in Sources |-> IF s \in conf.read \ {"trade"} THEN Listed(s, m) ELSE dirs[s]]
        trade  == CASE nbbo_trade -> others["nbbo"]
                    [] ~ nbbo_trade /\ {"trade", "quote"} \cap conf.given # {} -> conf.mktDirs["trade"][m]
                    [] OTHER -> DefaultDirs["nbbo"][m]
    IN  dirs' = [others EXCEPT !["trade"] = IF "trade" \in conf.read THEN trade ELSE @]

BeginMarketDay(m) ==
    /\ phase = "between" /\ days < MaxDays
    /\ days' = days + 1 /\ phase' = "tickers" /\ market' = m
    /\ set_directories(m)
    /\ ta' = [s \in Sources |-> IF s \in conf.read THEN ta[s] \cup dirs'[s] ELSE ta[s]]
    /\ UNCHANGED <<conf, nbbo_trade, mta, mts, lock, thr>>

(* The ticker threads have been joined.                                    *)
(* Mutant: the readers of the threads are kept.                            *)
EndMarketDayMutant ==
    /\ phase = "tickers" /\ \A t \in Tids : thr[t].at = "idle"
    /\ phase' = "between"
    /\ ta' = [s \in Sources |-> {}]
    /\ mts' = [s \in Sources |-> {}]
    /\ UNCHANGED <<conf, nbbo_trade, days, market, dirs, mta, lock, thr>>

EndMarketDay ==
    /\ phase = "tickers" /\ \A t \in Tids : thr[t].at = "idle"
    /\ phase' = "between"
    /\ ta' = [s \in Sources |-> {}]
    /\ mta' = [s \in Sources |-> Empty] /\ mts' = [s \in Sources |-> {}]
    /\ UNCHANGED <<conf, nbbo_trade, days, market, dirs, lock, thr>>

--------------------------------------------------------------------------------
(* beginTicker in thread t: for each source find or make the reader and    *)
(* the series, read, and hand the ticks over.                              *)

Order == <<"trade", "quote", "nbbo", "order">>
FirstOf(left) == Order[CHOOSE i \in 1 .. 4 : Order[i] \in left /\ \A j \in 1 .. i - 1 : Order[j] \notin left]

At(t, at, x) == thr' = [thr EXCEPT ![t].at = at, ![t].x = x, ![t].again = FALSE]

(* The thread turns to the sources left, or returns.                       *)
Proceed(t, left) ==
    thr' = [thr EXCEPT ![t] =
        IF left = {} THEN Idle
        ELSE [at |-> IF MultiThread THEN "find" ELSE "read",
              x |-> <<"mta", FirstOf(left)>>, left |-> left, add |-> {}, again |-> FALSE]]

state == <<conf, nbbo_trade, days, phase, market, dirs, ta>>

BeginTicker(t) ==
    /\ phase = "tickers" /\ thr[t].at = "idle"
    /\ MultiThread \/ \A u \in Tids : thr[u].at = "idle"
    /\ conf.read # {} /\ Proceed(t, conf.read)
    /\ UNCHANGED <<state, mta, mts, lock>>

StartFind(t) ==
    /\ thr[t].at = "find"
    /\ thr' = [thr EXCEPT ![t].at = "finding"]
    /\ UNCHANGED <<state, mta, mts, lock>>

HasEntry(x, t) == IF x[1] = "mta" THEN t \in DOMAIN mta[x[2]] ELSE t \in mts[x[2]]

(* Another thread is changing the map t searches.                          *)
Raced(t) == \E u \in Tids \ {t} : thr[u].at = "inserting" /\ thr[u].x = thr[t].x

(* The entry is found: from the reader to the series, from there to the ticks. *)
Find(t) ==
    LET x == thr[t].x
    IN  /\ thr[t].at = "finding" /\ HasEntry(x, t)
        /\ IF x[1] = "mta" THEN At(t, "find", <<"mts", x[2]>>) ELSE At(t, "read", x)
        /\ UNCHANGED <<state, mta, mts, lock>>

(* No entry, or a search that misses it while the map is being changed.    *)
(* get_TickAccess adds the source's directories one by one and searches    *)
(* again, without a test of the result: "end" is the use of map::end().    *)
(* get_TickSeries makes an empty series.                                   *)
FindNothing(t) ==
    LET x == thr[t].x
        add == IF x[1] = "mta" THEN dirs[x[2]] ELSE {}
    IN  /\ thr[t].at = "finding" /\ (~ HasEntry(x, t) \/ Raced(t))
        /\ thr' = [thr EXCEPT ![t].add = add,
               ![t].at = IF x[1] = "mta" /\ (thr[t].again \/ add = {}) THEN "end" ELSE "insert"]
        /\ UNCHANGED <<state, mta, mts, lock>>

(* The mutex of a map; get_TickSeries_quote takes the one of the orders.   *)
MutexOf(x) == IF x = <<"mts", "quote">> THEN <<"mts", "order">> ELSE x

Lock(t) ==
    /\ thr[t].at = "insert" /\ lock[MutexOf(thr[t].x)] = NoThread
    /\ lock' = [lock EXCEPT ![MutexOf(thr[t].x)] = t]
    /\ thr' = [thr EXCEPT ![t].at = "inserting"]
    /\ UNCHANGED <<state, mta, mts>>

Unlock(t) == lock' = [lock EXCEPT ![MutexOf(thr[t].x)] = NoThread]

(* Mutant: the mutex is not given back when a series has been made.        *)
MakeSeriesMutant(t) ==
    /\ thr[t].at = "inserting" /\ thr[t].x[1] = "mts"
    /\ mts' = [mts EXCEPT ![thr[t].x[2]] = @ \cup {t}]
    /\ At(t, "read", thr[t].x)
    /\ UNCHANGED <<state, mta, lock>>

MakeSeries(t) ==
    /\ thr[t].at = "inserting" /\ thr[t].x[1] = "mts"
    /\ mts' = [mts EXCEPT ![thr[t].x[2]] = @ \cup {t}]
    /\ At(t, "read", thr[t].x)
    /\ Unlock(t)
    /\ UNCHANGED <<state, mta>>

AddRoot(t, d) ==
    LET s == thr[t].x[2]
        old == IF t \in DOMAIN mta[s] THEN mta[s][t] ELSE {}
    IN  /\ thr[t].at = "inserting" /\ thr[t].x[1] = "mta" /\ d \in thr[t].add
        /\ mta' = [mta EXCEPT ![s] = [u \in DOMAIN @ \cup {t} |-> IF u = t THEN old \cup {d} ELSE @[u]]]
        /\ thr' = [thr EXCEPT ![t].add = @ \ {d}, ![t].again = TRUE,
               ![t].at = IF thr[t].add = {d} THEN "find" ELSE "insert"]
        /\ Unlock(t)
        /\ UNCHANGED <<state, mts>>

(* GetTickSeries and add_tickdata with the reader found.                   *)
Read(t) ==
    /\ thr[t].at = "read"
    /\ Proceed(t, thr[t].left \ {thr[t].x[2]})
    /\ UNCHANGED <<state, mta, mts, lock>>

Thread(t) ==
    \/ StartFind(t) \/ Find(t) \/ FindNothing(t) \/ Lock(t) \/ MakeSeries(t) \/ Read(t)
    \/ \E d \in Dirs : AddRoot(t, d)

(* The job stops after the last market day, or when a thread has used      *)
(* map::end().                                                             *)
Next ==
    \/ \E m \in Markets : BeginMarketDay(m)
    \/ EndMarketDay
    \/ \E t \in Tids : BeginTicker(t) \/ Thread(t)

Spec == Init /\ [][Next]_vars

(* The operating system runs every thread.                                 *)
FairSpec == Spec /\ \A t \in Tids : WF_vars(Thread(t))

--------------------------------------------------------------------------------

Roots(t) == IF MultiThread THEN mta[thr[t].x[2]][t] ELSE ta[thr[t].x[2]]

(***************************************************************************)
(* A thread reads a source from the directories set for the current market *)
(* day, all of them and no others, whatever the market days and threads    *)
(* before it were: thread ids are reused, and readers keep their roots.    *)
(***************************************************************************)
RootsCurrent == \A t \in Tids : thr[t].at = "read" => Roots(t) = dirs[thr[t].x[2]]

(***************************************************************************)
(* A beginTicker call returns, unless a thread has used map::end(): no     *)
(* mutex is waited for in vain.                                            *)
(***************************************************************************)
TickerReturns ==
    \A t \in Tids :
        thr[t].at # "idle" ~> thr[t].at = "idle" \/ \E u \in Tids : thr[u].at = "end"

(***************************************************************************)
(* MTickRead.h says of the maps that they are "Used to read tickdata in a  *)
(* multi thread mode": a thread must not change one while another searches *)
(* it.                                                                     *)
(***************************************************************************)
MapsThreadSafe ==
    \A t, u \in Tids :
        thr[t].at = "finding" /\ thr[u].at = "inserting" => thr[t].x # thr[u].x

================================================================================
