--------------------------- MODULE MCoreProperties ----------------------------
(***************************************************************************)
(* What the scheduler of MCore guarantees, beyond the lifecycle it         *)
(* promises to a module (MCoreLifecycle).                                  *)
(***************************************************************************)
EXTENDS MCore

Callbacks == {"beginJob", "beginMarket", "beginDay", "beginMarketDay",
              "endMarketDay", "endDay", "endMarket", "endJob"}

Locations == Callbacks \cup {"init", "create", "join", "joinEndDay", "end", "exit"}

ThreadType ==
    [ at : {"none", "created", "beginTicker", "endTicker", "done"},
      tk : Nat, to : Nat, mod : Nat ]

(* Type correctness of the scheduler's state.                              *)
TypeOK ==
    /\ block \in Blocks /\ conf \in Confs
    /\ execOrder \in Nat \cup {-1}
    /\ modules \in Seq([ord : Nat, id : Nat])
    /\ pc \in Locations /\ k \in Nat
    /\ market \in 0 .. conf.nMarkets /\ idate \in 0 .. conf.nIdates
    /\ nTickers \in 0 .. MaxTickers
    /\ thr \in [Threads -> ThreadType]
    /\ eday \in [Mods -> {"none", "created", "endDay", "done"}]

InTicker(i) == thr[i].at \in {"beginTicker", "endTicker"}
InEndDay(m) == eday[m] = "endDay" \/ (pc = "endDay" /\ k = m /\ Alone(m))

--------------------------------------------------------------------------------

(***************************************************************************)
(* The joins of loop_tickers and loop_endDay are barriers: the main thread *)
(* is inside a callback of its own only when every ticker thread and every *)
(* endDay thread has ended, so that endMarketDay, endDay and the next      *)
(* market day never run beside a ticker callback of the previous one.      *)
(***************************************************************************)
JoinBarrier ==
    /\ pc \notin {"create", "join"} => \A i \in Threads : thr[i].at = "none"
    /\ pc \in Callbacks \ {"endDay"} => \A m \in Mods : eday[m] = "none"
    /\ pc = "endDay" /\ Alone(k)  => \A m \in Mods : eday[m] = "none"

(***************************************************************************)
(* Ticker threads read MEnv's market, idate and tickers without a lock,    *)
(* each at a moment of its own; endDay threads read market and idate.      *)
(* None of them changes while such a thread is live.                       *)
(***************************************************************************)
EnvStable ==
    [][ \/ \E i \in Threads : thr[i].at # "none"
        \/ \E m \in Mods : eday[m] \in {"created", "endDay"}
        => UNCHANGED env ]_vars

(***************************************************************************)
(* Two ticker threads never have a position of the ticker list in common,  *)
(* neither the one they are at nor one still ahead of them: modules keep   *)
(* per-ticker data without a lock.                                         *)
(***************************************************************************)
NoSharedTicker ==
    \A i, j \in Threads :
        i # j /\ InTicker(i) /\ InTicker(j)
        => thr[i].to <= thr[j].tk \/ thr[j].to <= thr[i].tk

(***************************************************************************)
(* The endDay calls of two modules overlap only if multiThreadModule is    *)
(* set and the configuration wrote, for the later one and every module     *)
(* between them, the execution order of the earlier one.  A module with no *)
(* declared order never runs beside one configured before it.              *)
(***************************************************************************)
EndDayConcurrency ==
    \A m, n \in Mods :
        m < n /\ InEndDay(m) /\ InEndDay(n)
        => /\ conf.multiThreadModule
           /\ \A j \in m + 1 .. n : block[j] = modules[m].ord

(***************************************************************************)
(* The iteration order of the multimap modules_, which is the order every  *)
(* callback sweep uses, is the order the configuration lists the modules   *)
(* in, and a declared execution order is kept.                             *)
(***************************************************************************)
ConfiguredOrder ==
    pc \notin {"init", "exit"} =>
        /\ Len(modules) = NModules
        /\ \A m \in Mods : /\ modules[m].id = m
                           /\ block[m] >= 0 => modules[m].ord = block[m]

--------------------------------------------------------------------------------

(* The ticker loop of a market and date is under way, or has just ended.   *)
InMarketDay(a, b) == pc \in {"create", "join"} /\ market = a /\ idate = b
MarketDayOver(a, b) == pc = "endMarketDay" /\ market = a /\ idate = b

(***************************************************************************)
(* Once a job has begun, the ticker loop of every configured market and    *)
(* date is reached, in either looping order: no market day is skipped and  *)
(* no join waits for ever.                                                 *)
(***************************************************************************)
EveryMarketDay ==
    \A a, b \in 1 .. 2 :
        (pc = "beginJob" /\ a <= conf.nMarkets /\ b <= conf.nIdates) ~> InMarketDay(a, b)

(***************************************************************************)
(* The ticker loop of a market and date runs once: after the endMarketDay  *)
(* calls of it have begun, it is not run again.                            *)
(***************************************************************************)
MarketDayOnce ==
    \A a, b \in 1 .. 2 : [](MarketDayOver(a, b) => [] ~ InMarketDay(a, b))

(* The job ends: runImpl returns, or init rejects the configuration.       *)
Termination == <>(pc \in {"end", "exit"})

================================================================================
