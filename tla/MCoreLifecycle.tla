---------------------------- MODULE MCoreLifecycle -----------------------------
(***************************************************************************)
(* The refinement mapping from the scheduler to the promise it makes to    *)
(* modules.  The mapping is computed from the control state: a module has  *)
(* a scope open from the entry of its begin callback to the entry of its   *)
(* end callback.                                                           *)
(***************************************************************************)
EXTENDS MCore

Mdt == conf.loopingOrder = "mdt"

Nest == IF Mdt THEN <<"Job", "Market", "Day", "MarketDay">>
               ELSE <<"Job", "Day", "Market", "MarketDay">>

(* Module m has entered endDay of the current date.                        *)
LeftDay(m) ==
    IF eday[m] # "none" THEN eday[m] \in {"endDay", "done"}
    ELSE m < k \/ (m = k /\ Alone(k))

(* A sweep over the modules has reached module k: those up to it are at    *)
(* depth new, the others still at depth old.                               *)
Sweep(m, new, old) == IF m <= k THEN new ELSE old

DepthOf(m) ==
    CASE pc \in {"init", "exit", "end"}   -> 0
      [] pc = "beginJob"                  -> Sweep(m, 1, 0)
      [] pc = "beginMarket" /\ Mdt        -> Sweep(m, 2, 1)
      [] pc = "beginDay" /\ ~ Mdt         -> Sweep(m, 2, 1)
      [] pc = "beginDay" /\ Mdt           -> IF m = k THEN 3 ELSE Sweep(m, 4, 2)
      [] pc = "beginMarket" /\ ~ Mdt      -> IF m = k THEN 3 ELSE Sweep(m, 4, 2)
      [] pc = "beginMarketDay"            -> Sweep(m, 4, 2)
      [] pc \in {"create", "join"}        -> 4
      [] pc = "endMarketDay" /\ Mdt       -> Sweep(m, 3, 4)
      [] pc = "endMarketDay" /\ ~ Mdt     -> IF m = k THEN 3 ELSE Sweep(m, 2, 4)
      [] pc = "endMarket" /\ ~ Mdt        -> Sweep(m, 2, 4)
      [] pc \in {"endDay", "joinEndDay"}  -> (IF Mdt THEN 3 ELSE 2) - (IF LeftDay(m) THEN 1 ELSE 0)
      [] pc = "endMarket" /\ Mdt          -> Sweep(m, 1, 2)
      [] pc = "endJob"                    -> Sweep(m, 0, 1)

OpenScopes == [m \in Mods |-> SubSeq(Nest, 1, DepthOf(m))]

--------------------------------------------------------------------------------

SliceOf(i) ==
    IF conf.multiThreadTicker
    THEN Slice(NLoop, conf.nMaxThreadTicker, TickerEachThread(NLoop, conf.nMaxThreadTicker), i)
    ELSE 0 .. NLoop - 1

Before(i, t) == {p \in SliceOf(i) : p < t}

(* The ticker positions of thread i whose callback `at` module m entered.  *)
Entered(m, i, at) ==
    LET th == thr[i]
        here == IF (th.at = at /\ th.mod >= m) \/ (th.at = "endTicker" /\ at = "beginTicker")
                THEN {th.tk} ELSE {}
    IN  CASE th.at \in {"beginTicker", "endTicker"} -> Before(i, th.tk) \cup here
          [] th.at = "done"    -> SliceOf(i)
          [] th.at = "created" -> {}
          [] th.at = "none"    -> IF pc = "create" THEN {} ELSE SliceOf(i)

Ticking == \E m \in Mods : DepthOf(m) = 4 /\ pc \notin {"beginDay", "beginMarket", "beginMarketDay"}

TickersOf(at) ==
    [m \in Mods |-> IF Ticking /\ DepthOf(m) = 4
                    THEN UNION {Entered(m, i, at) : i \in Threads} ELSE {}]

Lifecycle == INSTANCE ModuleLifecycle WITH
    open    <- OpenScopes,
    ticking <- Ticking,
    due     <- IF Ticking THEN 0 .. NLoop - 1 ELSE {},
    begun   <- TickersOf("beginTicker"),
    ended   <- TickersOf("endTicker")

(***************************************************************************)
(* The scheduler implements the promise: scopes nest, tickers run inside   *)
(* market days only, every module begins and ends every ticker exactly     *)
(* once, and no module ends a ticker that another has yet to begin.        *)
(***************************************************************************)
ImplementsLifecycle == Lifecycle!Spec

================================================================================
