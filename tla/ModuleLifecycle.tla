---------------------------- MODULE ModuleLifecycle ----------------------------
(***************************************************************************)
(* What the framework promises every module, whatever the looping order    *)
(* and the number of threads: the scopes of the begin and end callbacks    *)
(* are properly nested, a ticker callback happens only inside a market     *)
(* day, every module begins and ends every due ticker exactly once per     *)
(* market day, and data a module leaves for a ticker in beginTicker is     *)
(* still there when any other module begins that ticker: nobody ends a     *)
(* ticker before everybody has begun it.                                   *)
(***************************************************************************)
EXTENDS Integers, Sequences

VARIABLES
    open,      (* open[m]: the scopes module m is in, outermost first       *)
    ticking,   (* the ticker callbacks of a market day are under way        *)
    due,       (* the positions of the tickers of that market day           *)
    begun,     (* begun[m]: positions whose beginTicker m has entered       *)
    ended      (* ended[m]: positions whose endTicker m has entered         *)

lifecycle == <<open, ticking, due, begun, ended>>

Modules == DOMAIN open

MarketsFirst == <<"Job", "Market", "Day", "MarketDay">>
DatesFirst   == <<"Job", "Day", "Market", "MarketDay">>

Depth(m)   == Len(open[m])
Inside(m, scope) == Depth(m) > 0 /\ open[m][Depth(m)] = scope

Init ==
    /\ open = [m \in Modules |-> <<>>]
    /\ ticking = FALSE /\ due = {}
    /\ begun = [m \in Modules |-> {}] /\ ended = [m \in Modules |-> {}]

(* A module enters the next scope of one of the two looping orders, after  *)
(* the modules configured before it.                                       *)
BeginScope(m) ==
    /\ ~ ticking
    /\ \A j \in Modules : j < m => Depth(j) > Depth(m)
    /\ \E nest \in {MarketsFirst, DatesFirst} :
         /\ Depth(m) < 4 /\ open[m] = SubSeq(nest, 1, Depth(m))
         /\ open' = [open EXCEPT ![m] = SubSeq(nest, 1, Depth(m) + 1)]
    /\ UNCHANGED <<ticking, due, begun, ended>>

(* A module leaves a scope other than a market day.  It leaves a day or    *)
(* the job only when no module is in an inner scope any more.              *)
EndScope(m) ==
    /\ Depth(m) > 0 /\ ~ Inside(m, "MarketDay")
    /\ Inside(m, "Market") \/ Inside(m, "Job") => \A j \in Modules : j < m => Depth(j) < Depth(m)
    /\ Inside(m, "Day") \/ Inside(m, "Job") => \A j \in Modules : Depth(j) <= Depth(m)
    /\ open' = [open EXCEPT ![m] = SubSeq(@, 1, Depth(m) - 1)]
    /\ UNCHANGED <<ticking, due, begun, ended>>

(* Once every module has entered the market day its tickers are fixed.     *)
StartTickers ==
    /\ ~ ticking /\ \A m \in Modules : Inside(m, "MarketDay")
    /\ ticking' = TRUE /\ due' \in SUBSET Nat
    /\ UNCHANGED <<open, begun, ended>>

BeginTicker(m, t) ==
    /\ ticking /\ \A j \in Modules : Inside(j, "MarketDay")
    /\ t \in due \ begun[m]
    /\ \A j \in Modules : (j < m => t \in begun[j]) /\ t \notin ended[j]
    /\ begun' = [begun EXCEPT ![m] = @ \cup {t}]
    /\ UNCHANGED <<open, ticking, due, ended>>

EndTicker(m, t) ==
    /\ ticking /\ \A j \in Modules : Inside(j, "MarketDay")
    /\ t \notin ended[m]
    /\ \A j \in Modules : t \in begun[j] /\ (j < m => t \in ended[j])
    /\ ended' = [ended EXCEPT ![m] = @ \cup {t}]
    /\ UNCHANGED <<open, ticking, due, begun>>

(* A module leaves the market day after it has ended all of its tickers.   *)
EndMarketDay(m) ==
    LET last == \A j \in Modules \ {m} : ~ Inside(j, "MarketDay")
    IN  /\ ticking /\ Inside(m, "MarketDay")
        /\ begun[m] = due /\ ended[m] = due
        /\ \A j \in Modules : j < m => ~ Inside(j, "MarketDay")
        /\ open' = [open EXCEPT ![m] = SubSeq(@, 1, Depth(m) - 1)]
        /\ begun' = [begun EXCEPT ![m] = {}] /\ ended' = [ended EXCEPT ![m] = {}]
        /\ ticking' = ~ last /\ due' = IF last THEN {} ELSE due

Next ==
    \/ \E m \in Modules : BeginScope(m) \/ EndScope(m) \/ EndMarketDay(m)
    \/ StartTickers
    \/ \E m \in Modules, t \in due : BeginTicker(m, t) \/ EndTicker(m, t)

Spec == Init /\ [][Next]_lifecycle

================================================================================
