------------------------------- MODULE FastSim -------------------------------
(***************************************************************************)
(* The fast simulation of a trading strategy (gtlib_fastsim: FastSim and   *)
(* its FastSimNet and FastSimSimple), day after day.  endDay reads the     *)
(* samples of the day (getData) and runs getOvernightInfo, getIntradayInfo *)
(* and getEnddayInfo over them.  The prediction, its threshold and the     *)
(* restoring force only decide the side of a sample, which is any here;    *)
(* prices are whole dollars.  Positions, dollar positions and their limits *)
(* are exact, and of the statistics the close to close profit is kept.     *)
(***************************************************************************)
EXTENDS Integers, FiniteSets, FiniteSetsExt

CONSTANTS Tickers, Uids, None,
          Prices, Sizes, Returns,  \* of samples and closes, of quotes, overnight
          Adjusts,                 \* price adjustments of the next day, in hundredths
          MaxTicker, MaxNet,       \* maxDollarPosTicker_, maxDollarPosNet_; 0 is no limit
          MaxShr,                  \* maxShrTrade_
          Kinds,                   \* among "net" and "simple"
          MaxSamples, MaxDays      \* bounds of the model: samples of a day, days

ASSUME SimAssumption ==
    /\ IsFiniteSet(Tickers) /\ Prices \subseteq Nat \ {0} /\ Sizes \subseteq Nat
    /\ Returns \subseteq Int /\ Adjusts \subseteq Nat
    /\ MaxTicker \in Nat /\ MaxNet \in Nat /\ MaxShr \in Nat
    /\ MaxSamples \in Nat /\ MaxDays \in Nat
    /\ None \notin Uids /\ None \notin Tickers
    /\ Kinds \subseteq {"net", "simple"}

VARIABLES kind,    \* the class of the simulation
          phase,   \* the loop of endDay that runs: over the positions carried
                   \* in, the samples or the positions at the close; or "between"
          uid,     \* mTicker2Uid, None where it has no entry
          info,    \* mClose
          sampled, \* tickers whose samples getIntradayInfo has yet to finish
          pos,     \* mTickerData_[ticker].pos
          close,   \* mTickerData_[ticker].close
          net,     \* netDollarPos_
          clcl,    \* clcl of the day's statistics
          sample,  \* the sample of the last turn of the loop
          last,    \* lastSide and lastPrice of FastSimSimple
          left, sum, \* of a loop over mTickerData_: tickers to come, dollar sum
          count, days

vars == <<kind, phase, uid, info, sampled, pos, close, net, clcl, sample, last,
          left, sum, count, days>>

\* mTickerData_ has the tickers that ever had samples.
Held == DOMAIN pos

Closes == [close : Prices, retclcl : Returns, adjust : Adjusts]
NoLast == [side |-> 0, price |-> 0]
NoSample == [ticker |-> None, price |-> 0]
\* The loops over mTickerData_ take the tickers in one order.
First(set) == CHOOSE t \in set : TRUE
Known(t) == uid[t] \in DOMAIN info

Init ==
    /\ kind \in Kinds
    /\ phase = "between" /\ uid = [t \in Tickers |-> None] /\ info = <<>>
    /\ sampled = {} /\ pos = <<>> /\ close = <<>> /\ net = 0 /\ clcl = 0
    /\ sample = NoSample
    /\ last = NoLast /\ left = {} /\ sum = 0 /\ count = 0 /\ days = 0

\* Mutant: a ticker that was never traded gets no entry.
BeginDayMutant ==
    /\ phase = "between" /\ days < MaxDays
    /\ uid' \in [Tickers -> Uids \cup {None}]
    /\ \E known \in SUBSET Uids : info' \in [known -> Closes]
    /\ sampled' \in SUBSET {t \in Tickers : uid'[t] # None}
    /\ phase' = "overnight" /\ left' = Held /\ clcl' = 0
    /\ count' = 0 /\ days' = days + 1 /\ last' = NoLast
    /\ UNCHANGED <<kind, net, sum, sample, pos, close>>

\* endDay up to its loops: getData makes an entry for every ticker that has a
\* uid and mid prices.
BeginDay ==
    /\ phase = "between" /\ days < MaxDays
    /\ uid' \in [Tickers -> Uids \cup {None}]
    /\ \E known \in SUBSET Uids : info' \in [known -> Closes]
    /\ sampled' \in SUBSET {t \in Tickers : uid'[t] # None}
    /\ pos' = [t \in Held \cup sampled' |-> IF t \in Held THEN pos[t] ELSE 0]
    /\ close' = [t \in Held \cup sampled' |-> IF t \in Held THEN close[t] ELSE 0]
    /\ phase' = "overnight" /\ left' = Held \cup sampled' /\ clcl' = 0
    /\ count' = 0 /\ days' = days + 1 /\ last' = NoLast
    /\ UNCHANGED <<kind, net, sum, sample>>

\* Mutant: only positions that are not traded today have a profit of the night.
CarryMutant(t) ==
    /\ phase = "overnight" /\ left # {} /\ t = First(left)
    /\ left' = left \ {t}
    /\ IF Known(t) /\ t \notin sampled
       THEN /\ clcl' = clcl + pos[t] * info[uid[t]].retclcl * info[uid[t]].close
            /\ close' = [close EXCEPT ![t] = info[uid[t]].close]
       ELSE UNCHANGED <<clcl, close>>
    /\ UNCHANGED <<kind, phase, uid, info, sampled, pos, net, sample, last, sum, count, days>>

\* A turn of getOvernightInfo: the profit of a position carried into the day.
Carry(t) ==
    /\ phase = "overnight" /\ left # {} /\ t = First(left)
    /\ left' = left \ {t}
    /\ IF Known(t)
       THEN /\ clcl' = clcl + pos[t] * info[uid[t]].retclcl * info[uid[t]].close
            /\ close' = [close EXCEPT ![t] = info[uid[t]].close]
       ELSE UNCHANGED <<clcl, close>>
    /\ UNCHANGED <<kind, phase, uid, info, sampled, pos, net, sample, last, sum, count, days>>

BeginSamples ==
    /\ phase = "overnight" /\ left = {}
    /\ phase' = "samples"
    /\ UNCHANGED <<kind, uid, info, sampled, pos, close, net, clcl, sample, last,
                   left, sum, count, days>>

Abs(n) == IF n < 0 THEN -n ELSE n
Least(a, b) == IF a <= b THEN a ELSE b

\* Mutant: what is left of the limit is counted from the other side.
SharesMutant(side, allowed, price, dolPos, max) ==
    IF max <= 0 THEN allowed
    ELSE IF Abs(dolPos) < max THEN Least(allowed, (max + side * dolPos) \div price)
    ELSE IF side * dolPos < -max THEN Least(allowed, max \div price)
    ELSE 0

\* SampleData::getShrTrd for one limit: inside it, what is left; beyond it, what
\* reduces the position; at it, nothing.
Shares(side, allowed, price, dolPos, max) ==
    IF max <= 0 THEN allowed
    ELSE IF Abs(dolPos) < max THEN Least(allowed, (max - side * dolPos) \div price)
    ELSE IF side * dolPos < -max THEN Least(allowed, max \div price)
    ELSE 0

\* getDPos of a sample with a side: both limits, the smaller number of shares.
DPos(side, size, price, p) ==
    LET allowed == Least(size, MaxShr)
    IN side * Least(Shares(side, allowed, price, p * price, MaxTicker),
                    Shares(side, allowed, price, net, MaxNet))

Traded(t, d, price) ==
    /\ pos' = [pos EXCEPT ![t] = @ + d]
    /\ clcl' = clcl + d * info[uid[t]].retclcl * info[uid[t]].close
    /\ sample' = [ticker |-> t, price |-> price]
    /\ count' = count + 1
    /\ UNCHANGED <<kind, phase, uid, info, close, left, sum, days>>

\* Mutant: the net position grows by what was traded, whatever the side.
TradeNetMutant(t, side, size, price) ==
    /\ phase = "samples" /\ kind = "net" /\ count < MaxSamples
    /\ t \in sampled /\ Known(t)
    /\ LET d == DPos(side, size, price, pos[t])
       IN Traded(t, d, price) /\ net' = net + Abs(d) * price
    /\ UNCHANGED <<sampled, last>>

\* A sample of FastSimNet::getIntradayInfo: the samples of all tickers in the
\* order of their times.
TradeNet(t, side, size, price) ==
    /\ phase = "samples" /\ kind = "net" /\ count < MaxSamples
    /\ t \in sampled /\ Known(t)
    /\ LET d == DPos(side, size, price, pos[t])
       IN Traded(t, d, price) /\ net' = net + d * price
    /\ UNCHANGED <<sampled, last>>

\* A sample of FastSimSimple::getIntradayInfo: ticker after ticker, repeated
\* trades are skipped, and the net position stays that of the day before.
TradeSimple(t, side, size, price) ==
    /\ phase = "samples" /\ kind = "simple" /\ count < MaxSamples
    /\ t \in sampled /\ Known(t)
    /\ sample.ticker \notin sampled \/ sample.ticker = t
    /\ LET d == DPos(side, size, price, pos[t])
           repeat == last.side * d > 0 /\ last.price = price
       IN /\ Traded(t, IF repeat THEN 0 ELSE d, price)
          /\ last' = IF d = 0 \/ repeat THEN last ELSE [side |-> side, price |-> price]
    /\ UNCHANGED <<sampled, net>>

\* The loop of FastSimSimple over tickers goes on; lastSide and lastPrice are new.
NextTicker ==
    /\ phase = "samples" /\ kind = "simple"
    /\ \E t \in sampled : /\ sample.ticker \notin sampled \/ sample.ticker = t
                          /\ sampled' = sampled \ {t}
    /\ last' = NoLast
    /\ UNCHANGED <<kind, phase, uid, info, pos, close, net, clcl, sample, left, sum, count, days>>

\* int *= double: the product is truncated towards zero.
Scaled(p, adjust) == IF p < 0 THEN -((-p * adjust) \div 100) ELSE (p * adjust) \div 100
Splits(ci) == ci.adjust < 70 \/ ci.adjust > 130

EndSamples ==
    /\ phase = "samples" /\ (kind = "net" \/ sampled = {})
    /\ phase' = "close" /\ left' = Held /\ sum' = 0 /\ sampled' = {}
    /\ sample' = NoSample /\ last' = NoLast
    /\ UNCHANGED <<kind, uid, info, pos, close, net, clcl, count, days>>

\* The loop of getEnddayInfo over mTickerData_: sumSgnDolPos.
Mark(t) ==
    /\ phase = "close" /\ left # {} /\ t = First(left)
    /\ left' = left \ {t} /\ sum' = sum + pos[t] * close[t]
    /\ UNCHANGED <<kind, phase, uid, info, sampled, pos, close, net, clcl, sample, last, count, days>>

\* The end of getEnddayInfo: positions adjusted by the entries of mClose, whose
\* keys are looked up in mTickerData_, and the net position at the closes.
EndDay ==
    /\ phase = "close" /\ left = {}
    /\ net' = sum
    /\ pos' = [k \in Held |-> IF k \in DOMAIN info /\ Splits(info[k])
                              THEN Scaled(pos[k], info[k].adjust) ELSE pos[k]]
    /\ phase' = "between" /\ uid' = [t \in Tickers |-> None] /\ info' = <<>>
    /\ clcl' = 0 /\ sum' = 0 /\ count' = 0
    /\ UNCHANGED <<kind, sampled, close, sample, last, left, days>>

Next ==
    \/ BeginDay \/ BeginSamples \/ EndSamples \/ NextTicker \/ EndDay
    \/ \E t \in Tickers : Carry(t) \/ Mark(t)
    \/ \E t \in Tickers, side \in {-1, 1}, size \in Sizes, price \in Prices :
           TradeNet(t, side, size, price) \/ TradeSimple(t, side, size, price)

Spec == Init /\ [][Next]_vars
-----------------------------------------------------------------------------
TypeOK ==
    /\ kind \in Kinds /\ phase \in {"between", "overnight", "samples", "close"}
    /\ uid \in [Tickers -> Uids \cup {None}] /\ DOMAIN info \subseteq Uids
    /\ \A u \in DOMAIN info : info[u] \in Closes
    /\ Held \subseteq Tickers /\ pos \in [Held -> Int] /\ close \in [Held -> Nat]
    /\ sampled \subseteq Held /\ left \subseteq Held
    /\ net \in Int /\ clcl \in Int /\ sum \in Int
    /\ sample.ticker \in Tickers \cup {None} /\ sample.price \in Nat

\* What a trade may make of a dollar position a under a limit: within the limit
\* it stays within, and beyond it it comes closer without changing sides.
Respects(a, b, max) ==
    \/ max = 0 \/ a = b
    \/ Abs(a) < max /\ Abs(b) <= max
    \/ a > max /\ 0 < b /\ b < a
    \/ a < -max /\ b < 0 /\ a < b

\* A trade respects the limit of its ticker at its price: getShrTrd is asked for
\* two limits at once, with positions that other trades and other days' prices
\* have moved past them.
TickerLimitHeld ==
    [][\A t \in Tickers : phase = "samples" /\ phase' = "samples" /\ t = sample'.ticker =>
            Respects(pos[t] * sample'.price, pos'[t] * sample'.price, MaxTicker)]_vars

\* The net dollar position of FastSimNet, which trades of all tickers share,
\* respects its limit in the same way.
NetLimitHeld ==
    [][kind = "net" /\ phase = "samples" /\ phase' = "samples" =>
            Respects(net, net', MaxNet)]_vars

\* The close to close profit of the positions of the tickers known today.
Profit == [t \in {h \in Held : Known(h)} |->
               pos[t] * info[uid[t]].retclcl * info[uid[t]].close]

\* The close to close profit of a day, added up from the positions carried in
\* and from each trade, is that of the positions carried out.
ProfitOfPositions ==
    phase \in {"samples", "close"} =>
        clcl = MapThenSumSet(LAMBDA t : Profit[t], DOMAIN Profit)
=============================================================================
