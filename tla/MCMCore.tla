-------------------------------- MODULE MCMCore --------------------------------
(* Instances of the scheduler for TLC. *)
EXTENDS MCoreProperties, MCoreLifecycle

Settings(order, mtT, nT, mtM, nM, nD, nDebug) ==
    [ loopingOrder |-> order, multiThreadTicker |-> mtT, nMaxThreadTicker |-> nT,
      multiThreadModule |-> mtM, nMarkets |-> nM, nIdates |-> nD, nTickersDebug |-> nDebug ]

Orders == {"mdt", "dmt"}

(* Three modules, two of them in one execution group.                      *)
GroupedBlock == {<<-1, 1, 1>>}

(* Module lists with missing, repeated, increasing and decreasing orders.  *)
AllBlocks == UNION {[1 .. n -> {-1, 0, 1, 2}] : n \in 1 .. 3}

ThreadConfs ==
    {Settings(o, TRUE, nT, mtM, 2, 1, 0) : o \in Orders, nT \in 1 .. 2, mtM \in BOOLEAN}
SequentialConfs ==
    {Settings(o, FALSE, 0, mtM, nM, nD, nDebug) :
        o \in Orders, mtM \in BOOLEAN, nM \in 0 .. 2, nD \in 0 .. 2, nDebug \in {0, 1}}
LifecycleConfs == ThreadConfs \cup SequentialConfs

(* With nMaxThreadTicker = 0, atoi of a value that is not a number, no      *)
(* ticker is processed: the promise needs at least one thread.             *)
SafetyConfs ==
    {Settings(o, TRUE, nT, TRUE, 1, 2, 0) : o \in Orders, nT \in 1 .. 2}
    \cup {Settings(o, TRUE, 3, TRUE, 1, 1, nDebug) : o \in Orders, nDebug \in {0, 4}}

OrderConfs == {Settings(o, FALSE, 0, mtM, 1, 1, 1) : o \in Orders, mtM \in BOOLEAN}

PairBlock == {<<-1, -1>>, <<1, 1>>, <<1, 0>>}
LiveConfs == {Settings(o, TRUE, 2, TRUE, nM, nD, 0) : o \in Orders, nM \in 1 .. 2, nD \in 1 .. 2}

(* One run takes each block with the settings that make it interesting:    *)
(* threads and loops for a group, tickers for a pair, orders for the rest. *)
MCInstances == (GroupedBlock \X LifecycleConfs) \cup (PairBlock \X (SafetyConfs \cup LiveConfs))
                     \cup (AllBlocks \X OrderConfs)
AllConfs   == LifecycleConfs \cup SafetyConfs \cup OrderConfs \cup LiveConfs
MCInit == Init /\ <<block, conf>> \in MCInstances
MCSpec == MCInit /\ [][Next]_vars /\ Fairness
================================================================================
