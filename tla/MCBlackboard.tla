------------------------------ MODULE MCBlackboard -----------------------------
(* Instances of the scheduler with modules that share objects, for TLC. *)
EXTENDS Blackboard

Settings(order, T, mtM, nM, nD, n) ==
    [ loopingOrder |-> order, multiThreadTicker |-> T > 1, nMaxThreadTicker |-> T,
      multiThreadModule |-> mtM, nMarkets |-> nM, nIdates |-> nD, nTickersDebug |-> n ]

(* Two threads: the tickers 1, 1 | 2 of the list <<1, 1, 2>>, and 1 | 1 of *)
(* its first two, which are not apart.                                     *)
Tickers == <<1, 1, 2>>
AllKeys == {<<t, "nbbo">> : t \in 1 .. 2} \cup {Pred, Mid, Close}

SampleBlocks   == {<<-1, -1, -1>>}
SamplePrograms ==
    { <<"MTickRead", "MMakePredIndex", "MMakeSampleMicro">>,
      <<"MTickRead", "MMakeSampleMicro", "MMakePredIndex">>,
      <<"MTickRead", "MMakeSampleMicro", "MTickRead">>,
      <<"MMakeSampleMicro", "MTickRead", "MTickRead">> }
SampleConfs == {Settings(o, 2, FALSE, 1, 2, n) : o \in {"mdt", "dmt"}, n \in {2, 3}}

SimBlocks   == {<<-1, 1, 2>>, <<-1, 1, 1>>}
SimPrograms == { <<"MTickRead", "MPseudoTradePrep", "MFastSim">>,
                 <<"MTickRead", "MFastSim", "MPseudoTradePrep">> }
SimConfs == {Settings(o, T, TRUE, 2, 2, 3) : o \in {"mdt", "dmt"}, T \in {1, 2}}

(* One run over the module lists of both jobs, each with its settings.     *)
JobInstances == (SampleBlocks \X SampleConfs \X SamplePrograms)
                  \cup (SimBlocks \X SimConfs \X SimPrograms)
JobBlocks   == SampleBlocks \cup SimBlocks
JobConfs    == SampleConfs \cup SimConfs
JobPrograms == SamplePrograms \cup SimPrograms
JobInit == BlackboardInit /\ <<block, conf, program>> \in JobInstances
JobSpec == JobInit /\ [][BlackboardNext]_allVars
================================================================================
