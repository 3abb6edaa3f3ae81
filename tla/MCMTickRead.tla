------------------------------ MODULE MCMTickRead ------------------------------
(* Instances of the tick reader for TLC. *)
EXTENDS MTickRead

Configured(read, given, own, nbboTrade, n) ==
    [ read |-> read, given |-> given,
      mktDirs |-> [s \in Sources |-> [m \in Markets |-> IF s \in given THEN own[m] ELSE {}]],
      nbboTrade |-> nbboTrade, nThreads |-> n ]

(* The directories: the defaults differ by kind and market, "c" is common. *)
Defaults == [ stocks |-> [A |-> {"sA", "c"}, B |-> {"sB"}],
              nbbo   |-> [A |-> {"nA"}, B |-> {"nB", "c"}],
              book   |-> [A |-> {}, B |-> {"bB"}] ]
AllMarkets == {"A", "B"}
AllDirs    == {"sA", "sB", "nA", "nB", "bB", "c", "own"}
OwnDirs    == [A |-> {"own"}, B |-> {"own", "c"}]

ReadConfs ==
    {Configured({"trade", "nbbo"}, {}, OwnDirs, "true", 2),
     Configured({"trade", "quote"}, {"trade"}, OwnDirs, "absent", 2),
     Configured({"quote", "order"}, {}, OwnDirs, "absent", 2),
     Configured({"quote", "order"}, {"quote"}, OwnDirs, "absent", 1)}
================================================================================
