-------------------------- MODULE MCDecisionTree --------------------------
(* DecisionTree for TLC.  Samples are numbers and, since nothing depends on  *)
(* which is which, in the order of their inputs: a sample's rank gives both, *)
(* and the second input has two values.                                      *)
EXTENDS DecisionTree

Ranks  == 0 .. 2 * Cardinality(Values) - 1
Rising == {[s \in Samples |-> Cardinality({v \in Ranks \ {0} : above[v] < s})] :
              above \in [Ranks \ {0} -> {0} \cup Samples]}

RankedInit == /\ x \in {[f \in Inputs |-> [s \in Samples |->
                          IF f = 0 THEN rank[s] \div 2 ELSE rank[s] % 2]] : rank \in Rising}
              /\ Init
RankedSpec == RankedInit /\ [][Next]_vars
=============================================================================
