--------------------------- MODULE DecisionTree ---------------------------
(***************************************************************************)
(* How gtlib_fitting grows one regression tree after another (class        *)
(* DecisionTreeRegression, its Force and Prune variants, and the loop of   *)
(* BoostedDecisionTree over them).  A level is one pass: statistics of the *)
(* new nodes, a cut for each, children for those that may split, and a new *)
(* node for every sample.  The threads of a pass write disjoint elements   *)
(* and are joined before the next pass, so a pass is one step; deviances   *)
(* are floating point numbers, so which admissible cut is best is any.     *)
(* An operation of undefined effect (an input of index -1, a null pointer, *)
(* a failed assertion) leads to pc = "undefined", where nothing is known.  *)
(***************************************************************************)
EXTENDS Integers, FiniteSets

CONSTANTS Samples, Inputs, Values, \* sample points, input fields and their values
          MaxLeafNodes, MinPtsNode, MaxTreeLevels,
          Kinds,                   \* among "plain", "force" and "prune"
          ForceInput, NForceCutLevels,
          Reduction,               \* setPrune's argument, in hundredths
          Garbage                  \* what an uninitialised leftMax may hold

MaxNodes == MaxLeafNodes * 2 - 1

ASSUME TreeAssumption ==
    /\ IsFiniteSet(Samples) /\ Values \subseteq Int /\ Garbage \subseteq Int
    /\ Inputs \subseteq Nat
    /\ MaxLeafNodes \in Nat \ {0} /\ MinPtsNode \in Nat \ {0}
    /\ MaxTreeLevels \in Nat /\ NForceCutLevels \subseteq Nat /\ Reduction \in Nat
    /\ Kinds \subseteq {"plain", "force", "prune"}
    /\ ForceInput \in Inputs

VARIABLES x,          \* the input values of the samples
          nForceCutLevel, \* nForceCutLevel_ of all the forced trees
          kind,       \* the class of the tree
          pc, level,  \* the pass to come, and il of fit
          nodes,      \* nodes_, by number
          where,      \* viNode_: the node of each sample
          begin, end, \* iNodeBegin_, iNodeEnd_
          i, newEnd,  \* locals of fit_node_create
          prunable,   \* mDiffInode, without the order of its keys
          nPrune      \* nodes still to prune

vars == <<x, nForceCutLevel, kind, pc, level, nodes, where, begin, end, i, newEnd,
          prunable, nPrune>>

None == -1
Node(lvl, par, lm) == [left |-> None, right |-> None, parent |-> par, level |-> lvl,
                       indnum |-> -1, leftMax |-> lm, input |-> None, cut |-> 0]
New == begin .. end - 1
Leaf(z) == nodes[z].left = None
In(z) == {s \in Samples : where[s] = z}

\* The constructor of the root sets leftMax, that of a child does not.
Init ==
    /\ x \in [Inputs -> [Samples -> Values]] /\ nForceCutLevel \in NForceCutLevels
    /\ kind \in Kinds
    /\ pc = "stat" /\ level = 0
    /\ nodes = [z \in {0} |-> Node(0, None, 0)]
    /\ where = [s \in Samples |-> 0]
    /\ begin = 0 /\ end = 1 /\ i = 0 /\ newEnd = 1
    /\ prunable = {} /\ nPrune = 0

fit_node_stat ==
    nodes' = [z \in DOMAIN nodes |->
        IF z \in New THEN [nodes[z] EXCEPT !.indnum = Cardinality(In(z))] ELSE nodes[z]]

Stat ==
    /\ pc = "stat"
    /\ fit_node_stat
    /\ pc' = IF level < MaxTreeLevels THEN "cut" ELSE IF kind = "prune" THEN "list" ELSE "done"
    /\ UNCHANGED <<x, nForceCutLevel, kind, level, where, begin, end, i, newEnd, prunable, nPrune>>

\* The last statistics, of the nodes whose children were not made.
LastStat ==
    /\ pc = "last"
    /\ fit_node_stat
    /\ pc' = IF kind = "prune" THEN "list" ELSE "done"
    /\ UNCHANGED <<x, nForceCutLevel, kind, level, where, begin, end, i, newEnd, prunable, nPrune>>

Below(f, v, set) == Cardinality({s \in set : x[f][s] < v})

\* The scan of the sorted samples may test a cut below value v of node z when
\* it is far enough from both ends of the whole list (ties in any order).
InWindow(f, v, z) ==
    LET first == Below(f, v, Samples)
        ties == Cardinality({s \in Samples \ In(z) : x[f][s] = v})
    IN \E iSample \in first .. first + ties :
            iSample > MinPtsNode /\ iSample < Cardinality(Samples) - MinPtsNode

\* Mutant: only the left side is looked at.
TnodeCutFnMutant(n, tot) == n >= MinPtsNode
\* TnodeCutFn refuses a cut that leaves a side with fewer than MinPtsNode.
TnodeCutFn(n, tot) == n >= MinPtsNode /\ n <= tot - MinPtsNode

\* Twice the cut value, midway between v and the next lower value of the node.
CutAt(f, v, z) ==
    v + (CHOOSE w \in {x[f][s] : s \in In(z)} :
            w < v /\ \A s \in In(z) : x[f][s] < v => x[f][s] <= w)

Cut(f, v, z) == [input |-> f, leftMax |-> Below(f, v, In(z)), cut |-> CutAt(f, v, z)]
Levels(f, z) == {v \in {x[f][s] : s \in In(z)} : Below(f, v, In(z)) > 0}

\* The cuts one of which fit_node_cut_input and the recombination may choose.
Cuts(z) ==
    UNION {{Cut(f, v, z) : v \in {v \in Levels(f, z) :
                InWindow(f, v, z) /\ TnodeCutFn(Below(f, v, In(z)), nodes[z].indnum)}}
           : f \in Inputs}

\* The forced cut: the first above half of the node, if TnodeCutFn accepts it.
ForcedCuts(z) ==
    LET f == ForceInput
        half == {v \in Levels(f, z) : Below(f, v, In(z)) > nodes[z].indnum \div 2}
    IN {Cut(f, v, z) : v \in {v \in half : /\ \A w \in half : v <= w
                                           /\ TnodeCutFn(Below(f, v, In(z)), nodes[z].indnum)}}

Forced == kind = "force" /\ level < nForceCutLevel

\* Where no input offers a cut the node is left as its constructor made it.
NoCut(z) == [input |-> nodes[z].input, leftMax |-> nodes[z].leftMax, cut |-> nodes[z].cut]
Offered(z) == LET c == IF Forced THEN ForcedCuts(z) ELSE Cuts(z)
              IN IF c = {} THEN {NoCut(z)} ELSE c

fit_node_cut ==
    /\ pc = "cut"
    /\ \E c \in [New -> UNION {Offered(z) : z \in New}] :
         /\ \A z \in New : c[z] \in Offered(z)
         /\ nodes' = [z \in DOMAIN nodes |-> IF z \in New
                THEN [nodes[z] EXCEPT !.input = c[z].input, !.leftMax = c[z].leftMax, !.cut = c[z].cut]
                ELSE nodes[z]]
    \* assert( iNode >= iNodeBegin_ ) of the forced cut
    /\ pc' = IF Forced /\ \E s \in Samples : where[s] < begin THEN "undefined" ELSE "create"
    /\ i' = begin /\ newEnd' = end
    /\ UNCHANGED <<x, nForceCutLevel, kind, level, where, begin, end, prunable, nPrune>>

\* Mutant: room for one more node is taken to be room for two.
MayCreateMutant(z) ==
    (Forced \/ TnodeCutFn(nodes[z].leftMax, nodes[z].indnum)) /\ newEnd <= MaxNodes

\* Mutant: fit_node_create does not repeat the test of TnodeCutFn.
MayCreateUntested(z) == newEnd < MaxNodes

MayCreate(z) ==
    /\ Forced \/ TnodeCutFn(nodes[z].leftMax, nodes[z].indnum)
    /\ newEnd < MaxNodes

\* Mutant: the second child gets the number of the next node, too.
CreateChildrenMutant ==
    /\ pc = "create" /\ i < end /\ MayCreate(i)
    /\ nodes' = [z \in DOMAIN nodes \union {newEnd, newEnd + 1} |->
             IF z \in {newEnd, newEnd + 1} THEN Node(nodes[i].level + 1, i, 0)
             ELSE IF z = i THEN [nodes[i] EXCEPT !.left = newEnd, !.right = newEnd + 1]
             ELSE nodes[z]]
    /\ newEnd' = newEnd + 1 /\ i' = i + 1
    /\ UNCHANGED <<x, nForceCutLevel, kind, pc, level, where, begin, end, prunable, nPrune>>

\* One turn of the loop of fit_node_create over the new nodes.
CreateChildren ==
    /\ pc = "create" /\ i < end
    /\ MayCreate(i)
    /\ \E g1, g2 \in Garbage :
         nodes' = [z \in DOMAIN nodes \union {newEnd, newEnd + 1} |->
             IF z = newEnd THEN Node(nodes[i].level + 1, i, g1)
             ELSE IF z = newEnd + 1 THEN Node(nodes[i].level + 1, i, g2)
             ELSE IF z = i THEN [nodes[i] EXCEPT !.left = newEnd, !.right = newEnd + 1]
             ELSE nodes[z]]
    /\ newEnd' = newEnd + 2 /\ i' = i + 1
    /\ UNCHANGED <<x, nForceCutLevel, kind, pc, level, where, begin, end, prunable, nPrune>>

LeaveTerminal ==
    /\ pc = "create" /\ i < end
    /\ ~ MayCreate(i)
    /\ i' = i + 1
    /\ UNCHANGED <<x, nForceCutLevel, kind, pc, level, nodes, where, begin, end, newEnd,
                   prunable, nPrune>>

Child(z, s) == IF 2 * x[nodes[z].input][s] < nodes[z].cut THEN nodes[z].left ELSE nodes[z].right

\* Mutant: only the samples of the first node of the level are moved.
AssignSamplesMutant ==
    /\ pc = "create" /\ i = end
    /\ IF \E s \in Samples : ~ Leaf(where[s]) /\ nodes[where[s]].input = None
       THEN pc' = "undefined" /\ UNCHANGED where
       ELSE /\ where' = [s \in Samples |-> IF Leaf(where[s]) \/ where[s] # begin THEN where[s]
                                          ELSE Child(where[s], s)]
            /\ pc' = IF ~ Forced /\ (end = newEnd \/ newEnd >= MaxNodes) THEN "last" ELSE "stat"
    /\ begin' = end /\ end' = newEnd /\ level' = level + 1
    /\ UNCHANGED <<x, nForceCutLevel, kind, nodes, i, newEnd, prunable, nPrune>>

\* The loop over the samples, and what fit makes of the result: a forced level
\* is followed by the next whatever it returns.
AssignSamples ==
    /\ pc = "create" /\ i = end
    /\ IF \E s \in Samples : ~ Leaf(where[s]) /\ nodes[where[s]].input = None
       THEN pc' = "undefined" /\ UNCHANGED where
       ELSE /\ where' = [s \in Samples |-> IF Leaf(where[s]) THEN where[s] ELSE Child(where[s], s)]
            /\ pc' = IF ~ Forced /\ (end = newEnd \/ newEnd >= MaxNodes) THEN "last" ELSE "stat"
    /\ begin' = end /\ end' = newEnd
    /\ level' = level + 1
    /\ UNCHANGED <<x, nForceCutLevel, kind, nodes, i, newEnd, prunable, nPrune>>

Twig(t, z) == t[z].left # None /\ t[t[z].left].left = None /\ t[t[z].right].left = None

\* setPrune takes an int: the fraction of the configuration is cut off.
SetPrune(reduction) == 100 * (reduction \div 100)

ListPrunable ==
    /\ pc = "list"
    /\ prunable' = {z \in DOMAIN nodes : Twig(nodes, z)}
    /\ nPrune' = (Cardinality(DOMAIN nodes) * SetPrune(Reduction)) \div 200
    /\ pc' = "prune"
    /\ UNCHANGED <<x, nForceCutLevel, kind, level, nodes, where, begin, end, i, newEnd>>

Pruned(z) == [nodes EXCEPT ![z].left = None, ![z].right = None, ![z].input = None,
                           ![z].leftMax = 0, ![z].cut = 0]
\* Mutant: the parent that becomes a twig is not entered in the list.
PruneMutant ==
    /\ pc = "prune" /\ nPrune > 0
    /\ nPrune' = nPrune - 1
    /\ \E z \in prunable \ {0} : nodes' = Pruned(z) /\ prunable' = prunable \ {z}
    /\ UNCHANGED <<x, nForceCutLevel, kind, pc, level, where, begin, end, i, newEnd>>

\* One turn of fit_node_prune's loop; begin() of an empty list and the parent
\* of the root are undefined.
Prune ==
    /\ pc = "prune" /\ nPrune > 0
    /\ nPrune' = nPrune - 1
    /\ IF prunable \subseteq {0}
       THEN pc' = "undefined" /\ UNCHANGED <<nodes, prunable>>
       ELSE \E z \in prunable \ {0} :
              LET p == nodes[z].parent IN
              /\ nodes' = Pruned(z)
              /\ prunable' = (prunable \ {z}) \union (IF Twig(nodes', p) THEN {p} ELSE {})
              /\ UNCHANGED pc
    /\ UNCHANGED <<x, nForceCutLevel, kind, level, where, begin, end, i, newEnd>>

PruneEnd ==
    /\ pc = "prune" /\ nPrune = 0
    /\ pc' = "done"
    /\ UNCHANGED <<x, nForceCutLevel, kind, level, nodes, where, begin, end, i, newEnd,
                   prunable, nPrune>>

\* BoostedDecisionTree::fit goes on to the next tree of createTrees.
NextTree ==
    /\ pc = "done"
    /\ kind' \in Kinds
    /\ pc' = "stat" /\ level' = 0
    /\ nodes' = [z \in {0} |-> Node(0, None, 0)]
    /\ where' = [s \in Samples |-> 0]
    /\ begin' = 0 /\ end' = 1 /\ i' = 0 /\ newEnd' = 1
    /\ prunable' = {} /\ nPrune' = 0
    /\ UNCHANGED <<x, nForceCutLevel>>

Next == \/ Stat \/ LastStat \/ fit_node_cut \/ CreateChildren \/ LeaveTerminal
        \/ AssignSamples \/ ListPrunable \/ Prune \/ PruneEnd \/ NextTree

Spec == Init /\ [][Next]_vars
-----------------------------------------------------------------------------
Fitted == pc \in {"done", "list"}

\* The tree is a well formed record of the passes, with the counters of fit
\* and of fit_node_create at the numbers of its nodes.
TypeOK ==
    /\ pc \in {"stat", "cut", "create", "last", "list", "prune", "done", "undefined"}
    /\ kind \in Kinds /\ nForceCutLevel \in NForceCutLevels
    /\ newEnd \in Nat /\ end \in 1 .. newEnd /\ begin \in 0 .. end /\ i \in 0 .. end
    /\ DOMAIN nodes = 0 .. newEnd - 1
    /\ where \in [Samples -> DOMAIN nodes]

\* fit_initialize makes room for MaxNodes statistics, and every node that is
\* made, by fit_node_create or its forced form, has a place among them.
NodesInRoom == newEnd <= MaxNodes /\ newEnd % 2 = 1

\* The node a sample was moved to pass by pass is the leaf that traverse_mu, and
\* so every prediction and the residuals of the next tree, finds for it.
Traverse(s) ==
    LET leafFrom[z \in DOMAIN nodes] == IF Leaf(z) THEN z ELSE leafFrom[Child(z, s)]
    IN leafFrom[0]
RoutedToLeaf ==
    pc \in {"stat", "cut", "last", "list"} => \A s \in Samples : Traverse(s) = where[s]

\* A fitted tree has no node with fewer than MinPtsNode samples below its root,
\* and its statistics account for every sample on every level.
SplitsKeepMinPts ==
    Fitted /\ kind # "prune" =>
        /\ nodes[0].indnum = Cardinality(Samples)
        /\ \A z \in DOMAIN nodes : ~ Leaf(z) =>
             LET l == nodes[nodes[z].left].indnum  r == nodes[nodes[z].right].indnum
             IN l >= MinPtsNode /\ r >= MinPtsNode /\ l + r = nodes[z].indnum

\* fit_node_prune's list holds the nodes with two terminal children, all of
\* them, while it takes nodes away.
PruneListExact == pc = "prune" => prunable = {z \in DOMAIN nodes : Twig(nodes, z)}

\* A fit runs into an undefined operation only for four causes: a forced level
\* split a node that has samples and no forced cut; another level split a node
\* below the root that has samples and no cut, because its leftMax, never set,
\* looked like an admissible one; a level before the last forced one used up the
\* room and left samples in a leaf; more nodes are to be pruned than the tree has
\* splits below its root.
UndefinedHasCause ==
    pc = "undefined" =>
        \/ \E z \in {where[s] : s \in Samples} :
              /\ ~ Leaf(z) /\ nodes[z].input = None
              /\ IF kind = "force" /\ nodes[z].level < nForceCutLevel
                 THEN ForcedCuts(z) = {}
                 ELSE /\ z # 0 /\ Cuts(z) = {}
                      /\ nodes[z].leftMax \in Garbage
                      /\ TnodeCutFn(nodes[z].leftMax, nodes[z].indnum)
        \/ /\ Forced /\ level > 0 /\ newEnd = MaxNodes
           /\ \E s \in Samples : where[s] < begin /\ Leaf(where[s])
        \/ kind = "prune" /\ \A z \in DOMAIN nodes \ {0} : Leaf(z)
=============================================================================
