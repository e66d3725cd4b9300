---------------------------- MODULE NodeNumbers ----------------------------
(***************************************************************************)
(* The static counters from which tree nodes take their numbers, beside    *)
(* the calls of Pljit.  Compilations of two functions hold two different   *)
(* mutexes and share the counters: node_index_incrementer++ is a read and  *)
(* a write that other threads come between.  ParseTreeNode and ASTNode     *)
(* have a counter each; the passes that use them name them here.           *)
(***************************************************************************)
EXTENDS Pljit

CONSTANTS
    MaxNodes,  \* bound: nodes of a tree, the root included
    MaxMixed,  \* bound: functions, where the parser does not refuse them all
    Builders   \* bound: the passes whose counters are looked at

ASSUME NodesAssumption ==
    /\ MaxNodes \in Nat \ {0}
    /\ MaxMixed \in Nat
    /\ Builders \subseteq {"parse", "analyse"}

VARIABLES
    node_index_incrementer,  \* pass -> the counter of the nodes it makes
    increment,               \* caller -> the value read, or none
    numbers,                 \* pass -> index -> the node numbers of the tree
    overlapped               \* history: another function was in the same pass

nodeVars == <<node_index_incrementer, increment, numbers>>
allVars == <<vars, nodeVars, overlapped>>

None == [reading |-> FALSE, value |-> 0]

NodesInit ==
    /\ Init
    /\ node_index_incrementer = [p \in Builders |-> 0]
    /\ increment = [c \in Callers |-> None]
    /\ numbers = [p \in Builders |-> [f \in Indices |-> <<>>]]
    /\ overlapped = [p \in Builders |-> [f \in Indices |-> FALSE]]

\* A node is constructed: it is given the value of the counter.
ReadCounter(c) ==
    LET p == pc[c] IN
    /\ ~aborted
    /\ p \in Builders
    /\ increment[c] = None
    /\ Len(numbers[p][fn[c]]) < MaxNodes
    /\ increment' = [increment EXCEPT ![c] =
                        [reading |-> TRUE, value |-> node_index_incrementer[p]]]
    /\ numbers' = [numbers EXCEPT ![p][fn[c]] =
                      Append(@, node_index_incrementer[p])]
    /\ UNCHANGED <<vars, node_index_incrementer, overlapped>>

\* A mutation: the incremented value is not written back.
WriteCounterForgets(c) ==
    /\ ~aborted
    /\ increment[c].reading
    /\ increment' = [increment EXCEPT ![c] = None]
    /\ UNCHANGED <<vars, numbers, overlapped, node_index_incrementer>>

\* The counter is set to the value read plus one, whatever it holds by now.
WriteCounter(c) ==
    /\ ~aborted
    /\ increment[c].reading
    /\ node_index_incrementer' =
          [node_index_incrementer EXCEPT ![pc[c]] = increment[c].value + 1]
    /\ increment' = [increment EXCEPT ![c] = None]
    /\ UNCHANGED <<vars, numbers, overlapped>>

\* More than MaxMixed functions are looked at only if the parser refuses
\* them all: the counters need many functions, and few of their states.
FewOrRefused(kind) ==
    \/ capacity < MaxMixed
    \/ \A k \in {kind} \cup {source[f] : f \in 0 .. capacity - 1} :
          k = "parseError"

\* registerFunction makes the root of each tree (Pljit.hpp:51).
RegisterRoots(kind) ==
    /\ FewOrRefused(kind)
    /\ Register(kind)
    /\ numbers' =
          [p \in Builders |-> [numbers[p] EXCEPT
              ![capacity] = <<node_index_incrementer[p]>>]]
    /\ node_index_incrementer' =
          [p \in Builders |-> node_index_incrementer[p] + 1]
    /\ UNCHANGED <<increment, overlapped>>

\* A pass ends between two nodes, the parser's not before it has made one
\* for the parameters (ParseTree.cpp:79).
BetweenNodes(c) ==
    /\ pc[c] \in Builders => increment[c] = None
    /\ pc[c] = "parse" /\ "parse" \in Builders =>
          Len(numbers["parse"][fn[c]]) > 1

\* A step of a handle, in which threads may come to make nodes side by side.
Beside(step) ==
    /\ step
    /\ \A c \in Callers : pc'[c] # pc[c] => BetweenNodes(c)
    /\ overlapped' =
          [p \in Builders |-> [f \in Indices |->
              \/ overlapped[p][f]
              \/ \E c, d \in Callers :
                    pc'[c] = p /\ pc'[d] = p /\ fn'[c] = f /\ fn'[d] # f]]
    /\ UNCHANGED nodeVars

Handle(c) == Step(c) \/ \E f \in Indices : Call(c, f)

NodesNext ==
    \/ \E kind \in Sources : RegisterRoots(kind)
    \/ \E c \in Callers : Beside(Handle(c)) \/ ReadCounter(c) \/ WriteCounter(c)

NodesSpec == NodesInit /\ [][NodesNext]_allVars

\* A thread inside a call keeps running, as in FairSpec.
FairNodesSpec ==
    /\ NodesSpec
    /\ \A c \in Callers :
          WF_allVars(Beside(Step(c)) \/ ReadCounter(c) \/ WriteCounter(c))

-----------------------------------------------------------------------------
(* Properties.                                                             *)

\* The types of the counters and what is taken from them.
CountersTypeOK ==
    /\ node_index_incrementer \in [Builders -> Nat]
    /\ increment \in [Callers -> [reading : BOOLEAN, value : Nat]]
    /\ numbers \in [Builders -> [Indices -> Seq(Nat)]]
    /\ overlapped \in [Builders -> [Indices -> BOOLEAN]]
    /\ \A c \in Callers : increment[c].reading => pc[c] \in Builders

\* Type invariant of the calls and the counters; a thread that has read a
\* counter is in its pass until it writes it.
NodesTypeOK == TypeOK /\ CountersTypeOK

\* "To give each node unique identifier number" (ParseTree.hpp:19): that
\* holds inside a tree as long as no other function was in the same pass.
NumbersAreUniqueInTree ==
    \A p \in Builders, f \in Indices :
        ~overlapped[p][f] =>
            \A i, j \in DOMAIN numbers[p][f] :
                i < j => numbers[p][f][i] < numbers[p][f][j]

\* The same between two trees none of which was made beside another one,
\* while others were: passes that race for the counter may leave it behind
\* numbers they have given, and a tree made alone after them then shares
\* theirs, but never those of a tree made alone before.
NumbersAreUniqueBetweenTrees ==
    \A p \in Builders, f, g \in Indices :
        f # g /\ ~overlapped[p][f] /\ ~overlapped[p][g] =>
            \A i \in DOMAIN numbers[p][f], j \in DOMAIN numbers[p][g] :
                numbers[p][f][i] # numbers[p][g][j]

\* Numbers are unique wherever no two functions were compiled side by side.
NumbersAreUnique == NumbersAreUniqueInTree /\ NumbersAreUniqueBetweenTrees
=============================================================================
