-------------------------- MODULE MCCodegraphServing --------------------------
(* Instances of CodegraphServing for TLC.                                    *)
EXTENDS CodegraphServing, TLC

CONSTANTS b1, b2, b3, repo, c1, c2, loop1, loop2, api1, s1, s2

(* All builds are of one source, received in the order of their names.       *)
OneSource == [b \in Builds |-> "source"]
Order == [b \in Builds |-> CASE b = b1 -> 1 [] b = b2 -> 2 [] OTHER -> 3]
OneRepository == [x \in {"source"} |-> repo]
NoWorkspaces == {}
OneWorkspace == {"source"}

ThreadHost == [t \in Threads |-> IF t = loop2 THEN c2 ELSE c1]

TwoControllers == Permutations(Processes)
=============================================================================
