--------------------------- MODULE MCAgentOutcome ---------------------------
(* Instances of AgentOutcome for TLC.                                        *)
EXTENDS AgentOutcome

CONSTANTS c1, c2, c3, o1, learned, forged, a1, f1

(* One artifact each; "forged" declares a wrong hash for it.                 *)
OneArtifact == [p \in Payloads |-> {a1}]
=============================================================================
