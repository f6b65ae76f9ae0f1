-------------------------- MODULE MCGenerationPod ---------------------------
(* Instances of GenerationPod for TLC.                                       *)
EXTENDS GenerationPod, TLC

CONSTANTS r1, r2, good, forged
=============================================================================
