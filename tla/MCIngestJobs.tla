---------------------------- MODULE MCIngestJobs ----------------------------
(* Instances of IngestJobs for TLC.                                          *)
EXTENDS IngestJobs, TLC

CONSTANTS j1, j2, w1, w2, d1, short, long, id

(* Two processes under one WORKER_ID, the case only the attempt tells apart. *)
SharedId == [w \in Workers |-> id]
OneDocument == [j \in Jobs |-> d1]

(* A url answers a one batch page at one time and a two batch page at another. *)
BatchCounts == [c \in Contents |-> IF c = long THEN 2 ELSE 1]
=============================================================================
