----------------------------- MODULE JobLedger ------------------------------
(***************************************************************************)
(* What the ingest queue promises to those who enqueue: a job is open      *)
(* until it ends in one outcome; a success is final and is the only thing  *)
(* that puts a provenance row on record, once, at the same moment; a       *)
(* failure or a cancellation can be reopened.  Attempts, leases, workers   *)
(* and crashes are invisible.  IngestJobs implements this specification.   *)
(***************************************************************************)
EXTENDS Naturals

CONSTANT Jobs

VARIABLES outcome,   \* outcome[j]
          recorded   \* recorded[j]: provenance rows written for j

ledgerVars == <<outcome, recorded>>

Reopenable == {"failed", "cancelled"}
Outcomes == {"absent", "open", "succeeded"} \cup Reopenable

LedgerInit ==
    /\ outcome = [j \in Jobs |-> "absent"]
    /\ recorded = [j \in Jobs |-> 0]

Change(j, from, to) ==
    /\ outcome[j] \in from
    /\ outcome' = [outcome EXCEPT ![j] = to]

Open(j) == Change(j, {"absent"}, "open") /\ UNCHANGED recorded

Succeed(j) ==
    /\ Change(j, {"open"}, "succeeded")
    /\ recorded' = [recorded EXCEPT ![j] = @ + 1]

(* Several expired jobs whose cancellation was requested end in one step.    *)
GiveUp(S, result) ==
    /\ \A j \in S : outcome[j] = "open"
    /\ outcome' = [j \in Jobs |-> IF j \in S THEN result ELSE outcome[j]]
    /\ UNCHANGED recorded

Reopen(j) == Change(j, Reopenable, "open") /\ UNCHANGED recorded

LedgerNext ==
    \/ \E j \in Jobs : Open(j) \/ Succeed(j) \/ Reopen(j)
    \/ \E S \in SUBSET Jobs, result \in Reopenable : GiveUp(S, result)

LedgerSpec == LedgerInit /\ [][LedgerNext]_ledgerVars
=============================================================================
