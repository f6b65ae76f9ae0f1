---------------------------- MODULE AgentOutcome ----------------------------
(***************************************************************************)
(* Admission in the Memory Steward (server.py): agent outcomes             *)
(* (POST /v1/agent/outcomes) and chat turns (POST /admit).                 *)
(*                                                                         *)
(* A handler runs in a thread of its own and writes, one transaction or    *)
(* call after the other, the submission row, agent_reference,              *)
(* dynamic_memory and Qdrant.  An outcome_id names one payload, and a      *)
(* completed submission is answered from its row; a row that is            *)
(* 'processing' stops nobody, so several submissions of one outcome may    *)
(* work at once.  Every transaction may commit and still raise, when the   *)
(* answer to the commit is lost.                                           *)
(***************************************************************************)
EXTENDS Naturals, FiniteSets

CONSTANTS
    Calls,         \* clients; a call that ended in an error may be sent again
    Outcomes,      \* <<project_id, outcome_id>>
    Payloads,      \* request payloads of outcomes
    Chat, NoOutcome, NoPayload, NoResult,
    Artifacts, ArtifactsOf,  \* ArtifactsOf[p]: artifact keys of a payload
    Tampered,      \* payloads with an artifact whose content_hash is wrong
    Admitting,     \* payloads with admit_knowledge
    Fragments,     \* what the extractor may find
    MaxFaults      \* bound: exceptions, lost answers, crashes

ASSUME OutcomeAssumption ==
    /\ NoPayload \notin Payloads /\ Chat \notin Payloads /\ Chat # NoPayload
    /\ NoOutcome \notin Outcomes
    /\ ArtifactsOf \in [Payloads -> SUBSET Artifacts]
    /\ Tampered \subseteq Payloads /\ Admitting \subseteq Payloads
    /\ MaxFaults \in Nat

Results == [artifacts : SUBSET Artifacts, fragments : SUBSET Fragments]

ASSUME NoResultAssumption == NoResult \notin Results

VARIABLES
    \* table agent_outcome_submission
    status,      \* status[o], "absent" without a row
    request,     \* request_hash: the payload the row was inserted with
    result,      \* result_payload
    \* the other stores
    references,  \* agent_reference: artifact keys
    facts,       \* dynamic_memory: fragments
    points,      \* Qdrant: fragments
    \* each call
    pc, outcome, payload,
    found,       \* fragments extracted
    added,       \* artifacts this call inserted
    \* history
    abandoned,   \* outcomes whose failure could not be recorded
    faults

rowVars == <<status, request, result>>
storeVars == <<references, facts, points>>
callVars == <<outcome, payload, found, added>>
vars == <<rowVars, storeVars, pc, callVars, abandoned, faults>>

(* Steps of a handler, and how a call ends: with HTTP 200, 409, 422 or 500,  *)
(* or without an answer because the server died.                             *)
Steps == {"prepare", "artifacts", "extract", "insert", "put", "complete",
          "fail", "reject", "refuse", "reply"}
Ends == {"ok", "conflict", "invalid", "error", "lost"}

TypeOK ==
    /\ status \in [Outcomes -> {"absent", "processing", "failed", "complete"}]
    /\ request \in [Outcomes -> Payloads \cup {NoPayload}]
    /\ result \in [Outcomes -> Results \cup {NoResult}]
    /\ references \subseteq Artifacts
    /\ facts \subseteq Fragments
    /\ points \subseteq Fragments
    /\ pc \in [Calls -> {"idle"} \cup Steps \cup Ends]
    /\ outcome \in [Calls -> Outcomes \cup {NoOutcome}]
    /\ payload \in [Calls -> Payloads \cup {Chat, NoPayload}]
    /\ found \in [Calls -> SUBSET Fragments]
    /\ added \in [Calls -> SUBSET Artifacts]
    /\ abandoned \subseteq Outcomes
    /\ faults \in Nat

Init ==
    /\ status = [o \in Outcomes |-> "absent"]
    /\ request = [o \in Outcomes |-> NoPayload]
    /\ result = [o \in Outcomes |-> NoResult]
    /\ references = {} /\ facts = {} /\ points = {}
    /\ pc = [c \in Calls |-> "idle"]
    /\ outcome = [c \in Calls |-> NoOutcome]
    /\ payload = [c \in Calls |-> NoPayload]
    /\ found = [c \in Calls |-> {}]
    /\ added = [c \in Calls |-> {}]
    /\ abandoned = {}
    /\ faults = 0

-----------------------------------------------------------------------------
Goto(c, step) == pc' = [pc EXCEPT ![c] = step]

(* The step went well, or what it did is done and its answer is lost.        *)
Proceed(c, step) ==
    \/ Goto(c, step) /\ UNCHANGED faults
    \/ /\ faults < MaxFaults
       /\ faults' = faults + 1
       /\ Goto(c, "fail")

IsChat(c) == payload[c] = Chat
InFlight(c) == pc[c] \in Steps

(* The handlers of calls C end, and their local variables with them.         *)
Forget(C) ==
    /\ found' = [c \in Calls |-> IF c \in C THEN {} ELSE found[c]]
    /\ added' = [c \in Calls |-> IF c \in C THEN {} ELSE added[c]]
    /\ UNCHANGED <<outcome, payload>>

SubmitOutcome(c) ==
    /\ pc[c] = "idle"
    /\ \E o \in Outcomes, p \in Payloads :
         /\ outcome' = [outcome EXCEPT ![c] = o]
         /\ payload' = [payload EXCEPT ![c] = p]
    /\ Goto(c, "prepare")
    /\ UNCHANGED <<rowVars, storeVars, found, added, abandoned, faults>>

SubmitChat(c) ==
    /\ pc[c] = "idle"
    /\ payload' = [payload EXCEPT ![c] = Chat]
    /\ Goto(c, "extract")
    /\ UNCHANGED <<rowVars, storeVars, outcome, found, added, abandoned, faults>>

(* The agent got an HTTP error or no answer and sends the same outcome again. *)
Resend(c) ==
    /\ pc[c] \in {"error", "lost"}
    /\ ~IsChat(c)
    /\ Goto(c, "prepare")
    /\ UNCHANGED <<rowVars, storeVars, callVars, abandoned, faults>>

-----------------------------------------------------------------------------
(* _prepare_outcome: one transaction, the row locked FOR UPDATE.             *)

(* The rows: inserted, or failed or still processing and taken on again.     *)
Reserve(c) ==
    LET o == outcome[c]
    IN  /\ request[o] \in {NoPayload, payload[c]}
        /\ ~(status[o] = "complete" /\ result[o] # NoResult)
        /\ status' = [status EXCEPT ![o] = "processing"]
        /\ request' = [request EXCEPT ![o] = payload[c]]
        /\ abandoned' = abandoned \ {o}
        /\ Proceed(c, "artifacts")
        /\ UNCHANGED result

Replay(c) ==
    LET o == outcome[c]
    IN  /\ request[o] = payload[c]
        /\ status[o] = "complete" /\ result[o] # NoResult
        /\ Goto(c, "reply")
        /\ UNCHANGED <<rowVars, abandoned, faults>>

Conflict(c) ==
    /\ request[outcome[c]] \notin {NoPayload, payload[c]}
    /\ Goto(c, "refuse")
    /\ UNCHANGED <<rowVars, abandoned, faults>>

(* Mutant: a row that is being processed is waited for.                      *)
PrepareWaits(c) ==
    /\ pc[c] = "prepare"
    /\ \/ status[outcome[c]] # "processing" /\ Reserve(c)
       \/ Replay(c)
       \/ Conflict(c)
    /\ UNCHANGED <<storeVars, outcome, payload, found, added>>

Prepare(c) ==
    /\ pc[c] = "prepare"
    /\ Reserve(c) \/ Replay(c) \/ Conflict(c)
    /\ UNCHANGED <<storeVars, outcome, payload, found, added>>

-----------------------------------------------------------------------------
(* The stores.                                                               *)

(* _persist_agent_artifacts: HTTP 422, or all artifacts in one transaction.  *)
PersistArtifacts(c) ==
    /\ pc[c] = "artifacts"
    /\ \/ /\ payload[c] \in Tampered
          /\ Goto(c, "reject")
          /\ UNCHANGED <<references, added, faults>>
       \/ /\ payload[c] \notin Tampered
          /\ references' = references \cup ArtifactsOf[payload[c]]
          /\ added' = [added EXCEPT ![c] = ArtifactsOf[payload[c]] \ references]
          /\ Proceed(c, IF payload[c] \in Admitting THEN "extract" ELSE "complete")
    /\ UNCHANGED <<rowVars, facts, points, outcome, payload, found, abandoned>>

(* Mutant: the points are put before the rows are committed.                 *)
ExtractChatThenPut(c) ==
    /\ pc[c] = "extract" /\ IsChat(c)
    /\ \E F \in SUBSET Fragments :
         /\ found' = [found EXCEPT ![c] = F]
         /\ points' = points \cup F
         /\ Goto(c, IF F = {} THEN "reply" ELSE "insert")
    /\ UNCHANGED <<rowVars, references, facts, outcome, payload, added,
                   abandoned, faults>>

(* _extract; for no fragments nothing is embedded or stored.                 *)
ExtractChat(c) ==
    /\ pc[c] = "extract" /\ IsChat(c)
    /\ \E F \in SUBSET Fragments :
         /\ found' = [found EXCEPT ![c] = F]
         /\ Goto(c, IF F = {} THEN "reply" ELSE "insert")
    /\ UNCHANGED <<rowVars, storeVars, outcome, payload, added, abandoned, faults>>

(* _extract_agent_outcome                                                    *)
ExtractOutcome(c) ==
    /\ pc[c] = "extract" /\ ~IsChat(c)
    /\ \E F \in SUBSET Fragments :
         /\ found' = [found EXCEPT ![c] = F]
         /\ Goto(c, IF F = {} THEN "complete" ELSE "insert")
    /\ UNCHANGED <<rowVars, storeVars, outcome, payload, added, abandoned, faults>>

AfterStores(c) == IF IsChat(c) THEN "reply" ELSE "complete"

(* Mutant: only fragments whose row this call inserted are put.              *)
InsertFactsForNew(c) ==
    /\ pc[c] = "insert"
    /\ facts' = facts \cup found[c]
    /\ Proceed(c, IF found[c] \subseteq facts THEN AfterStores(c) ELSE "put")
    /\ UNCHANGED <<rowVars, references, points, callVars, abandoned>>

(* _persist_dynamic_fragments: the rows are committed first,                 *)
InsertFacts(c) ==
    /\ pc[c] = "insert"
    /\ facts' = facts \cup found[c]
    /\ Proceed(c, "put")
    /\ UNCHANGED <<rowVars, references, points, callVars, abandoned>>

(* ... then every extracted fragment is put, its row new or not.             *)
PutPoints(c) ==
    /\ pc[c] = "put"
    /\ points' = points \cup found[c]
    /\ Proceed(c, AfterStores(c))
    /\ UNCHANGED <<rowVars, references, facts, callVars, abandoned>>

-----------------------------------------------------------------------------
(* The end of a call.                                                        *)

(* _mark_outcome_complete, whatever the row holds by now.                    *)
MarkComplete(c) ==
    LET r == [artifacts |-> added[c], fragments |-> found[c]]
    IN  /\ pc[c] = "complete"
        /\ status' = [status EXCEPT ![outcome[c]] = "complete"]
        /\ result' = [result EXCEPT ![outcome[c]] = r]
        /\ Proceed(c, "reply")
        /\ UNCHANGED <<request, storeVars, outcome, payload, found, added, abandoned>>

(* Mutant: AND status <> 'complete' is dropped.                              *)
MarkFailedAlways(c) ==
    /\ pc[c] \in {"fail", "reject"}
    /\ status' = IF IsChat(c) THEN status ELSE [status EXCEPT ![outcome[c]] = "failed"]
    /\ Goto(c, IF pc[c] = "reject" THEN "invalid" ELSE "error")
    /\ Forget({c})
    /\ UNCHANGED <<request, result, storeVars, abandoned, faults>>

(* UPDATE ... SET status = 'failed' ... AND status <> 'complete'             *)
Fails(o) == status' = [status EXCEPT ![o] = IF @ \in {"absent", "complete"} THEN @ ELSE "failed"]

(* Mutant: an HTTPException of 422 is left out like one of 409.              *)
MarkFailedNot422(c) ==
    /\ pc[c] \in {"fail", "reject"}
    /\ IF IsChat(c) \/ pc[c] = "reject" THEN UNCHANGED status ELSE Fails(outcome[c])
    /\ Goto(c, IF pc[c] = "reject" THEN "invalid" ELSE "error")
    /\ Forget({c})
    /\ UNCHANGED <<request, result, storeVars, abandoned, faults>>

(* _mark_outcome_failed; that it cannot write is only logged.                *)
MarkFailed(c) ==
    /\ pc[c] \in {"fail", "reject"}
    /\ \/ /\ IsChat(c)
          /\ UNCHANGED <<status, abandoned, faults>>
       \/ /\ ~IsChat(c)
          /\ Fails(outcome[c])
          /\ UNCHANGED <<abandoned, faults>>
       \/ /\ ~IsChat(c)
          /\ faults < MaxFaults
          /\ faults' = faults + 1
          /\ abandoned' = abandoned \cup {outcome[c]}
          /\ UNCHANGED status
    /\ Goto(c, IF pc[c] = "reject" THEN "invalid" ELSE "error")
    /\ Forget({c})
    /\ UNCHANGED <<request, result, storeVars>>

(* The finally clause (telemetry, whose failure changes nothing) and the answer. *)
Reply(c) ==
    /\ pc[c] \in {"reply", "refuse"}
    /\ Goto(c, IF pc[c] = "reply" THEN "ok" ELSE "conflict")
    /\ Forget({c})
    /\ UNCHANGED <<rowVars, storeVars, abandoned, faults>>

(* A store, the embeddings or the extractor raises before anything is done.  *)
StepFails(c) ==
    /\ pc[c] \in {"prepare", "artifacts", "extract", "insert", "put", "complete"}
    /\ faults < MaxFaults
    /\ faults' = faults + 1
    /\ Goto(c, "fail")
    /\ UNCHANGED <<rowVars, storeVars, callVars, abandoned>>

(* The Steward dies with all its threads.                                    *)
Crash ==
    /\ faults < MaxFaults
    /\ \E c \in Calls : InFlight(c)
    /\ pc' = [c \in Calls |-> IF InFlight(c) THEN "lost" ELSE pc[c]]
    /\ abandoned' = abandoned \cup {o \in Outcomes : \E c \in Calls : InFlight(c) /\ outcome[c] = o}
    /\ faults' = faults + 1
    /\ Forget({c \in Calls : InFlight(c)})
    /\ UNCHANGED <<rowVars, storeVars>>

-----------------------------------------------------------------------------
Handle(c) ==
    \/ Prepare(c)
    \/ PersistArtifacts(c)
    \/ ExtractChat(c)
    \/ ExtractOutcome(c)
    \/ InsertFacts(c)
    \/ PutPoints(c)
    \/ MarkComplete(c)
    \/ MarkFailed(c)
    \/ Reply(c)

Next ==
    \/ \E c \in Calls : SubmitOutcome(c) \/ SubmitChat(c) \/ Resend(c) \/ Handle(c) \/ StepFails(c)
    \/ Crash

Spec == Init /\ [][Next]_vars

(* A handler's thread runs on, and an agent that got no success asks again.  *)
FairSpec == Spec /\ \A c \in Calls : WF_vars(Handle(c)) /\ WF_vars(Resend(c))

-----------------------------------------------------------------------------
(* Properties.                                                               *)

(* Qdrant never returns a fragment that dynamic_memory does not hold, at any *)
(* point of a crash: the commit comes before the put.                        *)
PointsHaveRows == points \subseteq facts

(* A submission that is complete, and so never processed again, has left     *)
(* every artifact of its request in agent_reference and every fragment its   *)
(* stored result counts in dynamic_memory and in Qdrant, whichever of        *)
(* several concurrent submissions wrote the result last.                     *)
CompleteIsStored ==
    \A o \in Outcomes :
        status[o] = "complete" =>
            /\ result[o] # NoResult
            /\ ArtifactsOf[request[o]] \subseteq references
            /\ request[o] \notin Tampered
            /\ result[o].fragments \subseteq facts \cap points

(* A row is left 'processing' only by a crash or by a failure that could not *)
(* be written down; every error path of the handler gives it up.             *)
ProcessingIsOwned ==
    \A o \in Outcomes :
        status[o] = "processing" =>
            o \in abandoned \/ \E c \in Calls : InFlight(c) /\ outcome[c] = o

(* One payload per outcome, a success only for that payload and only once    *)
(* it is complete: the handler keeps the promise of OutcomeLedger.           *)
Ledger == INSTANCE OutcomeLedger WITH
    accepted <- request,
    settled <- {o \in Outcomes : status[o] = "complete"},
    granted <- {<<outcome[c], payload[c]>> : c \in {d \in Calls : pc[d] = "ok" /\ ~IsChat(d)}}
ImplementsLedger == Ledger!LedgerSpec

(* An agent that repeats an outcome after an error or a lost answer is in    *)
(* the end told of success, of a conflict or of a bad artifact.              *)
RetriesSettle ==
    \A c \in Calls :
        pc[c] = "prepare" ~> pc[c] \in {"ok", "conflict", "invalid"}
=============================================================================
