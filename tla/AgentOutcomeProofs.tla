------------------------- MODULE AgentOutcomeProofs -------------------------
(***************************************************************************)
(* Machine-checked proofs about AgentOutcome, for any clients, outcomes,   *)
(* payloads, artifacts, fragments and numbers of faults.                   *)
(*                                                                         *)
(* IndInv adds to TypeOK what a call may hold at each of its steps         *)
(* (CallOK), what it has established in the table and the stores (WorkOK), *)
(* what a row says of them (RowOK), and who will settle a row that is      *)
(* processing (OwnedOK): a call that will still write the row, so not one  *)
(* that is merely refused or answered.                                     *)
(***************************************************************************)
EXTENDS AgentOutcome, TLAPS

(* What a call holds at each step.                                           *)
CallOK(c) ==
    /\ pc[c] = "idle" => payload[c] = NoPayload /\ outcome[c] = NoOutcome
    /\ pc[c] # "idle" => payload[c] \in Payloads \cup {Chat}
    /\ IsChat(c) =>
         /\ outcome[c] = NoOutcome
         /\ pc[c] \in {"extract", "insert", "put", "fail", "reply", "ok", "error", "lost"}
    /\ payload[c] \in Payloads => outcome[c] \in Outcomes
    /\ pc[c] \in {"idle", "prepare", "artifacts"} \cup Ends => found[c] = {}

Reserved == {"artifacts", "extract", "insert", "put", "complete", "reject"}

(* What a call has established, and nobody undoes.                           *)
WorkOK(c) ==
    /\ pc[c] \in {"put", "complete"} => found[c] \subseteq facts
    /\ pc[c] = "complete" => found[c] \subseteq points
    /\ ~IsChat(c) /\ pc[c] \in Reserved => request[outcome[c]] = payload[c]
    /\ ~IsChat(c) /\ pc[c] \in {"extract", "insert", "put", "complete"} =>
         /\ payload[c] \notin Tampered
         /\ ArtifactsOf[payload[c]] \subseteq references
    /\ ~IsChat(c) /\ pc[c] \in {"reply", "ok"} =>
         /\ request[outcome[c]] = payload[c]
         /\ status[outcome[c]] = "complete"

RowOK(o) ==
    /\ request[o] = NoPayload <=> status[o] = "absent"
    /\ status[o] = "complete" =>
         /\ result[o] # NoResult
         /\ ArtifactsOf[request[o]] \subseteq references
         /\ request[o] \notin Tampered
         /\ result[o].fragments \subseteq facts \cap points

(* The calls that will write the row of the outcome.                         *)
Owners(o) == {c \in Calls : pc[c] \in Reserved \cup {"fail"} /\ outcome[c] = o}
OwnedOK(o) == status[o] = "processing" => o \in abandoned \/ Owners(o) # {}

IndInv ==
    /\ TypeOK
    /\ \A c \in Calls : CallOK(c) /\ WorkOK(c)
    /\ \A o \in Outcomes : RowOK(o) /\ OwnedOK(o)
    /\ PointsHaveRows

(* Nothing is taken out of the stores, no request is exchanged for another,  *)
(* and no completed row is reopened.                                         *)
Keeps ==
    /\ references \subseteq references' /\ facts \subseteq facts' /\ points \subseteq points'
    /\ \A o \in Outcomes :
         /\ request[o] # NoPayload => request'[o] = request[o]
         /\ status[o] = "complete" => status'[o] = "complete"
-----------------------------------------------------------------------------
LEMMA InitIndInv == Init => IndInv
<1> SUFFICES ASSUME Init PROVE IndInv
  OBVIOUS
<1>1. TypeOK
  BY DEF Init, TypeOK
<1>2. ASSUME NEW c \in Calls PROVE CallOK(c) /\ WorkOK(c)
  BY <1>2, OutcomeAssumption DEF Init, CallOK, WorkOK, IsChat, Reserved
<1>3. ASSUME NEW o \in Outcomes PROVE RowOK(o) /\ OwnedOK(o)
  BY <1>3 DEF Init, RowOK, OwnedOK
<1>4. PointsHaveRows
  BY DEF Init, PointsHaveRows
<1>5. QED
  BY <1>1, <1>2, <1>3, <1>4 DEF IndInv

(* A call that a step does not touch is as it was.                           *)
LEMMA Untouched ==
    ASSUME IndInv, Keeps, NEW d \in Calls,
           pc'[d] = pc[d], payload'[d] = payload[d], outcome'[d] = outcome[d], found'[d] = found[d]
    PROVE  CallOK(d)' /\ WorkOK(d)'
<1>1. CallOK(d) /\ WorkOK(d) /\ TypeOK
  BY DEF IndInv
<1>2. CallOK(d)'
  BY <1>1 DEF CallOK, IsChat
<1>3. CASE IsChat(d)
  BY <1>1, <1>2, <1>3 DEF WorkOK, IsChat, Keeps
<1>4. CASE ~IsChat(d)
  <2>1. pc[d] \in Reserved \cup {"reply", "ok"} => payload[d] \in Payloads /\ outcome[d] \in Outcomes
    BY <1>1, <1>4 DEF CallOK, IsChat, Reserved
  <2>2. QED
    BY <1>1, <1>2, <1>4, <2>1, OutcomeAssumption DEF WorkOK, IsChat, Keeps, Reserved
<1>5. QED
  BY <1>2, <1>3, <1>4

(* A row that a step does not touch is as it was.                            *)
LEMMA RowKept ==
    ASSUME IndInv, Keeps, NEW o \in Outcomes,
           status'[o] = status[o], request'[o] = request[o], result'[o] = result[o]
    PROVE  RowOK(o)'
BY DEF IndInv, RowOK, Keeps

(* An untouched row is still owned when its owners are.                      *)
LEMMA OwnersKept ==
    ASSUME IndInv, NEW o \in Outcomes, status'[o] = status[o],
           abandoned \subseteq abandoned', Owners(o) \subseteq Owners(o)'
    PROVE  OwnedOK(o)'
BY DEF IndInv, OwnedOK

(* The parts of the induction for a step of one call.                        *)
LEMMA OneCall ==
    ASSUME IndInv, TypeOK', Keeps, NEW c \in Calls,
           \A d \in Calls \ {c} : /\ pc'[d] = pc[d] /\ payload'[d] = payload[d]
                                 /\ outcome'[d] = outcome[d] /\ found'[d] = found[d],
           CallOK(c)', WorkOK(c)',
           \A o \in Outcomes : RowOK(o)' /\ OwnedOK(o)',
           PointsHaveRows'
    PROVE  IndInv'
<1>1. ASSUME NEW d \in Calls PROVE CallOK(d)' /\ WorkOK(d)'
  <2>1. CASE d = c
    BY <2>1
  <2>2. CASE d # c
    BY <2>2, Untouched
  <2>3. QED
    BY <2>1, <2>2
<1>2. QED
  BY <1>1 DEF IndInv
-----------------------------------------------------------------------------
(* One lemma for each action.                                                *)

(* The step of call c leaves the rows, and c goes on or gives up the row.    *)
LEMMA RowsAlone ==
    ASSUME IndInv, Keeps, UNCHANGED rowVars, abandoned \subseteq abandoned', NEW c \in Calls,
           \A d \in Calls \ {c} : pc'[d] = pc[d] /\ outcome'[d] = outcome[d],
           \/ pc[c] \notin Reserved \cup {"fail"}
           \/ outcome[c] \notin Outcomes
           \/ pc'[c] \in Reserved \cup {"fail"} /\ outcome'[c] = outcome[c]
    PROVE  \A o \in Outcomes : RowOK(o)' /\ OwnedOK(o)'
<1> TAKE o \in Outcomes
<1>1. RowOK(o)'
  BY RowKept DEF rowVars
<1>2. Owners(o) \subseteq Owners(o)'
  BY DEF Owners
<1>3. QED
  BY <1>1, <1>2, OwnersKept DEF rowVars

LEMMA SubmitInv ==
    ASSUME IndInv, NEW c \in Calls, SubmitOutcome(c) \/ SubmitChat(c)
    PROVE  IndInv'
<1>1. TypeOK /\ CallOK(c) /\ pc[c] = "idle"
  BY DEF IndInv, SubmitOutcome, SubmitChat
<1>2. TypeOK'
  BY <1>1, OutcomeAssumption DEF SubmitOutcome, SubmitChat, Goto, TypeOK, Steps, rowVars, storeVars
<1>3. Keeps
  BY DEF SubmitOutcome, SubmitChat, Keeps, rowVars, storeVars
<1>4. \A d \in Calls \ {c} : /\ pc'[d] = pc[d] /\ payload'[d] = payload[d]
                            /\ outcome'[d] = outcome[d] /\ found'[d] = found[d]
  BY <1>1 DEF SubmitOutcome, SubmitChat, Goto, TypeOK
<1>5. CallOK(c)' /\ WorkOK(c)'
  BY <1>1, OutcomeAssumption DEF SubmitOutcome, SubmitChat, Goto, TypeOK, CallOK, WorkOK, IsChat,
                                 Reserved, Ends
<1>6. \A o \in Outcomes : RowOK(o)' /\ OwnedOK(o)'
  BY <1>1, <1>3, <1>4, RowsAlone DEF SubmitOutcome, SubmitChat, Reserved
<1>7. PointsHaveRows'
  BY DEF IndInv, PointsHaveRows, SubmitOutcome, SubmitChat, storeVars
<1>8. QED
  BY <1>2, <1>3, <1>4, <1>5, <1>6, <1>7, OneCall

LEMMA ResendInv ==
    ASSUME IndInv, NEW c \in Calls, Resend(c)
    PROVE  IndInv'
<1>1. TypeOK /\ CallOK(c) /\ WorkOK(c) /\ pc[c] \in {"error", "lost"} /\ ~IsChat(c)
  BY DEF IndInv, Resend
<1>2. TypeOK'
  BY <1>1 DEF Resend, Goto, TypeOK, Steps, rowVars, storeVars, callVars
<1>3. Keeps
  BY DEF Resend, Keeps, rowVars, storeVars
<1>4. \A d \in Calls \ {c} : /\ pc'[d] = pc[d] /\ payload'[d] = payload[d]
                            /\ outcome'[d] = outcome[d] /\ found'[d] = found[d]
  BY <1>1 DEF Resend, Goto, TypeOK, callVars
<1>5. CallOK(c)' /\ WorkOK(c)'
  BY <1>1, OutcomeAssumption DEF Resend, Goto, TypeOK, CallOK, WorkOK, IsChat, Reserved, Ends, callVars
<1>6. \A o \in Outcomes : RowOK(o)' /\ OwnedOK(o)'
  BY <1>1, <1>3, <1>4, RowsAlone DEF Resend, Reserved
<1>7. PointsHaveRows'
  BY DEF IndInv, PointsHaveRows, Resend, storeVars
<1>8. QED
  BY <1>2, <1>3, <1>4, <1>5, <1>6, <1>7, OneCall

LEMMA PersistInv ==
    ASSUME IndInv, NEW c \in Calls, PersistArtifacts(c)
    PROVE  IndInv'
<1>1. TypeOK /\ CallOK(c) /\ WorkOK(c) /\ pc[c] = "artifacts"
  BY DEF IndInv, PersistArtifacts
<1>2. payload[c] \in Payloads /\ outcome[c] \in Outcomes /\ found[c] = {} /\ ~IsChat(c)
  BY <1>1 DEF CallOK, IsChat
<1>3. TypeOK'
  BY <1>1, <1>2, OutcomeAssumption DEF PersistArtifacts, Proceed, Goto, TypeOK, Steps, rowVars
<1>4. Keeps
  BY DEF PersistArtifacts, Keeps, rowVars
<1>5. \A d \in Calls \ {c} : /\ pc'[d] = pc[d] /\ payload'[d] = payload[d]
                            /\ outcome'[d] = outcome[d] /\ found'[d] = found[d]
  BY <1>1 DEF PersistArtifacts, Proceed, Goto, TypeOK
<1>6. /\ pc'[c] \in {"reject", "fail", "extract", "complete"}
      /\ pc'[c] \in {"extract", "complete"} =>
           payload[c] \notin Tampered /\ ArtifactsOf[payload[c]] \subseteq references'
      /\ UNCHANGED <<payload, outcome, found, facts, points>> /\ UNCHANGED rowVars
  BY <1>1 DEF PersistArtifacts, Proceed, Goto, TypeOK
<1>7. CallOK(c)' /\ WorkOK(c)'
  BY <1>1, <1>2, <1>6 DEF CallOK, WorkOK, IsChat, Reserved, Ends, rowVars
<1>8. \A o \in Outcomes : RowOK(o)' /\ OwnedOK(o)'
  BY <1>1, <1>4, <1>5, <1>6, RowsAlone DEF PersistArtifacts, Reserved
<1>9. PointsHaveRows'
  BY <1>6 DEF IndInv, PointsHaveRows
<1>10. QED
  BY <1>3, <1>4, <1>5, <1>7, <1>8, <1>9, OneCall

LEMMA ExtractInv ==
    ASSUME IndInv, NEW c \in Calls, ExtractChat(c) \/ ExtractOutcome(c)
    PROVE  IndInv'
<1>1. TypeOK /\ CallOK(c) /\ WorkOK(c) /\ pc[c] = "extract"
  BY DEF IndInv, ExtractChat, ExtractOutcome
<1>2. TypeOK'
  BY <1>1 DEF ExtractChat, ExtractOutcome, Goto, TypeOK, Steps, rowVars, storeVars
<1>3. Keeps
  BY DEF ExtractChat, ExtractOutcome, Keeps, rowVars, storeVars
<1>4. \A d \in Calls \ {c} : /\ pc'[d] = pc[d] /\ payload'[d] = payload[d]
                            /\ outcome'[d] = outcome[d] /\ found'[d] = found[d]
  BY <1>1 DEF ExtractChat, ExtractOutcome, Goto, TypeOK
<1>5. /\ pc'[c] = "insert" \/ (pc'[c] = "reply" /\ IsChat(c))
           \/ (pc'[c] = "complete" /\ ~IsChat(c) /\ found'[c] = {})
      /\ UNCHANGED <<payload, outcome>> /\ UNCHANGED rowVars /\ UNCHANGED storeVars
      /\ UNCHANGED abandoned
  BY <1>1 DEF ExtractChat, ExtractOutcome, Goto, TypeOK
<1>6. CallOK(c)' /\ WorkOK(c)'
  BY <1>1, <1>5 DEF CallOK, WorkOK, IsChat, Reserved, Ends, rowVars, storeVars
<1>7. \A o \in Outcomes : RowOK(o)' /\ OwnedOK(o)'
  <2>1. IsChat(c) => outcome[c] \notin Outcomes
    BY <1>1, OutcomeAssumption DEF CallOK
  <2>2. QED
    BY <1>1, <1>3, <1>4, <1>5, <2>1, RowsAlone DEF Reserved
<1>8. PointsHaveRows'
  BY <1>5 DEF IndInv, PointsHaveRows, storeVars
<1>9. QED
  BY <1>2, <1>3, <1>4, <1>6, <1>7, <1>8, OneCall

LEMMA StoreInv ==
    ASSUME IndInv, NEW c \in Calls, InsertFacts(c) \/ PutPoints(c)
    PROVE  IndInv'
<1>1. TypeOK /\ CallOK(c) /\ WorkOK(c) /\ pc[c] \in {"insert", "put"}
  BY DEF IndInv, InsertFacts, PutPoints
<1>2. TypeOK'
  BY <1>1 DEF InsertFacts, PutPoints, AfterStores, Proceed, Goto, TypeOK, Steps, rowVars, callVars
<1>3. Keeps
  BY DEF InsertFacts, PutPoints, Keeps, rowVars
<1>4. \A d \in Calls \ {c} : /\ pc'[d] = pc[d] /\ payload'[d] = payload[d]
                            /\ outcome'[d] = outcome[d] /\ found'[d] = found[d]
  BY <1>1 DEF InsertFacts, PutPoints, Proceed, Goto, TypeOK, callVars
<1>5. /\ \/ pc'[c] = "fail"
         \/ pc'[c] = "put" /\ found[c] \subseteq facts'
         \/ pc'[c] = "reply" /\ IsChat(c)
         \/ pc'[c] = "complete" /\ ~IsChat(c) /\ found[c] \subseteq facts' \cap points'
      /\ UNCHANGED <<payload, outcome, found, references>> /\ UNCHANGED rowVars
      /\ UNCHANGED abandoned
  BY <1>1 DEF InsertFacts, PutPoints, AfterStores, Proceed, Goto, TypeOK, WorkOK, callVars
<1>6. CallOK(c)' /\ WorkOK(c)'
  BY <1>1, <1>5 DEF CallOK, WorkOK, IsChat, Reserved, Ends, rowVars
<1>7. \A o \in Outcomes : RowOK(o)' /\ OwnedOK(o)'
  <2>1. IsChat(c) => outcome[c] \notin Outcomes
    BY <1>1, OutcomeAssumption DEF CallOK
  <2>2. QED
    BY <1>1, <1>3, <1>4, <1>5, <2>1, RowsAlone DEF Reserved
<1>8. PointsHaveRows'
  BY <1>1 DEF IndInv, PointsHaveRows, InsertFacts, PutPoints, WorkOK
<1>9. QED
  BY <1>2, <1>3, <1>4, <1>6, <1>7, <1>8, OneCall

(* A transaction of c takes the row on, or c stops in it.                    *)
LEMMA PrepareInv ==
    ASSUME IndInv, NEW c \in Calls, Prepare(c)
    PROVE  IndInv'
<1> DEFINE q == outcome[c]
<1>1. TypeOK /\ CallOK(c) /\ WorkOK(c) /\ pc[c] = "prepare"
  BY DEF IndInv, Prepare
<1>2. payload[c] \in Payloads /\ q \in Outcomes /\ found[c] = {} /\ ~IsChat(c) /\ RowOK(q)
  BY <1>1 DEF CallOK, IsChat, IndInv
<1>3. TypeOK'
  BY <1>1, <1>2 DEF Prepare, Reserve, Replay, Conflict, Proceed, Goto, TypeOK, Steps, rowVars, storeVars
<1>4. \A d \in Calls \ {c} : /\ pc'[d] = pc[d] /\ payload'[d] = payload[d]
                            /\ outcome'[d] = outcome[d] /\ found'[d] = found[d]
  BY <1>1 DEF Prepare, Reserve, Replay, Conflict, Proceed, Goto, TypeOK
<1>5. UNCHANGED <<payload, outcome, found>> /\ UNCHANGED storeVars
  BY DEF Prepare
<1>6. PointsHaveRows'
  BY <1>5 DEF IndInv, PointsHaveRows, storeVars
<1>7. CASE Reserve(c)
  <2>1. /\ status' = [status EXCEPT ![q] = "processing"]
        /\ request' = [request EXCEPT ![q] = payload[c]]
        /\ result' = result /\ abandoned' = abandoned \ {q}
        /\ pc'[c] \in {"artifacts", "fail"}
        /\ request[q] \in {NoPayload, payload[c]} /\ status[q] # "complete"
    BY <1>1, <1>2, <1>7 DEF Reserve, Proceed, Goto, TypeOK, RowOK
  <2>2. Keeps
    BY <1>1, <1>2, <1>5, <2>1 DEF Keeps, TypeOK, storeVars
  <2>3. CallOK(c)' /\ WorkOK(c)'
    BY <1>1, <1>2, <1>5, <2>1 DEF CallOK, WorkOK, IsChat, Reserved, Ends, TypeOK
  <2>4. ASSUME NEW o \in Outcomes PROVE RowOK(o)' /\ OwnedOK(o)'
    <3>1. CASE o = q
      <4>1. c \in Owners(o)'
        BY <1>5, <2>1, <3>1 DEF Owners, Reserved
      <4>2. status'[o] = "processing" /\ request'[o] = payload[c]
        BY <1>1, <1>2, <2>1, <3>1 DEF TypeOK
      <4>3. payload[c] # NoPayload
        BY <1>2, OutcomeAssumption
      <4>4. QED
        BY <4>1, <4>2, <4>3 DEF RowOK, OwnedOK
    <3>2. CASE o # q
      <4>1. status'[o] = status[o] /\ request'[o] = request[o] /\ result'[o] = result[o]
        BY <1>1, <2>1, <3>2 DEF TypeOK
      <4>2. Owners(o) \subseteq Owners(o)'
        BY <1>4, <3>2 DEF Owners
      <4>3. QED
        BY <2>1, <2>2, <3>2, <4>1, <4>2, RowKept DEF IndInv, OwnedOK
    <3>3. QED
      BY <3>1, <3>2
  <2>5. QED
    BY <1>3, <1>4, <1>6, <2>2, <2>3, <2>4, OneCall
<1>8. CASE Replay(c) \/ Conflict(c)
  <2>1. /\ UNCHANGED rowVars /\ UNCHANGED abandoned
        /\ pc'[c] = "refuse" \/ (pc'[c] = "reply" /\ request[q] = payload[c] /\ status[q] = "complete")
    BY <1>1, <1>8 DEF Replay, Conflict, Goto, TypeOK
  <2>2. Keeps
    BY <1>5, <2>1 DEF Keeps, rowVars, storeVars
  <2>3. CallOK(c)' /\ WorkOK(c)'
    BY <1>1, <1>2, <1>5, <2>1 DEF CallOK, WorkOK, IsChat, Reserved, Ends, rowVars, storeVars
  <2>4. \A o \in Outcomes : RowOK(o)' /\ OwnedOK(o)'
    BY <1>1, <1>4, <2>1, <2>2, RowsAlone DEF Reserved
  <2>5. QED
    BY <1>3, <1>4, <1>6, <2>2, <2>3, <2>4, OneCall
<1>9. QED
  BY <1>7, <1>8 DEF Prepare

LEMMA MarkCompleteInv ==
    ASSUME IndInv, NEW c \in Calls, MarkComplete(c)
    PROVE  IndInv'
<1> DEFINE q == outcome[c]
           r == [artifacts |-> added[c], fragments |-> found[c]]
<1>1. TypeOK /\ CallOK(c) /\ WorkOK(c) /\ pc[c] = "complete"
  BY DEF IndInv, MarkComplete
<1>2. payload[c] \in Payloads /\ q \in Outcomes /\ ~IsChat(c) /\ RowOK(q)
  BY <1>1 DEF CallOK, IsChat, IndInv
<1>3. /\ status' = [status EXCEPT ![q] = "complete"]
      /\ result' = [result EXCEPT ![q] = r]
      /\ pc'[c] \in {"reply", "fail"}
      /\ UNCHANGED <<request, outcome, payload, found, added, abandoned>> /\ UNCHANGED storeVars
  BY <1>1 DEF MarkComplete, Proceed, Goto, TypeOK
<1>4. r \in Results
  BY <1>1 DEF TypeOK, Results
<1>5. TypeOK'
  BY <1>1, <1>2, <1>4 DEF MarkComplete, Proceed, Goto, TypeOK, Steps, storeVars
<1>6. \A d \in Calls \ {c} : /\ pc'[d] = pc[d] /\ payload'[d] = payload[d]
                            /\ outcome'[d] = outcome[d] /\ found'[d] = found[d]
  BY <1>1 DEF MarkComplete, Proceed, Goto, TypeOK
<1>7. Keeps
  BY <1>1, <1>3 DEF Keeps, TypeOK, storeVars
<1>8. status'[q] = "complete" /\ result'[q] = r
  BY <1>1, <1>2, <1>3 DEF TypeOK
<1>9. CallOK(c)' /\ WorkOK(c)'
  BY <1>1, <1>2, <1>3, <1>8 DEF CallOK, WorkOK, IsChat, Reserved, Ends
<1>10. ASSUME NEW o \in Outcomes PROVE RowOK(o)' /\ OwnedOK(o)'
  <2>1. CASE o = q
    <3>1. r # NoResult /\ r.fragments = found[c]
      BY <1>4, NoResultAssumption
    <3>2. /\ request[q] = payload[c] /\ payload[c] \notin Tampered
          /\ ArtifactsOf[payload[c]] \subseteq references /\ found[c] \subseteq facts \cap points
      BY <1>1, <1>2 DEF WorkOK, Reserved
    <3>3. request[q] # NoPayload
      BY <1>2, <3>2, OutcomeAssumption
    <3>4. QED
      BY <1>3, <1>8, <2>1, <3>1, <3>2, <3>3 DEF RowOK, OwnedOK, storeVars
  <2>2. CASE o # q
    <3>1. status'[o] = status[o] /\ request'[o] = request[o] /\ result'[o] = result[o]
      BY <1>1, <1>3, <2>2 DEF TypeOK
    <3>2. Owners(o) \subseteq Owners(o)'
      BY <1>3, <1>6, <2>2 DEF Owners
    <3>3. QED
      BY <1>3, <1>7, <3>1, <3>2, RowKept, OwnersKept
  <2>3. QED
    BY <2>1, <2>2
<1>11. PointsHaveRows'
  BY <1>3 DEF IndInv, PointsHaveRows, storeVars
<1>12. QED
  BY <1>5, <1>6, <1>7, <1>9, <1>10, <1>11, OneCall

LEMMA MarkFailedInv ==
    ASSUME IndInv, NEW c \in Calls, MarkFailed(c)
    PROVE  IndInv'
<1> DEFINE q == outcome[c]
<1>1. TypeOK /\ CallOK(c) /\ WorkOK(c) /\ pc[c] \in {"fail", "reject"}
  BY DEF IndInv, MarkFailed
<1>2. IsChat(c) => q \notin Outcomes
  BY <1>1, OutcomeAssumption DEF CallOK
<1>3. ~IsChat(c) => q \in Outcomes
  BY <1>1 DEF CallOK, IsChat
<1>4. TypeOK'
  BY <1>1, <1>3 DEF MarkFailed, Fails, Forget, Goto, TypeOK, Ends, storeVars
<1>5. /\ pc'[c] \in {"error", "invalid"} /\ (pc'[c] = "invalid" => pc[c] = "reject")
      /\ found'[c] = {}
      /\ UNCHANGED <<outcome, payload, request, result>> /\ UNCHANGED storeVars
      /\ abandoned \subseteq abandoned'
  BY <1>1 DEF MarkFailed, Forget, Goto, TypeOK
<1>6. \A d \in Calls \ {c} : /\ pc'[d] = pc[d] /\ payload'[d] = payload[d]
                            /\ outcome'[d] = outcome[d] /\ found'[d] = found[d]
  BY <1>1 DEF MarkFailed, Forget, Goto, TypeOK
<1>7. \A o \in Outcomes :
        \/ status'[o] = status[o] /\ (o = q => o \in abandoned')
        \/ status'[o] = status[o] /\ status[o] = "complete"
        \/ o = q /\ status'[o] = "failed" /\ status[o] \notin {"absent", "complete"}
        \/ status'[o] = status[o] /\ status[o] = "absent"
        \/ o # q /\ status'[o] = status[o]
  BY <1>1, <1>2, <1>3 DEF MarkFailed, Fails, TypeOK
<1>8. Keeps
  BY <1>5, <1>7 DEF Keeps, storeVars
<1>9. CallOK(c)' /\ WorkOK(c)'
  BY <1>1, <1>5 DEF CallOK, WorkOK, IsChat, Reserved, Ends
<1>10. ASSUME NEW o \in Outcomes PROVE RowOK(o)' /\ OwnedOK(o)'
  <2>1. RowOK(o)'
    <3>1. CASE status'[o] = status[o]
      BY <1>5, <1>8, <3>1, RowKept
    <3>2. CASE status'[o] = "failed" /\ status[o] # "absent"
      BY <1>5, <3>2 DEF IndInv, RowOK
    <3>3. QED
      BY <1>7, <3>1, <3>2
  <2>2. OwnedOK(o)'
    <3>1. CASE o = q
      BY <1>7, <3>1 DEF OwnedOK
    <3>2. CASE o # q
      <4>1. Owners(o) \subseteq Owners(o)'
        BY <1>5, <1>6, <3>2 DEF Owners
      <4>2. QED
        BY <1>5, <1>7, <3>2, <4>1, OwnersKept
    <3>3. QED
      BY <3>1, <3>2
  <2>3. QED
    BY <2>1, <2>2
<1>11. PointsHaveRows'
  BY <1>5 DEF IndInv, PointsHaveRows, storeVars
<1>12. QED
  BY <1>4, <1>6, <1>8, <1>9, <1>10, <1>11, OneCall

LEMMA ReplyInv ==
    ASSUME IndInv, NEW c \in Calls, Reply(c)
    PROVE  IndInv'
<1>1. TypeOK /\ CallOK(c) /\ WorkOK(c) /\ pc[c] \in {"reply", "refuse"}
  BY DEF IndInv, Reply
<1>2. TypeOK'
  BY <1>1 DEF Reply, Forget, Goto, TypeOK, Ends, rowVars, storeVars
<1>3. Keeps
  BY DEF Reply, Keeps, rowVars, storeVars
<1>4. \A d \in Calls \ {c} : /\ pc'[d] = pc[d] /\ payload'[d] = payload[d]
                            /\ outcome'[d] = outcome[d] /\ found'[d] = found[d]
  BY <1>1 DEF Reply, Forget, Goto, TypeOK
<1>5. /\ pc'[c] = IF pc[c] = "reply" THEN "ok" ELSE "conflict"
      /\ found'[c] = {}
  BY <1>1 DEF Reply, Forget, Goto, TypeOK
<1>6. CallOK(c)' /\ WorkOK(c)'
  BY <1>1, <1>5 DEF Reply, Forget, CallOK, WorkOK, IsChat, Reserved, Ends, rowVars, storeVars
<1>7. \A o \in Outcomes : RowOK(o)' /\ OwnedOK(o)'
  BY <1>1, <1>3, <1>4, RowsAlone DEF Reply, Reserved
<1>8. PointsHaveRows'
  BY DEF IndInv, PointsHaveRows, Reply, storeVars
<1>9. QED
  BY <1>2, <1>3, <1>4, <1>6, <1>7, <1>8, OneCall

LEMMA StepFailsInv ==
    ASSUME IndInv, NEW c \in Calls, StepFails(c)
    PROVE  IndInv'
<1>1. /\ TypeOK /\ CallOK(c) /\ WorkOK(c)
      /\ pc[c] \in {"prepare", "artifacts", "extract", "insert", "put", "complete"}
  BY DEF IndInv, StepFails
<1>2. TypeOK'
  BY <1>1 DEF StepFails, Goto, TypeOK, Steps, rowVars, storeVars, callVars
<1>3. Keeps
  BY DEF StepFails, Keeps, rowVars, storeVars
<1>4. \A d \in Calls \ {c} : /\ pc'[d] = pc[d] /\ payload'[d] = payload[d]
                            /\ outcome'[d] = outcome[d] /\ found'[d] = found[d]
  BY <1>1 DEF StepFails, Goto, TypeOK, callVars
<1>5. pc'[c] = "fail" /\ UNCHANGED callVars
  BY <1>1 DEF StepFails, Goto, TypeOK
<1>6. CallOK(c)' /\ WorkOK(c)'
  BY <1>1, <1>5 DEF CallOK, WorkOK, IsChat, Reserved, Ends, callVars
<1>7. \A o \in Outcomes : RowOK(o)' /\ OwnedOK(o)'
  BY <1>3, <1>4, <1>5, RowsAlone DEF StepFails, callVars
<1>8. PointsHaveRows'
  BY DEF IndInv, PointsHaveRows, StepFails, storeVars
<1>9. QED
  BY <1>2, <1>3, <1>4, <1>6, <1>7, <1>8, OneCall

(* What the threads held is gone, and the rows they were to settle are       *)
(* abandoned.                                                                *)
LEMMA CrashInv ==
    ASSUME IndInv, Crash
    PROVE  IndInv'
<1>1. TypeOK
  BY DEF IndInv
<1>2. TypeOK'
  BY <1>1 DEF Crash, Forget, TypeOK, Ends, rowVars, storeVars
<1>3. Keeps
  BY DEF Crash, Keeps, rowVars, storeVars
<1>4. UNCHANGED <<outcome, payload>> /\ UNCHANGED rowVars /\ UNCHANGED storeVars
  BY DEF Crash, Forget
<1>5. ASSUME NEW c \in Calls PROVE CallOK(c)' /\ WorkOK(c)'
  <2>1. CallOK(c) /\ WorkOK(c)
    BY DEF IndInv
  <2>2. CASE InFlight(c)
    <3>1. pc'[c] = "lost" /\ found'[c] = {} /\ pc[c] # "idle"
      BY <2>2 DEF Crash, Forget, InFlight, Steps
    <3>2. QED
      BY <1>4, <2>1, <3>1 DEF CallOK, WorkOK, IsChat, Reserved, Ends
  <2>3. CASE ~InFlight(c)
    <3>1. pc'[c] = pc[c] /\ found'[c] = found[c]
      BY <2>3 DEF Crash, Forget, InFlight
    <3>2. QED
      BY <1>3, <1>4, <3>1, Untouched
  <2>4. QED
    BY <2>2, <2>3
<1>6. ASSUME NEW o \in Outcomes PROVE RowOK(o)' /\ OwnedOK(o)'
  <2>1. RowOK(o)'
    BY <1>3, <1>4, RowKept DEF rowVars
  <2>2. \A c \in Owners(o) : InFlight(c) /\ outcome[c] = o
    BY DEF Owners, Reserved, InFlight, Steps
  <2>3. Owners(o) # {} => o \in abandoned'
    BY <2>2 DEF Crash, Owners
  <2>4. abandoned \subseteq abandoned'
    BY DEF Crash
  <2>5. OwnedOK(o)'
    BY <1>4, <2>3, <2>4 DEF IndInv, OwnedOK, rowVars
  <2>6. QED
    BY <2>1, <2>5
<1>7. PointsHaveRows'
  BY <1>4 DEF IndInv, PointsHaveRows, storeVars
<1>8. QED
  BY <1>2, <1>5, <1>6, <1>7 DEF IndInv

LEMMA StutterInv == IndInv /\ UNCHANGED vars => IndInv'
BY DEF vars, rowVars, storeVars, callVars, IndInv, TypeOK, CallOK, WorkOK, RowOK, OwnedOK, Owners,
       IsChat, PointsHaveRows

LEMMA NextInv == IndInv /\ [Next]_vars => IndInv'
<1> SUFFICES ASSUME IndInv, [Next]_vars PROVE IndInv'
  OBVIOUS
<1>1. ASSUME NEW c \in Calls, SubmitOutcome(c) \/ SubmitChat(c) \/ Resend(c) \/ Handle(c) \/ StepFails(c)
      PROVE  IndInv'
  BY <1>1, SubmitInv, ResendInv, StepFailsInv, PrepareInv, PersistInv, ExtractInv, StoreInv,
     MarkCompleteInv, MarkFailedInv, ReplyInv DEF Handle
<1>2. QED
  BY <1>1, CrashInv, StutterInv DEF Next

THEOREM Invariance == Spec => []IndInv
BY InitIndInv, NextInv, PTL DEF Spec
-----------------------------------------------------------------------------
(* The tables, the stores and every handler keep to their types: a result,  *)
(* for instance, is stored in agent_outcome_submission only as the           *)
(* artifacts and fragments of a submission.                                  *)
THEOREM TypeCorrect == Spec => []TypeOK
BY Invariance, PTL DEF IndInv

(* Whatever fails between the commit of dynamic_memory and the Qdrant put,   *)
(* no point is without its row.                                              *)
THEOREM EveryPointHasARow == Spec => []PointsHaveRows
BY Invariance, PTL DEF IndInv

(* _mark_outcome_complete is reached only with everything stored, and no     *)
(* later submission takes anything back: a completed outcome is in           *)
(* agent_reference, dynamic_memory and Qdrant.                               *)
THEOREM WhatIsCompleteIsStored == Spec => []CompleteIsStored
<1>1. IndInv => CompleteIsStored
  BY DEF IndInv, RowOK, CompleteIsStored
<1>2. QED
  BY <1>1, Invariance, PTL

(* submit_agent_outcome leaves a row processing only if the server crashed   *)
(* or could not write the failure down; otherwise a handler is at work on    *)
(* it that will still write the row.                                         *)
THEOREM WhatIsProcessingIsOwned == Spec => []ProcessingIsOwned
<1>1. IndInv => ProcessingIsOwned
  BY DEF IndInv, OwnedOK, Owners, Reserved, ProcessingIsOwned, InFlight, Steps
<1>2. QED
  BY <1>1, Invariance, PTL
-----------------------------------------------------------------------------
(* The refinement.                                                           *)

Granted == {<<outcome[c], payload[c]>> : c \in {d \in Calls : pc[d] = "ok" /\ ~IsChat(d)}}
Settled == {o \in Outcomes : status[o] = "complete"}

(* The step does not show in the ledger.                                     *)
LEMMA Invisible ==
    ASSUME request' = request, Settled' = Settled,
           \A d \in Calls :
             /\ pc'[d] = "ok" <=> pc[d] = "ok"
             /\ pc[d] = "ok" => outcome'[d] = outcome[d] /\ payload'[d] = payload[d]
    PROVE  UNCHANGED Ledger!ledgerVars
<1>1. Granted' = Granted
  BY DEF Granted, IsChat
<1>2. QED
  BY <1>1 DEF Granted, Settled, Ledger!ledgerVars

LEMMA LedgerInitial == Init => Ledger!LedgerInit
<1> SUFFICES ASSUME Init PROVE Ledger!LedgerInit
  OBVIOUS
<1>1. Granted = {} /\ Settled = {}
  BY DEF Init, Granted, Settled
<1>2. QED
  BY <1>1 DEF Init, Ledger!LedgerInit, Granted, Settled

LEMMA LedgerOfPrepare ==
    ASSUME IndInv, NEW c \in Calls, Prepare(c)
    PROVE  Ledger!LedgerNext \/ UNCHANGED Ledger!ledgerVars
<1> DEFINE q == outcome[c]
<1>1. TypeOK /\ CallOK(c) /\ pc[c] = "prepare"
  BY DEF IndInv, Prepare
<1>2. payload[c] \in Payloads /\ q \in Outcomes /\ RowOK(q)
  BY <1>1 DEF CallOK, IsChat, IndInv
<1>3. /\ \A d \in Calls : pc'[d] = "ok" <=> pc[d] = "ok"
      /\ UNCHANGED <<outcome, payload>>
  BY <1>1 DEF Prepare, Reserve, Replay, Conflict, Proceed, Goto, TypeOK
<1>4. Settled' = Settled
  BY <1>1, <1>2 DEF Prepare, Reserve, Replay, Conflict, Settled, RowOK, TypeOK, rowVars
<1>5. CASE Reserve(c) /\ request[q] = NoPayload
  <2>1. request' = [request EXCEPT ![q] = payload[c]]
    BY <1>5 DEF Reserve
  <2>2. Granted' = Granted
    BY <1>3 DEF Granted, IsChat
  <2>3. Ledger!Accept(q, payload[c])
    BY <1>4, <1>5, <2>1, <2>2 DEF Ledger!Accept, Granted, Settled
  <2>4. QED
    BY <1>2, <2>3 DEF Ledger!LedgerNext, Ledger!Accept
<1>6. CASE ~(Reserve(c) /\ request[q] = NoPayload)
  <2>1. request' = request
    BY <1>1, <1>2, <1>6 DEF Prepare, Reserve, Replay, Conflict, TypeOK, rowVars
  <2>2. QED
    BY <1>3, <1>4, <2>1, Invisible
<1>7. QED
  BY <1>5, <1>6

LEMMA LedgerOfComplete ==
    ASSUME IndInv, NEW c \in Calls, MarkComplete(c)
    PROVE  Ledger!LedgerNext \/ UNCHANGED Ledger!ledgerVars
<1> DEFINE q == outcome[c]
<1>1. TypeOK /\ CallOK(c) /\ WorkOK(c) /\ pc[c] = "complete"
  BY DEF IndInv, MarkComplete
<1>2. payload[c] \in Payloads /\ q \in Outcomes /\ ~IsChat(c)
  BY <1>1 DEF CallOK, IsChat
<1>3. request[q] # NoPayload
  BY <1>1, <1>2, OutcomeAssumption DEF WorkOK, Reserved
<1>4. /\ \A d \in Calls : pc'[d] = "ok" <=> pc[d] = "ok"
      /\ UNCHANGED <<outcome, payload, request>>
  BY <1>1 DEF MarkComplete, Proceed, Goto, TypeOK
<1>5. Granted' = Granted
  BY <1>4 DEF Granted, IsChat
<1>6. Settled' = Settled \cup {q}
  BY <1>1, <1>2 DEF MarkComplete, Settled, TypeOK
<1>7. Ledger!Settle(q)
  BY <1>3, <1>4, <1>5, <1>6 DEF Ledger!Settle, Granted, Settled
<1>8. QED
  BY <1>2, <1>7 DEF Ledger!LedgerNext, Ledger!Settle

LEMMA LedgerOfReply ==
    ASSUME IndInv, NEW c \in Calls, Reply(c)
    PROVE  Ledger!LedgerNext \/ UNCHANGED Ledger!ledgerVars
<1> DEFINE q == outcome[c]
<1>1. TypeOK /\ CallOK(c) /\ WorkOK(c) /\ pc[c] \in {"reply", "refuse"}
  BY DEF IndInv, Reply
<1>2. /\ UNCHANGED <<outcome, payload>> /\ UNCHANGED rowVars /\ Settled' = Settled
      /\ pc' = [pc EXCEPT ![c] = IF pc[c] = "reply" THEN "ok" ELSE "conflict"]
  BY DEF Reply, Forget, Goto, Settled, rowVars
<1>3. CASE pc[c] = "reply" /\ ~IsChat(c)
  <2>1. q \in Outcomes /\ request[q] = payload[c] /\ q \in Settled
    BY <1>1, <1>3 DEF CallOK, WorkOK, IsChat, Settled
  <2>2. \A d \in Calls : pc'[d] = "ok" <=> pc[d] = "ok" \/ d = c
    BY <1>1, <1>2, <1>3 DEF TypeOK
  <2>3. Granted' = Granted \cup {<<q, payload[c]>>}
    BY <1>2, <1>3, <2>2 DEF Granted, IsChat
  <2>4. Ledger!Grant(q)
    BY <1>2, <2>1, <2>3 DEF Ledger!Grant, Granted, Settled, rowVars
  <2>5. QED
    BY <2>1, <2>4 DEF Ledger!LedgerNext, Ledger!Grant
<1>4. CASE pc[c] = "refuse"
  <2>1. \A d \in Calls : pc'[d] = "ok" <=> pc[d] = "ok"
    BY <1>1, <1>2, <1>4 DEF TypeOK
  <2>2. QED
    BY <1>2, <2>1, Invisible DEF rowVars
<1>5. CASE IsChat(c)
  <2>1. Granted' = Granted
    BY <1>1, <1>2, <1>5 DEF Granted, IsChat, TypeOK
  <2>2. QED
    BY <1>2, <2>1 DEF Granted, Settled, Ledger!ledgerVars, rowVars
<1>6. QED
  BY <1>1, <1>3, <1>4, <1>5

(* Every other step.                                                         *)
LEMMA LedgerOfRest ==
    ASSUME IndInv,
           \/ \E c \in Calls :
                \/ SubmitOutcome(c) \/ SubmitChat(c) \/ Resend(c) \/ StepFails(c)
                \/ PersistArtifacts(c) \/ ExtractChat(c) \/ ExtractOutcome(c)
                \/ InsertFacts(c) \/ PutPoints(c) \/ MarkFailed(c)
           \/ Crash
           \/ UNCHANGED vars
    PROVE  UNCHANGED Ledger!ledgerVars
<1>1. TypeOK
  BY DEF IndInv
<1>2. request' = request
  BY DEF SubmitOutcome, SubmitChat, Resend, StepFails, PersistArtifacts, ExtractChat, ExtractOutcome,
         InsertFacts, PutPoints, MarkFailed, Crash, vars, rowVars
<1>3. Settled' = Settled
  <2>1. CASE \E c \in Calls : MarkFailed(c)
    <3>1. \A o \in Outcomes : status'[o] = "complete" <=> status[o] = "complete"
      BY <1>1, <2>1 DEF MarkFailed, Fails, TypeOK
    <3>2. QED
      BY <3>1 DEF Settled
  <2>2. CASE ~\E c \in Calls : MarkFailed(c)
    BY <2>2 DEF SubmitOutcome, SubmitChat, Resend, StepFails, PersistArtifacts, ExtractChat,
           ExtractOutcome, InsertFacts, PutPoints, Crash, vars, rowVars, Settled
  <2>3. QED
    BY <2>1, <2>2
<1>4. ASSUME NEW d \in Calls
      PROVE  /\ pc'[d] = "ok" <=> pc[d] = "ok"
             /\ pc[d] = "ok" => outcome'[d] = outcome[d] /\ payload'[d] = payload[d]
  <2>1. CASE \E c \in Calls : SubmitOutcome(c) \/ SubmitChat(c)
    BY <1>1, <2>1 DEF SubmitOutcome, SubmitChat, Goto, TypeOK
  <2>2. CASE \E c \in Calls : Resend(c) \/ StepFails(c)
    BY <1>1, <2>2 DEF Resend, StepFails, Goto, TypeOK, callVars
  <2>3. CASE \E c \in Calls : PersistArtifacts(c) \/ ExtractChat(c) \/ ExtractOutcome(c)
    BY <1>1, <2>3 DEF PersistArtifacts, ExtractChat, ExtractOutcome, Proceed, Goto, TypeOK
  <2>4. CASE \E c \in Calls : InsertFacts(c) \/ PutPoints(c)
    BY <1>1, <2>4 DEF InsertFacts, PutPoints, AfterStores, Proceed, Goto, TypeOK, callVars
  <2>5. CASE \E c \in Calls : MarkFailed(c)
    BY <1>1, <2>5 DEF MarkFailed, Forget, Goto, TypeOK
  <2>6. CASE Crash
    BY <2>6 DEF Crash, Forget, InFlight, Steps
  <2>7. CASE UNCHANGED vars
    BY <2>7 DEF vars, callVars
  <2>8. QED
    BY <2>1, <2>2, <2>3, <2>4, <2>5, <2>6, <2>7
<1>5. QED
  BY <1>2, <1>3, <1>4, Invisible

LEMMA LedgerStep == IndInv /\ [Next]_vars => [Ledger!LedgerNext]_Ledger!ledgerVars
<1> SUFFICES ASSUME IndInv, [Next]_vars
             PROVE  Ledger!LedgerNext \/ UNCHANGED Ledger!ledgerVars
  OBVIOUS
<1>1. CASE \E c \in Calls : Prepare(c) \/ MarkComplete(c) \/ Reply(c)
  BY <1>1, LedgerOfPrepare, LedgerOfComplete, LedgerOfReply
<1>2. CASE ~\E c \in Calls : Prepare(c) \/ MarkComplete(c) \/ Reply(c)
  BY <1>2, LedgerOfRest DEF Next, Handle
<1>3. QED
  BY <1>1, <1>2

(* submit_agent_outcome keeps the promise of OutcomeLedger: one payload for  *)
(* an outcome_id, no settled outcome reopened, success only for the accepted *)
(* payload of a settled outcome.                                             *)
THEOREM OutcomesImplementTheLedger == Spec => ImplementsLedger
<1>1. Init => Ledger!LedgerInit
  BY LedgerInitial
<1>2. IndInv /\ [Next]_vars => [Ledger!LedgerNext]_Ledger!ledgerVars
  BY LedgerStep
<1>3. QED
  BY <1>1, <1>2, Invariance, PTL DEF Spec, ImplementsLedger, Ledger!LedgerSpec
=============================================================================
