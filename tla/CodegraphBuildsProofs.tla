----------------------- MODULE CodegraphBuildsProofs ------------------------
(***************************************************************************)
(* Machine-checked proofs about CodegraphBuilds, for any sources, digests, *)
(* number of controllers, faults and batch size.                           *)
(*                                                                         *)
(* IndInv is the inductive invariant all results rest on.  A row's         *)
(* artifact never changes once it is inserted (RowsInv); the controllers'  *)
(* local variables agree with the table between two transactions           *)
(* (LoopInv); what exists in Argo and in the object store was made from    *)
(* the row (ArgoInv).  SuccessorInv says what is on record before a row is *)
(* given up, and where that was seen.  NameInv is the part that holds      *)
(* while no Workflow reaches its TTL unobserved.                           *)
(***************************************************************************)
EXTENDS CodegraphBuilds, TLAPS

ItemSteps == Steps \ {"idle", "stopped", "recover", "submit", "observe"}

RowsInv ==
    \A b \in Builds :
        /\ state[b] # "absent" => artifact[b] \in Pairs
        /\ state[b] = "superseded" => SourceOf(b) \in FluxSources

Launched == Active \cup {"succeeded", "failed"}

LoopOK(c) ==
    /\ \A b \in batch[c] : state[b] # "absent"
    /\ cur[c] \in Builds <=> pc[c] \in ItemSteps
    /\ cur[c] \in Builds => state[cur[c]] # "absent"
    /\ pc[c] \in {"recover_record", "catchup", "argo_submit"} => seen[c] \in Pairs
    /\ pc[c] \in RecoverSteps => \A b \in batch[c] : SourceOf(b) \in FluxSources
    /\ pc[c] \in {"catchup", "supersede"} => SourceOf(cur[c]) \in FluxSources
    /\ pc[c] = "argo_submit" => seen[c] = artifact[cur[c]]
    /\ pc[c] = "mark_submitted" => runs[cur[c]] > 0
    /\ pc[c] \in ObserveSteps =>
           /\ \A b \in batch[c] : state[b] \in Launched
           /\ cur[c] \in Builds => state[cur[c]] \in Launched

LoopInv == \A c \in Controllers : LoopOK(c)

ArgoInv ==
    \A b \in Builds :
        /\ runs[b] > 0 => state[b] # "absent" /\ built[b] = artifact[b]
        /\ workflow[b] # "none" => runs[b] > 0
        /\ state[b] \in Active => runs[b] > 0
        /\ workflow[b] \in {"bundled", "reported"} => "bundle" \in objects[b]
        /\ "result" \in objects[b] => "bundle" \in objects[b]
        /\ state[b] = "succeeded" =>
               "result" \in objects[b] /\ built[b] = artifact[b]

IndInv == TypeOK /\ RowsInv /\ LoopInv /\ ArgoInv

(* What is still to be submitted and was launched before has kept its        *)
(* Workflow, so the next submission finds it by its name.                    *)
Relaunchable(b) == runs[b] > 0 => workflow[b] # "none"

NameInv ==
    /\ \A b \in Builds :
           /\ runs[b] <= 1
           /\ state[b] \in {"received"} \cup Active => Relaunchable(b)
    /\ \A c \in Controllers :
           /\ pc[c] \in SubmitSteps => \A b \in batch[c] : Relaunchable(b)
           /\ pc[c] \in {"argo_submit", "mark_submitted"} => Relaunchable(cur[c])
-----------------------------------------------------------------------------
LEMMA BuildsFacts ==
    /\ \A b \in Builds : SourceOf(b) \in Sources
    /\ \A s \in Sources, a \in Pairs : <<s, a.dig>> \in Builds
    /\ Artifacts \subseteq Pairs
BY ArtifactsAssumption DEF Builds, SourceOf, Pairs

LEMMA SamePair ==
    ASSUME NEW p \in Pairs, NEW q \in Pairs, p.rev = q.rev, p.dig = q.dig PROVE p = q
BY DEF Pairs

(* What an event can put on record is a pair, if not always an artifact.     *)
LEMMA EventPairs ==
    ASSUME NEW s \in Sources, NEW a \in Artifacts PROVE EventArtifacts(s, a) \subseteq Pairs
<1>1. a \in Pairs /\ Published(s) \subseteq Pairs
  BY BuildsFacts DEF Published
<1>2. QED
  BY <1>1 DEF EventArtifacts, Pairs

LEMMA InitIndInv == Init => IndInv
<1> SUFFICES ASSUME Init PROVE IndInv
  OBVIOUS
<1>1. TypeOK
  <2>1. /\ course \in Courses
        /\ flux \in [FluxSources -> Artifacts \cup {NoArtifact}]
        /\ events \subseteq Sources \X Artifacts
        /\ config \in [Controllers -> Configs]
    <3>1. /\ course.start \in [FluxSources -> Artifacts \cup {NoArtifact}]
          /\ course.sent \subseteq FluxSources \X Artifacts
          /\ course.configs \subseteq Configs
      BY CoursesAssumption DEF Init
    <3>2. QED
      BY <3>1 DEF Init, Sources
  <2>2. QED
    BY <2>1, NoBuildAssumption DEF Init, TypeOK, States, WorkflowStates, Steps
<1>2. RowsInv /\ LoopInv /\ ArgoInv
  BY NoBuildAssumption
  DEF Init, RowsInv, LoopInv, LoopOK, ArgoInv, ItemSteps, Steps, SubmitSteps, Active
<1>3. QED
  BY <1>1, <1>2 DEF IndInv

LEMMA RecordEventType ==
    ASSUME NEW s \in Sources, NEW a \in Pairs, TypeOK, RecordEvent(s, a)
    PROVE  /\ state' \in [Builds -> States]
           /\ artifact' \in [Builds -> Pairs \cup {NoArtifact}]
           /\ receivedAt' \in [Builds -> Nat]
           /\ submittedAt' \in [Builds -> Nat]
           /\ rows' \in Nat /\ submits' \in Nat
<1> DEFINE b == <<s, a.dig>>
<1>1. b \in Builds
  BY BuildsFacts
<1>2. CASE /\ state' = [state EXCEPT ![b] = "received"]
           /\ artifact' = [artifact EXCEPT ![b] = a]
           /\ rows' = rows + 1
           /\ receivedAt' = [receivedAt EXCEPT ![b] = rows + 1]
           /\ UNCHANGED <<submittedAt, submits>>
  <2>1. "received" \in States /\ rows + 1 \in Nat
    BY DEF States, TypeOK
  <2> HIDE DEF b
  <2>2. QED
    BY <1>1, <1>2, <2>1 DEF TypeOK
<1>3. CASE UNCHANGED tableVars
  BY <1>3 DEF tableVars, TypeOK
<1>4. QED
  BY <1>2, <1>3 DEF RecordEvent

LEMMA TakeType ==
    ASSUME TypeOK, NEW c \in Controllers, NEW b \in Builds, Take(c, b)
    PROVE  /\ batch' \in [Controllers -> SUBSET Builds]
           /\ cur' \in [Controllers -> Builds \cup {NoBuild}]
<1>1. batch[c] \ {b} \in SUBSET Builds
  BY DEF TypeOK
<1>2. QED
  BY <1>1 DEF TypeOK, Take

LEMMA NextItemType ==
    ASSUME TypeOK, NEW c \in Controllers, NEW step \in Steps, NextItem(c, step)
    PROVE  /\ pc' \in [Controllers -> Steps]
           /\ batch' \in [Controllers -> SUBSET Builds]
           /\ cur' \in [Controllers -> Builds \cup {NoBuild}]
           /\ seen' \in [Controllers -> Pairs \cup {NoArtifact}]
BY DEF TypeOK, NextItem, Goto

LEMMA UpdateStateType ==
    ASSUME TypeOK, NEW b \in Builds, NEW from, NEW to \in States, UpdateState(b, from, to)
    PROVE  state' \in [Builds -> States]
BY DEF TypeOK, UpdateState

LEMMA LoopHeadType ==
    ASSUME NEW step \in ItemSteps PROVE LoopHead(step) \in Steps
BY DEF ItemSteps, LoopHead, Steps, RecoverSteps, SubmitSteps, ObserveSteps

LEMMA CurInTable ==
    ASSUME LoopInv, NEW c \in Controllers, pc[c] \in ItemSteps
    PROVE  cur[c] \in Builds /\ state[cur[c]] # "absent"
BY DEF LoopInv, LoopOK

LEMMA TypeStep == IndInv /\ [Next]_vars => TypeOK'
<1> SUFFICES ASSUME IndInv, [Next]_vars PROVE TypeOK'
  OBVIOUS
<1> USE DEF IndInv
<1>1. ASSUME NEW s \in FluxSources, NEW a \in Artifacts \cup {NoArtifact}, FluxPublishes(s, a)
     PROVE  TypeOK'
  BY <1>1 DEF FluxPublishes, TypeOK, tableVars, argoVars, loopVars, processVars, Sources
<1>2. ASSUME NEW s \in Workspaces, NEW a \in Artifacts, WorkspaceAnnounces(s, a)
     PROVE  TypeOK'
  BY <1>2 DEF WorkspaceAnnounces, TypeOK, tableVars, argoVars, loopVars, processVars, Sources
<1>3. ASSUME NEW s \in Sources, NEW a \in Artifacts, EventDelivered(s, a)
     PROVE  TypeOK'
  <2>1. PICK r \in EventArtifacts(s, a) : RecordEvent(s, r)
    BY <1>3 DEF EventDelivered
  <2>2. r \in Pairs
    BY <2>1, EventPairs
  <2>3. QED
    BY <1>3, <2>1, <2>2, RecordEventType DEF EventDelivered, TypeOK, outsideVars, processVars, argoVars, loopVars
<1>4. ASSUME NEW c \in Controllers, RecoverList(c) PROVE TypeOK'
  BY <1>4, BuildsFacts DEF RecoverList, TypeOK, RowsInv, LoopInv, LoopOK, tableVars, outsideVars, processVars, argoVars, Steps, LatestSuperseded, Goto, RecoverSteps
<1>5. ASSUME NEW c \in Controllers, RecoverLook(c) PROVE TypeOK'
  <2>1. PICK b \in batch[c] :
           \/ /\ batch' = [batch EXCEPT ![c] = @ \ {b}]
              /\ UNCHANGED <<pc, cur, seen>>
           \/ /\ flux[SourceOf(b)] \notin {NoArtifact, artifact[b]}
              /\ Take(c, b)
              /\ seen' = [seen EXCEPT ![c] = flux[SourceOf(b)]]
              /\ Goto(c, "recover_record")
    BY <1>5 DEF RecoverLook
  <2>2. b \in Builds /\ flux[SourceOf(b)] \in Pairs \cup {NoArtifact}
    BY <1>5, BuildsFacts DEF RecoverLook, LoopInv, LoopOK, RecoverSteps, TypeOK
  <2>3. batch[c] \ {b} \in SUBSET Builds
    BY DEF TypeOK
  <2>4. /\ pc' \in [Controllers -> Steps]
        /\ batch' \in [Controllers -> SUBSET Builds]
        /\ cur' \in [Controllers -> Builds \cup {NoBuild}]
        /\ seen' \in [Controllers -> Pairs \cup {NoArtifact}]
    <3>1. CASE batch' = [batch EXCEPT ![c] = @ \ {b}] /\ UNCHANGED <<pc, cur, seen>>
      BY <3>1, <2>3 DEF TypeOK
    <3>2. CASE Take(c, b) /\ seen' = [seen EXCEPT ![c] = flux[SourceOf(b)]] /\ Goto(c, "recover_record")
      <4>1. seen' \in [Controllers -> Pairs \cup {NoArtifact}]
        BY <3>2, <2>2 DEF TypeOK
      <4>2. pc' \in [Controllers -> Steps]
        BY <3>2 DEF TypeOK, Goto, Steps, RecoverSteps
      <4>3. QED
        BY <3>2, <2>2, <4>1, <4>2, TakeType
    <3>3. QED
      BY <2>1, <3>1, <3>2
  <2>5. QED
    BY <1>5, <2>4 DEF RecoverLook, TypeOK, tableVars, outsideVars, processVars, argoVars
<1>6. ASSUME NEW c \in Controllers, RecoverRecord(c) PROVE TypeOK'
  <2>1. cur[c] \in Builds /\ seen[c] \in Pairs /\ SourceOf(cur[c]) \in Sources
    BY <1>6, BuildsFacts DEF RecoverRecord, LoopInv, LoopOK, ItemSteps, Steps, RecoverSteps, SubmitSteps
  <2>2. QED
    BY <1>6, <2>1, RecordEventType, NextItemType
    DEF RecoverRecord, TypeOK, Steps, RecoverSteps, outsideVars, processVars, argoVars
<1>7. ASSUME NEW c \in Controllers, LoadPending(c) PROVE TypeOK'
  BY <1>7, BuildsFacts DEF LoadPending, TypeOK, RowsInv, LoopInv, LoopOK, tableVars, outsideVars, processVars, argoVars, Steps, Pending, FirstRows, Goto, SubmitSteps
<1>8. ASSUME NEW c \in Controllers, Preflight(c) PROVE TypeOK'
  <2>1. PICK b \in batch[c] :
           \/ /\ batch' = [batch EXCEPT ![c] = @ \ {b}]
              /\ UNCHANGED <<pc, cur, seen>>
           \/ /\ Take(c, b)
              /\ seen' = [seen EXCEPT ![c] = Current(b)]
              /\ Goto(c, AfterPreflight(b, Current(b)))
    BY <1>8 DEF Preflight
  <2>2. b \in Builds /\ Current(b) \in Pairs \cup {NoArtifact}
    BY <2>1, BuildsFacts DEF Current, TypeOK, Sources
  <2>3. batch[c] \ {b} \in SUBSET Builds /\ AfterPreflight(b, Current(b)) \in Steps
    BY DEF TypeOK, AfterPreflight, Steps, SubmitSteps
  <2>4. /\ pc' \in [Controllers -> Steps]
        /\ batch' \in [Controllers -> SUBSET Builds]
        /\ cur' \in [Controllers -> Builds \cup {NoBuild}]
        /\ seen' \in [Controllers -> Pairs \cup {NoArtifact}]
    <3>1. CASE batch' = [batch EXCEPT ![c] = @ \ {b}] /\ UNCHANGED <<pc, cur, seen>>
      BY <3>1, <2>3 DEF TypeOK
    <3>2. CASE Take(c, b) /\ seen' = [seen EXCEPT ![c] = Current(b)] /\ Goto(c, AfterPreflight(b, Current(b)))
      <4>1. seen' \in [Controllers -> Pairs \cup {NoArtifact}]
        BY <3>2, <2>2 DEF TypeOK
      <4>2. pc' \in [Controllers -> Steps]
        BY <3>2, <2>3 DEF TypeOK, Goto
      <4>3. QED
        BY <3>2, <2>2, <4>1, <4>2, TakeType
    <3>3. QED
      BY <2>1, <3>1, <3>2
  <2>5. QED
    BY <1>8, <2>4 DEF Preflight, TypeOK, tableVars, outsideVars, processVars, argoVars
<1>9. ASSUME NEW c \in Controllers, CatchUp(c) PROVE TypeOK'
  <2>1. cur[c] \in Builds /\ seen[c] \in Pairs /\ SourceOf(cur[c]) \in Sources
    BY <1>9, BuildsFacts DEF CatchUp, LoopInv, LoopOK, ItemSteps, Steps, RecoverSteps, SubmitSteps
  <2>2. QED
    BY <1>9, <2>1, RecordEventType
    DEF CatchUp, TypeOK, Goto, Steps, SubmitSteps, outsideVars, processVars, argoVars
<1>10. ASSUME NEW c \in Controllers, MarkSuperseded(c) PROVE TypeOK'
  <2>1. cur[c] \in Builds
    BY <1>10, CurInTable DEF MarkSuperseded, ItemSteps, Steps, SubmitSteps, ObserveSteps
  <2>2. "superseded" \in States /\ "submit" \in Steps
    BY DEF States, Steps, SubmitSteps
  <2>3. QED
    BY <1>10, <2>1, <2>2, UpdateStateType, NextItemType DEF MarkSuperseded, TypeOK, outsideVars, processVars, argoVars
<1>11. ASSUME NEW c \in Controllers, ArgoSubmit(c) PROVE TypeOK'
  <2>1. cur[c] \in Builds /\ seen[c] \in Pairs
    BY <1>11, CurInTable DEF ArgoSubmit, LoopInv, LoopOK, ItemSteps, Steps, SubmitSteps
  <2>2. "mark_submitted" \in Steps /\ "pending" \in WorkflowStates
    BY DEF Steps, SubmitSteps, WorkflowStates
  <2>3. QED
    BY <1>11, <2>1, <2>2 DEF ArgoSubmit, Goto, TypeOK, tableVars, outsideVars, processVars, argoVars
<1>12. ASSUME NEW c \in Controllers, MarkSubmitted(c) PROVE TypeOK'
  <2>1. cur[c] \in Builds
    BY <1>12, CurInTable DEF MarkSubmitted, ItemSteps, Steps, SubmitSteps
  <2>2. "submitted" \in States /\ "submit" \in Steps
    BY DEF States, Steps, SubmitSteps
  <2>3. /\ state' \in [Builds -> States] /\ submits' \in Nat
        /\ submittedAt' \in [Builds -> Nat]
        /\ UNCHANGED <<artifact, receivedAt, rows>>
    BY <1>12, <2>1, <2>2 DEF MarkSubmitted, TypeOK, tableVars
  <2>4. NextItem(c, "submit") /\ UNCHANGED <<outsideVars, processVars, argoVars, faults>>
    BY <1>12 DEF MarkSubmitted
  <2>5. QED
    BY <2>2, <2>3, <2>4, NextItemType DEF TypeOK, outsideVars, processVars, argoVars
<1>13. ASSUME NEW c \in Controllers, LoadActive(c) PROVE TypeOK'
  BY <1>13, BuildsFacts DEF LoadActive, TypeOK, RowsInv, LoopInv, LoopOK, tableVars, outsideVars, processVars, argoVars, Steps, ActiveRows, FirstRows, Goto, ObserveSteps
<1>14. ASSUME NEW c \in Controllers, Observe(c) PROVE TypeOK'
  <2>1. PICK b \in batch[c] :
           /\ batch' = [batch EXCEPT ![c] = @ \ {b}]
           /\ cur' = [cur EXCEPT ![c] = IF AfterObserve(workflow[b]) = "observe" THEN NoBuild ELSE b]
           /\ Goto(c, AfterObserve(workflow[b]))
    BY <1>14 DEF Observe
  <2>2. b \in Builds /\ batch[c] \ {b} \in SUBSET Builds
    BY DEF TypeOK
  <2>3. AfterObserve(workflow[b]) \in Steps
    BY DEF AfterObserve, Steps, ObserveSteps
  <2>4. QED
    BY <1>14, <2>1, <2>2, <2>3 DEF Observe, Goto, TypeOK, tableVars, outsideVars, processVars, argoVars
<1>15. ASSUME NEW c \in Controllers, MarkRunning(c) PROVE TypeOK'
  <2>1. cur[c] \in Builds
    BY <1>15, CurInTable DEF MarkRunning, ItemSteps, Steps, SubmitSteps, ObserveSteps
  <2>2. "running" \in States /\ "observe" \in Steps
    BY DEF States, Steps, ObserveSteps
  <2>3. QED
    BY <1>15, <2>1, <2>2, UpdateStateType, NextItemType DEF MarkRunning, TypeOK, outsideVars, processVars, argoVars
<1>16. ASSUME NEW c \in Controllers, CompleteSuccess(c) PROVE TypeOK'
  <2>1. cur[c] \in Builds
    BY <1>16, CurInTable DEF CompleteSuccess, ItemSteps, Steps, SubmitSteps, ObserveSteps
  <2>2. "succeeded" \in States /\ "observe" \in Steps
    BY DEF States, Steps, ObserveSteps
  <2>3. QED
    BY <1>16, <2>1, <2>2, UpdateStateType, NextItemType DEF CompleteSuccess, TypeOK, outsideVars, processVars, argoVars
<1>17. ASSUME NEW c \in Controllers, CompleteFailure(c) PROVE TypeOK'
  <2>1. cur[c] \in Builds
    BY <1>17, CurInTable DEF CompleteFailure, ItemSteps, Steps, SubmitSteps, ObserveSteps
  <2>2. "failed" \in States /\ "observe" \in Steps
    BY DEF States, Steps, ObserveSteps
  <2>3. QED
    BY <1>17, <2>1, <2>2, UpdateStateType, NextItemType DEF CompleteFailure, TypeOK, outsideVars, processVars, argoVars
<1>18. ASSUME NEW c \in Controllers, EndDrain(c) PROVE TypeOK'
  BY <1>18, BuildsFacts DEF EndDrain, TypeOK, RowsInv, LoopInv, LoopOK, tableVars, outsideVars, processVars, argoVars, Steps, Goto
<1>19. ASSUME NEW c \in Controllers, StepFails(c) PROVE TypeOK'
  <2>1. pc[c] \in ItemSteps
    BY <1>19 DEF StepFails, LoopInv, LoopOK, TypeOK
  <2>2. LoopHead(pc[c]) \in Steps
    BY <2>1, LoopHeadType
  <2>3. QED
    BY <1>19, <2>2, NextItemType DEF StepFails, TypeOK, tableVars, outsideVars, processVars, argoVars
<1>20. ASSUME NEW c \in Controllers, DrainRaises(c) PROVE TypeOK'
  BY <1>20 DEF DrainRaises, Goto, TypeOK, tableVars, outsideVars, processVars, argoVars, Steps
<1>29. ASSUME NEW c \in Controllers, Restart(c) PROVE TypeOK'
  <2>1. course.configs \subseteq Configs
    BY CoursesAssumption DEF TypeOK
  <2>2. QED
    BY <1>29, <2>1 DEF Restart, TypeOK, tableVars, outsideVars, argoVars, Steps
<1>30. ASSUME NEW c \in Controllers, ResultRefused(c) PROVE TypeOK'
  <2>1. "observe" \in Steps
    BY DEF Steps, ObserveSteps
  <2>2. QED
    BY <1>30, <2>1, NextItemType DEF ResultRefused, TypeOK, tableVars, outsideVars, processVars, argoVars
<1>21. ASSUME NEW b \in Builds, WorkflowStarts(b) PROVE TypeOK'
  BY <1>21 DEF WorkflowStarts, WorkflowMoves, TypeOK, tableVars, outsideVars, processVars, loopVars, WorkflowStates, ArgoRunning, ArgoFinished
<1>22. ASSUME NEW b \in Builds, WorkerUploadsBundle(b) PROVE TypeOK'
  BY <1>22 DEF WorkerUploadsBundle, WorkflowMoves, TypeOK, tableVars, outsideVars, processVars, loopVars, WorkflowStates, ArgoRunning, ArgoFinished
<1>23. ASSUME NEW b \in Builds, WorkerUploadsResult(b) PROVE TypeOK'
  BY <1>23 DEF WorkerUploadsResult, WorkflowMoves, TypeOK, tableVars, outsideVars, processVars, loopVars, WorkflowStates, ArgoRunning, ArgoFinished
<1>24. ASSUME NEW b \in Builds, WorkflowSucceeds(b) PROVE TypeOK'
  BY <1>24 DEF WorkflowSucceeds, WorkflowMoves, TypeOK, tableVars, outsideVars, processVars, loopVars, WorkflowStates, ArgoRunning, ArgoFinished
<1>25. ASSUME NEW b \in Builds, WorkflowFails(b) PROVE TypeOK'
  BY <1>25 DEF WorkflowFails, WorkflowMoves, TypeOK, tableVars, outsideVars, processVars, loopVars, WorkflowStates, ArgoRunning, ArgoFinished
<1>26. ASSUME NEW b \in Builds, WorkflowExpires(b) PROVE TypeOK'
  BY <1>26 DEF WorkflowExpires, WorkflowMoves, TypeOK, tableVars, outsideVars, processVars, loopVars, WorkflowStates, ArgoRunning, ArgoFinished
<1>27. CASE UNCHANGED vars
  BY <1>27 DEF vars, tableVars, outsideVars, argoVars, loopVars, processVars, TypeOK
<1>28. QED
  BY <1>1, <1>2, <1>3, <1>4, <1>5, <1>6, <1>7, <1>8, <1>9, <1>10, <1>11, <1>12, <1>13, <1>14, <1>15, <1>16, <1>17, <1>18, <1>19, <1>20, <1>21, <1>22, <1>23, <1>24, <1>25, <1>26, <1>27, <1>29, <1>30 DEF Next, Environment, DrainStep, Fault, WorkflowStep

-----------------------------------------------------------------------------
(* Which steps write the table, and which write Argo's state.                *)

MarkStep(c) ==
    \/ MarkSuperseded(c)
    \/ MarkSubmitted(c)
    \/ MarkRunning(c)
    \/ CompleteSuccess(c)
    \/ CompleteFailure(c)

LEMMA TableSteps ==
    ASSUME IndInv, [Next]_vars
    PROVE  \/ UNCHANGED tableVars
           \/ \E s \in Sources, a \in Pairs : RecordEvent(s, a)
           \/ \E c \in Controllers : MarkStep(c)
<1>1. CASE \E s \in Sources, a \in Artifacts : EventDelivered(s, a)
  BY <1>1, EventPairs DEF EventDelivered
<1>2. ASSUME NEW c \in Controllers, RecoverRecord(c) \/ CatchUp(c)
      PROVE  \E s \in Sources, a \in Pairs : RecordEvent(s, a)
  <2>1. pc[c] \in ItemSteps /\ pc[c] \in {"recover_record", "catchup"}
    BY <1>2 DEF RecoverRecord, CatchUp, ItemSteps, Steps, RecoverSteps, SubmitSteps
  <2>2. SourceOf(cur[c]) \in Sources /\ seen[c] \in Pairs
    BY <2>1, CurInTable, BuildsFacts DEF IndInv, LoopInv, LoopOK
  <2>3. QED
    BY <1>2, <2>2 DEF RecoverRecord, CatchUp
<1>3. ASSUME NEW c \in Controllers, DrainStep(c) \/ Fault(c)
      PROVE  RecoverRecord(c) \/ CatchUp(c) \/ MarkStep(c) \/ UNCHANGED tableVars
  BY <1>3 DEF DrainStep, Fault, MarkStep, RecoverList, RecoverLook, LoadPending, Preflight,
              ArgoSubmit, LoadActive, Observe, ResultRefused, EndDrain, StepFails, DrainRaises, Restart
<1>4. ASSUME NEW b \in Builds, WorkflowStep(b) \/ WorkflowExpires(b)
      PROVE  UNCHANGED tableVars
  BY <1>4 DEF WorkflowStep, WorkflowStarts, WorkerUploadsBundle, WorkerUploadsResult,
              WorkflowSucceeds, WorkflowFails, WorkflowExpires, WorkflowMoves
<1>5. QED
  BY <1>1, <1>2, <1>3, <1>4
  DEF Next, Environment, FluxPublishes, WorkspaceAnnounces, vars

LEMMA ArgoSteps ==
    ASSUME [Next]_vars
    PROVE  \/ UNCHANGED argoVars
           \/ \E c \in Controllers : ArgoSubmit(c)
           \/ \E b \in Builds : WorkflowStep(b) \/ WorkflowExpires(b)
BY DEF Next, vars, Environment, FluxPublishes, WorkspaceAnnounces, EventDelivered,
       DrainStep, Fault, RecoverList, RecoverLook, RecoverRecord, LoadPending, Preflight,
       CatchUp, MarkSuperseded, MarkSubmitted, LoadActive, Observe, MarkRunning,
       CompleteSuccess, ResultRefused, CompleteFailure, EndDrain, StepFails, DrainRaises, Restart

LEMMA LoopSteps ==
    ASSUME [Next]_vars
    PROVE  \/ UNCHANGED loopVars
           \/ \E c \in Controllers : DrainStep(c) \/ Fault(c)
BY DEF Next, vars, Environment, FluxPublishes, WorkspaceAnnounces, EventDelivered,
       WorkflowStep, WorkflowStarts, WorkerUploadsBundle, WorkerUploadsResult,
       WorkflowSucceeds, WorkflowFails, WorkflowExpires, WorkflowMoves

(* How a step can change one row.                                            *)
RowMove(b) ==
    /\ state[b] # "absent" => state'[b] # "absent" /\ artifact'[b] = artifact[b]
    /\ state[b] = "absent" /\ state'[b] # "absent" =>
           state'[b] = "received" /\ artifact'[b] \in Pairs
    /\ state'[b] = "received" => state[b] \in {"absent", "received"}
    /\ state'[b] = "superseded" => state[b] = "superseded" \/ SourceOf(b) \in FluxSources
    /\ state'[b] \in Active =>
           state[b] \in Active \/ (state[b] = "received" /\ runs[b] > 0)
    /\ state[b] \in Launched => state'[b] \in Launched
    /\ state'[b] = "succeeded" => state[b] = "succeeded" \/ \E c \in Controllers : ResultAccepted(c, b)

LEMMA RowMoves ==
    ASSUME IndInv, [Next]_vars PROVE \A b \in Builds : RowMove(b)
<1> USE DEF IndInv
<1>1. CASE UNCHANGED tableVars
  BY <1>1 DEF tableVars, RowMove
<1>2. ASSUME NEW s \in Sources, NEW a \in Pairs, RecordEvent(s, a),
             NEW b \in Builds
      PROVE  RowMove(b)
  BY <1>2 DEF RecordEvent, tableVars, TypeOK, RowMove, Active, Launched
<1>3. ASSUME NEW c \in Controllers, MarkStep(c), NEW b \in Builds
      PROVE  RowMove(b)
  <2>1. pc[c] \in ItemSteps
    BY <1>3 DEF MarkStep, MarkSuperseded, MarkSubmitted, MarkRunning, CompleteSuccess,
                CompleteFailure, ItemSteps, Steps, SubmitSteps, ObserveSteps
  <2>2. cur[c] \in Builds /\ state[cur[c]] # "absent"
    BY <2>1, CurInTable
  <2>3. CASE MarkSuperseded(c)
    BY <2>2, <2>3 DEF MarkSuperseded, UpdateState, LoopInv, LoopOK, TypeOK, RowMove, Active, Launched
  <2>4. CASE MarkSubmitted(c)
    BY <2>2, <2>4 DEF MarkSubmitted, LoopInv, LoopOK, TypeOK, RowMove, Active, Launched, tableVars
  <2>5. CASE MarkRunning(c)
    BY <2>2, <2>5 DEF MarkRunning, UpdateState, ArgoInv, TypeOK, RowMove, Active, Launched
  <2>6. CASE CompleteSuccess(c)
    BY <2>2, <2>6 DEF CompleteSuccess, UpdateState, TypeOK, RowMove, Active, Launched
  <2>7. CASE CompleteFailure(c)
    BY <2>2, <2>7 DEF CompleteFailure, UpdateState, TypeOK, RowMove, Active, Launched
  <2>8. QED
    BY <1>3, <2>3, <2>4, <2>5, <2>6, <2>7 DEF MarkStep
<1>4. QED
  BY <1>1, <1>2, <1>3, TableSteps

LEMMA RowsStep == ASSUME IndInv, [Next]_vars PROVE RowsInv'
BY RowMoves DEF IndInv, RowsInv, RowMove

(* Launches are never forgotten, and objects stay in the store.              *)
LEMMA ArgoGrows ==
    ASSUME IndInv, [Next]_vars
    PROVE  \A b \in Builds : runs'[b] >= runs[b] /\ objects[b] \subseteq objects'[b]
<1>1. CASE UNCHANGED argoVars
  BY <1>1 DEF argoVars, IndInv, TypeOK
<1>2. ASSUME NEW c \in Controllers, ArgoSubmit(c)
      PROVE  \A b \in Builds : runs'[b] >= runs[b] /\ objects[b] \subseteq objects'[b]
  BY <1>2 DEF ArgoSubmit, argoVars, IndInv, TypeOK
<1>3. ASSUME NEW o \in Builds, WorkflowStep(o) \/ WorkflowExpires(o)
      PROVE  \A b \in Builds : runs'[b] >= runs[b] /\ objects[b] \subseteq objects'[b]
  BY <1>3 DEF WorkflowStep, WorkflowStarts, WorkerUploadsBundle, WorkerUploadsResult,
              WorkflowSucceeds, WorkflowFails, WorkflowExpires, WorkflowMoves, IndInv, TypeOK
<1>4. QED
  BY <1>1, <1>2, <1>3, ArgoSteps

LEMMA ArgoStep == ASSUME IndInv, [Next]_vars PROVE ArgoInv'
<1> USE DEF IndInv
<1>1. \A b \in Builds : RowMove(b)
  BY RowMoves
<1>2. CASE UNCHANGED argoVars
  BY <1>1, <1>2 DEF argoVars, ArgoInv, RowMove, ResultAccepted
<1>3. ASSUME NEW c \in Controllers, ArgoSubmit(c) PROVE ArgoInv'
  <2>1. cur[c] \in Builds /\ state[cur[c]] # "absent" /\ seen[c] = artifact[cur[c]]
    BY <1>3, CurInTable DEF ArgoSubmit, ItemSteps, Steps, SubmitSteps, LoopInv, LoopOK
  <2>2. state' = state /\ artifact' = artifact
    BY <1>3 DEF ArgoSubmit, tableVars
  <2>3. QED
    BY <1>3, <2>1, <2>2 DEF ArgoSubmit, ArgoInv, argoVars, TypeOK, Active
<1>4. ASSUME NEW o \in Builds, WorkflowStep(o) \/ WorkflowExpires(o) PROVE ArgoInv'
  <2>1. /\ state' = state /\ artifact' = artifact
        /\ built' = built /\ runs' = runs
    BY <1>4 DEF WorkflowStep, WorkflowStarts, WorkerUploadsBundle, WorkerUploadsResult,
                WorkflowSucceeds, WorkflowFails, WorkflowExpires, WorkflowMoves, tableVars
  <2>2. CASE WorkflowStarts(o)
    BY <2>1, <2>2 DEF WorkflowStarts, WorkflowMoves, ArgoInv, TypeOK
  <2>3. CASE WorkerUploadsBundle(o)
    BY <2>1, <2>3 DEF WorkerUploadsBundle, WorkflowMoves, ArgoInv, TypeOK
  <2>4. CASE WorkerUploadsResult(o)
    BY <2>1, <2>4 DEF WorkerUploadsResult, WorkflowMoves, ArgoInv, TypeOK
  <2>5. CASE WorkflowSucceeds(o) \/ WorkflowFails(o)
    BY <2>1, <2>5 DEF WorkflowSucceeds, WorkflowFails, WorkflowMoves, ArgoInv, TypeOK, ArgoRunning
  <2>6. CASE WorkflowExpires(o)
    BY <2>1, <2>6 DEF WorkflowExpires, WorkflowMoves, ArgoInv, TypeOK
  <2>7. QED
    BY <1>4, <2>2, <2>3, <2>4, <2>5, <2>6 DEF WorkflowStep
<1>5. QED
  BY <1>2, <1>3, <1>4, ArgoSteps

(* The step of one controller leaves the others' local variables alone.      *)
LEMMA LoopFrame ==
    ASSUME TypeOK, NEW c \in Controllers, DrainStep(c) \/ Fault(c),
           NEW d \in Controllers, d # c
    PROVE  pc'[d] = pc[d] /\ batch'[d] = batch[d] /\ cur'[d] = cur[d] /\ seen'[d] = seen[d]
BY DEF TypeOK, DrainStep, Fault, RecoverList, RecoverLook, RecoverRecord, LoadPending,
       Preflight, CatchUp, MarkSuperseded, ArgoSubmit, MarkSubmitted, LoadActive, Observe,
       MarkRunning, CompleteSuccess, ResultRefused, CompleteFailure, EndDrain, StepFails,
       DrainRaises, Restart,
       NextItem, Take, Goto

(* What a controller knows of a row stays true whoever moves.                *)
LEMMA RowsLast ==
    ASSUME IndInv, [Next]_vars
    PROVE  \A b \in Builds :
               /\ state[b] # "absent" => state'[b] # "absent" /\ artifact'[b] = artifact[b]
               /\ runs[b] > 0 => runs'[b] > 0
               /\ state[b] \in Launched => state'[b] \in Launched
<1>1. \A b \in Builds : RowMove(b) /\ runs[b] \in Nat /\ runs'[b] \in Nat /\ runs'[b] >= runs[b]
  BY RowMoves, ArgoGrows, TypeStep DEF IndInv, TypeOK
<1>2. QED
  BY <1>1 DEF RowMove

LEMMA LoopKept ==
    ASSUME IndInv, [Next]_vars, NEW c \in Controllers,
           pc'[c] = pc[c], batch'[c] = batch[c], cur'[c] = cur[c], seen'[c] = seen[c]
    PROVE  LoopOK(c)'
<1>1. LoopOK(c) /\ batch[c] \subseteq Builds /\ pc[c] \in Steps
  BY DEF IndInv, LoopInv, TypeOK
<1>2. QED
  BY <1>1, RowsLast DEF LoopOK, ItemSteps, Steps, RecoverSteps, SubmitSteps, ObserveSteps

(* Back at the head of a loop, with a part of the batch.                     *)
LEMMA LoopAtHead ==
    ASSUME IndInv, [Next]_vars, NEW c \in Controllers,
           pc'[c] \in {"idle", "stopped", "recover", "submit", "observe"},
           cur'[c] = NoBuild,
           batch'[c] \subseteq batch[c],
           pc'[c] = "recover" => pc[c] \in RecoverSteps,
           pc'[c] = "observe" => pc[c] \in ObserveSteps
    PROVE  LoopOK(c)'
<1>1. LoopOK(c) /\ batch[c] \subseteq Builds
  BY DEF IndInv, LoopInv, TypeOK
<1>2. QED
  BY <1>1, RowsLast, NoBuildAssumption DEF LoopOK, ItemSteps, RecoverSteps, ObserveSteps

LEMMA LoopStepRecover ==
    ASSUME IndInv, [Next]_vars, NEW c \in Controllers,
           RecoverList(c) \/ RecoverLook(c) \/ RecoverRecord(c)
    PROVE  LoopOK(c)'
<1>1. /\ LoopOK(c) /\ batch[c] \subseteq Builds /\ cur[c] \in Builds \cup {NoBuild}
      /\ TypeOK /\ TypeOK' /\ RowsInv
  BY TypeStep DEF IndInv, LoopInv, TypeOK
<1>2. CASE RecoverList(c)
  <2>1. LatestSuperseded \subseteq Builds /\ cur[c] = NoBuild
    BY <1>1, <1>2 DEF LatestSuperseded, RecoverList, LoopOK, ItemSteps, TypeOK, ObserveSteps
  <2>2. pc'[c] = "recover" /\ batch'[c] = LatestSuperseded /\ cur'[c] = NoBuild
    BY <1>1, <1>2, <2>1 DEF RecoverList, Goto, TypeOK
  <2>3. \A b \in LatestSuperseded : state'[b] # "absent" /\ SourceOf(b) \in FluxSources
    BY <1>1, <2>1, RowsLast DEF LatestSuperseded, RowsInv
  <2>4. QED
    BY <2>2, <2>3, NoBuildAssumption DEF LoopOK, ItemSteps, RecoverSteps, ObserveSteps
<1>3. CASE RecoverLook(c)
  <2>1. pc[c] = "recover" /\ cur[c] = NoBuild
    BY <1>1, <1>3 DEF RecoverLook, LoopOK, ItemSteps, ObserveSteps
  <2>2. PICK b \in batch[c] :
           \/ /\ batch' = [batch EXCEPT ![c] = @ \ {b}]
              /\ UNCHANGED <<pc, cur, seen>>
           \/ /\ flux[SourceOf(b)] \notin {NoArtifact, artifact[b]}
              /\ Take(c, b)
              /\ seen' = [seen EXCEPT ![c] = flux[SourceOf(b)]]
              /\ Goto(c, "recover_record")
    BY <1>3 DEF RecoverLook
  <2>3. b \in Builds /\ state'[b] # "absent" /\ SourceOf(b) \in FluxSources
    BY <1>1, <2>1, <2>2, RowsLast DEF LoopOK, RecoverSteps, ObserveSteps
  <2>4. batch'[c] \subseteq batch[c]
    BY <1>1, <2>2 DEF TypeOK, Take
  <2>5. CASE UNCHANGED <<pc, cur, seen>>
    BY <2>1, <2>4, <2>5, LoopAtHead DEF RecoverSteps
  <2>6. CASE /\ flux[SourceOf(b)] \notin {NoArtifact, artifact[b]}
             /\ Take(c, b)
             /\ seen' = [seen EXCEPT ![c] = flux[SourceOf(b)]]
             /\ Goto(c, "recover_record")
    <3>1. pc'[c] = "recover_record" /\ cur'[c] = b /\ seen'[c] = flux[SourceOf(b)]
      BY <1>1, <2>6 DEF TypeOK, Take, Goto
    <3>2. seen'[c] \in Pairs
      BY <1>1, <2>3, <2>6, <3>1, BuildsFacts DEF TypeOK
    <3>3. \A o \in batch'[c] : state'[o] # "absent" /\ SourceOf(o) \in FluxSources
      BY <1>1, <2>1, <2>4, RowsLast DEF LoopOK, RecoverSteps, ObserveSteps
    <3>4. QED
      BY <2>3, <3>1, <3>2, <3>3 DEF LoopOK, ItemSteps, Steps, RecoverSteps, ObserveSteps
  <2>7. QED
    BY <2>2, <2>5, <2>6
<1>4. CASE RecoverRecord(c)
  <2>1. pc[c] = "recover_record" /\ pc'[c] = "recover" /\ cur'[c] = NoBuild /\ batch' = batch
    BY <1>1, <1>4 DEF RecoverRecord, NextItem, Goto, TypeOK
  <2>2. QED
    BY <2>1, LoopAtHead DEF RecoverSteps
<1>5. QED
  BY <1>2, <1>3, <1>4

LEMMA LoopStepSubmit ==
    ASSUME IndInv, [Next]_vars, NEW c \in Controllers,
           LoadPending(c) \/ Preflight(c) \/ CatchUp(c) \/ ArgoSubmit(c)
    PROVE  LoopOK(c)'
<1>1. /\ LoopOK(c) /\ batch[c] \subseteq Builds /\ cur[c] \in Builds \cup {NoBuild}
      /\ TypeOK /\ TypeOK' /\ RowsInv
  BY TypeStep DEF IndInv, LoopInv, TypeOK
<1>2. CASE LoadPending(c)
  <2>1. cur[c] = NoBuild
    BY <1>1, <1>2 DEF LoadPending, LoopOK, ItemSteps, TypeOK, ObserveSteps
  <2>2. pc'[c] = "submit" /\ batch'[c] = Pending /\ cur'[c] = NoBuild
    BY <1>1, <1>2, <2>1 DEF LoadPending, Goto, TypeOK
  <2>3. \A b \in Pending : state'[b] # "absent"
    BY RowsLast DEF Pending, FirstRows
  <2>4. QED
    BY <2>2, <2>3, NoBuildAssumption DEF LoopOK, ItemSteps, RecoverSteps, ObserveSteps
<1>3. CASE Preflight(c)
  <2>1. pc[c] = "submit" /\ cur[c] = NoBuild /\ state' = state /\ artifact' = artifact
    BY <1>1, <1>3 DEF Preflight, LoopOK, ItemSteps, tableVars, ObserveSteps
  <2>2. PICK b \in batch[c] :
           \/ /\ batch' = [batch EXCEPT ![c] = @ \ {b}]
              /\ UNCHANGED <<pc, cur, seen>>
           \/ /\ Current(b) # NoArtifact
              /\ Take(c, b)
              /\ seen' = [seen EXCEPT ![c] = Current(b)]
              /\ Goto(c, AfterPreflight(b, Current(b)))
    BY <1>3 DEF Preflight
  <2>3. b \in Builds /\ state[b] # "absent" /\ SourceOf(b) \in Sources /\ artifact[b] \in Pairs
    BY <1>1, <2>2, BuildsFacts DEF LoopOK, RowsInv, ObserveSteps
  <2>4. batch'[c] \subseteq batch[c]
    BY <1>1, <2>2 DEF TypeOK, Take
  <2>5. CASE UNCHANGED <<pc, cur, seen>>
    BY <2>1, <2>4, <2>5, LoopAtHead
  <2>6. CASE /\ Current(b) # NoArtifact
             /\ Take(c, b)
             /\ seen' = [seen EXCEPT ![c] = Current(b)]
             /\ Goto(c, AfterPreflight(b, Current(b)))
    <3>1. /\ pc'[c] = AfterPreflight(b, Current(b)) /\ pc'[c] \in {"catchup", "argo_submit"}
          /\ cur'[c] = b /\ seen'[c] = Current(b)
      BY <1>1, <2>6 DEF TypeOK, Take, Goto, AfterPreflight
    <3>2. Current(b) \in Pairs
      BY <1>1, <2>3, <2>6, BuildsFacts DEF TypeOK, Current, Sources
    <3>3. SourceOf(b) \in Workspaces => pc'[c] = "argo_submit"
      BY <3>1 DEF AfterPreflight, IsCurrent, Current
    <3>4. pc'[c] = "argo_submit" => Current(b) = artifact[b]
      <4>1. SUFFICES ASSUME IsCurrent(b, Current(b)) PROVE Current(b) = artifact[b]
        BY <3>1 DEF AfterPreflight
      <4>2. QED
        BY <2>3, <3>2, <4>1, SamePair DEF IsCurrent
    <3>5. \A o \in batch'[c] : state'[o] # "absent"
      BY <1>1, <2>1, <2>4 DEF LoopOK, ObserveSteps
    <3>6. QED
      BY <2>1, <2>3, <3>1, <3>2, <3>3, <3>4, <3>5
      DEF LoopOK, ItemSteps, Steps, RecoverSteps, SubmitSteps, Sources, ObserveSteps
  <2>7. QED
    BY <2>2, <2>5, <2>6
<1>4. CASE CatchUp(c)
  <2>1. pc[c] = "catchup" /\ pc'[c] = "supersede" /\ cur' = cur /\ batch' = batch
    BY <1>1, <1>4 DEF CatchUp, Goto, TypeOK
  <2>2. QED
    BY <1>1, <2>1, RowsLast DEF LoopOK, ItemSteps, Steps, RecoverSteps, SubmitSteps, ObserveSteps
<1>5. CASE ArgoSubmit(c)
  <2>1. pc[c] = "argo_submit" /\ pc'[c] = "mark_submitted" /\ cur' = cur /\ batch' = batch
    BY <1>1, <1>5 DEF ArgoSubmit, Goto, TypeOK
  <2>2. cur[c] \in Builds
    BY <1>1, <2>1 DEF LoopOK, ItemSteps, Steps, SubmitSteps, ObserveSteps
  <2>3. runs'[cur[c]] > 0
    BY <1>1, <1>5, <2>2 DEF ArgoSubmit, IndInv, ArgoInv, TypeOK, argoVars
  <2>4. QED
    BY <1>1, <2>1, <2>2, <2>3, RowsLast DEF LoopOK, ItemSteps, Steps, RecoverSteps, SubmitSteps, ObserveSteps
<1>6. QED
  BY <1>2, <1>3, <1>4, <1>5

LEMMA LoopStepRest ==
    ASSUME IndInv, [Next]_vars, NEW c \in Controllers,
           \/ MarkStep(c) \/ LoadActive(c) \/ Observe(c) \/ EndDrain(c)
           \/ ResultRefused(c) \/ StepFails(c) \/ DrainRaises(c) \/ Restart(c)
    PROVE  LoopOK(c)'
<1>1. /\ LoopOK(c) /\ batch[c] \subseteq Builds /\ cur[c] \in Builds \cup {NoBuild}
      /\ TypeOK /\ TypeOK' /\ RowsInv
  BY TypeStep DEF IndInv, LoopInv, TypeOK
<1>2. CASE MarkStep(c)
  <2>1. /\ pc'[c] \in {"submit", "observe"} /\ cur'[c] = NoBuild /\ batch' = batch
        /\ pc'[c] = "observe" => pc[c] \in ObserveSteps
    BY <1>1, <1>2 DEF MarkStep, MarkSuperseded, MarkSubmitted, MarkRunning, CompleteSuccess,
                      CompleteFailure, NextItem, Goto, TypeOK, ObserveSteps
  <2>2. QED
    BY <2>1, LoopAtHead
<1>3. CASE LoadActive(c)
  <2>1. cur[c] = NoBuild
    BY <1>1, <1>3 DEF LoadActive, LoopOK, ItemSteps, TypeOK, ObserveSteps
  <2>2. pc'[c] = "observe" /\ batch'[c] = ActiveRows /\ cur'[c] = NoBuild
    BY <1>1, <1>3, <2>1 DEF LoadActive, Goto, TypeOK
  <2>3. \A b \in ActiveRows : state'[b] # "absent" /\ state'[b] \in Launched
    BY RowsLast DEF ActiveRows, FirstRows, Active, Launched
  <2>4. QED
    BY <2>2, <2>3, NoBuildAssumption DEF LoopOK, ItemSteps, RecoverSteps, ObserveSteps
<1>4. CASE Observe(c)
  <2>1. PICK b \in batch[c] :
           /\ batch' = [batch EXCEPT ![c] = @ \ {b}]
           /\ cur' = [cur EXCEPT ![c] = IF AfterObserve(workflow[b]) = "observe" THEN NoBuild ELSE b]
           /\ Goto(c, AfterObserve(workflow[b]))
    BY <1>4 DEF Observe
  <2>2. b \in Builds /\ state'[b] # "absent" /\ state'[b] \in Launched /\ batch'[c] \subseteq batch[c]
    BY <1>1, <1>4, <2>1, RowsLast DEF Observe, LoopOK, TypeOK, ObserveSteps
  <2>3. /\ pc'[c] = AfterObserve(workflow[b])
        /\ pc'[c] \in {"observe", "mark_running", "read_result", "complete_failure"}
        /\ cur'[c] = IF pc'[c] = "observe" THEN NoBuild ELSE b
    BY <1>1, <2>1 DEF TypeOK, Goto, AfterObserve
  <2>4. \A o \in batch'[c] : state'[o] # "absent" /\ state'[o] \in Launched
    BY <1>1, <1>4, <2>2, RowsLast DEF Observe, LoopOK, ObserveSteps
  <2>5. QED
    BY <2>2, <2>3, <2>4, NoBuildAssumption
    DEF LoopOK, ItemSteps, Steps, RecoverSteps, SubmitSteps, ObserveSteps
<1>5. CASE EndDrain(c)
  <2>1. pc'[c] = "idle" /\ cur'[c] = NoBuild /\ batch' = batch
    BY <1>1, <1>5 DEF EndDrain, Goto, TypeOK, LoopOK, ItemSteps, ObserveSteps
  <2>2. QED
    BY <2>1, LoopAtHead
<1>6. CASE StepFails(c)
  <2>1. pc[c] \in ItemSteps
    BY <1>1, <1>6 DEF StepFails, LoopOK, ObserveSteps
  <2>2. /\ LoopHead(pc[c]) \in {"recover", "submit", "observe"}
        /\ LoopHead(pc[c]) = "recover" => pc[c] \in RecoverSteps
        /\ LoopHead(pc[c]) = "observe" => pc[c] \in ObserveSteps
    BY <2>1 DEF ItemSteps, Steps, LoopHead, RecoverSteps, SubmitSteps, ObserveSteps
  <2>3. pc'[c] = LoopHead(pc[c]) /\ cur'[c] = NoBuild /\ batch' = batch
    BY <1>1, <1>6 DEF StepFails, NextItem, Goto, TypeOK
  <2>4. QED
    BY <2>2, <2>3, LoopAtHead
<1>7. CASE Restart(c)
  <2>1. pc'[c] = "idle" /\ cur'[c] = NoBuild /\ batch'[c] = {}
    BY <1>1, <1>7 DEF Restart, TypeOK
  <2>2. QED
    BY <2>1, LoopAtHead
<1>8. CASE DrainRaises(c)
  <2>1. pc'[c] \in {"stopped", "idle"} /\ cur'[c] = NoBuild /\ batch' = batch
    BY <1>1, <1>8 DEF DrainRaises, Goto, TypeOK, LoopOK, ItemSteps, ObserveSteps
  <2>2. QED
    BY <2>1, LoopAtHead
<1>9. CASE ResultRefused(c)
  <2>1. pc'[c] = "observe" /\ pc[c] \in ObserveSteps /\ cur'[c] = NoBuild /\ batch' = batch
    BY <1>1, <1>9 DEF ResultRefused, NextItem, Goto, TypeOK, ObserveSteps
  <2>2. QED
    BY <2>1, LoopAtHead
<1>10. QED
  BY <1>2, <1>3, <1>4, <1>5, <1>6, <1>7, <1>8, <1>9

LEMMA LoopStep == ASSUME IndInv, [Next]_vars PROVE LoopInv'
<1>1. CASE UNCHANGED loopVars
  BY <1>1, LoopKept DEF loopVars, LoopInv
<1>2. ASSUME NEW c \in Controllers, DrainStep(c) \/ Fault(c) PROVE LoopInv'
  <2>1. LoopOK(c)'
    BY <1>2, LoopStepRecover, LoopStepSubmit, LoopStepRest DEF DrainStep, Fault, MarkStep
  <2>2. ASSUME NEW d \in Controllers, d # c PROVE LoopOK(d)'
    BY <1>2, <2>2, LoopFrame, LoopKept DEF IndInv
  <2>3. QED
    BY <2>1, <2>2 DEF LoopInv
<1>3. QED
  BY <1>1, <1>2, LoopSteps

THEOREM Inductive == Spec => []IndInv
<1>1. Init => IndInv
  BY InitIndInv
<1>2. IndInv /\ [Next]_vars => IndInv'
  BY TypeStep, RowsStep, LoopStep, ArgoStep DEF IndInv
<1>3. QED
  BY <1>1, <1>2, PTL DEF Spec

-----------------------------------------------------------------------------
(* Results that need nothing but the code's own structure: any number of     *)
(* controllers, any interleaving, any faults, and late expiry allowed.       *)

(* Every variable stays in its domain (TypeOK): in particular the state      *)
(* column only holds values the table's CHECK constraint allows.             *)
THEOREM TypeCorrect == Spec => []TypeOK
BY Inductive, PTL DEF IndInv

(* A Workflow computes the artifact of the row it is named after, although   *)
(* _submit_pending takes the artifact from Flux and not from the row.        *)
THEOREM BuildsItsRow == Spec => []WorkflowBuildsItsRow
<1>1. IndInv => WorkflowBuildsItsRow
  BY DEF IndInv, ArgoInv, WorkflowBuildsItsRow
<1>2. QED
  BY <1>1, Inductive, PTL

(* A row is succeeded only with both objects of its own artifact in the      *)
(* store: _read_result checks the result, the worker's upload order the rest. *)
THEOREM SuccessIsPublished == Spec => []SucceededIsPublished
<1>1. IndInv => SucceededIsPublished
  <2>1. SUFFICES ASSUME IndInv, NEW b \in Builds, state[b] = "succeeded"
                 PROVE  objects[b] = {"bundle", "result"} /\ built[b] = artifact[b]
    BY DEF SucceededIsPublished
  <2>2. "result" \in objects[b] /\ "bundle" \in objects[b] /\ built[b] = artifact[b]
    BY <2>1 DEF IndInv, ArgoInv
  <2>3. objects[b] \in SUBSET {"bundle", "result"}
    BY <2>1 DEF IndInv, TypeOK
  <2>4. QED
    BY <2>2, <2>3
<1>2. QED
  BY <1>1, Inductive, PTL

-----------------------------------------------------------------------------
(* What is on record when a row is given up.                                 *)

Replaced(b) ==
    \E o \in Builds \ {b} : SourceOf(o) = SourceOf(b) /\ state[o] # "absent"

(* Its digest was published with another revision than the row's.            *)
SameContent(b) ==
    \E a \in Published(SourceOf(b)) : a.dig = b[2] /\ a.rev # artifact[b].rev

(* What a controller that is about to give up its row has seen and recorded. *)
GivesUpOK(c) ==
    /\ pc[c] \in {"catchup", "supersede"} =>
           seen[c] \in Published(SourceOf(cur[c])) /\ seen[c] # artifact[cur[c]]
    /\ pc[c] = "supersede" => state[<<SourceOf(cur[c]), seen[c].dig>>] # "absent"

SuccessorInv ==
    /\ \A s \in FluxSources : flux[s] # NoArtifact => flux[s] \in Published(s)
    /\ \A b \in Builds :
           /\ state[b] # "absent" => artifact[b].dig = b[2]
           /\ state[b] = "superseded" => Replaced(b) \/ SameContent(b)
    /\ \A c \in Controllers : GivesUpOK(c)

LEMMA InitSuccessor == Init => SuccessorInv
<1> SUFFICES ASSUME Init PROVE SuccessorInv
  OBVIOUS
<1>1. \A s \in FluxSources : flux[s] # NoArtifact => flux[s] \in Published(s)
  BY CoursesAssumption DEF Init, Published
<1>2. QED
  BY <1>1 DEF Init, SuccessorInv, GivesUpOK

(* An event that was sent stays sent.                                        *)
LEMMA PublishedGrows ==
    ASSUME [Next]_vars PROVE \A s \in Sources : Published(s) \subseteq Published(s)'
<1>1. events \subseteq events'
  BY DEF Next, vars, Environment, FluxPublishes, WorkspaceAnnounces, EventDelivered, outsideVars,
         DrainStep, Fault, RecoverList, RecoverLook, RecoverRecord, LoadPending, Preflight,
         CatchUp, MarkSuperseded, ArgoSubmit, MarkSubmitted, LoadActive, Observe, MarkRunning,
         CompleteSuccess, ResultRefused, CompleteFailure, EndDrain, StepFails, DrainRaises,
         Restart, WorkflowStep, WorkflowStarts, WorkerUploadsBundle, WorkerUploadsResult,
         WorkflowSucceeds, WorkflowFails, WorkflowExpires, WorkflowMoves
<1>2. QED
  BY <1>1 DEF Published

(* What a GitRepository holds was published.                                 *)
LEMMA FluxKept ==
    ASSUME IndInv, SuccessorInv, [Next]_vars, NEW s \in FluxSources, flux'[s] # NoArtifact
    PROVE  flux'[s] \in Published(s)'
<1>1. CASE flux' = flux
  BY <1>1, PublishedGrows DEF SuccessorInv, Sources
<1>2. ASSUME NEW r \in FluxSources, NEW a \in Artifacts \cup {NoArtifact}, FluxPublishes(r, a)
      PROVE  flux'[s] \in Published(s)'
  <2>1. CASE s = r
    <3>1. flux'[s] = a /\ a \in Artifacts /\ <<s, a>> \in events'
      BY <1>2, <2>1 DEF FluxPublishes, IndInv, TypeOK
    <3>2. QED
      BY <3>1 DEF Published
  <2>2. CASE s # r
    <3>1. flux'[s] = flux[s]
      BY <1>2, <2>2 DEF FluxPublishes, IndInv, TypeOK
    <3>2. QED
      BY <3>1, PublishedGrows DEF SuccessorInv, Sources
  <2>3. QED
    BY <2>1, <2>2
<1>3. QED
  BY <1>1, <1>2
  DEF Next, vars, Environment, WorkspaceAnnounces, EventDelivered, outsideVars,
      DrainStep, Fault, RecoverList, RecoverLook, RecoverRecord, LoadPending, Preflight,
      CatchUp, MarkSuperseded, ArgoSubmit, MarkSubmitted, LoadActive, Observe, MarkRunning,
      CompleteSuccess, ResultRefused, CompleteFailure, EndDrain, StepFails, DrainRaises,
      Restart, WorkflowStep, WorkflowStarts, WorkerUploadsBundle, WorkerUploadsResult,
      WorkflowSucceeds, WorkflowFails, WorkflowExpires, WorkflowMoves

LEMMA BuildIsPair == \A b \in Builds : b = <<SourceOf(b), b[2]>>
BY DEF Builds, SourceOf

(* Where a controller comes from when it is about to give up a row.          *)
LEMMA GivesUpTrace ==
    ASSUME IndInv, [Next]_vars, NEW c \in Controllers, pc'[c] \in {"catchup", "supersede"}
    PROVE  \/ pc'[c] = pc[c] /\ cur'[c] = cur[c] /\ seen'[c] = seen[c]
           \/ Preflight(c) /\ pc'[c] = "catchup"
           \/ CatchUp(c)
<1> USE DEF IndInv
<1>1. CASE UNCHANGED loopVars
  BY <1>1 DEF loopVars
<1>2. ASSUME NEW d \in Controllers, d # c, DrainStep(d) \/ Fault(d)
      PROVE  pc'[c] = pc[c] /\ cur'[c] = cur[c] /\ seen'[c] = seen[c]
  BY <1>2, LoopFrame
<1>3. CASE RecoverLook(c)
  <2>1. pc'[c] \in {"recover", "recover_record"}
    BY <1>3 DEF RecoverLook, Goto, TypeOK
  <2>2. QED
    BY <2>1
<1>4. CASE Observe(c)
  <2>1. \E b \in batch[c] : pc'[c] = AfterObserve(workflow[b])
    BY <1>4 DEF Observe, Goto, TypeOK
  <2>2. QED
    BY <2>1 DEF AfterObserve
<1>5. CASE Preflight(c)
  <2>1. pc[c] = "submit" /\ pc'[c] \in {"submit", "catchup", "argo_submit"}
    BY <1>5 DEF Preflight, AfterPreflight, Goto, TypeOK
  <2>2. QED
    BY <1>5, <2>1
<1>6. CASE CatchUp(c)
  BY <1>6
<1>7. CASE StepFails(c)
  <2>1. pc'[c] = LoopHead(pc[c]) /\ pc[c] \in ItemSteps
    BY <1>7 DEF StepFails, NextItem, Goto, TypeOK, LoopInv, LoopOK
  <2>2. QED
    BY <2>1 DEF LoopHead, ItemSteps, Steps, RecoverSteps, SubmitSteps, ObserveSteps
<1>8. CASE \/ RecoverList(c) \/ RecoverRecord(c) \/ LoadPending(c) \/ MarkStep(c)
           \/ ArgoSubmit(c) \/ LoadActive(c) \/ EndDrain(c)
           \/ ResultRefused(c) \/ DrainRaises(c) \/ Restart(c)
  <2>1. pc'[c] \in {"idle", "stopped", "recover", "submit", "mark_submitted", "observe"}
    BY <1>8 DEF RecoverList, RecoverRecord, LoadPending, MarkStep, MarkSuperseded, MarkSubmitted,
                MarkRunning, CompleteSuccess, CompleteFailure, ArgoSubmit, LoadActive, EndDrain,
                ResultRefused, DrainRaises, Restart, NextItem, Goto, TypeOK
  <2>2. QED
    BY <2>1
<1>9. QED
  BY <1>1, <1>2, <1>3, <1>4, <1>5, <1>6, <1>7, <1>8, LoopSteps DEF DrainStep, Fault, MarkStep

LEMMA DigestsKept ==
    ASSUME IndInv, SuccessorInv, [Next]_vars
    PROVE  \A b \in Builds : state'[b] # "absent" => artifact'[b].dig = b[2]
<1>1. ASSUME NEW b \in Builds, state'[b] # "absent", state[b] # "absent"
      PROVE  artifact'[b].dig = b[2]
  BY <1>1, RowsLast DEF SuccessorInv
<1>2. ASSUME NEW b \in Builds, state'[b] # "absent", state[b] = "absent"
      PROVE  artifact'[b].dig = b[2]
  <2>1. CASE UNCHANGED tableVars
    BY <1>2, <2>1 DEF tableVars
  <2>2. ASSUME NEW s \in Sources, NEW a \in Pairs, RecordEvent(s, a)
        PROVE  artifact'[b].dig = b[2]
    <3> DEFINE k == <<s, a.dig>>
    <3>1. CASE /\ state' = [state EXCEPT ![k] = "received"]
               /\ artifact' = [artifact EXCEPT ![k] = a]
      <4>1. b = k
        BY <1>2, <3>1 DEF IndInv, TypeOK
      <4>2. artifact'[b] = a /\ b[2] = a.dig
        BY <3>1, <4>1 DEF IndInv, TypeOK
      <4>3. QED
        BY <4>2
    <3>2. CASE UNCHANGED tableVars
      BY <1>2, <3>2 DEF tableVars
    <3>3. QED
      BY <2>2, <3>1, <3>2 DEF RecordEvent
  <2>3. ASSUME NEW c \in Controllers, MarkStep(c) PROVE state'[b] = "absent"
    <3>1. pc[c] \in ItemSteps
      BY <2>3 DEF MarkStep, MarkSuperseded, MarkSubmitted, MarkRunning, CompleteSuccess,
                  CompleteFailure, ItemSteps, Steps, SubmitSteps, ObserveSteps
    <3>2. cur[c] # b /\ cur[c] \in Builds
      BY <1>2, <3>1, CurInTable DEF IndInv
    <3>3. \/ state' = state
          \/ \E to \in States : state' = [state EXCEPT ![cur[c]] = to]
      BY <2>3 DEF MarkStep, MarkSuperseded, MarkSubmitted, MarkRunning, CompleteSuccess,
                  CompleteFailure, UpdateState, States, tableVars
    <3>4. QED
      BY <1>2, <3>2, <3>3 DEF IndInv, TypeOK
  <2>4. QED
    BY <1>2, <2>1, <2>2, <2>3, TableSteps
<1>3. QED
  BY <1>1, <1>2

LEMMA GivesUpKept ==
    ASSUME IndInv, SuccessorInv, [Next]_vars, NEW c \in Controllers
    PROVE  GivesUpOK(c)'
<1> SUFFICES ASSUME pc'[c] \in {"catchup", "supersede"} PROVE GivesUpOK(c)'
  BY DEF GivesUpOK
<1>1. /\ GivesUpOK(c) /\ TypeOK /\ LoopOK(c)
      /\ pc[c] \in {"catchup", "supersede"} => cur[c] \in Builds /\ state[cur[c]] # "absent"
  BY DEF SuccessorInv, IndInv, LoopInv, LoopOK, ItemSteps, Steps, SubmitSteps
<1>2. CASE pc'[c] = pc[c] /\ cur'[c] = cur[c] /\ seen'[c] = seen[c]
  <2>1. /\ cur[c] \in Builds /\ artifact'[cur[c]] = artifact[cur[c]]
        /\ seen[c] \in Published(SourceOf(cur[c]))'
    BY <1>1, <1>2, RowsLast, PublishedGrows, BuildsFacts DEF GivesUpOK
  <2>2. pc[c] = "supersede" => <<SourceOf(cur[c]), seen[c].dig>> \in Builds
    BY <1>1, <2>1, BuildsFacts DEF GivesUpOK, Published
  <2>3. pc[c] = "supersede" => state'[<<SourceOf(cur[c]), seen[c].dig>>] # "absent"
    BY <1>1, <2>2, RowsLast DEF GivesUpOK
  <2>4. QED
    BY <1>1, <1>2, <2>1, <2>3 DEF GivesUpOK
<1>3. CASE Preflight(c) /\ pc'[c] = "catchup"
  <2>1. PICK b \in batch[c] :
           /\ Current(b) # NoArtifact
           /\ Take(c, b)
           /\ seen' = [seen EXCEPT ![c] = Current(b)]
           /\ Goto(c, AfterPreflight(b, Current(b)))
    BY <1>3 DEF Preflight
  <2>2. b \in Builds /\ cur'[c] = b /\ seen'[c] = Current(b) /\ artifact' = artifact
        /\ AfterPreflight(b, Current(b)) = "catchup"
    BY <1>1, <1>3, <2>1 DEF TypeOK, Take, Goto, Preflight, tableVars
  <2>3. Current(b) # artifact[b]
    BY <2>2 DEF AfterPreflight, IsCurrent
  <2>4. Current(b) \in Published(SourceOf(b))'
    <3>1. SourceOf(b) \in FluxSources /\ Current(b) = flux[SourceOf(b)]
      BY <2>2, <2>3, BuildsFacts DEF Current, Sources
    <3>2. Current(b) \in Published(SourceOf(b))
      BY <2>1, <3>1 DEF SuccessorInv
    <3>3. QED
      BY <2>2, <3>2, PublishedGrows, BuildsFacts
  <2>5. QED
    BY <1>3, <2>2, <2>3, <2>4 DEF GivesUpOK
<1>4. CASE CatchUp(c)
  <2>1. /\ pc[c] = "catchup" /\ pc'[c] = "supersede" /\ cur' = cur /\ seen' = seen
        /\ RecordEvent(SourceOf(cur[c]), seen[c])
    BY <1>1, <1>4 DEF CatchUp, Goto, TypeOK
  <2>2. /\ cur[c] \in Builds /\ seen[c] \in Pairs /\ seen[c] # artifact[cur[c]]
        /\ artifact'[cur[c]] = artifact[cur[c]]
        /\ seen[c] \in Published(SourceOf(cur[c]))'
    BY <1>1, <2>1, RowsLast, PublishedGrows, BuildsFacts DEF GivesUpOK, Published
  <2> DEFINE k == <<SourceOf(cur[c]), seen[c].dig>>
  <2>3. k \in Builds
    BY <2>2, BuildsFacts
  <2>4. state'[k] # "absent"
    BY <1>1, <2>1, <2>3 DEF RecordEvent, TypeOK, tableVars
  <2>5. QED
    BY <2>1, <2>2, <2>4 DEF GivesUpOK
<1>5. QED
  BY <1>2, <1>3, <1>4, GivesUpTrace

LEMMA SupersededKept ==
    ASSUME IndInv, SuccessorInv, [Next]_vars, NEW b \in Builds, state'[b] = "superseded"
    PROVE  (Replaced(b) \/ SameContent(b))'
<1>1. CASE state[b] = "superseded"
  <2>1. CASE Replaced(b)
    <3>1. PICK o \in Builds \ {b} : SourceOf(o) = SourceOf(b) /\ state[o] # "absent"
      BY <2>1 DEF Replaced
    <3>2. QED
      BY <3>1, RowsLast DEF Replaced
  <2>2. CASE SameContent(b)
    <3>1. PICK a \in Published(SourceOf(b)) : a.dig = b[2] /\ a.rev # artifact[b].rev
      BY <2>2 DEF SameContent
    <3>2. a \in Published(SourceOf(b))' /\ artifact'[b] = artifact[b]
      BY <1>1, <3>1, RowsLast, PublishedGrows, BuildsFacts
    <3>3. QED
      BY <3>1, <3>2 DEF SameContent
  <2>3. QED
    BY <1>1, <2>1, <2>2 DEF SuccessorInv
<1>2. CASE state[b] # "superseded"
  <2>1. PICK c \in Controllers : MarkSuperseded(c) /\ cur[c] = b
    <3>1. CASE \E s \in Sources, a \in Pairs : RecordEvent(s, a)
      BY <1>2, <3>1 DEF RecordEvent, tableVars, IndInv, TypeOK
    <3>2. ASSUME NEW c \in Controllers, MarkStep(c) PROVE MarkSuperseded(c) /\ cur[c] = b
      BY <1>2, <3>2 DEF MarkStep, MarkSuperseded, MarkSubmitted, MarkRunning, CompleteSuccess,
                        CompleteFailure, UpdateState, tableVars, IndInv, TypeOK
    <3>3. QED
      BY <1>2, <3>1, <3>2, TableSteps DEF tableVars
  <2>2. /\ pc[c] = "supersede" /\ seen[c] \in Published(SourceOf(b)) /\ seen[c] # artifact[b]
        /\ state[<<SourceOf(b), seen[c].dig>>] # "absent"
    BY <2>1 DEF MarkSuperseded, SuccessorInv, GivesUpOK
  <2>3. /\ state[b] # "absent" /\ artifact[b] \in Pairs /\ artifact[b].dig = b[2]
        /\ seen[c] \in Pairs /\ artifact'[b] = artifact[b]
        /\ seen[c] \in Published(SourceOf(b))'
    BY <2>1, <2>2, CurInTable, RowsLast, PublishedGrows, BuildsFacts
    DEF IndInv, RowsInv, SuccessorInv, ItemSteps, Steps, SubmitSteps, Published
  <2>4. CASE seen[c].dig = b[2]
    <3>1. seen[c].rev # artifact[b].rev
      BY <2>2, <2>3, <2>4, SamePair
    <3>2. QED
      BY <2>3, <2>4, <3>1 DEF SameContent
  <2>5. CASE seen[c].dig # b[2]
    <3> DEFINE o == <<SourceOf(b), seen[c].dig>>
    <3>1. o \in Builds /\ SourceOf(o) = SourceOf(b) /\ o[2] = seen[c].dig
      BY <2>3, BuildsFacts DEF SourceOf
    <3>2. o # b /\ state'[o] # "absent"
      BY <2>2, <2>5, <3>1, RowsLast
    <3>3. QED
      BY <3>1, <3>2 DEF Replaced
  <2>6. QED
    BY <2>4, <2>5
<1>3. QED
  BY <1>1, <1>2

LEMMA SuccessorStep == ASSUME IndInv, SuccessorInv, [Next]_vars PROVE SuccessorInv'
<1>1. \A s \in FluxSources : flux'[s] # NoArtifact => flux'[s] \in Published(s)'
  BY FluxKept
<1>2. \A b \in Builds : state'[b] # "absent" => artifact'[b].dig = b[2]
  BY DigestsKept
<1>3. \A b \in Builds : state'[b] = "superseded" => (Replaced(b) \/ SameContent(b))'
  BY SupersededKept
<1>4. \A c \in Controllers : GivesUpOK(c)'
  BY GivesUpKept
<1>5. QED
  BY <1>1, <1>2, <1>3, <1>4 DEF SuccessorInv

LEMMA SuccessorInvariance == Spec => []SuccessorInv
<1>1. Init => SuccessorInv
  BY InitSuccessor
<1>2. IndInv /\ SuccessorInv /\ [Next]_vars => SuccessorInv'
  BY SuccessorStep
<1>3. QED
  BY <1>1, <1>2, Inductive, PTL DEF Spec

(* mark_superseded runs after the catch-up event: a row is given up only     *)
(* when another row of its source is on record, or when its own digest was   *)
(* published with another revision and so can have no second row.  However   *)
(* many controllers submit, wherever they fail, whatever Flux publishes and  *)
(* whatever pairs the events record.                                         *)
THEOREM SupersededRowsHaveSuccessors == Spec => []SupersededHasSuccessor
<1>1. SuccessorInv => SupersededHasSuccessor
  BY DEF SuccessorInv, Replaced, SameContent, SupersededHasSuccessor
<1>2. QED
  BY <1>1, SuccessorInvariance, PTL

-----------------------------------------------------------------------------
(* Results that hold while no Workflow reaches its TTL before a controller   *)
(* has recorded its outcome.                                                 *)

(* Where the submission loop's batch and item come from.                     *)
LEMMA SubmitTrace ==
    ASSUME IndInv, [Next]_vars, NEW c \in Controllers
    PROVE  /\ pc'[c] \in SubmitSteps =>
                  \/ pc[c] \in SubmitSteps /\ batch'[c] \subseteq batch[c]
                  \/ batch'[c] = Pending
           /\ pc'[c] \in {"argo_submit", "mark_submitted"} =>
                  \/ pc[c] \in {"argo_submit", "mark_submitted"} /\ cur'[c] = cur[c]
                  \/ pc[c] = "submit" /\ cur'[c] \in batch[c]
<1> USE DEF IndInv
<1>1. CASE pc'[c] = pc[c] /\ batch'[c] = batch[c] /\ cur'[c] = cur[c]
  BY <1>1
<1>2. CASE UNCHANGED loopVars
  BY <1>1, <1>2 DEF loopVars
<1>3. ASSUME NEW d \in Controllers, d # c, DrainStep(d) \/ Fault(d)
      PROVE  pc'[c] = pc[c] /\ batch'[c] = batch[c] /\ cur'[c] = cur[c]
  BY <1>3, LoopFrame
<1>4. CASE \/ RecoverList(c) \/ RecoverLook(c) \/ RecoverRecord(c) \/ LoadActive(c)
           \/ Observe(c) \/ MarkRunning(c) \/ CompleteSuccess(c) \/ CompleteFailure(c)
           \/ ResultRefused(c) \/ EndDrain(c) \/ DrainRaises(c) \/ Restart(c)
  <2>1. CASE RecoverLook(c)
    <3>1. pc'[c] \in {"recover", "recover_record"}
      BY <2>1 DEF RecoverLook, Goto, TypeOK
    <3>2. QED
      BY <3>1 DEF SubmitSteps
  <2>2. CASE Observe(c)
    <3>1. \E b \in batch[c] : pc'[c] = AfterObserve(workflow[b])
      BY <2>2 DEF Observe, Goto, TypeOK
    <3>2. QED
      BY <3>1 DEF AfterObserve, SubmitSteps
  <2>3. QED
    BY <1>4, <2>1, <2>2 DEF RecoverList, RecoverRecord, LoadActive, MarkRunning, CompleteSuccess,
           ResultRefused, CompleteFailure, EndDrain, DrainRaises, Restart, NextItem, Goto, TypeOK,
           SubmitSteps
<1>5. CASE LoadPending(c)
  BY <1>5 DEF LoadPending, Goto, TypeOK
<1>6. CASE Preflight(c)
  BY <1>6 DEF Preflight, Take, Goto, TypeOK, SubmitSteps
<1>7. CASE CatchUp(c) \/ MarkSuperseded(c) \/ ArgoSubmit(c) \/ MarkSubmitted(c)
  BY <1>7 DEF CatchUp, MarkSuperseded, ArgoSubmit, MarkSubmitted, NextItem, Goto, TypeOK,
              SubmitSteps
<1>8. CASE StepFails(c)
  <2>1. pc'[c] = LoopHead(pc[c]) /\ batch' = batch /\ pc[c] \in ItemSteps
    BY <1>8 DEF StepFails, NextItem, Goto, TypeOK, LoopInv, LoopOK
  <2>2. /\ pc'[c] \notin {"argo_submit", "mark_submitted"}
        /\ pc'[c] \in SubmitSteps => pc[c] \in SubmitSteps
    BY <2>1 DEF LoopHead, ItemSteps, Steps, RecoverSteps, SubmitSteps, ObserveSteps
  <2>3. QED
    BY <2>1, <2>2
<1>9. QED
  BY <1>1, <1>2, <1>3, <1>4, <1>5, <1>6, <1>7, <1>8, LoopSteps DEF DrainStep, Fault

(* What a controller or a later drain may still submit keeps its Workflow.   *)
Held(b) ==
    \/ state[b] \in {"received"} \cup Active
    \/ \E c \in Controllers : cur[c] = b \/ b \in batch[c]

LEMMA WorkflowKept ==
    ASSUME ~LateExpiry, IndInv, NameInv, [Next]_vars, NEW b \in Builds,
           Held(b), Relaunchable(b)
    PROVE  Relaunchable(b)'
<1> USE DEF IndInv
<1>1. CASE UNCHANGED argoVars
  BY <1>1 DEF argoVars, Relaunchable
<1>2. ASSUME NEW c \in Controllers, ArgoSubmit(c) PROVE Relaunchable(b)'
  <2>1. cur[c] \in Builds
    BY <1>2, CurInTable DEF ArgoSubmit, ItemSteps, Steps, SubmitSteps
  <2>2. QED
    BY <1>2, <2>1 DEF ArgoSubmit, argoVars, Relaunchable, TypeOK
<1>3. ASSUME NEW o \in Builds, WorkflowStep(o) PROVE Relaunchable(b)'
  BY <1>3 DEF WorkflowStep, WorkflowStarts, WorkerUploadsBundle, WorkerUploadsResult,
              WorkflowSucceeds, WorkflowFails, WorkflowMoves, Relaunchable, TypeOK
<1>4. ASSUME NEW o \in Builds, WorkflowExpires(o) PROVE Relaunchable(b)'
  <2>1. o # b
    BY <1>4 DEF WorkflowExpires, Held
  <2>2. QED
    BY <1>4, <2>1 DEF WorkflowExpires, WorkflowMoves, Relaunchable, TypeOK
<1>5. QED
  BY <1>1, <1>2, <1>3, <1>4, ArgoSteps

LEMMA OneRunKept ==
    ASSUME IndInv, NameInv, [Next]_vars
    PROVE  \A b \in Builds : runs'[b] <= 1
<1> USE DEF IndInv
<1>1. CASE UNCHANGED argoVars
  BY <1>1 DEF argoVars, NameInv
<1>2. ASSUME NEW c \in Controllers, ArgoSubmit(c), NEW b \in Builds PROVE runs'[b] <= 1
  <2>1. cur[c] \in Builds /\ Relaunchable(cur[c])
    BY <1>2, CurInTable DEF ArgoSubmit, ItemSteps, Steps, SubmitSteps, NameInv
  <2>2. workflow[cur[c]] = "none" => runs[cur[c]] = 0
    BY <2>1 DEF Relaunchable, TypeOK
  <2>3. runs[b] <= 1 /\ runs[b] \in Nat
    BY DEF NameInv, TypeOK
  <2>4. QED
    BY <1>2, <2>1, <2>2, <2>3 DEF ArgoSubmit, argoVars, TypeOK
<1>3. ASSUME NEW o \in Builds, WorkflowStep(o) \/ WorkflowExpires(o), NEW b \in Builds
      PROVE  runs'[b] <= 1
  <2>1. runs' = runs
    BY <1>3 DEF WorkflowStep, WorkflowStarts, WorkerUploadsBundle, WorkerUploadsResult,
                WorkflowSucceeds, WorkflowFails, WorkflowExpires, WorkflowMoves
  <2>2. QED
    BY <2>1 DEF NameInv
<1>4. QED
  BY <1>1, <1>2, <1>3, ArgoSteps

(* A step that inserts a row does not touch Argo, and conversely.            *)
LEMMA TableOrArgo ==
    ASSUME [Next]_vars PROVE UNCHANGED argoVars \/ UNCHANGED tableVars
<1>1. ASSUME NEW c \in Controllers, ArgoSubmit(c) PROVE UNCHANGED tableVars
  BY <1>1 DEF ArgoSubmit
<1>2. ASSUME NEW o \in Builds, WorkflowStep(o) \/ WorkflowExpires(o)
      PROVE  UNCHANGED tableVars
  BY <1>2 DEF WorkflowStep, WorkflowStarts, WorkerUploadsBundle, WorkerUploadsResult,
              WorkflowSucceeds, WorkflowFails, WorkflowExpires, WorkflowMoves
<1>3. QED
  BY <1>1, <1>2, ArgoSteps

LEMMA NameStep ==
    ASSUME ~LateExpiry, IndInv, NameInv, [Next]_vars PROVE NameInv'
<1> USE DEF IndInv
<1>1. \A b \in Builds : runs'[b] <= 1
  BY OneRunKept
<1>2. ASSUME NEW b \in Builds, state'[b] \in {"received"} \cup Active
      PROVE  Relaunchable(b)'
  <2>1. CASE state[b] = "absent"
    <3>1. state'[b] # state[b]
      BY <1>2, <2>1 DEF Active
    <3>2. runs'[b] = runs[b]
      BY <3>1, TableOrArgo DEF tableVars, argoVars
    <3>3. ~(runs[b] > 0)
      BY <2>1 DEF ArgoInv
    <3>4. QED
      BY <3>2, <3>3 DEF Relaunchable
  <2>2. CASE state[b] \in {"received"} \cup Active
    BY <2>2, WorkflowKept DEF Held, NameInv
  <2>3. QED
    BY <1>2, <2>1, <2>2, RowMoves DEF RowMove
<1>3. ASSUME NEW c \in Controllers
      PROVE  /\ pc'[c] \in SubmitSteps => \A b \in batch'[c] : Relaunchable(b)'
             /\ pc'[c] \in {"argo_submit", "mark_submitted"} => Relaunchable(cur[c])'
  <2>1. TypeOK' /\ LoopInv'
    BY TypeStep, LoopStep
  <2>2. ASSUME pc'[c] \in SubmitSteps, NEW b \in batch'[c] PROVE Relaunchable(b)'
    <3>1. b \in Builds
      BY <2>1 DEF TypeOK
    <3>2. Held(b) /\ Relaunchable(b)
      BY <2>2, <3>1, SubmitTrace DEF Held, NameInv, Pending, FirstRows
    <3>3. QED
      BY <3>1, <3>2, WorkflowKept
  <2>3. ASSUME pc'[c] \in {"argo_submit", "mark_submitted"} PROVE Relaunchable(cur[c])'
    <3>1. PICK b \in Builds : b = cur'[c]
      BY <2>1, <2>3 DEF LoopInv, LoopOK, ItemSteps, Steps, SubmitSteps
    <3>2. Held(b) /\ Relaunchable(b)
      BY <2>3, <3>1, SubmitTrace DEF Held, NameInv, SubmitSteps
    <3>3. Relaunchable(b)'
      BY <3>2, WorkflowKept
    <3>4. QED
      BY <3>1, <3>3 DEF Relaunchable
  <2>4. QED
    BY <2>2, <2>3
<1>4. QED
  BY <1>1, <1>2, <1>3 DEF NameInv, Relaunchable

LEMMA InitNameInv == Init => NameInv
BY DEF Init, NameInv, Relaunchable, Active, SubmitSteps

LEMMA NamesInductive == ASSUME ~LateExpiry PROVE Spec => [](IndInv /\ NameInv)
<1>1. Init => NameInv
  BY InitNameInv
<1>2. IndInv /\ NameInv /\ [Next]_vars => NameInv'
  BY NameStep
<1>3. QED
  BY <1>1, <1>2, Inductive, PTL DEF Spec

(* However many controllers submit a build and wherever they crash, Argo     *)
(* executes it at most once: the name found again makes the retry converge.  *)
THEOREM OneRunPerBuild == ASSUME ~LateExpiry PROVE Spec => []AtMostOneRun
<1>1. NameInv => AtMostOneRun
  BY DEF NameInv, AtMostOneRun
<1>2. QED
  BY <1>1, NamesInductive, PTL

LEMMA LifecycleStep ==
    ASSUME ~LateExpiry, IndInv, NameInv, [Next]_vars
    PROVE  [Lifecycle!LifecycleNext]_(Lifecycle!lifecycleVars)
<1> USE DEF IndInv, Lifecycle!LifecycleNext, Lifecycle!lifecycleVars
<1>1. CASE UNCHANGED <<state, runs>>
  BY <1>1
<1>2. ASSUME NEW s \in Sources, NEW a \in Pairs, RecordEvent(s, a), UNCHANGED argoVars
      PROVE  UNCHANGED <<state, runs>> \/ \E b \in Builds : Lifecycle!Record(b)
  <2>1. <<s, a.dig>> \in Builds
    BY BuildsFacts
  <2>2. QED
    BY <1>2, <2>1 DEF RecordEvent, tableVars, argoVars, Lifecycle!Record, Lifecycle!MoveTo
<1>3. ASSUME NEW c \in Controllers, MarkStep(c)
      PROVE  \/ UNCHANGED <<state, runs>>
             \/ \E b \in Builds : \/ Lifecycle!Submit(b) \/ Lifecycle!Supersede(b)
                                 \/ Lifecycle!Start(b) \/ Lifecycle!Succeed(b)
                                 \/ Lifecycle!Fail(b)
  <2>1. pc[c] \in ItemSteps
    BY <1>3 DEF MarkStep, MarkSuperseded, MarkSubmitted, MarkRunning, CompleteSuccess,
                CompleteFailure, ItemSteps, Steps, SubmitSteps, ObserveSteps
  <2>2. cur[c] \in Builds /\ LoopOK(c) /\ runs[cur[c]] \in Nat /\ runs[cur[c]] <= 1
    BY <2>1, CurInTable DEF LoopInv, NameInv, TypeOK
  <2>3. runs' = runs
    BY <1>3 DEF MarkStep, MarkSuperseded, MarkSubmitted, MarkRunning, CompleteSuccess,
                CompleteFailure, argoVars
  <2>4. CASE MarkSuperseded(c)
    BY <2>2, <2>3, <2>4 DEF MarkSuperseded, UpdateState, Lifecycle!Supersede, Lifecycle!MoveTo
  <2>5. CASE MarkSubmitted(c)
    <3>1. runs[cur[c]] = 1
      BY <2>2, <2>5 DEF MarkSubmitted, LoopOK
    <3>2. QED
      BY <2>2, <2>3, <2>5, <3>1
      DEF MarkSubmitted, tableVars, Lifecycle!Submit, Lifecycle!MoveTo
  <2>6. CASE MarkRunning(c)
    BY <2>2, <2>3, <2>6 DEF MarkRunning, UpdateState, Lifecycle!Start, Lifecycle!MoveTo
  <2>7. CASE CompleteSuccess(c)
    BY <2>2, <2>3, <2>7
    DEF CompleteSuccess, UpdateState, Active, Lifecycle!Active, Lifecycle!Succeed, Lifecycle!MoveTo
  <2>8. CASE CompleteFailure(c)
    <3>1. state[cur[c]] \in Launched
      BY <2>2, <2>8 DEF CompleteFailure, LoopOK, ObserveSteps
    <3>2. QED
      BY <2>2, <2>3, <2>8, <3>1
      DEF CompleteFailure, UpdateState, Launched, Active, Lifecycle!Active, Lifecycle!Fail,
          Lifecycle!MoveTo
  <2>9. QED
    BY <1>3, <2>4, <2>5, <2>6, <2>7, <2>8 DEF MarkStep
<1>4. ASSUME NEW c \in Controllers, ArgoSubmit(c)
      PROVE  UNCHANGED <<state, runs>> \/ \E b \in Builds : Lifecycle!Launch(b)
  <2>1. /\ cur[c] \in Builds /\ state[cur[c]] # "absent" /\ Relaunchable(cur[c])
        /\ runs[cur[c]] \in Nat /\ state' = state
    BY <1>4, CurInTable DEF ArgoSubmit, ItemSteps, Steps, SubmitSteps, NameInv, TypeOK, tableVars
  <2>2. CASE workflow[cur[c]] = "none"
    <3>1. runs[cur[c]] = 0
      BY <2>1, <2>2 DEF Relaunchable
    <3>2. runs' = [runs EXCEPT ![cur[c]] = 1]
      BY <1>4, <2>2, <3>1 DEF ArgoSubmit, TypeOK
    <3>3. QED
      BY <2>1, <3>1, <3>2 DEF Lifecycle!Launch
  <2>3. CASE workflow[cur[c]] # "none"
    BY <1>4, <2>1, <2>3 DEF ArgoSubmit, argoVars
  <2>4. QED
    BY <2>2, <2>3
<1>5. ASSUME NEW o \in Builds, WorkflowStep(o) \/ WorkflowExpires(o)
      PROVE  UNCHANGED <<state, runs>>
  BY <1>5 DEF WorkflowStep, WorkflowStarts, WorkerUploadsBundle, WorkerUploadsResult,
              WorkflowSucceeds, WorkflowFails, WorkflowExpires, WorkflowMoves, tableVars
<1>6. CASE UNCHANGED argoVars
  <2>1. runs' = runs
    BY <1>6 DEF argoVars
  <2>2. CASE UNCHANGED tableVars
    BY <1>1, <2>1, <2>2 DEF tableVars
  <2>3. CASE \E s \in Sources, a \in Pairs : RecordEvent(s, a)
    BY <1>2, <1>6, <2>3
  <2>4. CASE \E c \in Controllers : MarkStep(c)
    BY <1>3, <2>4
  <2>5. QED
    BY <2>2, <2>3, <2>4, TableSteps
<1>7. QED
  BY <1>4, <1>5, <1>6, ArgoSteps

(* The table, the controllers and Argo implement BuildLifecycle.             *)
THEOREM BuildsImplementLifecycle == ASSUME ~LateExpiry PROVE Spec => ImplementsLifecycle
<1>1. Init => Lifecycle!LifecycleInit
  BY DEF Init, Lifecycle!LifecycleInit
<1>2. IndInv /\ NameInv /\ [Next]_vars => [Lifecycle!LifecycleNext]_(Lifecycle!lifecycleVars)
  BY LifecycleStep
<1>3. QED
  BY <1>1, <1>2, NamesInductive, PTL
  DEF Spec, ImplementsLifecycle, Lifecycle!LifecycleSpec
=============================================================================
