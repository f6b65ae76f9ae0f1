------------------------ MODULE CodegraphServingProofs ------------------------
(***************************************************************************)
(* Machine-checked proofs about CodegraphServing, for any builds, sources, *)
(* controller processes, threads, sessions and numbers of faults.          *)
(*                                                                         *)
(* IndInv adds to TypeOK what a thread knows of the builds it has in hand  *)
(* (HandOK), what an alias row holds (AliasOK), and that whatever a thread *)
(* is about to delete has a successor and is behind no alias (DoomedOK).   *)
(* SessionInv says what a session has been given and where its calls may   *)
(* be led.                                                                 *)
(***************************************************************************)
EXTENDS CodegraphServing, TLAPS

HandOK(t) ==
    /\ todo[t] \subseteq succeeded
    /\ pc[t] \in Ensuring \cup {"undeploy"} => cur[t] \in succeeded
    /\ pc[t] \in {"alias", "activate"} => ~Workspace(cur[t])

AliasOK(r) ==
    LET b == aliasRow[r]
    IN  b # NoBuild => b \in succeeded /\ ~Workspace(b) /\ Repo(b) = r

(* Builds on a retirement list that are still to be deleted.                 *)
Doomed(t) ==
    {b \in Builds : \/ pc[t] \in Retiring /\ b \in todo[t]
                    \/ pc[t] = "undeploy" /\ b = cur[t]}

DoomedOK(t) ==
    \A b \in Doomed(t) : Superseded(b) /\ \A r \in Repositories : aliasRow[r] # b

IndInv ==
    /\ TypeOK
    /\ \A t \in Threads : HandOK(t)
    /\ \A r \in Repositories : AliasOK(r)
    /\ \A t \in Threads : DoomedOK(t)
-----------------------------------------------------------------------------
LEMMA InitIndInv == Init => IndInv
<1> SUFFICES ASSUME Init PROVE IndInv
  OBVIOUS
<1>1. TypeOK
  BY DEF Init, TypeOK, DatabaseTypeOK, ClusterTypeOK, ThreadTypeOK, SessionTypeOK, ThreadSteps, Phases, NoRetiring
<1>2. ASSUME NEW t \in Threads PROVE HandOK(t) /\ DoomedOK(t)
  BY <1>2 DEF Init, HandOK, DoomedOK, Doomed, Ensuring, Retiring
<1>3. ASSUME NEW r \in Repositories PROVE AliasOK(r)
  BY <1>3 DEF Init, AliasOK
<1>4. QED
  BY <1>1, <1>2, <1>3 DEF IndInv

(* The build in hand is one, and its repository is known.                    *)
LEMMA InHandIsBuild ==
    ASSUME IndInv, NEW t \in Threads, pc[t] \in Ensuring \cup {"undeploy"}
    PROVE  /\ cur[t] \in succeeded /\ cur[t] \in Builds
           /\ Repo(cur[t]) \in Repositories
           /\ Host[t] \in Processes
<1>1. cur[t] \in succeeded /\ succeeded \subseteq Builds
  BY DEF IndInv, HandOK, TypeOK, DatabaseTypeOK
<1>2. QED
  BY <1>1, ServingAssumption DEF Repo, Threads

(* What the queries select has succeeded.                                    *)
LEMMA QueriesSelectSucceeded ==
    /\ Publishable \subseteq succeeded
    /\ RetiredFlux \subseteq succeeded
    /\ RetiredWorkspaces \subseteq succeeded
BY DEF Publishable, RetiredFlux, RetiredWorkspaces

(* What the queries select for retirement has a successor and is behind no   *)
(* alias: the alias it is compared with is the one of its own repository.    *)
LEMMA RetiredAreDoomed ==
    ASSUME IndInv, NEW b \in RetiredFlux \cup RetiredWorkspaces
    PROVE  Superseded(b) /\ \A r \in Repositories : aliasRow[r] # b
<1>1. b \in Builds /\ NoBuild \notin Builds /\ Received \in [Builds -> Nat]
  BY ServingAssumption DEF IndInv, TypeOK, DatabaseTypeOK, RetiredFlux, RetiredWorkspaces
<1>2. \A r \in Repositories : AliasOK(r)
  BY DEF IndInv
<1>3. CASE b \in RetiredFlux
  <2>1. PICK r \in Repositories : aliasRow[r] # NoBuild /\ Newer(aliasRow[r], b)
    BY <1>3 DEF RetiredFlux
  <2>2. aliasRow[r] \in succeeded /\ Repo(aliasRow[r]) = r
    BY <1>2, <2>1 DEF AliasOK
  <2>3. Superseded(b)
    BY <2>1, <2>2 DEF Superseded
  <2>4. ASSUME NEW q \in Repositories, aliasRow[q] = b PROVE FALSE
    <3>1. Repo(b) = q
      BY <1>1, <1>2, <2>4 DEF AliasOK
    <3>2. q = r
      BY <2>1, <2>2, <3>1 DEF Newer, Repo
    <3>3. Received[b] > Received[b] /\ Received[b] \in Nat
      BY <1>1, <2>1, <2>4, <3>2 DEF Newer
    <3>4. QED
      BY <3>3
  <2>5. QED
    BY <2>3, <2>4
<1>4. CASE b \in RetiredWorkspaces
  <2>1. Workspace(b) /\ Superseded(b)
    BY <1>4 DEF RetiredWorkspaces
  <2>2. QED
    BY <1>1, <1>2, <2>1 DEF AliasOK
<1>5. QED
  BY <1>3, <1>4
-----------------------------------------------------------------------------
(* The steps of sessions, Kubernetes and time leave the threads, the set of  *)
(* successes and the alias rows alone.                                       *)
LEMMA QuietSteps ==
    ASSUME \/ \E s \in Sessions : SessionStep(s)
           \/ \E b \in Builds : BecomesReady(b) \/ Drifts(b) \/ TtlEnds(b) \/ WorkspaceAnnounced(b)
           \/ \E r \in Repositories : GraceEnds(r)
           \/ UNCHANGED vars
    PROVE  UNCHANGED <<succeeded, aliasRow, pc, cur, todo, retiring, pruned>>
<1>1. ASSUME NEW s \in Sessions, SessionStep(s)
      PROVE  UNCHANGED <<succeeded, aliasRow, pc, cur, todo, retiring, pruned>>
  BY <1>1 DEF SessionStep, LookUp, Probe, Bind, CreateSession, EndSession, dbVars, threadVars
<1>2. ASSUME NEW b \in Builds, BecomesReady(b) \/ Drifts(b) \/ TtlEnds(b) \/ WorkspaceAnnounced(b)
      PROVE  UNCHANGED <<succeeded, aliasRow, pc, cur, todo, retiring, pruned>>
  BY <1>2 DEF BecomesReady, Drifts, TtlEnds, WorkspaceAnnounced, dbVars, threadVars
<1>3. ASSUME NEW r \in Repositories, GraceEnds(r)
      PROVE  UNCHANGED <<succeeded, aliasRow, pc, cur, todo, retiring, pruned>>
  BY <1>3 DEF GraceEnds, threadVars
<1>4. CASE UNCHANGED vars
  BY <1>4 DEF vars, dbVars, threadVars
<1>5. QED
  BY <1>1, <1>2, <1>3, <1>4

LEMMA QuietType ==
    ASSUME TypeOK,
           \/ \E s \in Sessions : SessionStep(s)
           \/ \E b \in Builds : BecomesReady(b) \/ Drifts(b) \/ TtlEnds(b) \/ WorkspaceAnnounced(b)
           \/ \E r \in Repositories : GraceEnds(r)
           \/ UNCHANGED vars
    PROVE  TypeOK'
<1>1. ThreadTypeOK'
  BY QuietSteps DEF TypeOK, ThreadTypeOK
<1>2. ASSUME NEW s \in Sessions, SessionStep(s) PROVE TypeOK'
  <2>1. ClusterTypeOK' /\ faults' \in Nat
    BY <1>2 DEF SessionStep, LookUp, Probe, Bind, CreateSession, EndSession, k8sVars, TypeOK,
                ClusterTypeOK
  <2>2. DatabaseTypeOK'
    BY <1>2 DEF SessionStep, LookUp, Probe, Bind, CreateSession, EndSession, dbVars, TypeOK,
                DatabaseTypeOK, EndpointOf
  <2>3. SessionTypeOK'
    <3> USE DEF TypeOK, SessionTypeOK, StepTo, Forget
    <3>1. CASE LookUp(s)
      <4>1. \A how \in {"exact", "latest", "workspace"} :
              Candidates(how) \subseteq Builds \cup {NoBuild}
        BY DEF Candidates, DatabaseTypeOK
      <4>2. QED
        BY <3>1, <4>1 DEF LookUp
    <3>2. CASE Probe(s) \/ Bind(s) \/ CreateSession(s) \/ EndSession(s)
      BY <3>2 DEF Probe, Bind, CreateSession, EndSession
    <3>3. QED
      BY <1>2, <3>1, <3>2 DEF SessionStep
  <2>4. QED
    BY <1>1, <2>1, <2>2, <2>3 DEF TypeOK
<1>3. ASSUME NEW b \in Builds, BecomesReady(b) \/ Drifts(b) \/ TtlEnds(b) \/ WorkspaceAnnounced(b) PROVE TypeOK'
  <2>1. SessionTypeOK' /\ faults' \in Nat
    BY <1>3 DEF BecomesReady, Drifts, TtlEnds, WorkspaceAnnounced, TypeOK, SessionTypeOK, sessionVars
  <2>2. ClusterTypeOK'
    BY <1>3 DEF BecomesReady, Drifts, TtlEnds, WorkspaceAnnounced, TypeOK, ClusterTypeOK, k8sVars
  <2>3. DatabaseTypeOK'
    BY <1>3 DEF BecomesReady, Drifts, TtlEnds, WorkspaceAnnounced, TypeOK, DatabaseTypeOK, dbVars
  <2>4. QED
    BY <1>1, <2>1, <2>2, <2>3 DEF TypeOK
<1>4. ASSUME NEW r \in Repositories, GraceEnds(r) PROVE TypeOK'
  BY <1>1, <1>4 DEF GraceEnds, TypeOK, DatabaseTypeOK, ClusterTypeOK, SessionTypeOK, k8sVars,
                    sessionVars
<1>5. CASE UNCHANGED vars
  BY <1>1, <1>5 DEF vars, TypeOK, DatabaseTypeOK, ClusterTypeOK, SessionTypeOK, dbVars, k8sVars,
                    sessionVars
<1>6. QED
  BY <1>2, <1>3, <1>4, <1>5

LEMMA QuietInv ==
    ASSUME IndInv, TypeOK', UNCHANGED <<succeeded, aliasRow, pc, cur, todo>>
    PROVE  IndInv'
<1>1. ASSUME NEW t \in Threads PROVE HandOK(t)' /\ DoomedOK(t)'
  BY <1>1 DEF IndInv, HandOK, DoomedOK, Doomed, Superseded, Workspace
<1>2. ASSUME NEW r \in Repositories PROVE AliasOK(r)'
  BY <1>2 DEF IndInv, AliasOK, Workspace, Repo
<1>3. QED
  BY <1>1, <1>2 DEF IndInv
-----------------------------------------------------------------------------
(* A thread at work: the other threads are where they were.                  *)
Same(t) == pc'[t] = pc[t] /\ cur'[t] = cur[t] /\ todo'[t] = todo[t]

(* Types along the steps of one thread.                                      *)
ThreadMoves(t) ==
    \/ ThreadStep(t) \/ StepFails(t)
    \/ \E b \in Builds : Succeeds(t, b) \/ StatusRequest(t, b)

LEMMA ThreadDatabaseType ==
    ASSUME IndInv, NEW t \in Threads, ThreadMoves(t)
    PROVE  DatabaseTypeOK' /\ SessionTypeOK' /\ faults' \in Nat
<1>1. DatabaseTypeOK /\ SessionTypeOK /\ faults \in Nat
  BY DEF IndInv, TypeOK
<1>2. SessionTypeOK' /\ faults' \in Nat
  BY <1>1 DEF ThreadMoves, ThreadStep, Succeeds, StatusRequest, LoadPublishable, TakeBuild,
       CreateService, CreateDeployment, InspectDeployment, PatchAlias, ActivateAlias, MarkServed,
       LoadRetiredFlux, LoadRetiredWorkspaces, DeleteService, DeleteDeployment, ClearEndpoints,
       StepFails, sessionVars, SessionTypeOK
<1>3. ASSUME NEW b \in Builds, Succeeds(t, b) \/ StatusRequest(t, b) PROVE DatabaseTypeOK'
  BY <1>1, <1>3 DEF Succeeds, StatusRequest, DatabaseTypeOK
<1>4. CASE ActivateAlias(t)
  <2>1. cur[t] \in Builds
    BY <1>4, InHandIsBuild DEF ActivateAlias, Ensuring
  <2>2. QED
    BY <1>1, <1>2, <1>4, <2>1 DEF ActivateAlias, DatabaseTypeOK
<1>5. CASE MarkServed(t) \/ ClearEndpoints(t)
  BY <1>1, <1>2, <1>5 DEF MarkServed, ClearEndpoints, DatabaseTypeOK
<1>6. CASE (ThreadStep(t) \/ StepFails(t)) /\ ~(ActivateAlias(t) \/ MarkServed(t) \/ ClearEndpoints(t))
  <2>1. UNCHANGED dbVars
    BY <1>6 DEF ThreadStep, LoadPublishable, TakeBuild, CreateService, CreateDeployment,
       InspectDeployment, PatchAlias, LoadRetiredFlux, LoadRetiredWorkspaces, DeleteService,
       DeleteDeployment, StepFails
  <2>2. QED
    BY <1>1, <1>2, <2>1 DEF dbVars, DatabaseTypeOK
<1>7. QED
  BY <1>2, <1>3, <1>4, <1>5, <1>6 DEF ThreadMoves

LEMMA ThreadClusterType ==
    ASSUME IndInv, NEW t \in Threads, ThreadMoves(t)
    PROVE  ClusterTypeOK'
<1>1. ClusterTypeOK
  BY DEF IndInv, TypeOK
<1>2. CASE PatchAlias(t)
  <2>1. cur[t] \in Builds
    BY <1>2, InHandIsBuild DEF PatchAlias, Ensuring
  <2>2. QED
    BY <1>1, <1>2, <2>1 DEF PatchAlias, ClusterTypeOK
<1>3. CASE CreateService(t) \/ CreateDeployment(t) \/ DeleteService(t) \/ DeleteDeployment(t)
  BY <1>1, <1>3 DEF CreateService, CreateDeployment, DeleteService, DeleteDeployment,
                    ClusterTypeOK
<1>4. CASE InspectDeployment(t)
  BY <1>1, <1>4 DEF InspectDeployment, ClusterTypeOK
<1>5. CASE ~(\/ PatchAlias(t) \/ CreateService(t) \/ CreateDeployment(t) \/ DeleteService(t)
             \/ DeleteDeployment(t) \/ InspectDeployment(t))
  <2>1. UNCHANGED k8sVars
    BY <1>5 DEF ThreadMoves, ThreadStep, Succeeds, StatusRequest, LoadPublishable, TakeBuild,
       ActivateAlias, MarkServed, LoadRetiredFlux, LoadRetiredWorkspaces, ClearEndpoints, StepFails
  <2>2. QED
    BY <1>1, <2>1 DEF k8sVars, ClusterTypeOK
<1>6. QED
  BY <1>2, <1>3, <1>4, <1>5

LEMMA ThreadThreadType ==
    ASSUME IndInv, NEW t \in Threads, ThreadMoves(t)
    PROVE  ThreadTypeOK'
<1> USE DEF ThreadTypeOK, threadVars, Goto, Leave, ThreadSteps, Ensuring, Retiring
<1>1. ThreadTypeOK /\ todo[t] \subseteq Builds
  BY DEF IndInv, TypeOK
<1>2. /\ Publishable \subseteq Builds /\ RetiredFlux \subseteq Builds
      /\ RetiredWorkspaces \subseteq Builds
  BY QueriesSelectSucceeded DEF IndInv, TypeOK, DatabaseTypeOK
<1>3. ASSUME NEW b \in Builds, Succeeds(t, b) \/ StatusRequest(t, b) PROVE ThreadTypeOK'
  BY <1>1, <1>3 DEF Succeeds, StatusRequest
<1>4. CASE LoadPublishable(t)
  BY <1>1, <1>2, <1>4 DEF LoadPublishable
<1>5. CASE TakeBuild(t)
  BY <1>1, <1>5 DEF TakeBuild
<1>6. CASE CreateService(t) \/ CreateDeployment(t) \/ InspectDeployment(t)
  BY <1>1, <1>6 DEF CreateService, CreateDeployment, InspectDeployment
<1>7. CASE PatchAlias(t) \/ ActivateAlias(t) \/ MarkServed(t)
  BY <1>1, <1>7 DEF PatchAlias, ActivateAlias, MarkServed
<1>8. CASE LoadRetiredFlux(t) \/ LoadRetiredWorkspaces(t)
  <2>1. PICK phase \in Phases, list \in SUBSET Builds : StartRetiring(t, phase, list)
    BY <1>2, <1>8 DEF LoadRetiredFlux, LoadRetiredWorkspaces, Phases
  <2>2. UNCHANGED <<cur, pruned>>
    BY <1>8 DEF LoadRetiredFlux, LoadRetiredWorkspaces
  <2>3. [phase |-> phase, list |-> list] \in [phase : Phases, list : SUBSET Builds]
    OBVIOUS
  <2>4. QED
    BY <1>1, <2>1, <2>2, <2>3 DEF StartRetiring
<1>9. CASE DeleteService(t)
  BY <1>1, <1>9 DEF DeleteService
<1>10. CASE DeleteDeployment(t)
  <2>1. cur[t] \in Builds
    BY <1>10, InHandIsBuild DEF DeleteDeployment
  <2>2. QED
    BY <1>1, <1>10, <2>1 DEF DeleteDeployment
<1>11. NoRetiring \in [phase : Phases, list : SUBSET Builds]
  BY DEF NoRetiring, Phases
<1>12. CASE ClearEndpoints(t)
  BY <1>1, <1>11, <1>12 DEF ClearEndpoints, ToIdle
<1>13. CASE StepFails(t)
  <2>1. /\ \E next \in ThreadSteps : Goto(t, next)
        /\ cur' = [cur EXCEPT ![t] = NoBuild]
        /\ todo' = todo \/ todo' = [todo EXCEPT ![t] = {}]
        /\ retiring' = retiring \/ retiring' = [retiring EXCEPT ![t] = NoRetiring]
        /\ pruned' = pruned
    BY <1>13 DEF StepFails, ToIdle
  <2>2. pc' \in [Threads -> ThreadSteps]
    BY <1>1, <2>1
  <2>3. retiring' \in [Threads -> [phase : Phases, list : SUBSET Builds]]
    BY <1>1, <1>11, <2>1
  <2>4. QED
    BY <1>1, <2>1, <2>2, <2>3
<1>14. QED
  BY <1>3, <1>4, <1>5, <1>6, <1>7, <1>8, <1>9, <1>10, <1>12, <1>13 DEF ThreadMoves, ThreadStep

(* Only the thread that moves changes its part.                              *)
LEMMA OthersSame ==
    ASSUME TypeOK, NEW t \in Threads, ThreadMoves(t),
           NEW o \in Threads \ {t}
    PROVE  Same(o)
<1> USE DEF TypeOK, ThreadTypeOK, Same, threadVars, Goto, Leave
<1>1. ASSUME NEW b \in Builds, Succeeds(t, b) \/ StatusRequest(t, b) PROVE Same(o)
  BY <1>1 DEF Succeeds, StatusRequest
<1>2. CASE \/ LoadPublishable(t) \/ TakeBuild(t) \/ CreateService(t) \/ CreateDeployment(t)
           \/ InspectDeployment(t) \/ PatchAlias(t) \/ ActivateAlias(t) \/ MarkServed(t)
  BY <1>2 DEF LoadPublishable, TakeBuild, CreateService, CreateDeployment, InspectDeployment,
              PatchAlias, ActivateAlias, MarkServed
<1>3. CASE \/ LoadRetiredFlux(t) \/ LoadRetiredWorkspaces(t) \/ DeleteService(t)
           \/ DeleteDeployment(t) \/ ClearEndpoints(t) \/ StepFails(t)
  BY <1>3 DEF LoadRetiredFlux, LoadRetiredWorkspaces, StartRetiring, DeleteService,
              DeleteDeployment, ClearEndpoints, StepFails, ToIdle
<1>4. QED
  BY <1>1, <1>2, <1>3 DEF ThreadMoves, ThreadStep

(* Successes are never taken back, and an alias row only ever takes up a     *)
(* generation that nothing newer has succeeded.                              *)
DatabaseMoves ==
    /\ succeeded \subseteq succeeded'
    /\ \A r \in Repositories :
         \/ aliasRow'[r] = aliasRow[r]
         \/ /\ aliasRow'[r] \in succeeded /\ succeeded' = succeeded
            /\ ~Superseded(aliasRow'[r]) /\ ~Workspace(aliasRow'[r])
            /\ Repo(aliasRow'[r]) = r

LEMMA ThreadDatabase ==
    ASSUME IndInv, NEW t \in Threads, ThreadMoves(t)
    PROVE  DatabaseMoves
<1>1. ASSUME NEW b \in Builds, Succeeds(t, b) \/ StatusRequest(t, b) PROVE DatabaseMoves
  BY <1>1 DEF Succeeds, StatusRequest, DatabaseMoves
<1>2. CASE ActivateAlias(t)
  <2>1. /\ cur[t] \in succeeded /\ Repo(cur[t]) \in Repositories
        /\ ~Workspace(cur[t])
    BY <1>2, InHandIsBuild DEF ActivateAlias, Ensuring, IndInv, HandOK
  <2>2. aliasRow \in [Repositories -> Builds \cup {NoBuild}]
    BY DEF IndInv, TypeOK, DatabaseTypeOK
  <2>3. QED
    BY <1>2, <2>1, <2>2 DEF ActivateAlias, DatabaseMoves
<1>3. CASE (ThreadStep(t) /\ ~ActivateAlias(t)) \/ StepFails(t)
  BY <1>3 DEF ThreadStep, StepFails, LoadPublishable, TakeBuild, CreateService, CreateDeployment,
              InspectDeployment, PatchAlias, MarkServed, LoadRetiredFlux, LoadRetiredWorkspaces,
              DeleteService, DeleteDeployment, ClearEndpoints, dbVars, DatabaseMoves
<1>4. QED
  BY <1>1, <1>2, <1>3 DEF ThreadMoves

LEMMA AliasStep ==
    ASSUME IndInv, DatabaseMoves, NEW r \in Repositories
    PROVE  AliasOK(r)'
BY DEF IndInv, AliasOK, DatabaseMoves, Workspace, Repo

(* A doomed build stays doomed: its successor is not taken back, and a       *)
(* superseded build is not put behind an alias.                              *)
LEMMA StaysDoomed ==
    ASSUME TypeOK, DatabaseMoves, NEW b \in Builds, Superseded(b),
           \A r \in Repositories : aliasRow[r] # b
    PROVE  Superseded(b)' /\ \A r \in Repositories : aliasRow'[r] # b
<1>1. Superseded(b)'
  BY DEF Superseded, DatabaseMoves, Newer
<1>2. QED
  BY <1>1 DEF DatabaseMoves

LEMMA OthersStay ==
    ASSUME IndInv, TypeOK', DatabaseMoves, NEW o \in Threads, Same(o)
    PROVE  HandOK(o)' /\ DoomedOK(o)'
<1>1. HandOK(o) /\ DoomedOK(o) /\ TypeOK
  BY DEF IndInv
<1>2. HandOK(o)'
  BY <1>1 DEF HandOK, Same, DatabaseMoves, Workspace
<1>3. Doomed(o)' = Doomed(o) /\ Doomed(o) \subseteq Builds
  BY DEF Doomed, Same
<1>4. DoomedOK(o)'
  BY <1>1, <1>3, StaysDoomed DEF DoomedOK
<1>5. QED
  BY <1>2, <1>4

(* What the thread that moves has in hand afterwards.                        *)
LEMMA MoverHand ==
    ASSUME IndInv, NEW t \in Threads, ThreadMoves(t)
    PROVE  HandOK(t)'
<1> USE DEF HandOK, dbVars, threadVars, Goto, Leave, Ensuring, Retiring
<1>1. TypeOK /\ HandOK(t)
  BY DEF IndInv
<1>2. DatabaseMoves
  BY ThreadDatabase
<1>3. ASSUME NEW b \in Builds, Succeeds(t, b) \/ StatusRequest(t, b) PROVE HandOK(t)'
  BY <1>1, <1>3 DEF Succeeds, StatusRequest, TypeOK, ThreadTypeOK
<1>4. CASE LoadPublishable(t) \/ TakeBuild(t)
  BY <1>1, <1>4, QueriesSelectSucceeded DEF LoadPublishable, TakeBuild, TypeOK, ThreadTypeOK
<1>5. CASE CreateService(t) \/ CreateDeployment(t) \/ InspectDeployment(t)
  BY <1>1, <1>5 DEF CreateService, CreateDeployment, InspectDeployment, TypeOK, ThreadTypeOK, Workspace
<1>6. CASE PatchAlias(t) \/ ActivateAlias(t) \/ MarkServed(t)
  BY <1>1, <1>6 DEF PatchAlias, ActivateAlias, MarkServed, TypeOK, ThreadTypeOK, Workspace
<1>7. CASE LoadRetiredFlux(t) \/ LoadRetiredWorkspaces(t)
  BY <1>1, <1>7, QueriesSelectSucceeded
     DEF LoadRetiredFlux, LoadRetiredWorkspaces, StartRetiring, TypeOK, ThreadTypeOK
<1>8. CASE DeleteService(t) \/ DeleteDeployment(t) \/ ClearEndpoints(t)
  BY <1>1, <1>8 DEF DeleteService, DeleteDeployment, ClearEndpoints, ToIdle, TypeOK, ThreadTypeOK
<1>9. CASE StepFails(t)
  BY <1>1, <1>9 DEF StepFails, ToIdle, TypeOK, ThreadTypeOK
<1>10. QED
  BY <1>3, <1>4, <1>5, <1>6, <1>7, <1>8, <1>9 DEF ThreadMoves, ThreadStep

(* What it may delete afterwards, it could delete before, unless it has just *)
(* read a retirement list.                                                   *)
LEMMA MoverDoomed ==
    ASSUME IndInv, NEW t \in Threads, ThreadMoves(t)
    PROVE  \A b \in Doomed(t)' : Superseded(b)' /\ \A r \in Repositories : aliasRow'[r] # b
<1>1. TypeOK /\ HandOK(t) /\ DoomedOK(t) /\ DatabaseMoves
  BY ThreadDatabase DEF IndInv
<1>2. CASE LoadRetiredFlux(t) \/ LoadRetiredWorkspaces(t)
  <2>1. Doomed(t)' \subseteq RetiredFlux \cup RetiredWorkspaces
    BY <1>1, <1>2 DEF LoadRetiredFlux, LoadRetiredWorkspaces, StartRetiring, Goto, Doomed, TypeOK, ThreadTypeOK,
                      Retiring
  <2>2. Doomed(t)' \subseteq Builds
    BY DEF Doomed
  <2>3. QED
    BY <1>1, <2>1, <2>2, RetiredAreDoomed, StaysDoomed
<1>3. CASE ~(LoadRetiredFlux(t) \/ LoadRetiredWorkspaces(t))
  <2>1. Doomed(t)' \subseteq Doomed(t)
    <3> USE DEF Doomed, TypeOK, ThreadTypeOK, Goto, Leave, Retiring, Ensuring, threadVars
    <3>1. ASSUME NEW b \in Builds, Succeeds(t, b) \/ StatusRequest(t, b)
          PROVE  Doomed(t)' \subseteq Doomed(t)
      BY <1>1, <3>1 DEF Succeeds, StatusRequest
    <3>2. CASE \/ LoadPublishable(t) \/ TakeBuild(t) \/ CreateService(t) \/ CreateDeployment(t)
               \/ InspectDeployment(t)
      BY <1>1, <3>2 DEF LoadPublishable, TakeBuild, CreateService, CreateDeployment,
                        InspectDeployment
    <3>3. CASE PatchAlias(t) \/ ActivateAlias(t) \/ MarkServed(t)
      BY <1>1, <3>3 DEF PatchAlias, ActivateAlias, MarkServed
    <3>4. CASE DeleteService(t)
      BY <1>1, <3>4 DEF DeleteService
    <3>5. CASE DeleteDeployment(t) \/ ClearEndpoints(t) \/ StepFails(t)
      BY <1>1, <3>5 DEF DeleteDeployment, ClearEndpoints, StepFails, ToIdle
    <3>6. QED
      BY <1>3, <3>1, <3>2, <3>3, <3>4, <3>5 DEF ThreadMoves, ThreadStep
  <2>2. Doomed(t)' \subseteq Builds
    BY DEF Doomed
  <2>3. QED
    BY <1>1, <2>1, <2>2, StaysDoomed DEF DoomedOK
<1>4. QED
  BY <1>2, <1>3

LEMMA ThreadInv ==
    ASSUME IndInv, NEW t \in Threads, ThreadMoves(t)
    PROVE  IndInv'
<1>1. TypeOK' /\ TypeOK
  BY ThreadDatabaseType, ThreadClusterType, ThreadThreadType DEF IndInv, TypeOK
<1>2. DatabaseMoves
  BY ThreadDatabase
<1>3. HandOK(t)' /\ DoomedOK(t)'
  BY MoverHand, MoverDoomed DEF DoomedOK
<1>4. ASSUME NEW o \in Threads \ {t} PROVE HandOK(o)' /\ DoomedOK(o)'
  BY <1>1, <1>2, <1>4, OthersSame, OthersStay
<1>5. ASSUME NEW r \in Repositories PROVE AliasOK(r)'
  BY <1>2, <1>5, AliasStep
<1>6. QED
  BY <1>1, <1>3, <1>4, <1>5 DEF IndInv

LEMMA CrashInv == ASSUME IndInv, NEW p \in Processes, Crash(p) PROVE IndInv'
<1>1. TypeOK'
  BY DEF IndInv, TypeOK, DatabaseTypeOK, ClusterTypeOK, ThreadTypeOK, SessionTypeOK, Crash, ThreadSteps, Phases, NoRetiring, dbVars, k8sVars, sessionVars
<1>2. ASSUME NEW t \in Threads PROVE HandOK(t)' /\ DoomedOK(t)'
  <2>1. \/ pc'[t] \in {"idle", "gone"} /\ todo'[t] = {}
        \/ Same(t)
    BY <1>2 DEF Crash, Same
  <2>2. DatabaseMoves
    BY DEF Crash, dbVars, DatabaseMoves
  <2>3. CASE pc'[t] \in {"idle", "gone"} /\ todo'[t] = {}
    BY <2>3 DEF HandOK, DoomedOK, Doomed, Ensuring, Retiring
  <2>4. QED
    BY <1>1, <2>1, <2>2, <2>3, OthersStay
<1>3. ASSUME NEW r \in Repositories PROVE AliasOK(r)'
  BY <1>3 DEF IndInv, AliasOK, Crash, dbVars, Workspace, Repo
<1>4. QED
  BY <1>1, <1>2, <1>3 DEF IndInv
-----------------------------------------------------------------------------
(* The invariant holds in every state.                                       *)
THEOREM Invariance == Spec => []IndInv
<1>1. IndInv /\ [Next]_vars => IndInv'
  <2> SUFFICES ASSUME IndInv, [Next]_vars PROVE IndInv'
    OBVIOUS
  <2>1. CASE \/ \E s \in Sessions : SessionStep(s)
             \/ \E b \in Builds : BecomesReady(b) \/ Drifts(b) \/ TtlEnds(b) \/ WorkspaceAnnounced(b)
             \/ \E r \in Repositories : GraceEnds(r)
             \/ UNCHANGED vars
    <3>1. TypeOK'
      BY <2>1, QuietType DEF IndInv
    <3>2. UNCHANGED <<succeeded, aliasRow, pc, cur, todo, retiring, pruned>>
      BY <2>1, QuietSteps
    <3>3. QED
      BY <3>1, <3>2, QuietInv
  <2>2. ASSUME NEW p \in Processes, Crash(p) PROVE IndInv'
    BY <2>2, CrashInv
  <2>3. QED
    BY <2>1, <2>2, ThreadInv DEF Next, ThreadMoves
<1>2. QED
  BY <1>1, InitIndInv, PTL DEF Spec

(* Every variable keeps its type, whatever is interleaved, fails or crashes. *)
THEOREM TypeCorrect == Spec => []TypeOK
<1>1. IndInv => TypeOK
  BY DEF IndInv
<1>2. QED
  BY <1>1, Invariance, PTL

(* A step of the alias goes to a build that nothing newer has succeeded: it  *)
(* never goes back, though threads of any number of processes work through   *)
(* lists of any age.                                                         *)
THEOREM AliasMovesForward == Spec => AliasNeverGoesBack
<1>1. IndInv /\ [Next]_vars =>
        [\A r \in Repositories :
           aliasRow[r] # NoBuild =>
             aliasRow'[r] = aliasRow[r] \/ ~Newer(aliasRow[r], aliasRow'[r])]_vars
  <2> SUFFICES ASSUME IndInv, [Next]_vars, NEW r \in Repositories, aliasRow[r] # NoBuild
               PROVE  aliasRow'[r] = aliasRow[r] \/ ~Newer(aliasRow[r], aliasRow'[r])
    OBVIOUS
  <2>1. aliasRow[r] \in succeeded
    BY DEF IndInv, AliasOK
  <2>2. CASE DatabaseMoves
    BY <2>1, <2>2 DEF DatabaseMoves, Superseded
  <2>3. CASE UNCHANGED aliasRow
    BY <2>3
  <2>4. ASSUME NEW p \in Processes, Crash(p) PROVE UNCHANGED aliasRow
    BY <2>4 DEF Crash, dbVars
  <2>5. QED
    BY <2>2, <2>3, <2>4, QuietSteps, ThreadDatabase DEF Next, ThreadMoves
<1>2. QED
  BY <1>1, Invariance, PTL DEF Spec, AliasNeverGoesBack

(* No Deployment is removed while its build is behind an alias.              *)
THEOREM LatestSurvives == Spec => LatestIsSpared
<1>1. IndInv /\ [Next]_vars =>
        [\A r \in Repositories :
           LET b == aliasRow[r]
           IN  b # NoBuild /\ deploy[b] # "none" => deploy'[b] # "none"]_vars
  <2> SUFFICES ASSUME IndInv, [Next]_vars, NEW r \in Repositories, aliasRow[r] # NoBuild,
                      deploy[aliasRow[r]] # "none"
               PROVE  deploy'[aliasRow[r]] # "none"
    OBVIOUS
  <2> DEFINE b == aliasRow[r]
  <2>1. b \in Builds /\ TypeOK
    BY DEF IndInv, TypeOK, DatabaseTypeOK
  <2>2. ASSUME NEW t \in Threads, DeleteDeployment(t) PROVE deploy'[b] # "none"
    <3>1. cur[t] \in Builds /\ cur[t] \in Doomed(t)
      BY <2>2, InHandIsBuild DEF DeleteDeployment, Doomed
    <3>2. cur[t] # b
      BY <3>1 DEF IndInv, DoomedOK
    <3>3. QED
      BY <2>1, <2>2, <3>2 DEF DeleteDeployment, TypeOK, ClusterTypeOK
  <2>3. ASSUME NEW t \in Threads, ~DeleteDeployment(t), ThreadMoves(t)
        PROVE  deploy'[b] # "none"
    <3>1. CASE CreateDeployment(t) \/ InspectDeployment(t)
      BY <2>1, <3>1 DEF CreateDeployment, InspectDeployment, TypeOK, ClusterTypeOK
    <3>2. CASE ~(CreateDeployment(t) \/ InspectDeployment(t))
      <4>1. UNCHANGED deploy
        BY <2>3, <3>2 DEF ThreadMoves, ThreadStep, StepFails, Succeeds, StatusRequest,
             LoadPublishable, TakeBuild, CreateService, PatchAlias, ActivateAlias, MarkServed, LoadRetiredFlux,
             LoadRetiredWorkspaces, DeleteService, ClearEndpoints, k8sVars
      <4>2. QED
        BY <4>1
    <3>3. QED
      BY <3>1, <3>2
  <2>4. ASSUME NEW a \in Builds, BecomesReady(a) \/ Drifts(a) PROVE deploy'[b] # "none"
    BY <2>1, <2>4 DEF BecomesReady, Drifts, TypeOK, ClusterTypeOK
  <2>5. ASSUME NEW a \in Builds, TtlEnds(a) \/ WorkspaceAnnounced(a) PROVE UNCHANGED deploy
    BY <2>5 DEF TtlEnds, WorkspaceAnnounced, k8sVars
  <2>6. ASSUME NEW s \in Sessions, SessionStep(s) PROVE UNCHANGED deploy
    BY <2>6 DEF SessionStep, LookUp, Probe, Bind, CreateSession, EndSession, k8sVars
  <2>7. ASSUME NEW q \in Repositories, GraceEnds(q) PROVE UNCHANGED deploy
    BY <2>7 DEF GraceEnds, k8sVars
  <2>8. ASSUME NEW p \in Processes, Crash(p) PROVE UNCHANGED deploy
    BY <2>8 DEF Crash, k8sVars
  <2>9. CASE UNCHANGED vars
    BY <2>9 DEF vars, k8sVars
  <2>10. QED
    BY <2>2, <2>3, <2>4, <2>5, <2>6, <2>7, <2>8, <2>9 DEF Next, ThreadMoves
<1>2. QED
  BY <1>1, Invariance, PTL DEF Spec, LatestIsSpared
-----------------------------------------------------------------------------
(* What sessions are led to.  The registry row of a build is shared by all   *)
(* sessions of it; it may hold the alias Service's URL, but never for a      *)
(* workspace build, and the alias Service of a repository only ever selects  *)
(* Flux builds of that repository that succeeded.                            *)

(* Steps at which the session has written the registry row: workspaces are   *)
(* bound before they are probed.                                             *)
Bound(s) == step[s] \in {"create", "active"} \/ (step[s] = "probe" /\ kind[s] = "workspace")

(* A session under way has a build that succeeded and is of the kind that    *)
(* was asked for, and it is bound before it is created.                      *)
SessionOK(s) ==
    step[s] # "none" =>
        /\ build[s] \in succeeded
        /\ kind[s] = "workspace" <=> Workspace(build[s])
        /\ Bound(s) => binding[build[s]] # "none"

BindingOK(b) == Workspace(b) => binding[b] # "alias"

AliasServiceOK(r) ==
    LET b == aliasSvc[r]
    IN  b # NoBuild => b \in succeeded /\ ~Workspace(b) /\ Repo(b) = r

SessionInv ==
    /\ \A s \in Sessions : SessionOK(s)
    /\ \A b \in Builds : BindingOK(b)
    /\ \A r \in Repositories : AliasServiceOK(r)

(* The calls of an active session reach a generation of its repository that  *)
(* was built, if they reach any; those of a workspace session reach the      *)
(* build the session was given.                                              *)
SessionsReachTheirRepository ==
    \A s \in Sessions :
        step[s] = "active" =>
            LET b == build[s]
                target == Target(b, binding[b])
            IN  /\ binding[b] # "none"
                /\ target # NoBuild => target \in succeeded /\ Repo(target) = Repo(b)
                /\ kind[s] = "workspace" => target = b

(* Bindings are written by sessions, the alias Service by one step of the    *)
(* loop; nothing else touches what SessionInv is about, and successes are    *)
(* not taken back.                                                           *)
LEMMA SessionFrame ==
    ASSUME SessionInv, succeeded \subseteq succeeded',
           UNCHANGED <<binding, aliasSvc, sessionVars>>
    PROVE  SessionInv'
<1>1. ASSUME NEW s \in Sessions PROVE SessionOK(s)'
  <2>1. SessionOK(s)
    BY DEF SessionInv
  <2>2. QED
    BY <2>1 DEF SessionOK, Bound, Workspace, sessionVars
<1>2. ASSUME NEW b \in Builds PROVE BindingOK(b)'
  <2>1. BindingOK(b)
    BY DEF SessionInv
  <2>2. QED
    BY <2>1 DEF BindingOK, Workspace
<1>3. ASSUME NEW r \in Repositories PROVE AliasServiceOK(r)'
  <2>1. AliasServiceOK(r)
    BY DEF SessionInv
  <2>2. QED
    BY <2>1 DEF AliasServiceOK, Workspace, Repo
<1>4. QED
  BY <1>1, <1>2, <1>3 DEF SessionInv

(* The loop patches the alias Service for a Flux build it has in hand.       *)
LEMMA AliasServiceStep ==
    ASSUME IndInv, SessionInv, NEW t \in Threads, PatchAlias(t)
    PROVE  SessionInv'
<1>1. cur[t] \in succeeded /\ ~Workspace(cur[t]) /\ HandOK(t)
  BY InHandIsBuild DEF PatchAlias, Ensuring, IndInv, HandOK
<1>2. UNCHANGED <<succeeded, binding, sessionVars>>
  BY DEF PatchAlias, dbVars
<1>3. ASSUME NEW s \in Sessions PROVE SessionOK(s)'
  <2>1. SessionOK(s)
    BY DEF SessionInv
  <2>2. QED
    BY <1>2, <2>1 DEF SessionOK, Bound, Workspace, sessionVars
<1>4. ASSUME NEW b \in Builds PROVE BindingOK(b)'
  BY <1>2 DEF SessionInv, BindingOK, Workspace
<1>5. ASSUME NEW r \in Repositories PROVE AliasServiceOK(r)'
  <2>1. AliasServiceOK(r) /\ aliasSvc \in [Repositories -> Builds \cup {NoBuild}]
    BY DEF SessionInv, IndInv, TypeOK, ClusterTypeOK
  <2>2. aliasSvc' = [aliasSvc EXCEPT ![Repo(cur[t])] = cur[t]]
    BY DEF PatchAlias
  <2>3. CASE r = Repo(cur[t])
    BY <1>1, <1>2, <2>1, <2>2, <2>3 DEF AliasServiceOK, Workspace, Repo
  <2>4. CASE r # Repo(cur[t])
    <3>1. aliasSvc'[r] = aliasSvc[r]
      BY <2>1, <2>2, <2>4
    <3>2. QED
      BY <1>2, <2>1, <3>1 DEF AliasServiceOK, Workspace, Repo
  <2>5. QED
    BY <2>3, <2>4
<1>6. QED
  BY <1>3, <1>4, <1>5 DEF SessionInv

(* One session moves: the others keep their build and kind, and no binding   *)
(* becomes empty.                                                            *)
LEMMA OtherSessions ==
    ASSUME IndInv, SessionInv, NEW s \in Sessions, SessionStep(s),
           NEW o \in Sessions \ {s}
    PROVE  SessionOK(o)'
<1>1. SessionOK(o) /\ TypeOK
  BY DEF SessionInv, IndInv
<1>2. step'[o] = step[o] /\ kind'[o] = kind[o] /\ build'[o] = build[o] /\ succeeded' = succeeded
  BY <1>1 DEF SessionStep, LookUp, Probe, Bind, CreateSession, EndSession, StepTo, Forget, dbVars,
              TypeOK, SessionTypeOK
<1>3. ASSUME NEW b \in Builds PROVE binding'[b] = binding[b] \/ binding'[b] # "none"
  BY <1>1 DEF SessionStep, LookUp, Probe, Bind, CreateSession, EndSession, dbVars, EndpointOf,
              TypeOK, DatabaseTypeOK
<1>4. step[o] # "none" => build[o] \in Builds
  BY <1>1 DEF SessionOK, TypeOK, DatabaseTypeOK
<1>5. QED
  BY <1>1, <1>2, <1>3, <1>4 DEF SessionOK, Bound, Workspace

(* What is looked up has succeeded and is of the kind asked for: the alias   *)
(* row holds a Flux build (AliasOK).                                         *)
LEMMA LookedUp ==
    ASSUME IndInv, NEW how \in {"exact", "latest", "workspace"}, NEW b \in Candidates(how)
    PROVE  b \in succeeded /\ (how = "workspace" <=> Workspace(b))
<1>1. CASE how = "latest"
  <2>1. PICK r \in Repositories : b = aliasRow[r] /\ b # NoBuild
    BY <1>1 DEF Candidates
  <2>2. AliasOK(r)
    BY DEF IndInv
  <2>3. QED
    BY <1>1, <2>1, <2>2 DEF AliasOK
<1>2. CASE how # "latest"
  BY <1>2 DEF Candidates
<1>3. QED
  BY <1>1, <1>2

LEMMA MovedSession ==
    ASSUME IndInv, SessionInv, NEW s \in Sessions, SessionStep(s)
    PROVE  SessionOK(s)'
<1>1. SessionOK(s) /\ TypeOK
  BY DEF SessionInv, IndInv
<1>2. CASE LookUp(s)
  <2> PICK how \in {"exact", "latest", "workspace"} : \E b \in Candidates(how) :
          /\ kind' = [kind EXCEPT ![s] = how] /\ build' = [build EXCEPT ![s] = b]
          /\ StepTo(s, IF how = "workspace" THEN "bind" ELSE "probe")
    BY <1>2 DEF LookUp
  <2>1. PICK b \in Candidates(how) :
          /\ kind' = [kind EXCEPT ![s] = how] /\ build' = [build EXCEPT ![s] = b]
          /\ StepTo(s, IF how = "workspace" THEN "bind" ELSE "probe")
    OBVIOUS
  <2>2. b \in succeeded /\ (how = "workspace" <=> Workspace(b))
    BY LookedUp
  <2>3. kind'[s] = how /\ build'[s] = b /\ succeeded' = succeeded
        /\ step'[s] = IF how = "workspace" THEN "bind" ELSE "probe"
    BY <1>1, <1>2, <2>1 DEF StepTo, LookUp, dbVars, TypeOK, SessionTypeOK
  <2>4. QED
    BY <2>2, <2>3 DEF SessionOK, Bound, Workspace
<1>3. CASE EndSession(s)
  BY <1>1, <1>3 DEF EndSession, Forget, StepTo, SessionOK, TypeOK, SessionTypeOK
<1>4. CASE Probe(s)
  <2>1. CASE Forget(s)
    BY <1>1, <2>1 DEF Forget, StepTo, SessionOK, TypeOK, SessionTypeOK
  <2>2. CASE StepTo(s, IF kind[s] = "workspace" THEN "create" ELSE "bind") /\ UNCHANGED <<kind, build>>
    BY <1>1, <1>4, <2>2 DEF Probe, StepTo, SessionOK, Bound, Workspace, TypeOK, SessionTypeOK, dbVars
  <2>3. QED
    BY <1>4, <2>1, <2>2 DEF Probe
<1>5. CASE Bind(s)
  <2>1. build[s] \in Builds /\ step[s] = "bind" /\ binding'[build[s]] # "none"
    BY <1>1, <1>5 DEF Bind, SessionOK, TypeOK, DatabaseTypeOK, EndpointOf
  <2>2. QED
    BY <1>1, <1>5, <2>1 DEF Bind, StepTo, SessionOK, Bound, Workspace, TypeOK, SessionTypeOK
<1>6. CASE CreateSession(s)
  BY <1>1, <1>6 DEF CreateSession, StepTo, SessionOK, Bound, Workspace, TypeOK, SessionTypeOK, dbVars
<1>7. QED
  BY <1>2, <1>3, <1>4, <1>5, <1>6 DEF SessionStep

(* A session binds its build as its kind says: never a workspace build to    *)
(* the alias.                                                                *)
LEMMA SessionStepInv ==
    ASSUME IndInv, SessionInv, NEW s \in Sessions, SessionStep(s)
    PROVE  SessionInv'
<1>1. ASSUME NEW b \in Builds PROVE BindingOK(b)'
  <2>1. BindingOK(b) /\ SessionOK(s) /\ TypeOK
    BY DEF SessionInv, IndInv
  <2>2. CASE Bind(s)
    <3>1. step[s] = "bind" /\ binding' = [binding EXCEPT ![build[s]] = EndpointOf(kind[s])]
      BY <2>2 DEF Bind
    <3>2. Workspace(build[s]) => EndpointOf(kind[s]) = "own"
      BY <2>1, <3>1 DEF SessionOK, EndpointOf
    <3>3. QED
      BY <2>1, <3>1, <3>2 DEF BindingOK, Workspace, TypeOK, DatabaseTypeOK
  <2>3. CASE ~Bind(s)
    BY <2>1, <2>3 DEF SessionStep, LookUp, Probe, CreateSession, EndSession, dbVars, BindingOK,
                      Workspace
  <2>4. QED
    BY <2>2, <2>3
<1>2. ASSUME NEW r \in Repositories PROVE AliasServiceOK(r)'
  <2>1. AliasServiceOK(r)
    BY DEF SessionInv
  <2>2. UNCHANGED <<succeeded, aliasSvc>>
    BY DEF SessionStep, LookUp, Probe, Bind, CreateSession, EndSession, dbVars, k8sVars
  <2>3. QED
    BY <2>1, <2>2 DEF AliasServiceOK, Workspace, Repo
<1>3. QED
  BY <1>1, <1>2, MovedSession, OtherSessions DEF SessionInv

(* SessionInv holds in every state.                                          *)
LEMMA SessionsInvariance == Spec => []SessionInv
<1>1. Init => SessionInv
  BY DEF Init, SessionInv, SessionOK, BindingOK, AliasServiceOK
<1>2. IndInv /\ SessionInv /\ [Next]_vars => SessionInv'
  <2> SUFFICES ASSUME IndInv, SessionInv, [Next]_vars PROVE SessionInv'
    OBVIOUS
  <2>1. ASSUME NEW s \in Sessions, SessionStep(s) PROVE SessionInv'
    BY <2>1, SessionStepInv
  <2>2. ASSUME NEW t \in Threads, PatchAlias(t) PROVE SessionInv'
    BY <2>2, AliasServiceStep
  <2>3. ASSUME NEW t \in Threads, ~PatchAlias(t), ThreadMoves(t) PROVE SessionInv'
    <3>1. succeeded \subseteq succeeded'
      BY <2>3, ThreadDatabase DEF DatabaseMoves
    <3>2. UNCHANGED <<binding, aliasSvc, sessionVars>>
      BY <2>3 DEF ThreadMoves, ThreadStep, Succeeds, StatusRequest, LoadPublishable, TakeBuild,
           CreateService, CreateDeployment, InspectDeployment, ActivateAlias, MarkServed,
           LoadRetiredFlux, LoadRetiredWorkspaces, DeleteService, DeleteDeployment,
           ClearEndpoints, StepFails, dbVars, k8sVars
    <3>3. QED
      BY <3>1, <3>2, SessionFrame
  <2>4. CASE \/ \E b \in Builds : BecomesReady(b) \/ Drifts(b) \/ TtlEnds(b) \/ WorkspaceAnnounced(b)
             \/ \E r \in Repositories : GraceEnds(r)
             \/ \E p \in Processes : Crash(p)
             \/ UNCHANGED vars
    <3>1. UNCHANGED <<succeeded, binding, aliasSvc, sessionVars>>
      BY <2>4 DEF BecomesReady, Drifts, TtlEnds, WorkspaceAnnounced, GraceEnds, Crash, vars, dbVars, k8sVars
    <3>2. QED
      BY <3>1, SessionFrame
  <2>5. QED
    BY <2>1, <2>2, <2>3, <2>4 DEF Next, ThreadMoves
<1>3. QED
  BY <1>1, <1>2, Invariance, PTL DEF Spec

(* Whatever other sessions bind and whichever builds the loop moves the      *)
(* alias to, a session's calls stay within its repository and reach only     *)
(* what was built; a workspace session's reach its own build.  That the      *)
(* calls of an exact session reach its own build is not true of the code     *)
(* (ExactStaysExact).                                                        *)
THEOREM SessionsStayInTheirRepository == Spec => []SessionsReachTheirRepository
<1>1. IndInv /\ SessionInv => SessionsReachTheirRepository
  <2> SUFFICES ASSUME IndInv, SessionInv, NEW s \in Sessions, step[s] = "active"
               PROVE  LET b == build[s]
                          target == Target(b, binding[b])
                      IN  /\ binding[b] # "none"
                          /\ target # NoBuild => target \in succeeded /\ Repo(target) = Repo(b)
                          /\ kind[s] = "workspace" => target = b
    BY DEF SessionsReachTheirRepository
  <2>1. SessionOK(s)
    BY DEF SessionInv
  <2>2. /\ build[s] \in succeeded /\ build[s] \in Builds
        /\ binding[build[s]] # "none"
        /\ kind[s] = "workspace" => Workspace(build[s])
    BY <2>1 DEF SessionOK, Bound, IndInv, TypeOK, DatabaseTypeOK
  <2>3. BindingOK(build[s]) /\ Repo(build[s]) \in Repositories
    BY <2>2, ServingAssumption DEF SessionInv, Repo
  <2>4. AliasServiceOK(Repo(build[s]))
    BY <2>3 DEF SessionInv
  <2>5. QED
    BY <2>2, <2>3, <2>4 DEF Target, BindingOK, AliasServiceOK
<1>2. QED
  BY <1>1, Invariance, SessionsInvariance, PTL
=============================================================================
