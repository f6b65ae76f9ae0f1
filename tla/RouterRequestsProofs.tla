------------------------ MODULE RouterRequestsProofs ------------------------
(***************************************************************************)
(* Machine-checked proofs about RouterRequests, for any requests, search   *)
(* results, budgets and numbers of faults.                                 *)
(*                                                                         *)
(* CallInv says, for every stage of a handler, what its request row and    *)
(* step rows hold as long as no telemetry write of the call has failed,    *)
(* and which turns the admission thread may have.  What is counted is the  *)
(* matter of RouterTokenProofs.                                            *)
(***************************************************************************)
EXTENDS RouterRequests, TLAPS

Unbegun == {"idle", "bridge", "begin"}
Ahead == Measured \cup {"stitch", "account", "end"}

StageOK(c) ==
    LET h == call[c] IN
    /\ h.entered => h.stage \in Measured
    /\ h.stage \in Stages \ {"end"} => h.error = "none"
    /\ h.stage = "end" => h.error # "no_model"
    /\ h.stage = "bridge" => Unrecorded(h.request)

(* The row of the request, and what the client is told.                      *)
RowOK(c) ==
    LET h == call[c] IN
    /\ h.stage \in Unbegun => rows[c].state = "none"
    /\ h.stage \in Stages \ Unbegun /\ c \notin unrecorded => rows[c].state = "open"
    /\ rows[c].state = "closed" => h.stage = "answered"
    /\ h.stage = "answered" /\ HasRow(c) /\ c \notin unrecorded =>
         /\ rows[c].state = "closed"
         /\ rows[c].error # "none" <=> h.answer \in {500, 502}

Failed(c) == \E n \in Measured : steps[c][n] = "failed"

(* The failed steps are the reason of the error.                             *)
Explained(c) ==
    /\ call[c].error \in {"exception", "builder_error"} <=> Failed(c)
    /\ call[c].error = "builder_error" => \E n \in Builder : steps[c][n] = "failed"

(* The rows of its steps.                                                    *)
StepsOK(c) ==
    LET h == call[c] IN
    c \notin unrecorded =>
        /\ h.stage \in Stages => \A n \in Measured : steps[c][n] = "open" <=> h.entered /\ n = h.stage
        /\ h.stage \in Stages \ {"end"} => ~Failed(c)
        /\ h.stage = "end" => Explained(c)
        /\ rows[c].state = "closed" =>
             /\ \A n \in Measured : steps[c][n] # "open"
             /\ Explained(c) /\ rows[c].error = Kind(h.error)

AdmissionOK(c) ==
    LET h == call[c] IN
    /\ admission[c] # "none" => /\ h.answered /\ h.error = "none"
                                /\ h.stage \in {"end"} \cup Ends
    /\ steward[c] # "none" => admission[c] # "none"
    /\ steps[c]["steward_async_call"] = "ok" => steward[c] = "done"

CallInv(c) == StageOK(c) /\ RowOK(c) /\ StepsOK(c) /\ AdmissionOK(c)

IndInv == ControlTypeOK /\ \A c \in Calls : CallInv(c)
-----------------------------------------------------------------------------
LEMMA StageNames ==
    /\ Measured \subseteq Stages /\ Measured \subseteq StepNames /\ Ahead \subseteq Stages
    /\ "steward_async_call" \in StepNames /\ "steward_async_call" \notin Measured
    /\ Measured \cap Unbegun = {} /\ Measured \cap Ends = {} /\ Stages \cap Ends = {}
    /\ Unbegun \subseteq Stages /\ Ahead \cap Unbegun = {}
    /\ {"budget", "stitch", "account", "end"} \subseteq Stages \ Unbegun
    /\ {"budget", "stitch", "account", "end"} \cap Measured = {}
BY DEF Measured, Stages, StepNames, Ahead, Unbegun, Ends, Retrieval, Builder

LEMMA InitIndInv == Init => IndInv
<1> SUFFICES ASSUME Init PROVE IndInv
  OBVIOUS
<1>1. /\ DOMAIN call = Calls /\ \A c \in Calls : call[c] = Fresh
      /\ \A c \in Calls : rows[c] = [state |-> "none", error |-> "none"]
      /\ \A c \in Calls : \A n \in StepNames : steps[c][n] = "none"
      /\ \A c \in Calls : admission[c] = "none" /\ steward[c] = "none"
      /\ unrecorded = {}
  BY DEF Init
<1>2. Fresh.stage = "idle" /\ ~Fresh.entered /\ Fresh.error = "none" /\ Fresh.request = NoRequest
      /\ Fresh.entered \in BOOLEAN /\ Fresh.answered \in BOOLEAN
  BY DEF Fresh
<1>3. ControlTypeOK
  <2>1. rows \in [Calls -> Row]
    BY DEF Init, Row, Errors
  <2>2. steps \in [Calls -> [StepNames -> {"none", "open", "ok", "failed"}]]
    BY DEF Init
  <2>3. admission \in [Calls -> {"none", "starting", "posting", "ended", "lost", "hung"}]
        /\ steward \in [Calls -> {"none", "working", "done", "failed"}]
    BY DEF Init
  <2>4. "idle" \in Stages /\ "none" \in Errors
    BY DEF Stages, Errors
  <2>5. QED
    BY <1>1, <1>2, <2>1, <2>2, <2>3, <2>4 DEF ControlTypeOK
<1>4. ASSUME NEW c \in Calls PROVE CallInv(c)
  <2>1. StageOK(c)
    BY <1>1, <1>2 DEF StageOK
  <2>2. RowOK(c)
    BY <1>1, <1>2 DEF RowOK, Unbegun
  <2>3. StepsOK(c)
    BY <1>1, <1>2, StageNames DEF StepsOK, Failed, Explained
  <2>4. AdmissionOK(c)
    BY <1>1, StageNames DEF AdmissionOK
  <2>5. QED
    BY <2>1, <2>2, <2>3, <2>4 DEF CallInv
<1>5. QED
  BY <1>3, <1>4 DEF IndInv
-----------------------------------------------------------------------------
(* How a handler goes on.                                                    *)

Goes(c, stage, entered, answered, error) ==
    /\ DOMAIN call' = Calls /\ \A d \in Calls \ {c} : call'[d] = call[d]
    /\ DOMAIN call'[c] = DOMAIN Fresh
    /\ call'[c].stage = stage /\ call'[c].entered = entered
    /\ call'[c].answered = answered /\ call'[c].error = error
    /\ call'[c].request = call[c].request

(* The calls that a step of c leaves alone.                                  *)
OthersKept(c) ==
    \A d \in Calls \ {c} :
        /\ call'[d] = call[d] /\ rows'[d] = rows[d] /\ steps'[d] = steps[d]
        /\ admission'[d] = admission[d] /\ steward'[d] = steward[d]
        /\ d \in unrecorded' <=> d \in unrecorded

LEMMA CallsKept ==
    ASSUME IndInv, NEW c \in Calls, ControlTypeOK', OthersKept(c), CallInv(c)'
    PROVE  IndInv'
<1>1. ASSUME NEW d \in Calls, d # c PROVE CallInv(d)'
  <2>1. CallInv(d)
    BY DEF IndInv
  <2>2. QED
    BY <1>1, <2>1 DEF OthersKept, CallInv, StageOK, RowOK, StepsOK, AdmissionOK, Failed, Explained, HasRow
<1>2. QED
  BY <1>1 DEF IndInv

LEMMA CallGoes ==
    ASSUME ControlTypeOK, NEW c \in Calls, NEW stage \in Stages \cup Ends, NEW entered \in BOOLEAN,
           NEW answered \in BOOLEAN, NEW error \in Errors, Goes(c, stage, entered, answered, error),
           rows' \in [Calls -> Row],
           steps' \in [Calls -> [StepNames -> {"none", "open", "ok", "failed"}]],
           admission' \in [Calls -> {"none", "starting", "posting", "ended", "lost", "hung"}],
           steward' = steward, unrecorded' \subseteq Calls
    PROVE  ControlTypeOK'
BY DEF ControlTypeOK, Goes

(* A telemetry write, gone well or not.                                      *)
Logged(c) ==
    /\ unrecorded' \subseteq Calls /\ unrecorded \subseteq unrecorded'
    /\ \A d \in Calls \ {c} : d \in unrecorded' <=> d \in unrecorded

StepWritten(c, name, how) ==
    /\ steps' \in [Calls -> [StepNames -> {"none", "open", "ok", "failed"}]]
    /\ \A d \in Calls \ {c} : steps'[d] = steps[d]
    /\ \A n \in StepNames \ {name} : steps'[c][n] = steps[c][n]
    /\ steps'[c][name] \in {steps[c][name], how}

LEMMA NothingWritten ==
    ASSUME ControlTypeOK, NEW c \in Calls, UNCHANGED unrecorded
    PROVE  Logged(c)
BY DEF ControlTypeOK, Logged

LEMMA StepBegins ==
    ASSUME ControlTypeOK, NEW c \in Calls, NEW n \in StepNames, BeginStep(c, n)
    PROVE  /\ Logged(c) /\ StepWritten(c, n, "open")
           /\ c \notin unrecorded' /\ rows[c].state # "none" => steps'[c][n] = "open"
<1>1. Logged(c)
  BY DEF ControlTypeOK, BeginStep, Recorded, NotRecorded, Logged
<1>2. steps' = steps \/ steps' = [steps EXCEPT ![c][n] = "open"]
  BY DEF BeginStep
<1>3. StepWritten(c, n, "open")
  <2>1. steps \in [Calls -> [StepNames -> {"none", "open", "ok", "failed"}]]
    BY DEF ControlTypeOK
  <2>2. CASE steps' = steps
    BY <2>1, <2>2 DEF StepWritten
  <2>3. CASE steps' = [steps EXCEPT ![c][n] = "open"]
    <3>1. \A d \in Calls \ {c} : steps'[d] = steps[d]
      BY <2>1, <2>3
    <3>2. \A m \in StepNames \ {n} : steps'[c][m] = steps[c][m]
      BY <2>1, <2>3
    <3>3. steps'[c][n] = "open" /\ steps' \in [Calls -> [StepNames -> {"none", "open", "ok", "failed"}]]
      BY <2>1, <2>3
    <3>4. QED
      BY <3>1, <3>2, <3>3 DEF StepWritten
  <2>4. QED
    BY <1>2, <2>2, <2>3
<1>4. c \notin unrecorded' /\ rows[c].state # "none" => steps' = [steps EXCEPT ![c][n] = "open"]
  BY DEF BeginStep, NotRecorded
<1>5. QED
  BY <1>1, <1>3, <1>4 DEF ControlTypeOK

LEMMA StepEnds ==
    ASSUME ControlTypeOK, NEW c \in Calls, NEW n \in StepNames, NEW how \in {"ok", "failed"},
           EndStep(c, n, how)
    PROVE  /\ Logged(c) /\ StepWritten(c, n, how)
           /\ c \notin unrecorded' /\ steps[c][n] = "open" => steps'[c][n] = how
<1>1. Logged(c)
  BY DEF ControlTypeOK, EndStep, Recorded, NotRecorded, Logged
<1>2. steps' = steps \/ steps' = [steps EXCEPT ![c][n] = how]
  BY DEF EndStep
<1>3. StepWritten(c, n, how)
  <2>1. how \in {"none", "open", "ok", "failed"}
    OBVIOUS
  <2>2. steps \in [Calls -> [StepNames -> {"none", "open", "ok", "failed"}]]
    BY DEF ControlTypeOK
  <2>3. CASE steps' = steps
    BY <2>2, <2>3 DEF StepWritten
  <2>4. CASE steps' = [steps EXCEPT ![c][n] = how]
    <3>1. \A d \in Calls \ {c} : steps'[d] = steps[d]
      BY <2>2, <2>4
    <3>2. \A m \in StepNames \ {n} : steps'[c][m] = steps[c][m]
      BY <2>2, <2>4
    <3>3. steps'[c][n] = how /\ steps' \in [Calls -> [StepNames -> {"none", "open", "ok", "failed"}]]
      BY <2>1, <2>2, <2>4
    <3>4. QED
      BY <3>1, <3>2, <3>3 DEF StepWritten
  <2>5. QED
    BY <1>2, <2>3, <2>4
<1>4. c \notin unrecorded' /\ steps[c][n] = "open" => steps' = [steps EXCEPT ![c][n] = how]
  BY DEF EndStep, NotRecorded
<1>5. QED
  BY <1>1, <1>3, <1>4 DEF ControlTypeOK
-----------------------------------------------------------------------------
(* One lemma for each group of actions.                                      *)

(* The handler goes on, or raises, where no step is open.                    *)
LEMMA QuietInv ==
    ASSUME IndInv, NEW c \in Calls, NEW next \in Ahead, NEW error \in {"none", "unmeasured"},
           call[c].stage \in (Ahead \cup {"budget"}) \ {"end"}, ~call[c].entered, error # "none" => next = "end",
           Goes(c, next, FALSE, call[c].answered, error), Logged(c),
           UNCHANGED <<rows, steps>>, UNCHANGED admitVars
    PROVE  IndInv'
<1>1. /\ ControlTypeOK /\ CallInv(c)
      /\ call[c].stage \in Stages \ Unbegun /\ call[c].stage # "end" /\ call[c].stage \notin Ends
      /\ next \in Stages /\ next \notin Unbegun /\ next \notin Ends
  BY StageNames DEF IndInv
<1>2. call[c].error = "none"
  BY <1>1 DEF CallInv, StageOK
<1>3. ControlTypeOK'
  <2>1. call[c].answered \in BOOLEAN /\ error \in Errors
    BY <1>1 DEF ControlTypeOK, Errors
  <2>2. /\ rows' \in [Calls -> Row] /\ unrecorded' \subseteq Calls /\ steward' = steward
        /\ steps' \in [Calls -> [StepNames -> {"none", "open", "ok", "failed"}]]
        /\ admission' \in [Calls -> {"none", "starting", "posting", "ended", "lost", "hung"}]
    BY <1>1 DEF ControlTypeOK, Logged, admitVars
  <2>3. QED
    BY <1>1, <2>1, <2>2, CallGoes
<1>4. OthersKept(c)
  BY DEF OthersKept, Goes, Logged, admitVars
<1>5. /\ call'[c].stage = next /\ ~call'[c].entered /\ call'[c].error = error
      /\ call'[c].answered = call[c].answered
      /\ c \notin unrecorded' => c \notin unrecorded
  BY DEF Goes, Logged
<1>6. StageOK(c)'
  BY <1>1, <1>5 DEF StageOK, Unbegun
<1>7. RowOK(c)'
  BY <1>1, <1>5 DEF CallInv, RowOK, Unbegun, Ends
<1>8. StepsOK(c)'
  BY <1>1, <1>2, <1>5 DEF CallInv, StepsOK, RowOK, Failed, Explained, Ends
<1>9. AdmissionOK(c)'
  BY <1>1, <1>5 DEF CallInv, AdmissionOK, admitVars, Ends
<1>10. QED
  BY <1>3, <1>4, <1>6, <1>7, <1>8, <1>9, CallsKept DEF CallInv

LEMMA PlanInv ==
    ASSUME IndInv, NEW c \in Calls,
           \/ PruneHistory(c) \/ StitchContext(c) \/ RaiseOutside(c)
           \/ WriteSearchAccount(c) \/ WriteContextAccount(c)
    PROVE  IndInv'
<1>1. ControlTypeOK /\ CallInv(c) /\ DOMAIN call = Calls /\ DOMAIN call[c] = DOMAIN Fresh
  BY DEF IndInv, ControlTypeOK
<1>2. UNCHANGED <<rows, steps>> /\ UNCHANGED admitVars
  BY DEF PruneHistory, StitchContext, RaiseOutside, WriteSearchAccount, WriteContextAccount
<1>3. Logged(c)
  BY <1>1 DEF PruneHistory, StitchContext, RaiseOutside, WriteSearchAccount, WriteContextAccount,
     WriteAccount, Recorded, NotRecorded, Logged, ControlTypeOK
<1>5. call[c].stage \in (Ahead \cup {"budget"}) \ {"end"} /\ ~call[c].entered /\ call[c].error = "none"
  <2>1. \/ call[c].stage \in {"budget", "stitch", "account"}
        \/ call[c].stage = "builder_chat" /\ ~call[c].entered
    BY DEF PruneHistory, StitchContext, RaiseOutside, WriteSearchAccount, WriteContextAccount
  <2>2. call[c].stage \in (Ahead \cup {"budget"}) \ {"end"}
    BY <2>1 DEF Ahead, Measured, Builder
  <2>3. QED
    BY <1>1, <2>1, <2>2, StageNames DEF CallInv, StageOK
<1>4. \E next \in Ahead, error \in {"none", "unmeasured"} :
         Goes(c, next, FALSE, call[c].answered, error) /\ (error # "none" => next = "end")
  <2>1. {"pg_static", "builder_chat", "end"} \subseteq Ahead
    BY DEF Ahead, Measured, Retrieval, Builder
  <2>2. \E next \in {"pg_static", "builder_chat", "end"}, error \in {"none", "unmeasured"} :
           Goes(c, next, FALSE, call[c].answered, error) /\ (error # "none" => next = "end")
    <3>1. CASE PruneHistory(c)
      <4>1. PICK budget \in Budgets :
              LET messages == call[c].request.messages
              IN  call' = [call EXCEPT ![c].stage = "pg_static", ![c].historyBudget = budget,
                                       ![c].history = Pruned(messages, Allowed(messages, budget))]
        BY <3>1 DEF PruneHistory
      <4>2. Goes(c, "pg_static", FALSE, call[c].answered, "none")
        BY <1>1, <1>5, <4>1 DEF Goes, Fresh
      <4>3. QED
        BY <4>2
    <3>2. CASE StitchContext(c)
      <4> DEFINE next == IF Op(c) = "chat" THEN "builder_chat" ELSE "end"
      <4>1. PICK budget \in Budgets, list \in Reranked(call[c].raw) :
              LET dense == Positive(budget - Static)
                  s == Stitch(list, dense)
                  account == [candidates |-> Len(call[c].raw), selected |-> s.taken,
                              context |-> Static + s.used, dropped |-> s.dropped,
                              blank |-> s.blank]
              IN  call' = [call EXCEPT ![c].stage = next, ![c].contextBudget = budget,
                                       ![c].context = account.context,
                                       ![c].items = Cardinality(SelectedRefs(list, dense)),
                                       ![c].raw = <<>>]
        BY <3>2 DEF StitchContext
      <4>2. Goes(c, next, FALSE, call[c].answered, "none")
        BY <1>1, <1>5, <4>1 DEF Goes, Fresh
      <4>3. QED
        BY <4>2
    <3>3. CASE WriteSearchAccount(c)
      BY <1>1, <1>5, <3>3 DEF WriteSearchAccount, Goes, Fresh
    <3>4. CASE WriteContextAccount(c)
      <4> DEFINE next == IF Op(c) = "chat" THEN "builder_chat" ELSE "end"
      <4>1. call' = [call EXCEPT ![c].stage = next, ![c].context = Static]
        BY <3>4 DEF WriteContextAccount
      <4>2. Goes(c, next, FALSE, call[c].answered, "none")
        BY <1>1, <1>5, <4>1 DEF Goes, Fresh
      <4>3. QED
        BY <4>2
    <3>5. CASE RaiseOutside(c)
      <4>1. call' = [call EXCEPT ![c].stage = "end", ![c].error = "unmeasured", ![c].raw = <<>>]
        BY <3>5 DEF RaiseOutside
      <4>2. Goes(c, "end", FALSE, call[c].answered, "unmeasured")
        BY <1>1, <1>5, <4>1 DEF Goes, Fresh
      <4>3. QED
        BY <4>2
    <3>6. QED
      BY <3>1, <3>2, <3>3, <3>4, <3>5
  <2>3. QED
    BY <2>1, <2>2
<1>6. QED
  BY <1>2, <1>3, <1>4, <1>5, QuietInv

LEMMA EnterInv ==
    ASSUME IndInv, NEW c \in Calls, Enter(c)
    PROVE  IndInv'
<1> DEFINE name == call[c].stage
<1>1. /\ ControlTypeOK /\ CallInv(c) /\ name \in Measured /\ ~call[c].entered
      /\ name \in Stages \ Unbegun /\ name # "end" /\ name \notin Ends /\ name \in StepNames
      /\ name # "steward_async_call"
  BY StageNames DEF IndInv, Enter
<1>2. /\ Logged(c) /\ StepWritten(c, name, "open")
      /\ c \notin unrecorded' /\ rows[c].state # "none" => steps'[c][name] = "open"
  BY <1>1, StepBegins DEF Enter
<1>3. rows' = rows /\ UNCHANGED admitVars
  BY DEF Enter
<1>4. Goes(c, name, TRUE, call[c].answered, call[c].error)
  BY <1>1 DEF Enter, Goes, Fresh, ControlTypeOK
<1>5. ControlTypeOK'
  <2>1. call[c].answered \in BOOLEAN /\ call[c].error \in Errors
    BY <1>1 DEF ControlTypeOK
  <2>2. /\ rows' \in [Calls -> Row] /\ unrecorded' \subseteq Calls /\ steward' = steward
        /\ steps' \in [Calls -> [StepNames -> {"none", "open", "ok", "failed"}]]
        /\ admission' \in [Calls -> {"none", "starting", "posting", "ended", "lost", "hung"}]
    BY <1>1, <1>2, <1>3 DEF ControlTypeOK, Logged, StepWritten, admitVars
  <2>3. QED
    BY <1>1, <1>4, <2>1, <2>2, CallGoes
<1>6. OthersKept(c)
  BY <1>2, <1>3, <1>4 DEF OthersKept, Goes, Logged, StepWritten, admitVars
<1>7. /\ call'[c].stage = name /\ call'[c].entered /\ call'[c].error = call[c].error
      /\ call'[c].answered = call[c].answered
      /\ c \notin unrecorded' => c \notin unrecorded
  BY <1>2, <1>4 DEF Goes, Logged
<1>8. StageOK(c)'
  BY <1>1, <1>7 DEF CallInv, StageOK, Unbegun
<1>9. RowOK(c)'
  BY <1>1, <1>3, <1>7 DEF CallInv, RowOK, Unbegun, Ends
<1>10. StepsOK(c)'
  <2> SUFFICES ASSUME c \notin unrecorded'
               PROVE  /\ \A n \in Measured : steps'[c][n] = "open" <=> n = name
                      /\ \A n \in Measured : steps'[c][n] # "failed"
    BY <1>1, <1>3, <1>7 DEF StepsOK, Failed, Explained, CallInv, RowOK, Ends
  <2>1. rows[c].state # "none" /\ \A n \in Measured : steps[c][n] # "open" /\ steps[c][n] # "failed"
    BY <1>1, <1>7 DEF CallInv, RowOK, StepsOK, Failed, Explained
  <2>2. QED
    BY <1>1, <1>2, <2>1, StageNames DEF StepWritten
<1>11. AdmissionOK(c)'
  BY <1>1, <1>2, <1>3, <1>7, StageNames DEF CallInv, AdmissionOK, StepWritten, admitVars
<1>12. QED
  BY <1>5, <1>6, <1>8, <1>9, <1>10, <1>11, CallsKept DEF CallInv

(* The body of a step returns or raises, and its row is ended.               *)
LEMMA BodyInv ==
    ASSUME IndInv, NEW c \in Calls, call[c].entered, NEW next \in Ahead, NEW answered \in BOOLEAN,
           NEW error \in Errors, NEW how \in {"ok", "failed"},
           EndStep(c, call[c].stage, how), Goes(c, next, FALSE, answered, error),
           rows' = rows, steward' = steward,
           how = "ok" => error \notin {"exception", "builder_error"},
           how = "failed" => error \in {"exception", "builder_error"},
           error = "builder_error" => call[c].stage \in Builder,
           next # "end" => error = "none", error # "no_model",
           \/ admission' = admission
           \/ admission' = [admission EXCEPT ![c] = "starting"] /\ answered /\ error = "none" /\ next = "end"
    PROVE  IndInv'
<1> DEFINE name == call[c].stage
<1>1. /\ ControlTypeOK /\ CallInv(c) /\ name \in Measured
      /\ name \in Stages \ Unbegun /\ name # "end" /\ name \notin Ends /\ name \in StepNames
      /\ name # "steward_async_call"
      /\ next \in Stages /\ next \notin Unbegun /\ next \notin Ends
  BY StageNames DEF IndInv, CallInv, StageOK
<1>2. /\ Logged(c) /\ StepWritten(c, name, how)
      /\ c \notin unrecorded' /\ steps[c][name] = "open" => steps'[c][name] = how
  BY <1>1, StepEnds
<1>3. /\ admission' \in [Calls -> {"none", "starting", "posting", "ended", "lost", "hung"}]
      /\ \A d \in Calls \ {c} : admission'[d] = admission[d]
      /\ admission[c] = "none" /\ steward[c] = "none"
      /\ admission'[c] # "none" => answered /\ error = "none" /\ next = "end"
  BY <1>1 DEF ControlTypeOK, CallInv, AdmissionOK
<1>4. ControlTypeOK'
  <2>1. /\ rows' \in [Calls -> Row] /\ unrecorded' \subseteq Calls
        /\ steps' \in [Calls -> [StepNames -> {"none", "open", "ok", "failed"}]]
    BY <1>1, <1>2 DEF ControlTypeOK, Logged, StepWritten
  <2>2. ASSUME NEW d \in Calls
        PROVE  /\ DOMAIN call'[d] = DOMAIN Fresh
               /\ call'[d].stage \in Stages \cup Ends /\ call'[d].error \in Errors
               /\ call'[d].request \in Requests \cup {NoRequest}
               /\ call'[d].entered \in BOOLEAN /\ call'[d].answered \in BOOLEAN
    <3>1. CASE d = c
      BY <1>1, <3>1 DEF ControlTypeOK, Goes
    <3>2. CASE d # c
      BY <1>1, <3>2 DEF ControlTypeOK, Goes
    <3>3. QED
      BY <3>1, <3>2
  <2>3. DOMAIN call' = Calls
    BY DEF Goes
  <2>4. QED
    BY <1>1, <1>3, <2>1, <2>2, <2>3 DEF ControlTypeOK
<1>5. OthersKept(c)
  BY <1>2, <1>3 DEF OthersKept, Goes, Logged, StepWritten
<1>6. /\ call'[c].stage = next /\ ~call'[c].entered /\ call'[c].error = error
      /\ call'[c].answered = answered
      /\ c \notin unrecorded' => c \notin unrecorded
  BY <1>2 DEF Goes, Logged
<1>7. StageOK(c)'
  BY <1>1, <1>6 DEF StageOK, Unbegun
<1>8. RowOK(c)'
  BY <1>1, <1>6 DEF CallInv, RowOK, Unbegun, Ends
<1>9. StepsOK(c)'
  <2> SUFFICES ASSUME c \notin unrecorded'
               PROVE  /\ \A n \in Measured : steps'[c][n] # "open"
                      /\ Failed(c)' <=> how = "failed"
                      /\ error = "builder_error" => \E n \in Builder : steps'[c][n] = "failed"
                      /\ rows[c].state # "closed"
    BY <1>1, <1>6 DEF StepsOK, Explained, Ends
  <2>1. /\ RowOK(c) /\ StepsOK(c) /\ c \notin unrecorded /\ name \in Stages \ {"end"}
        /\ name # "answered"
    BY <1>1, <1>6 DEF CallInv, Ends
  <2>2. rows[c].state # "closed" /\ ~Failed(c)
    BY <2>1 DEF RowOK, StepsOK
  <2>3. \A n \in Measured : steps[c][n] = "open" <=> n = name
    BY <2>1 DEF StepsOK
  <2>4. steps[c][name] = "open"
    BY <1>1, <2>3
  <2>5. steps'[c][name] = how /\ \A n \in Measured \ {name} : steps'[c][n] = steps[c][n]
    BY <1>2, <2>4, StageNames DEF StepWritten
  <2>6. QED
    BY <1>1, <2>2, <2>3, <2>5 DEF Failed
<1>10. AdmissionOK(c)'
  BY <1>1, <1>2, <1>3, <1>6, StageNames DEF CallInv, AdmissionOK, StepWritten
<1>11. QED
  BY <1>4, <1>5, <1>7, <1>8, <1>9, <1>10, CallsKept DEF CallInv

LEMMA AfterIsAhead ==
    ASSUME NEW c \in Calls
    PROVE  After(c) \in Ahead
BY DEF After, Ahead, Measured, Retrieval, Builder

LEMMA BodiesInv ==
    ASSUME IndInv, NEW c \in Calls,
           \/ Pass(c) \/ SearchDense(c) \/ SearchReference(c) \/ GetReference(c)
           \/ Raise(c) \/ BuilderReplies(c)
    PROVE  IndInv'
<1>1. /\ ControlTypeOK /\ DOMAIN call = Calls /\ DOMAIN call[c] = DOMAIN Fresh
      /\ call[c].answered \in BOOLEAN /\ call[c].error = "none" /\ call[c].entered
  BY StageNames DEF IndInv, ControlTypeOK, CallInv, StageOK, Pass, SearchDense, SearchReference,
     GetReference, Raise, BuilderReplies
<1>2. "end" \in Ahead /\ "builder_chat_retry_empty" \in Ahead
  BY DEF Ahead, Measured, Builder
<1>3. {"none", "exception", "builder_error", "builder_empty_completion", "unmeasured"} \subseteq Errors
  BY DEF Errors
<1>4. CASE Pass(c) \/ SearchDense(c) \/ SearchReference(c) \/ GetReference(c)
  <2>1. /\ EndStep(c, call[c].stage, "ok") /\ rows' = rows /\ steward' = steward
        /\ admission' = admission
    BY <1>4 DEF Pass, SearchDense, SearchReference, GetReference, admitVars
  <2>2. \E next \in Ahead : Goes(c, next, FALSE, call[c].answered, "none")
    <3>1. CASE Pass(c)
      BY <1>1, <3>1, AfterIsAhead DEF Pass, Goes, Fresh
    <3>2. CASE SearchDense(c)
      <4>1. PICK raw : call' = [call EXCEPT ![c].entered = FALSE, ![c].stage = After(c), ![c].raw = raw]
        BY <3>2, Zenon DEF SearchDense
      <4>2. Goes(c, After(c), FALSE, call[c].answered, "none")
        BY <1>1, <4>1 DEF Goes, Fresh
      <4>3. QED
        BY <4>2, AfterIsAhead
    <3>3. CASE SearchReference(c)
      <4>1. PICK raw : call' = [call EXCEPT ![c].entered = FALSE, ![c].stage = After(c), ![c].raw = raw]
        BY <3>3, Zenon DEF SearchReference
      <4>2. Goes(c, After(c), FALSE, call[c].answered, "none")
        BY <1>1, <4>1 DEF Goes, Fresh
      <4>3. QED
        BY <4>2, AfterIsAhead
    <3>4. CASE GetReference(c)
      BY <1>1, <1>2, <3>4 DEF GetReference, Goes, Fresh
    <3>5. QED
      BY <1>4, <3>1, <3>2, <3>3, <3>4
  <2>3. QED
    BY <1>1, <1>3, <2>1, <2>2, BodyInv
<1>5. CASE Raise(c)
  <2>1. /\ EndStep(c, call[c].stage, "failed") /\ rows' = rows /\ steward' = steward
        /\ admission' = admission
    BY <1>5 DEF Raise, admitVars
  <2>2. PICK error \in {"exception", "builder_error"} :
          /\ error = "builder_error" => call[c].stage \in Builder
          /\ call' = [call EXCEPT ![c].entered = FALSE, ![c].stage = "end", ![c].error = error]
    BY <1>5 DEF Raise
  <2>3. Goes(c, "end", FALSE, call[c].answered, error)
    BY <1>1, <2>2 DEF Goes, Fresh
  <2>4. QED
    BY <1>1, <1>2, <1>3, <2>1, <2>2, <2>3, BodyInv
<1>6. CASE BuilderReplies(c)
  <2>1. EndStep(c, call[c].stage, "ok") /\ rows' = rows /\ steward' = steward
    BY <1>6 DEF BuilderReplies
  <2>2. CASE /\ call' = [call EXCEPT ![c].entered = FALSE, ![c].stage = "end", ![c].answered = TRUE]
             /\ admission' = [admission EXCEPT ![c] = "starting"]
    <3>1. Goes(c, "end", FALSE, TRUE, "none")
      BY <1>1, <2>2 DEF Goes, Fresh
    <3>2. QED
      BY <1>1, <1>2, <1>3, <2>1, <2>2, <3>1, BodyInv
  <2>3. CASE /\ call' = [call EXCEPT ![c].entered = FALSE, ![c].stage = "builder_chat_retry_empty"]
             /\ UNCHANGED admission
    <3>1. Goes(c, "builder_chat_retry_empty", FALSE, call[c].answered, "none")
      BY <1>1, <2>3 DEF Goes, Fresh
    <3>2. QED
      BY <1>1, <1>2, <1>3, <2>1, <2>3, <3>1, BodyInv
  <2>4. CASE /\ call' = [call EXCEPT ![c].entered = FALSE, ![c].stage = "end",
                                     ![c].error = "builder_empty_completion"]
             /\ UNCHANGED admission
    <3>1. Goes(c, "end", FALSE, call[c].answered, "builder_empty_completion")
      BY <1>1, <2>4 DEF Goes, Fresh
    <3>2. QED
      BY <1>1, <1>2, <1>3, <2>1, <2>4, <3>1, BodyInv
  <2>5. CASE /\ call' = [call EXCEPT ![c].entered = FALSE, ![c].stage = "end",
                                     ![c].answered = TRUE, ![c].error = "unmeasured"]
             /\ UNCHANGED admission
    <3>1. Goes(c, "end", FALSE, TRUE, "unmeasured")
      BY <1>1, <2>5 DEF Goes, Fresh
    <3>2. QED
      BY <1>1, <1>2, <1>3, <2>1, <2>5, <3>1, BodyInv
  <2>6. QED
    BY <1>6, <2>2, <2>3, <2>4, <2>5 DEF BuilderReplies
<1>7. QED
  BY <1>4, <1>5, <1>6

LEMMA ReceiveInv ==
    ASSUME IndInv, NEW c \in Calls, Receive(c)
    PROVE  IndInv'
<1>1. /\ ControlTypeOK /\ CallInv(c) /\ DOMAIN call = Calls /\ DOMAIN call[c] = DOMAIN Fresh
      /\ call[c].stage = "idle" /\ "idle" \in Unbegun /\ "idle" \in Stages \ {"end"}
  BY DEF IndInv, ControlTypeOK, Receive, Unbegun, Stages
<1>2. /\ UNCHANGED <<rows, steps, unrecorded>> /\ UNCHANGED admitVars
  BY DEF Receive
<1>3. PICK r \in Requests :
        call' = [call EXCEPT ![c].request = r,
                             ![c].stage = IF Refused(r) THEN "answered"
                                          ELSE IF r.op = "glap" THEN "bridge" ELSE "begin",
                             ![c].answer = IF ~Refused(r) THEN 0
                                           ELSE IF r.op = "chat" THEN 200 ELSE 422]
  BY Zenon DEF Receive
<1>4. /\ DOMAIN call' = Calls /\ \A d \in Calls \ {c} : call'[d] = call[d]
      /\ DOMAIN call'[c] = DOMAIN Fresh /\ call'[c].request = r
      /\ call'[c].stage = (IF Refused(r) THEN "answered"
                           ELSE IF r.op = "glap" THEN "bridge" ELSE "begin")
      /\ call'[c].entered = call[c].entered /\ call'[c].answered = call[c].answered
      /\ call'[c].error = call[c].error
  BY <1>1, <1>3 DEF Fresh
<1>5. /\ call'[c].stage \in {"answered", "bridge", "begin"}
      /\ call'[c].stage \in {"answered", "bridge"} => Unrecorded(r)
  BY <1>4 DEF Unrecorded
<1>6. /\ ~call[c].entered /\ call[c].error = "none" /\ rows[c].state = "none"
      /\ admission[c] = "none" /\ steward[c] = "none"
  BY <1>1, StageNames DEF CallInv, StageOK, RowOK, AdmissionOK, Ends, ControlTypeOK
<1>7. ControlTypeOK'
  <2>1. call'[c].stage \in Stages \cup Ends
    BY <1>5 DEF Stages, Ends
  <2>2. QED
    BY <1>1, <1>2, <1>4, <2>1 DEF ControlTypeOK, admitVars
<1>8. OthersKept(c)
  BY <1>2, <1>4 DEF OthersKept, admitVars
<1>9. StageOK(c)'
  BY <1>4, <1>5, <1>6 DEF StageOK, Unrecorded, Refused
<1>10. RowOK(c)'
  BY <1>2, <1>4, <1>5, <1>6, StageNames DEF RowOK, HasRow, Unbegun, Ends, Unrecorded, Refused
<1>11. StepsOK(c)'
  <2>1. c \notin unrecorded => ~Failed(c) /\ \A n \in Measured : steps[c][n] # "open"
    BY <1>1, <1>6 DEF CallInv, StepsOK
  <2>2. QED
    BY <1>2, <1>4, <1>5, <1>6, <2>1 DEF StepsOK, Failed, Explained
<1>12. AdmissionOK(c)'
  BY <1>1, <1>2, <1>6 DEF CallInv, AdmissionOK, admitVars
<1>13. QED
  BY <1>7, <1>8, <1>9, <1>10, <1>11, <1>12, CallsKept DEF CallInv

LEMMA BridgeInv ==
    ASSUME IndInv, NEW c \in Calls, Bridge(c)
    PROVE  IndInv'
<1>1. /\ ControlTypeOK /\ CallInv(c) /\ DOMAIN call = Calls /\ DOMAIN call[c] = DOMAIN Fresh
      /\ call[c].stage = "bridge" /\ "bridge" \in Unbegun /\ "bridge" \in Stages \ {"end"}
  BY DEF IndInv, ControlTypeOK, Bridge, Unbegun, Stages
<1>2. UNCHANGED <<rows, steps, unrecorded>> /\ UNCHANGED admitVars
  BY DEF Bridge
<1>3. Goes(c, "answered", call[c].entered, call[c].answered, call[c].error)
  BY <1>1 DEF Bridge, Goes, Fresh
<1>4. /\ ~call[c].entered /\ rows[c].state = "none" /\ Unrecorded(call[c].request)
      /\ admission[c] = "none" /\ steward[c] = "none"
  BY <1>1, StageNames DEF CallInv, StageOK, RowOK, AdmissionOK, Ends, ControlTypeOK
<1>5. ControlTypeOK'
  <2>1. "answered" \in Stages \cup Ends
    BY DEF Ends
  <2>2. QED
    BY <1>1, <1>2, <1>3, <2>1 DEF ControlTypeOK, admitVars, Goes
<1>6. OthersKept(c)
  BY <1>2, <1>3 DEF OthersKept, Goes, admitVars
<1>7. StageOK(c)' /\ RowOK(c)' /\ StepsOK(c)' /\ AdmissionOK(c)'
  <2>1. call'[c].stage = "answered" /\ ~call'[c].entered /\ call'[c].request = call[c].request
    BY <1>3, <1>4 DEF Goes
  <2>2. StageOK(c)'
    BY <1>4, <2>1, StageNames DEF StageOK, Ends
  <2>3. RowOK(c)'
    BY <1>2, <1>4, <2>1, StageNames DEF RowOK, HasRow, Ends, Unbegun, Unrecorded, Refused
  <2>4. StepsOK(c)'
    BY <1>2, <1>4, <2>1, StageNames DEF StepsOK, Explained, Ends
  <2>5. AdmissionOK(c)'
    BY <1>1, <1>2, <1>4 DEF CallInv, AdmissionOK, admitVars
  <2>6. QED
    BY <2>2, <2>3, <2>4, <2>5
<1>8. QED
  BY <1>5, <1>6, <1>7, CallsKept DEF CallInv

LEMMA BeginInv ==
    ASSUME IndInv, NEW c \in Calls, Begin(c)
    PROVE  IndInv'
<1>1. /\ ControlTypeOK /\ CallInv(c) /\ DOMAIN call = Calls /\ DOMAIN call[c] = DOMAIN Fresh
      /\ call[c].stage = "begin" /\ "begin" \in Unbegun /\ "begin" \in Stages \ {"end"}
  BY DEF IndInv, ControlTypeOK, Begin, Unbegun, Stages
<1>2. UNCHANGED steps /\ UNCHANGED admitVars
  BY DEF Begin
<1>3. PICK next \in {"budget", "request_input", "reference_search", "reference_get"} :
        call' = [call EXCEPT ![c].stage = next]
  BY DEF Begin
<1>4. Goes(c, next, call[c].entered, call[c].answered, call[c].error)
  BY <1>1, <1>3 DEF Goes, Fresh
<1>5. next \in Stages /\ next \notin Unbegun /\ next # "end" /\ next # "answered"
  BY DEF Stages, Measured, Unbegun
<1>6. /\ ~call[c].entered /\ rows[c].state = "none" /\ call[c].error = "none"
      /\ admission[c] = "none" /\ steward[c] = "none"
  BY <1>1, StageNames DEF CallInv, StageOK, RowOK, AdmissionOK, Ends, ControlTypeOK
<1>7. /\ Logged(c) /\ rows' \in [Calls -> Row] /\ \A d \in Calls \ {c} : rows'[d] = rows[d]
      /\ rows'[c].state \in {"none", "open"}
      /\ c \notin unrecorded' => rows'[c].state = "open"
  <2>1. Logged(c)
    BY <1>1 DEF Begin, BeginRow, Recorded, NotRecorded, Logged, ControlTypeOK
  <2>2. rows' = rows \/ rows' = [rows EXCEPT ![c].state = "open"]
    BY DEF Begin, BeginRow
  <2>3. rows' \in [Calls -> Row] /\ \A d \in Calls \ {c} : rows'[d] = rows[d]
    <3>1. rows[c] \in Row => [rows[c] EXCEPT !.state = "open"] \in Row
      BY DEF Row
    <3>2. QED
      BY <1>1, <2>2, <3>1 DEF ControlTypeOK
  <2>4. rows'[c].state \in {"none", "open"}
    BY <1>1, <1>6, <2>2 DEF ControlTypeOK, Row
  <2>5. c \notin unrecorded' => rows' = [rows EXCEPT ![c].state = "open"]
    BY DEF Begin, BeginRow, NotRecorded
  <2>6. QED
    BY <1>1, <2>1, <2>3, <2>4, <2>5 DEF ControlTypeOK, Row
<1>8. ControlTypeOK'
  BY <1>1, <1>2, <1>4, <1>5, <1>7 DEF ControlTypeOK, Goes, Logged, admitVars
<1>9. OthersKept(c)
  BY <1>2, <1>4, <1>7 DEF OthersKept, Goes, Logged, admitVars
<1>10. /\ call'[c].stage = next /\ ~call'[c].entered /\ call'[c].error = "none"
       /\ c \notin unrecorded' => c \notin unrecorded
  BY <1>4, <1>6, <1>7 DEF Goes, Logged
<1>11. StageOK(c)'
  BY <1>5, <1>10, StageNames DEF StageOK, Unbegun
<1>12. RowOK(c)'
  BY <1>5, <1>7, <1>10 DEF RowOK
<1>13. StepsOK(c)'
  BY <1>1, <1>2, <1>5, <1>6, <1>7, <1>10 DEF CallInv, StepsOK, Failed, Explained
<1>14. AdmissionOK(c)'
  BY <1>1, <1>2, <1>6 DEF CallInv, AdmissionOK, admitVars
<1>15. QED
  BY <1>8, <1>9, <1>11, <1>12, <1>13, <1>14, CallsKept DEF CallInv

LEMMA NoModelInv ==
    ASSUME IndInv, NEW c \in Calls, NoModel(c)
    PROVE  IndInv'
<1>1. /\ ControlTypeOK /\ CallInv(c) /\ DOMAIN call = Calls /\ DOMAIN call[c] = DOMAIN Fresh
      /\ call[c].stage = "begin" /\ "begin" \in Unbegun /\ "begin" \in Stages \ {"end"}
  BY DEF IndInv, ControlTypeOK, NoModel, Unbegun, Stages
<1>2. UNCHANGED <<rows, steps, unrecorded>> /\ UNCHANGED admitVars
  BY DEF NoModel
<1>3. Goes(c, "answered", call[c].entered, call[c].answered, "no_model")
  BY <1>1 DEF NoModel, Goes, Fresh
<1>4. /\ ~call[c].entered /\ rows[c].state = "none" /\ admission[c] = "none" /\ steward[c] = "none"
  BY <1>1, StageNames DEF CallInv, StageOK, RowOK, AdmissionOK, Ends, ControlTypeOK
<1>5. ControlTypeOK'
  <2>1. "answered" \in Stages \cup Ends /\ "no_model" \in Errors
    BY DEF Ends, Errors
  <2>2. QED
    BY <1>1, <1>2, <1>3, <2>1 DEF ControlTypeOK, admitVars, Goes
<1>6. OthersKept(c)
  BY <1>2, <1>3 DEF OthersKept, Goes, admitVars
<1>7. call'[c].stage = "answered" /\ ~call'[c].entered /\ call'[c].error = "no_model"
  BY <1>3, <1>4 DEF Goes
<1>8. StageOK(c)' /\ RowOK(c)'
  BY <1>2, <1>4, <1>7, StageNames DEF StageOK, RowOK, HasRow, Ends, Unbegun
<1>9. StepsOK(c)'
  BY <1>2, <1>4, <1>7, StageNames DEF StepsOK, Ends
<1>10. AdmissionOK(c)'
  BY <1>1, <1>2, <1>4 DEF CallInv, AdmissionOK, admitVars
<1>11. QED
  BY <1>5, <1>6, <1>8, <1>9, <1>10, CallsKept DEF CallInv

LEMMA HangsInv ==
    ASSUME IndInv, NEW c \in Calls, Hangs(c)
    PROVE  IndInv'
<1>1. /\ ControlTypeOK /\ CallInv(c) /\ DOMAIN call = Calls /\ DOMAIN call[c] = DOMAIN Fresh
      /\ call[c].stage \in Stages
  BY DEF IndInv, ControlTypeOK, Hangs
<1>2. UNCHANGED <<rows, steps, unrecorded>> /\ UNCHANGED admitVars
  BY DEF Hangs
<1>3. Goes(c, "hung", FALSE, call[c].answered, call[c].error)
  BY <1>1 DEF Hangs, Goes, Fresh
<1>4. ControlTypeOK'
  <2>1. "hung" \in Stages \cup Ends
    BY DEF Ends
  <2>2. QED
    BY <1>1, <1>2, <1>3, <2>1 DEF ControlTypeOK, admitVars, Goes
<1>5. OthersKept(c)
  BY <1>2, <1>3 DEF OthersKept, Goes, admitVars
<1>6. /\ call'[c].stage = "hung" /\ ~call'[c].entered /\ call'[c].error = call[c].error
      /\ call'[c].answered = call[c].answered /\ "hung" \in Ends /\ "hung" \notin Stages
      /\ rows[c].state # "closed"
  BY <1>1, <1>3, StageNames DEF Goes, CallInv, RowOK, Ends
<1>7. StageOK(c)' /\ RowOK(c)' /\ StepsOK(c)'
  BY <1>2, <1>6, StageNames DEF StageOK, RowOK, StepsOK
<1>8. AdmissionOK(c)'
  BY <1>1, <1>2, <1>6 DEF CallInv, AdmissionOK, admitVars
<1>9. QED
  BY <1>4, <1>5, <1>7, <1>8, CallsKept DEF CallInv

LEMMA EndInv ==
    ASSUME IndInv, NEW c \in Calls, End(c)
    PROVE  IndInv'
<1> DEFINE error == call[c].error
<1>1. /\ ControlTypeOK /\ CallInv(c) /\ DOMAIN call = Calls /\ DOMAIN call[c] = DOMAIN Fresh
      /\ call[c].stage = "end" /\ "end" \notin Unbegun /\ "end" \in Stages /\ "end" \notin Measured
      /\ error \in Errors
  BY StageNames DEF IndInv, ControlTypeOK, End
<1>2. UNCHANGED steps /\ UNCHANGED admitVars
  BY DEF End
<1>3. /\ Goes(c, "answered", call[c].entered, call[c].answered, error)
      /\ call'[c].answer \in {500, 502} <=> error # "none"
  <2>1. call' = [call EXCEPT ![c].stage = "answered",
                   ![c].answer = CASE error = "builder_empty_completion" -> 502
                                   [] Kind(error) \in {"exception", "builder_error"} -> 500
                                   [] OTHER -> IF @ = 404 THEN 404 ELSE 200]
    BY DEF End
  <2>2. Goes(c, "answered", call[c].entered, call[c].answered, error)
    BY <1>1, <2>1 DEF Goes, Fresh
  <2>3. call'[c].answer = CASE error = "builder_empty_completion" -> 502
                            [] Kind(error) \in {"exception", "builder_error"} -> 500
                            [] OTHER -> IF call[c].answer = 404 THEN 404 ELSE 200
    BY <1>1, <2>1 DEF Fresh
  <2>4. call'[c].answer \in {500, 502} <=> error # "none"
    <3>1. Kind(error) \in {"exception", "builder_error"}
            <=> error \in {"exception", "builder_error", "unmeasured"}
      BY DEF Kind
    <3>2. call'[c].answer \in {500, 502} <=>
            \/ error = "builder_empty_completion" \/ Kind(error) \in {"exception", "builder_error"}
      BY <2>3
    <3>3. error # "no_model"
      BY <1>1 DEF CallInv, StageOK
    <3>4. QED
      BY <1>1, <3>1, <3>2, <3>3 DEF Errors
  <2>5. QED
    BY <2>2, <2>4
<1>4. ~call[c].entered
  BY <1>1 DEF CallInv, StageOK
<1>5. /\ Logged(c) /\ rows' \in [Calls -> Row]
      /\ \A d \in Calls \ {c} : rows'[d] = rows[d]
      /\ c \notin unrecorded' => rows'[c].state = "closed" /\ rows'[c].error = Kind(error)
  <2>1. Logged(c)
    BY <1>1 DEF End, EndRow, Recorded, NotRecorded, Logged, ControlTypeOK
  <2>2. rows' = rows \/ rows' = [rows EXCEPT ![c] = [state |-> "closed", error |-> Kind(error)]]
    BY DEF End, EndRow
  <2>3. [state |-> "closed", error |-> Kind(error)] \in Row
    BY <1>1 DEF Row, Errors, Kind
  <2>4. rows' \in [Calls -> Row] /\ \A d \in Calls \ {c} : rows'[d] = rows[d]
    BY <1>1, <2>2, <2>3 DEF ControlTypeOK
  <2>5. ASSUME c \notin unrecorded' PROVE rows' = [rows EXCEPT ![c] = [state |-> "closed", error |-> Kind(error)]]
    <3>1. rows[c].state = "open"
      BY <1>1, <2>1, <2>5 DEF CallInv, RowOK, Logged
    <3>2. QED
      BY <2>5, <3>1 DEF End, EndRow, NotRecorded
  <2>6. QED
    BY <1>1, <2>1, <2>4, <2>5 DEF ControlTypeOK
<1>6. ControlTypeOK'
  <2>1. "answered" \in Stages \cup Ends
    BY DEF Ends
  <2>2. QED
    BY <1>1, <1>2, <1>3, <1>5, <2>1 DEF ControlTypeOK, Goes, Logged, admitVars
<1>7. OthersKept(c)
  BY <1>2, <1>3, <1>5 DEF OthersKept, Goes, Logged, admitVars
<1>8. /\ call'[c].stage = "answered" /\ ~call'[c].entered /\ call'[c].error = error
      /\ call'[c].answered = call[c].answered /\ "answered" \notin Stages
      /\ c \notin unrecorded' => c \notin unrecorded
  BY <1>3, <1>4, <1>5, StageNames DEF Goes, Logged, Ends
<1>9. StageOK(c)'
  BY <1>8 DEF StageOK
<1>10. RowOK(c)'
  <2>1. Kind(error) # "none" <=> error # "none"
    BY <1>1 DEF Errors, Kind
  <2>2. QED
    BY <1>3, <1>5, <1>8, <2>1, StageNames DEF RowOK
<1>11. StepsOK(c)'
  BY <1>1, <1>2, <1>4, <1>5, <1>8 DEF CallInv, StepsOK, Failed, Explained
<1>12. AdmissionOK(c)'
  BY <1>1, <1>2, <1>8 DEF CallInv, AdmissionOK, admitVars, Ends
<1>13. QED
  BY <1>6, <1>7, <1>9, <1>10, <1>11, <1>12, CallsKept DEF CallInv

(* The admission thread and the Steward.                                     *)
LEMMA AdmissionInv ==
    ASSUME IndInv, NEW c \in Calls, Admit(c) \/ AdmitHangs(c) \/ StewardReceives(c) \/ StewardEnds(c)
    PROVE  IndInv'
<1> DEFINE name == "steward_async_call"
<1>1. ControlTypeOK /\ CallInv(c) /\ name \in StepNames /\ name \notin Measured /\ Measured \subseteq StepNames
  BY StageNames DEF IndInv
<1>2. call' = call /\ rows' = rows
  BY DEF Admit, AdmitPosts, AdmitEnds, AdmitHangs, StewardReceives, StewardEnds
<1>3. /\ Logged(c) /\ steps' \in [Calls -> [StepNames -> {"none", "open", "ok", "failed"}]]
      /\ \A d \in Calls \ {c} : steps'[d] = steps[d]
      /\ \A n \in Measured : steps'[c][n] = steps[c][n]
      /\ steps'[c][name] = "ok" => steps[c][name] = "ok" \/ steward[c] = "done"
  <2>1. CASE AdmitPosts(c)
    BY <1>1, <2>1, StepBegins DEF AdmitPosts, StepWritten
  <2>2. CASE AdmitEnds(c)
    <3>1. PICK how \in {"failed"} \cup (IF steward[c] = "done" THEN {"ok"} ELSE {}) : EndStep(c, name, how)
      BY <2>2 DEF AdmitEnds
    <3>2. how \in {"ok", "failed"} /\ (how = "ok" => steward[c] = "done")
      BY <3>1
    <3>3. QED
      BY <1>1, <3>1, <3>2, StepEnds DEF StepWritten
  <2>3. CASE AdmitHangs(c) \/ StewardReceives(c) \/ StewardEnds(c)
    BY <1>1, <2>3, NothingWritten DEF AdmitHangs, StewardReceives, StewardEnds, ControlTypeOK
  <2>4. QED
    BY <2>1, <2>2, <2>3 DEF Admit
<1>4. /\ admission' \in [Calls -> {"none", "starting", "posting", "ended", "lost", "hung"}]
      /\ steward' \in [Calls -> {"none", "working", "done", "failed"}]
      /\ \A d \in Calls \ {c} : admission'[d] = admission[d] /\ steward'[d] = steward[d]
      /\ steward[c] = "done" => steward'[c] = "done"
      /\ admission[c] # "none" /\ admission'[c] # "none"
  <2>1. /\ admission \in [Calls -> {"none", "starting", "posting", "ended", "lost", "hung"}]
        /\ steward \in [Calls -> {"none", "working", "done", "failed"}]
        /\ steward[c] # "none" => admission[c] # "none"
    BY <1>1 DEF ControlTypeOK, CallInv, AdmissionOK
  <2>2. CASE AdmitPosts(c)
    BY <2>1, <2>2 DEF AdmitPosts
  <2>3. CASE AdmitEnds(c)
    BY <2>1, <2>3 DEF AdmitEnds
  <2>4. CASE StewardReceives(c)
    BY <2>1, <2>4 DEF StewardReceives
  <2>5. CASE StewardEnds(c)
    BY <2>1, <2>5 DEF StewardEnds
  <2>6. CASE AdmitHangs(c)
    BY <2>1, <2>6 DEF AdmitHangs
  <2>7. QED
    BY <2>2, <2>3, <2>4, <2>5, <2>6 DEF Admit
<1>5. ControlTypeOK'
  BY <1>1, <1>2, <1>3, <1>4 DEF ControlTypeOK, Logged
<1>6. OthersKept(c)
  BY <1>2, <1>3, <1>4 DEF OthersKept, Logged
<1>7. c \notin unrecorded' => c \notin unrecorded
  BY <1>3 DEF Logged
<1>8. StageOK(c)' /\ RowOK(c)'
  BY <1>1, <1>2, <1>7 DEF CallInv, StageOK, RowOK, HasRow
<1>9. StepsOK(c)'
  <2>1. /\ StepsOK(c) /\ call'[c] = call[c] /\ rows'[c] = rows[c] /\ Builder \subseteq Measured
        /\ \A n \in Measured : steps'[c][n] = steps[c][n]
    BY <1>1, <1>2, <1>3 DEF CallInv, Measured
  <2>2. Failed(c)' <=> Failed(c)
    BY <2>1 DEF Failed
  <2>3. (\E n \in Builder : steps'[c][n] = "failed") <=> (\E n \in Builder : steps[c][n] = "failed")
    BY <2>1
  <2>4. Explained(c)' <=> Explained(c)
    BY <2>1, <2>2, <2>3 DEF Explained
  <2>5. QED
    BY <1>7, <2>1, <2>2, <2>4 DEF StepsOK
<1>10. AdmissionOK(c)'
  BY <1>1, <1>2, <1>3, <1>4 DEF CallInv, AdmissionOK
<1>11. QED
  BY <1>5, <1>6, <1>8, <1>9, <1>10, CallsKept DEF CallInv

(* Steps about the budget alone.                                             *)
LEMMA BudgetInv ==
    ASSUME IndInv, UNCHANGED <<call, rows, steps, unrecorded>>, UNCHANGED admitVars
    PROVE  IndInv'
<1>1. ControlTypeOK'
  BY DEF IndInv, ControlTypeOK, admitVars
<1>2. ASSUME NEW c \in Calls PROVE CallInv(c)'
  <2>1. CallInv(c)
    BY DEF IndInv
  <2>2. QED
    BY <2>1 DEF CallInv, StageOK, RowOK, StepsOK, AdmissionOK, Failed, Explained, HasRow, admitVars
<1>3. QED
  BY <1>1, <1>2 DEF IndInv

LEMMA CrashInv ==
    ASSUME IndInv, Crash
    PROVE  IndInv'
<1>1. ControlTypeOK /\ DOMAIN call = Calls
  BY DEF IndInv, ControlTypeOK
<1>2. UNCHANGED <<rows, steps, steward, unrecorded>>
  BY DEF Crash
<1>3. ASSUME NEW c \in Calls
      PROVE  \/ call[c].stage \in {"idle"} \cup Ends /\ call'[c] = call[c]
             \/ /\ call[c].stage \notin {"idle"} \cup Ends
                /\ DOMAIN call'[c] = DOMAIN Fresh /\ call'[c].stage = "lost" /\ ~call'[c].entered
                /\ call'[c].entered \in BOOLEAN
                /\ call'[c].request = call[c].request /\ call'[c].answered = call[c].answered
                /\ call'[c].error = call[c].error
  <2>1. DOMAIN call[c] = DOMAIN Fresh
    BY <1>1 DEF ControlTypeOK
  <2>2. call'[c] = IF call[c].stage \in {"idle"} \cup Ends THEN call[c]
                   ELSE [call[c] EXCEPT !.stage = "lost", !.entered = FALSE, !.raw = <<>>]
    BY DEF Crash
  <2>3. QED
    BY <2>1, <2>2 DEF Fresh
<1>4. DOMAIN call' = Calls
  BY DEF Crash
<1>5. /\ admission' \in [Calls -> {"none", "starting", "posting", "ended", "lost", "hung"}]
      /\ \A c \in Calls : admission'[c] # "none" <=> admission[c] # "none"
  BY <1>1 DEF Crash, ControlTypeOK
<1>6. ControlTypeOK'
  <2>1. "lost" \in Ends
    BY DEF Ends
  <2>2. QED
    BY <1>1, <1>2, <1>3, <1>4, <1>5, <2>1 DEF ControlTypeOK
<1>7. ASSUME NEW c \in Calls PROVE CallInv(c)'
  <2>1. CallInv(c)
    BY DEF IndInv
  <2>2. CASE call[c].stage \in {"idle"} \cup Ends /\ call'[c] = call[c]
    BY <1>2, <1>5, <2>1, <2>2 DEF CallInv, StageOK, RowOK, StepsOK, AdmissionOK, Failed, Explained, HasRow
  <2>3. CASE ~(call[c].stage \in {"idle"} \cup Ends /\ call'[c] = call[c])
    <3>1. /\ call'[c].stage = "lost" /\ ~call'[c].entered /\ "lost" \in Ends /\ "lost" \notin Stages
          /\ call'[c].answered = call[c].answered /\ call'[c].error = call[c].error
          /\ call[c].stage # "answered"
      BY <1>3, <2>3, StageNames DEF Ends
    <3>2. StageOK(c)'
      BY <3>1, StageNames DEF StageOK
    <3>3. rows[c].state # "closed"
      BY <2>1, <3>1 DEF CallInv, RowOK
    <3>4. RowOK(c)'
      BY <1>2, <3>1, <3>3, StageNames DEF RowOK
    <3>5. StepsOK(c)'
      BY <1>2, <3>1, <3>3, StageNames DEF StepsOK
    <3>6. AdmissionOK(c)'
      BY <1>2, <1>5, <2>1, <3>1 DEF CallInv, AdmissionOK
    <3>7. QED
      BY <3>2, <3>4, <3>5, <3>6 DEF CallInv
  <2>4. QED
    BY <2>2, <2>3
<1>8. QED
  BY <1>6, <1>7 DEF IndInv
-----------------------------------------------------------------------------
(* The theorems.                                                             *)

LEMMA NextInv ==
    ASSUME IndInv, [Next]_vars
    PROVE  IndInv'
<1>1. ASSUME NEW c \in Calls, Receive(c) \/ Handle(c) \/ Hangs(c) PROVE IndInv'
  <2>1. CASE \/ Receive(c) \/ Bridge(c) \/ Begin(c) \/ NoModel(c) \/ Enter(c) \/ End(c)
             \/ Hangs(c)
    BY <2>1, ReceiveInv, BridgeInv, BeginInv, NoModelInv, EnterInv, EndInv, HangsInv
  <2>2. CASE \/ PruneHistory(c) \/ StitchContext(c) \/ RaiseOutside(c)
             \/ WriteSearchAccount(c) \/ WriteContextAccount(c)
    BY <2>2, PlanInv
  <2>3. CASE \/ Pass(c) \/ SearchDense(c) \/ SearchReference(c) \/ GetReference(c)
             \/ Raise(c) \/ BuilderReplies(c)
    BY <2>3, BodiesInv
  <2>4. CASE Refresh(c)
    BY <2>4, BudgetInv DEF Refresh
  <2>5. QED
    BY <1>1, <2>1, <2>2, <2>3, <2>4 DEF Handle
<1>2. ASSUME NEW c \in Calls, Admit(c) \/ AdmitHangs(c) \/ StewardReceives(c) \/ StewardEnds(c) PROVE IndInv'
  BY <1>2, AdmissionInv
<1>3. CASE OperatorSets \/ CacheExpires \/ OthersRefresh
  BY <1>3, BudgetInv DEF OperatorSets, CacheExpires, OthersRefresh
<1>4. CASE Crash
  BY <1>4, CrashInv
<1>5. CASE UNCHANGED vars
  BY <1>5, BudgetInv DEF vars
<1>6. QED
  BY <1>1, <1>2, <1>3, <1>4, <1>5 DEF Next

(* The strengthened invariant of the handlers.                               *)
THEOREM Invariance == Spec => []IndInv
BY InitIndInv, NextInv, PTL DEF Spec

(* The stages of the handlers, their telemetry rows and the admission threads*)
(* keep to their types, whatever else the Router does at the time.           *)
THEOREM ControlTypeCorrect == Spec => []ControlTypeOK
BY Invariance, PTL DEF IndInv

(* server.py closes the row of every request it answers, on every path, and  *)
(* with an error exactly when the client was told of one, unless a telemetry *)
(* write of that request failed.                                             *)
THEOREM EveryAnswerIsRecorded == Spec => []AnswersAreRecorded
<1>1. IndInv => AnswersAreRecorded
  BY DEF IndInv, CallInv, RowOK, AnswersAreRecorded
<1>2. QED
  BY <1>1, Invariance, PTL

(* telemetry.step closes what it opened though the body raises: a closed     *)
(* request has no open step; what failed is named by its row, an error of    *)
(* the Builder by a failed call of the Builder; and only an exception that   *)
(* was raised between the steps leaves no failed step behind.                *)
THEOREM ErrorsAreExplained == Spec => []StepsExplainErrors
<1>1. IndInv => StepsExplainErrors
  <2> SUFFICES ASSUME IndInv, NEW c \in Calls, rows[c].state = "closed", c \notin unrecorded
               PROVE  LET failed == {n \in Measured : steps[c][n] = "failed"}
                      IN  /\ \A n \in Measured : steps[c][n] # "open"
                          /\ failed # {} => rows[c].error \in {"exception", "builder_error"}
                          /\ rows[c].error = "builder_error" => failed \cap Builder # {}
                          /\ rows[c].error = "exception" =>
                               (failed = {} <=> call[c].error = "unmeasured")
    BY DEF StepsExplainErrors
  <2>1. /\ \A n \in Measured : steps[c][n] # "open"
        /\ Explained(c) /\ rows[c].error = Kind(call[c].error)
    BY DEF IndInv, CallInv, StepsOK
  <2>2. Builder \subseteq Measured
    BY DEF Measured
  <2>3. QED
    BY <2>1, <2>2 DEF Explained, Failed, Kind
<1>2. QED
  BY <1>1, Invariance, PTL

(* async_admit is started for a turn the Builder answered and for no other,  *)
(* and its telemetry step is good only after the Steward completed the turn. *)
THEOREM OnlyAnswersAreAdmitted == Spec => []AdmitsAnsweredTurns
<1>1. IndInv => AdmitsAnsweredTurns
  BY DEF IndInv, CallInv, AdmissionOK, AdmitsAnsweredTurns
<1>2. QED
  BY <1>1, Invariance, PTL
=============================================================================
