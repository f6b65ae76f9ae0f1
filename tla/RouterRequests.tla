--------------------------- MODULE RouterRequests ---------------------------
(***************************************************************************)
(* Requests in the Memory Router: POST /v1/chat/completions,               *)
(* /v1/context/retrieve, /v1/reference/search and GET /v1/reference/{id}   *)
(* (server.py, retrieval.py, upstream.py).                                 *)
(*                                                                         *)
(* A handler runs in a thread of its own and goes through stages, most of  *)
(* them wrapped in a telemetry step (telemetry.py).  Telemetry is written  *)
(* to Postgres as it goes and must never change the answer.  The context   *)
(* budget is read where it is needed, through a cache that several threads *)
(* refresh and an operator changes meanwhile (config.py).  An answered     *)
(* chat is admitted by a daemon thread that outlives the request.          *)
(***************************************************************************)
EXTENDS Integers, Sequences, FiniteSets

CONSTANTS
    Calls,          \* HTTP requests; each has a request_id of its own
    Requests,       \* bodies a client may send, see RequestType
    Budgets,        \* values of MAX_CONTEXT_TOKENS in runtime_config
    DefaultBudget,
    NoBudget,       \* nothing read
    MaxTotal,       \* MAX_TOTAL_TOKENS
    Static,         \* static_tokens_est and the reserve of the history: 200
    Overhead,       \* tokens a stitched item costs besides its own: 5
    TopK,           \* TOP_K
    Found,          \* what a vector search may return: token counts, 0 for blank text
    NoRequest, NoAccount,
    MaxChanges,     \* bound: changes of the budget by the operator
    MaxFaults       \* bound: failed writes and configuration reads, hung calls, crashes

Message == [user : BOOLEAN, tokens : Nat]
RequestType == [op : {"chat", "glap", "context", "search", "get"},
                messages : Seq(Message),
                query : BOOLEAN, selectors : BOOLEAN,
                reference : BOOLEAN]    \* the mode searches the reference lane

ASSUME RouterAssumption ==
    /\ Requests \subseteq RequestType
    /\ Budgets \subseteq Nat /\ DefaultBudget \in Budgets /\ NoBudget \notin Budgets
    /\ {MaxTotal, Static, Overhead, TopK, MaxChanges, MaxFaults} \subseteq Nat
    /\ Found \subseteq Seq(Nat) /\ <<>> \in Found

VARIABLES
    \* runtime_config and the process-local cache of it
    table, cached, fresh,
    held,        \* held[c]: what a thread has read and not yet put into the cache
    call,        \* the local variables of each handler
    \* tables of the schema telemetry
    rows, steps, accounts,
    \* the daemon thread of an answered chat, and the Steward's POST /admit
    admission, steward,
    \* history and bounds
    unrecorded,  \* calls of which a telemetry write failed
    changes, faults

configVars == <<table, cached, fresh, held>>
admitVars == <<admission, steward>>
vars == <<configVars, call, rows, steps, accounts, admitVars, unrecorded, changes, faults>>

Retrieval == {"pg_static", "pg_agent_reference", "embed", "qdrant_search", "qdrant_reference"}
Builder == {"builder_chat", "builder_chat_retry_empty"}
Measured == {"request_input", "reference_search", "reference_get"} \cup Retrieval \cup Builder
StepNames == Measured \cup {"steward_async_call"}
Stages == {"idle", "bridge", "begin", "budget", "stitch", "account", "end"} \cup Measured
Ends == {"answered", "lost", "hung"}

(* How a handler fails: the body of a measured step, the Builder twice       *)
(* without a text, or something between the steps; no_model before the row   *)
(* is begun.                                                                 *)
Errors == {"none", "exception", "builder_error", "builder_empty_completion", "unmeasured", "no_model"}
Row == [state : {"none", "open", "closed"}, error : Errors]
Account == [candidates : Nat, selected : Nat, context : Nat, dropped : Nat, blank : Nat]

Fresh == [stage |-> "idle", entered |-> FALSE, request |-> NoRequest,
          historyBudget |-> NoBudget, contextBudget |-> NoBudget,
          history |-> 0, context |-> 0, raw |-> <<>>, items |-> 0,
          answered |-> FALSE,   \* the Builder gave a text
          error |-> "none", answer |-> 0]

(* Where the handlers and the admission threads are, and what telemetry says *)
(* of them.                                                                  *)
ControlTypeOK ==
    /\ DOMAIN call = Calls
    /\ \A c \in Calls :
         /\ DOMAIN call[c] = DOMAIN Fresh
         /\ call[c].stage \in Stages \cup Ends
         /\ call[c].request \in Requests \cup {NoRequest}
         /\ call[c].entered \in BOOLEAN /\ call[c].answered \in BOOLEAN
         /\ call[c].error \in Errors
    /\ rows \in [Calls -> Row]
    /\ steps \in [Calls -> [StepNames -> {"none", "open", "ok", "failed"}]]
    /\ admission \in [Calls -> {"none", "starting", "posting", "ended", "lost", "hung"}]
    /\ steward \in [Calls -> {"none", "working", "done", "failed"}]
    /\ unrecorded \subseteq Calls

(* The budgets and the tokens counted with them.                             *)
TokenTypeOK ==
    /\ table \in Budgets /\ cached \in Budgets /\ fresh \in BOOLEAN
    /\ held \in [Calls -> Budgets \cup {NoBudget}]
    /\ \A c \in Calls :
         /\ {call[c].historyBudget, call[c].contextBudget} \subseteq Budgets \cup {NoBudget}
         /\ {call[c].history, call[c].context, call[c].items, call[c].answer} \subseteq Nat
         /\ call[c].raw \in Seq(Nat)
    /\ accounts \in [Calls -> Account \cup {NoAccount}]
    /\ changes \in Nat /\ faults \in Nat

TypeOK == ControlTypeOK /\ TokenTypeOK

Init ==
    /\ table = DefaultBudget /\ cached = DefaultBudget /\ fresh = FALSE
    /\ held = [c \in Calls |-> NoBudget]
    /\ call = [c \in Calls |-> Fresh]
    /\ rows = [c \in Calls |-> [state |-> "none", error |-> "none"]]
    /\ steps = [c \in Calls |-> [n \in StepNames |-> "none"]]
    /\ accounts = [c \in Calls |-> NoAccount]
    /\ admission = [c \in Calls |-> "none"]
    /\ steward = [c \in Calls |-> "none"]
    /\ unrecorded = {}
    /\ changes = 0 /\ faults = 0

-----------------------------------------------------------------------------
(* Pure parts.                                                               *)

AtMost(a, b) == IF a <= b THEN a ELSE b
Positive(a) == IF a > 0 THEN a ELSE 0

LastUser(messages) ==
    LET users == {i \in DOMAIN messages : messages[i].user}
    IN  messages[CHOOSE i \in users : \A j \in users : j <= i].tokens

HasUser(messages) == \E i \in DOMAIN messages : messages[i].user

(* Tokens of the messages i .. n-1, the history that ends before the last.   *)
HistoryFrom(messages, i) ==
    LET sum[k \in 1 .. Len(messages)] ==
            IF k = Len(messages) THEN 0 ELSE messages[k].tokens + sum[k + 1]
    IN  sum[i]

(* The loop over the reversed history: the first message that is too large   *)
(* ends it.                                                                  *)
Pruned(messages, allowed) ==
    LET kept == {i \in DOMAIN messages :
                    \A j \in i .. Len(messages) - 1 : HistoryFrom(messages, j) <= allowed}
    IN  HistoryFrom(messages, CHOOSE i \in kept : \A j \in kept : i <= j)

(* Mutant: the message of the user is not counted.                           *)
AllowedWithoutQuery(messages, budget) == MaxTotal - budget - Static

Allowed(messages, budget) == MaxTotal - budget - LastUser(messages) - Static

(* maximal_marginal_relevance: TopK different candidates in some order.      *)
Reranked(raw) ==
    LET k == AtMost(TopK, Len(raw))
    IN  {[i \in 1 .. k |-> raw[pick[i]]] :
            pick \in {p \in [1 .. k -> DOMAIN raw] : \A i, j \in 1 .. k : p[i] = p[j] => i = j}}

(* stitch_context_structured: an item that does not fit is passed over, a    *)
(* smaller one behind it may still be taken.                                 *)
Stitch(list, budget) ==
    LET done[i \in 0 .. Len(list)] ==
            IF i = 0 THEN [used |-> 0, taken |-> 0, dropped |-> 0, blank |-> 0]
            ELSE LET before == done[i - 1]
                     cost == list[i] + Overhead
                 IN  IF list[i] = 0 THEN [before EXCEPT !.blank = @ + 1]
                     ELSE IF before.used + cost > budget THEN [before EXCEPT !.dropped = @ + 1]
                     ELSE [before EXCEPT !.used = @ + cost, !.taken = @ + 1]
    IN  done[Len(list)]

(* Mutant: the references stop at the first item that does not fit.          *)
SelectedRefsStops(list, budget) ==
    LET used[i \in 0 .. Len(list)] ==
            IF i = 0 THEN 0
            ELSE used[i - 1] + (IF list[i] = 0 THEN 0 ELSE list[i] + Overhead)
    IN  {i \in DOMAIN list : list[i] # 0 /\ used[i] <= budget}

(* selected_candidate_refs, a loop of its own.                               *)
SelectedRefs(list, budget) ==
    LET used[i \in 0 .. Len(list)] ==
            IF i = 0 THEN 0
            ELSE LET cost == list[i] + Overhead
                 IN  IF list[i] = 0 \/ used[i - 1] + cost > budget THEN used[i - 1]
                     ELSE used[i - 1] + cost
    IN  {i \in DOMAIN list : used[i] # used[i - 1]}

-----------------------------------------------------------------------------
(* Telemetry: every write may fail, which is logged and changes nothing else. *)

Recorded(c) == UNCHANGED <<unrecorded, faults>>
NotRecorded(c) ==
    /\ faults < MaxFaults
    /\ faults' = faults + 1
    /\ unrecorded' = unrecorded \cup {c}

(* request_begin *)
BeginRow(c) ==
    \/ /\ Recorded(c)
       /\ rows' = [rows EXCEPT ![c].state = "open"]
    \/ NotRecorded(c) /\ UNCHANGED rows

(* request_end: an UPDATE, which finds no row when the INSERT failed.        *)
EndRow(c, error) ==
    \/ /\ Recorded(c)
       /\ rows' = IF rows[c].state = "none" THEN rows
                  ELSE [rows EXCEPT ![c] = [state |-> "closed", error |-> error]]
    \/ NotRecorded(c) /\ UNCHANGED rows

(* step_begin: the row refers to telemetry.request, and fails without it.    *)
BeginStep(c, name) ==
    \/ /\ Recorded(c)
       /\ steps' = IF rows[c].state = "none" THEN steps ELSE [steps EXCEPT ![c][name] = "open"]
    \/ NotRecorded(c) /\ UNCHANGED steps

(* step_end: nothing without a step_id.                                      *)
EndStep(c, name, how) ==
    \/ /\ Recorded(c)
       /\ steps' = IF steps[c][name] = "open" THEN [steps EXCEPT ![c][name] = how] ELSE steps
    \/ /\ steps[c][name] = "open"
       /\ NotRecorded(c)
       /\ UNCHANGED steps

(* retrieval_write *)
WriteAccount(c, account) ==
    \/ /\ Recorded(c)
       /\ accounts' = IF rows[c].state = "none" THEN accounts
                      ELSE [accounts EXCEPT ![c] = account]
    \/ NotRecorded(c) /\ UNCHANGED accounts

-----------------------------------------------------------------------------
(* The runtime configuration.                                                *)

(* config_set_budget of the MCP.                                             *)
OperatorSets ==
    /\ changes < MaxChanges
    /\ \E b \in Budgets \ {table} : table' = b
    /\ changes' = changes + 1
    /\ UNCHANGED <<cached, fresh, held, call, rows, steps, accounts, admitVars, unrecorded, faults>>

(* RUNTIME_CONFIG_TTL_SECONDS have passed.                                   *)
CacheExpires ==
    /\ fresh
    /\ fresh' = FALSE
    /\ UNCHANGED <<table, cached, held, call, rows, steps, accounts, admitVars, unrecorded,
                   changes, faults>>

(* A request beside Calls, which runs the same code, puts into the cache what *)
(* it has read from the table, now or before the operator's last change.     *)
OthersRefresh ==
    /\ cached' \in {DefaultBudget, table, cached}
    /\ fresh' = TRUE
    /\ UNCHANGED <<table, held, call, rows, steps, accounts, admitVars, unrecorded, changes, faults>>

(* A thread that finds the cache expired queries the table without the lock; *)
(* when that fails it takes the cached values for another interval.          *)
Refresh(c) ==
    /\ call[c].stage \in {"budget", "stitch"} /\ held[c] = NoBudget /\ ~fresh
    /\ \/ held' = [held EXCEPT ![c] = table] /\ UNCHANGED faults
       \/ /\ faults < MaxFaults
          /\ faults' = faults + 1
          /\ held' = [held EXCEPT ![c] = cached]
    /\ UNCHANGED <<table, cached, fresh, call, rows, steps, accounts, admitVars, unrecorded, changes>>

(* The budget the handler of c works with: a fresh cache, or its own reading, *)
(* which replaces whatever another thread has put into the cache meanwhile.  *)
ReadsBudget(c, budget) ==
    \/ /\ fresh /\ held[c] = NoBudget
       /\ budget = cached
       /\ UNCHANGED configVars
    \/ /\ held[c] # NoBudget
       /\ budget = held[c]
       /\ cached' = budget /\ fresh' = TRUE
       /\ held' = [held EXCEPT ![c] = NoBudget]
       /\ UNCHANGED table

-----------------------------------------------------------------------------
(* The stages of a handler.                                                  *)

Op(c) == call[c].request.op

(* The stage behind a measured one that went well.                           *)
After(c) ==
    LET r == call[c].request
    IN  CASE call[c].stage = "request_input" -> "pg_static"
          [] call[c].stage = "pg_static" -> "pg_agent_reference"
          [] call[c].stage = "pg_agent_reference" -> IF r.query THEN "embed" ELSE "account"
          [] call[c].stage = "embed" -> "qdrant_search"
          [] call[c].stage = "qdrant_search" -> IF r.reference THEN "qdrant_reference" ELSE "stitch"
          [] call[c].stage = "qdrant_reference" -> "stitch"
          [] call[c].stage = "reference_search" -> "account"
          [] OTHER -> "end"

(* A chat without a user message is answered "Ready.", a context without     *)
(* query or selectors is refused; an operator command goes to the MCP.  None *)
(* of them gets a telemetry row.                                             *)
Refused(r) ==
    \/ r.op = "chat" /\ ~HasUser(r.messages)
    \/ r.op = "context" /\ ~r.query /\ ~r.selectors
Unrecorded(r) == Refused(r) \/ r.op = "glap"

Receive(c) ==
    /\ call[c].stage = "idle"
    /\ \E r \in Requests :
         call' = [call EXCEPT ![c].request = r,
                              ![c].stage = IF Refused(r) THEN "answered"
                                           ELSE IF r.op = "glap" THEN "bridge" ELSE "begin",
                              ![c].answer = IF ~Refused(r) THEN 0 ELSE IF r.op = "chat" THEN 200 ELSE 422]
    /\ UNCHANGED <<configVars, rows, steps, accounts, admitVars, unrecorded, changes, faults>>

(* handle_glap: the tool's output, help, or a masked error, always as 200.   *)
Bridge(c) ==
    /\ call[c].stage = "bridge"
    /\ call' = [call EXCEPT ![c].stage = "answered", ![c].answer = 200]
    /\ UNCHANGED <<configVars, rows, steps, accounts, admitVars, unrecorded, changes, faults>>

Begin(c) ==
    /\ call[c].stage = "begin"
    /\ BeginRow(c)
    /\ call' = [call EXCEPT ![c].stage =
                    CASE Op(c) = "chat" -> "budget"
                      [] Op(c) = "context" -> "request_input"
                      [] Op(c) = "search" -> "reference_search"
                      [] OTHER -> "reference_get"]
    /\ UNCHANGED <<configVars, steps, accounts, admitVars, changes>>

(* The default model is asked of the Builder before the row of a context is  *)
(* begun: 500, and no trace of the request.                                  *)
NoModel(c) ==
    /\ call[c].stage = "begin" /\ Op(c) = "context"
    /\ call' = [call EXCEPT ![c].stage = "answered", ![c].answer = 500, ![c].error = "no_model"]
    /\ UNCHANGED <<configVars, rows, steps, accounts, admitVars, unrecorded, changes, faults>>

(* chat: how much of the history is kept.                                    *)
PruneHistory(c) ==
    /\ call[c].stage = "budget"
    /\ \E budget \in Budgets :
         /\ ReadsBudget(c, budget)
         /\ LET messages == call[c].request.messages
            IN  call' = [call EXCEPT ![c].stage = "pg_static",
                                     ![c].historyBudget = budget,
                                     ![c].history = Pruned(messages, Allowed(messages, budget))]
    /\ UNCHANGED <<rows, steps, accounts, admitVars, unrecorded, changes, faults>>

(* with telemetry.step(...):                                                 *)
Enter(c) ==
    /\ call[c].stage \in Measured /\ ~call[c].entered
    /\ BeginStep(c, call[c].stage)
    /\ call' = [call EXCEPT ![c].entered = TRUE]
    /\ UNCHANGED <<configVars, rows, accounts, admitVars, changes>>

(* The body of a step without a result the model tells apart went well.      *)
Pass(c) ==
    /\ call[c].entered
    /\ call[c].stage \in {"request_input", "pg_static", "pg_agent_reference", "embed"}
    /\ EndStep(c, call[c].stage, "ok")
    /\ call' = [call EXCEPT ![c].entered = FALSE, ![c].stage = After(c)]
    /\ UNCHANGED <<configVars, rows, accounts, admitVars, changes>>

(* qdrant_dense; a collection that is missing is an empty result.            *)
SearchDense(c) ==
    /\ call[c].entered /\ call[c].stage = "qdrant_search"
    /\ EndStep(c, "qdrant_search", "ok")
    /\ \E found \in Found :
         call' = [call EXCEPT ![c].entered = FALSE, ![c].stage = After(c), ![c].raw = found]
    /\ UNCHANGED <<configVars, rows, accounts, admitVars, changes>>

(* qdrant_reference; its candidates come before those of the dense search.   *)
SearchReference(c) ==
    /\ call[c].entered /\ call[c].stage \in {"qdrant_reference", "reference_search"}
    /\ EndStep(c, call[c].stage, "ok")
    /\ \E found \in Found :
         call' = [call EXCEPT ![c].entered = FALSE, ![c].stage = After(c), ![c].raw = found \o @]
    /\ UNCHANGED <<configVars, rows, accounts, admitVars, changes>>

(* reference_get: the chunk, or 404 when there is none of reference memory.  *)
GetReference(c) ==
    /\ call[c].entered /\ call[c].stage = "reference_get"
    /\ EndStep(c, "reference_get", "ok")
    /\ \E answer \in {200, 404} :
         call' = [call EXCEPT ![c].entered = FALSE, ![c].stage = "end", ![c].answer = answer]
    /\ UNCHANGED <<configVars, rows, accounts, admitVars, changes>>

(* Mutant: the step is closed as it is after a body that went well.          *)
RaiseEndsOk(c) ==
    /\ call[c].entered
    /\ EndStep(c, call[c].stage, "ok")
    /\ call' = [call EXCEPT ![c].entered = FALSE, ![c].stage = "end", ![c].error = "exception"]
    /\ UNCHANGED <<configVars, rows, accounts, admitVars, changes>>

(* The body raises: a store, the embeddings or the Builder fails, times out  *)
(* or answers with an error, which of the Builder has a kind of its own.     *)
Raise(c) ==
    /\ call[c].entered
    /\ EndStep(c, call[c].stage, "failed")
    /\ \E error \in {"exception"} \cup (IF call[c].stage \in Builder THEN {"builder_error"} ELSE {}) :
         call' = [call EXCEPT ![c].entered = FALSE, ![c].stage = "end", ![c].error = error]
    /\ UNCHANGED <<configVars, rows, accounts, admitVars, changes>>

(* An exception between the steps, before the budget is read or after it:    *)
(* the default model, counting tokens, ranking, stitching or the envelope.   *)
RaiseOutside(c) ==
    /\ call[c].stage \in {"budget", "stitch"} \/ (call[c].stage = "builder_chat" /\ ~call[c].entered)
    /\ \/ held[c] = NoBudget /\ UNCHANGED configVars
       \/ /\ call[c].stage # "builder_chat"
          /\ \E budget \in Budgets : ReadsBudget(c, budget)
    /\ call' = [call EXCEPT ![c].stage = "end", ![c].error = "unmeasured", ![c].raw = <<>>]
    /\ UNCHANGED <<rows, steps, accounts, admitVars, unrecorded, changes, faults>>

(* The end of retrieve_context_structured, and retrieval_write.              *)
StitchContext(c) ==
    /\ call[c].stage = "stitch"
    /\ \E budget \in Budgets, list \in Reranked(call[c].raw) :
         LET dense == Positive(budget - Static)
             s == Stitch(list, dense)
             account == [candidates |-> Len(call[c].raw), selected |-> s.taken,
                         context |-> Static + s.used, dropped |-> s.dropped, blank |-> s.blank]
         IN  /\ ReadsBudget(c, budget)
             /\ WriteAccount(c, account)
             /\ call' = [call EXCEPT ![c].stage = IF Op(c) = "chat" THEN "builder_chat" ELSE "end",
                                     ![c].contextBudget = budget,
                                     ![c].context = account.context,
                                     ![c].items = Cardinality(SelectedRefs(list, dense)),
                                     ![c].raw = <<>>]
    /\ UNCHANGED <<rows, steps, admitVars, changes>>

(* reference_search counts all it found as selected.                         *)
WriteSearchAccount(c) ==
    LET n == Len(call[c].raw)
    IN  /\ call[c].stage = "account" /\ Op(c) = "search"
        /\ WriteAccount(c, [candidates |-> n, selected |-> n, context |-> 0,
                            dropped |-> 0, blank |-> 0])
        /\ call' = [call EXCEPT ![c].stage = "end", ![c].items = n, ![c].raw = <<>>]
        /\ UNCHANGED <<configVars, rows, steps, admitVars, changes>>

(* Without a query, which is a context with selectors only or a chat whose   *)
(* last user message is empty, nothing is searched and no budget is read.    *)
WriteContextAccount(c) ==
    /\ call[c].stage = "account" /\ Op(c) \in {"context", "chat"}
    /\ WriteAccount(c, [candidates |-> 0, selected |-> 0, context |-> Static,
                        dropped |-> 0, blank |-> 0])
    /\ call' = [call EXCEPT ![c].stage = IF Op(c) = "chat" THEN "builder_chat" ELSE "end",
                            ![c].context = Static]
    /\ UNCHANGED <<configVars, rows, steps, admitVars, changes>>

(* Mutant: the turn is admitted when the Builder has been asked.             *)
BuilderRepliesAdmitsEmpty(c) ==
    /\ call[c].entered /\ call[c].stage \in Builder
    /\ EndStep(c, call[c].stage, "ok")
    /\ \E text \in BOOLEAN :
         /\ call' = [call EXCEPT ![c].entered = FALSE,
                                 ![c].stage = IF text \/ @ # "builder_chat" THEN "end"
                                              ELSE "builder_chat_retry_empty",
                                 ![c].answered = text,
                                 ![c].error = IF text \/ call[c].stage = "builder_chat" THEN "none"
                                              ELSE "builder_empty_completion"]
         /\ admission' = [admission EXCEPT ![c] = "starting"]
    /\ UNCHANGED <<configVars, rows, accounts, steward, changes>>

(* Mutant: an empty answer is tried again until there is a text.             *)
BuilderRepliesUntilText(c) ==
    /\ call[c].entered /\ call[c].stage \in Builder
    /\ EndStep(c, call[c].stage, "ok")
    /\ \/ /\ call' = [call EXCEPT ![c].entered = FALSE, ![c].stage = "end", ![c].answered = TRUE]
          /\ admission' = [admission EXCEPT ![c] = "starting"]
       \/ /\ call' = [call EXCEPT ![c].entered = FALSE, ![c].stage = "builder_chat_retry_empty"]
          /\ UNCHANGED admission
    /\ UNCHANGED <<configVars, rows, accounts, steward, changes>>

(* The Builder answers: with a text, whose tokens are counted, and the turn  *)
(* is handed to the admission thread; or with a text that cannot be counted; *)
(* or empty, which is tried a second time and then is an error.              *)
BuilderReplies(c) ==
    /\ call[c].entered /\ call[c].stage \in Builder
    /\ EndStep(c, call[c].stage, "ok")
    /\ \/ /\ call' = [call EXCEPT ![c].entered = FALSE, ![c].stage = "end", ![c].answered = TRUE]
          /\ admission' = [admission EXCEPT ![c] = "starting"]
       \/ /\ call' = [call EXCEPT ![c].entered = FALSE, ![c].stage = "end", ![c].answered = TRUE,
                                  ![c].error = "unmeasured"]
          /\ UNCHANGED admission
       \/ /\ call[c].stage = "builder_chat"
          /\ call' = [call EXCEPT ![c].entered = FALSE, ![c].stage = "builder_chat_retry_empty"]
          /\ UNCHANGED admission
       \/ /\ call[c].stage = "builder_chat_retry_empty"
          /\ call' = [call EXCEPT ![c].entered = FALSE, ![c].stage = "end",
                                  ![c].error = "builder_empty_completion"]
          /\ UNCHANGED admission
    /\ UNCHANGED <<configVars, rows, accounts, steward, changes>>

(* Mutant: only the paths without an exception write the end of the request. *)
EndOnSuccess(c) ==
    /\ call[c].stage = "end"
    /\ IF call[c].error = "none" THEN EndRow(c, "none") ELSE UNCHANGED <<rows, unrecorded, faults>>
    /\ call' = [call EXCEPT ![c].stage = "answered",
                            ![c].answer = IF call[c].error = "none" /\ @ = 0 THEN 200 ELSE 500]
    /\ UNCHANGED <<configVars, steps, accounts, admitVars, changes>>

(* The row does not tell where an exception was raised.                      *)
Kind(error) == IF error = "unmeasured" THEN "exception" ELSE error

(* request_end, on every path (a finally clause in chat), and the answer.    *)
End(c) ==
    /\ call[c].stage = "end"
    /\ EndRow(c, Kind(call[c].error))
    /\ call' = [call EXCEPT ![c].stage = "answered",
                            ![c].answer = CASE call[c].error = "builder_empty_completion" -> 502
                                            [] Kind(call[c].error) \in {"exception", "builder_error"} -> 500
                                            [] OTHER -> IF @ = 404 THEN 404 ELSE 200]
    /\ UNCHANGED <<configVars, steps, accounts, admitVars, changes>>

-----------------------------------------------------------------------------
(* async_admit: the daemon thread and the Steward.                           *)

AdmitPosts(c) ==
    /\ admission[c] = "starting"
    /\ BeginStep(c, "steward_async_call")
    /\ admission' = [admission EXCEPT ![c] = "posting"]
    /\ UNCHANGED <<configVars, call, rows, accounts, steward, changes>>

StewardReceives(c) ==
    /\ admission[c] = "posting" /\ steward[c] = "none"
    /\ steward' = [steward EXCEPT ![c] = "working"]
    /\ UNCHANGED <<configVars, call, rows, steps, accounts, admission, unrecorded, changes, faults>>

(* POST /admit, see AgentOutcome; nobody has to be waiting for it any more.  *)
StewardEnds(c) ==
    /\ steward[c] = "working"
    /\ \E how \in {"done", "failed"} : steward' = [steward EXCEPT ![c] = how]
    /\ UNCHANGED <<configVars, call, rows, steps, accounts, admission, unrecorded, changes, faults>>

(* The answer, or an exception: the Steward is not reached or takes more     *)
(* than 20 seconds.                                                          *)
AdmitEnds(c) ==
    /\ admission[c] = "posting"
    /\ \E how \in {"failed"} \cup (IF steward[c] = "done" THEN {"ok"} ELSE {}) :
         EndStep(c, "steward_async_call", how)
    /\ admission' = [admission EXCEPT ![c] = "ended"]
    /\ UNCHANGED <<configVars, call, rows, accounts, steward, changes>>

(* A call without a timeout never returns: psycopg.connect of the            *)
(* configuration and of the retrieval, a statement of theirs or of the       *)
(* telemetry, or the MCP client.  One of them is before every stage's end.   *)
Hangs(c) ==
    /\ call[c].stage \in Stages \ {"idle"} /\ held[c] = NoBudget
    /\ faults < MaxFaults
    /\ faults' = faults + 1
    /\ call' = [call EXCEPT ![c].stage = "hung", ![c].entered = FALSE, ![c].raw = <<>>]
    /\ UNCHANGED <<configVars, rows, steps, accounts, admitVars, unrecorded, changes>>

(* So does a telemetry statement of the admission thread.                    *)
AdmitHangs(c) ==
    /\ admission[c] \in {"starting", "posting"}
    /\ faults < MaxFaults
    /\ faults' = faults + 1
    /\ admission' = [admission EXCEPT ![c] = "hung"]
    /\ UNCHANGED <<configVars, call, rows, steps, accounts, steward, unrecorded, changes>>

(* The Router dies with its threads and its cache.                           *)
Crash ==
    /\ faults < MaxFaults
    /\ faults' = faults + 1
    /\ cached' = DefaultBudget /\ fresh' = FALSE
    /\ held' = [c \in Calls |-> NoBudget]
    /\ call' = [c \in Calls |-> IF call[c].stage \in {"idle"} \cup Ends THEN call[c]
                                ELSE [call[c] EXCEPT !.stage = "lost", !.entered = FALSE, !.raw = <<>>]]
    /\ admission' = [c \in Calls |-> IF admission[c] \in {"starting", "posting"} THEN "lost"
                                     ELSE admission[c]]
    /\ UNCHANGED <<table, rows, steps, accounts, steward, unrecorded, changes>>

-----------------------------------------------------------------------------
Handle(c) ==
    \/ Begin(c)
    \/ NoModel(c)
    \/ Refresh(c)
    \/ PruneHistory(c)
    \/ Enter(c)
    \/ Bridge(c)
    \/ Pass(c)
    \/ SearchDense(c)
    \/ SearchReference(c)
    \/ GetReference(c)
    \/ Raise(c)
    \/ RaiseOutside(c)
    \/ StitchContext(c)
    \/ WriteSearchAccount(c)
    \/ WriteContextAccount(c)
    \/ BuilderReplies(c)
    \/ End(c)

Admit(c) == AdmitPosts(c) \/ AdmitEnds(c)

Next ==
    \/ \E c \in Calls :
         \/ Receive(c) \/ Handle(c) \/ Hangs(c)
         \/ Admit(c) \/ AdmitHangs(c) \/ StewardReceives(c) \/ StewardEnds(c)
    \/ OperatorSets
    \/ CacheExpires
    \/ OthersRefresh
    \/ Crash

Spec == Init /\ [][Next]_vars

(* Threads run on.  Requests to the embeddings, Qdrant, the Builder and the  *)
(* Steward have a timeout; the calls that have none return, or are the fault *)
(* Hangs or AdmitHangs.                                                      *)
FairSpec == Spec /\ \A c \in Calls : WF_vars(Handle(c)) /\ WF_vars(Admit(c))

-----------------------------------------------------------------------------
(* Properties.                                                               *)

HasRow(c) == ~Unrecorded(call[c].request) /\ call[c].error # "no_model"

(* "Every completed/failed request closes its telemetry row" (06_telemetry): *)
(* on every path through the handler the row of an answered request is       *)
(* closed and names an error exactly when the client was told of one, unless *)
(* one of its own telemetry writes failed.  A context request that fails on  *)
(* the default model has no row to close.                                    *)
AnswersAreRecorded ==
    \A c \in Calls :
        call[c].stage = "answered" /\ HasRow(c) /\ c \notin unrecorded =>
            /\ rows[c].state = "closed"
            /\ rows[c].error # "none" <=> call[c].answer \in {500, 502}

(* The step rows and the request row tell one story.  In a closed request no *)
(* stage is left open; a failed stage is always named by the row as an       *)
(* exception or an error of the Builder; an error of the Builder is that of  *)
(* a failed call of the Builder; and an exception without a failed stage was *)
(* raised between the stages, where no step is open.                         *)
StepsExplainErrors ==
    \A c \in Calls :
        rows[c].state = "closed" /\ c \notin unrecorded =>
            LET failed == {n \in Measured : steps[c][n] = "failed"}
            IN  /\ \A n \in Measured : steps[c][n] # "open"
                /\ failed # {} => rows[c].error \in {"exception", "builder_error"}
                /\ rows[c].error = "builder_error" => failed \cap Builder # {}
                /\ rows[c].error = "exception" => (failed = {} <=> call[c].error = "unmeasured")

(* The accounting of a retrieval adds up, and the items the client is given  *)
(* are as many as the telemetry says were stitched: two loops, one over the  *)
(* text and one over the references, take the same candidates.               *)
SelectionAgrees ==
    \A c \in Calls :
        accounts[c] # NoAccount =>
            LET a == accounts[c]
            IN  /\ a.selected = call[c].items
                /\ a.selected + a.dropped + a.blank =
                     IF Op(c) = "search" THEN a.candidates ELSE AtMost(TopK, a.candidates)

(* What the Router plans for: history, message and context, by its own       *)
(* estimate.                                                                 *)
Planned(c) ==
    call[c].history + LastUser(call[c].request.messages) + call[c].context

(* What a changed budget adds, and the most the context may take.            *)
Raised(c) ==
    IF call[c].contextBudget = NoBudget THEN 0
    ELSE Positive(call[c].contextBudget - call[c].historyBudget)
ContextCap(c) ==
    Static + IF call[c].contextBudget = NoBudget THEN 0 ELSE Positive(call[c].contextBudget - Static)

(* What is planned when some of the history is kept stays within             *)
(* MAX_TOTAL_TOKENS, or exceeds it by no more than the budget was raised     *)
(* between the two places that read it.  When none is kept, nothing holds    *)
(* the message of the user below MAX_TOTAL_TOKENS, and the plan is that      *)
(* message and a context within the budget, however large the message is.    *)
PlannedWithinCeiling ==
    \A c \in Calls :
        call[c].historyBudget # NoBudget =>
            Planned(c) <= IF call[c].history > 0 THEN MaxTotal + Raised(c)
                          ELSE LastUser(call[c].request.messages) + ContextCap(c)

(* Only a turn the Builder answered reaches the Steward, whatever retries    *)
(* and crashes there were; and a call the telemetry shows as good was one    *)
(* the Steward completed.                                                    *)
AdmitsAnsweredTurns ==
    \A c \in Calls :
        /\ steward[c] # "none" => call[c].answered /\ call[c].error = "none"
        /\ steps[c]["steward_async_call"] = "ok" => steward[c] = "done"

(* Every request is answered and every admission thread ends, unless the     *)
(* Router dies or one of the thread's own calls without a timeout never      *)
(* returns; a write or reading that fails holds up nobody.                   *)
RequestsEnd ==
    \A c \in Calls :
        /\ call[c].stage \in {"bridge", "begin"} ~> call[c].stage \in Ends
        /\ admission[c] = "starting" ~> admission[c] \in {"ended", "lost", "hung"}
=============================================================================
