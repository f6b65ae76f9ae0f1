---------------------------- MODULE GenerationPod ---------------------------
(***************************************************************************)
(* The container of a serving Pod: it downloads a CodeGraph generation,    *)
(* places it on the Pod's volumes, starts the CodeGraph server as a child  *)
(* and passes agents' HTTP requests to it over its stdin and stdout.       *)
(* Two programs do so: codegraph_generation_serve.py, which the publisher  *)
(* deploys, and codegraph_serve.py, which serves a registry row; both use  *)
(* StdioMcpClient.                                                         *)
(*                                                                         *)
(* Request threads, the main thread and the thread that reads the child's  *)
(* answers share the pending table under a lock; each answer goes through  *)
(* a queue of one place made for its request id.  The volumes are          *)
(* emptyDirs: they outlive the container, not the Pod.                     *)
(***************************************************************************)
EXTENDS Naturals, Sequences, FiniteSets

CONSTANTS
    Requests,    \* HTTP requests: threads of the adapter, each used once
    Main,        \* the main thread
    Note,        \* the message notifications/initialized
    Bundles,     \* what the generation's object key may hold
    Asked,       \* the bundle the environment's digest and identity name
    PipeSize,    \* bound: unread messages that stdin takes
    MaxEchoes,   \* bound: lines the child writes beyond one answer each
    MaxFaults    \* bound: failed steps, deaths and hangs

ASSUME PodAssumption ==
    /\ Main \notin Requests
    /\ Note \notin Nat
    /\ Asked \in Bundles
    /\ PipeSize \in Nat \ {0} /\ MaxEchoes \in Nat /\ MaxFaults \in Nat

Threads == Requests \cup {Main}

VARIABLES
    entry,       \* the program: "generation" or "registry"
    bundle,      \* what the object store holds under the key
    workspace,   \* /workspace/repo on its volume
    home,        \* /state/home/.codegraph on its volume
    used,        \* the volumes were not empty when this container started
    boot,        \* the step of the main thread
    initialized, \* _initialized of the client
    nextId,      \* _next_id
    pending,     \* keys of _pending
    filled,      \* request ids whose queue holds an answer
    reader,      \* id of the answer the reader thread is about to put, or 0
    reading,     \* the reader thread has not ended
    pc, id,      \* each thread: the step of its _request and its request_id
    child,       \* the child process
    stdin, stdout, \* what it has not read, and what it wrote
    working,     \* requests it has read and not answered
    echoes,      \* lines written beyond one answer to each request
    faults

volumeVars == <<workspace, home, used>>
clientVars == <<initialized, nextId, pending, filled>>
readerVars == <<reader, reading>>
threadVars == <<pc, id>>
childVars == <<child, stdin, stdout, working>>
vars == <<entry, bundle, volumeVars, boot, clientVars, readerVars, threadVars, childVars,
          echoes, faults>>

(* A directory on a volume: missing, a whole copy, part of one, a copy with  *)
(* a second one inside.                                                      *)
Directories == {"none", "one", "part", "nested"}

Booting == {"download", "place", "restore", "verify", "spawn",
            "initialize", "notify", "tools", "listen"}
BootSteps == Booting \cup {"report", "serve", "close", "down"}
Accepting == {"report", "serve"}

InRequest == {"write", "wait", "pop", "popError"}

(* The child: "fresh" until it has read initialize, "greeted" until it has   *)
(* answered it, "answered" until it has read the notification, "confused" by *)
(* a message out of that order.                                              *)
Running == {"fresh", "greeted", "answered", "open", "confused"}

BootTypeOK ==
    /\ entry \in {"generation", "registry"}
    /\ bundle \in Bundles
    /\ workspace \in Directories /\ home \in Directories
    /\ used \in BOOLEAN
    /\ boot \in BootSteps

ClientTypeOK ==
    /\ initialized \in BOOLEAN
    /\ nextId \in Nat \ {0}
    /\ pending \subseteq 1 .. nextId - 1
    /\ filled \subseteq 1 .. nextId - 1
    /\ reader \in 0 .. nextId - 1
    /\ reading \in BOOLEAN

ThreadTypeOK ==
    /\ pc \in [Threads -> {"idle", "ok", "failed"} \cup InRequest]
    /\ id \in [Threads -> Nat]

ChildTypeOK ==
    /\ child \in {"none", "dead", "hung"} \cup Running
    /\ stdin \in Seq(Nat \cup {Note})
    /\ stdout \in Seq(Nat)
    /\ working \subseteq Nat

TypeOK ==
    /\ BootTypeOK /\ ClientTypeOK /\ ThreadTypeOK /\ ChildTypeOK
    /\ echoes \in Nat /\ faults \in Nat

Init ==
    /\ entry \in {"generation", "registry"}
    /\ bundle \in Bundles
    /\ workspace = "none" /\ home = "none" /\ used = FALSE
    /\ boot = "download"
    /\ initialized = FALSE
    /\ nextId = 1 /\ pending = {} /\ filled = {} /\ reader = 0 /\ reading = TRUE
    /\ pc = [t \in Threads |-> "idle"]
    /\ id = [t \in Threads |-> 0]
    /\ child = "none" /\ stdin = <<>> /\ stdout = <<>> /\ working = {}
    /\ echoes = 0 /\ faults = 0

Alive == child \in Running \cup {"hung"}
Fault == faults < MaxFaults /\ faults' = faults + 1

-----------------------------------------------------------------------------
(* The main thread places the generation.                                    *)

BootTo(step) == boot' = step
RestUnchanged == UNCHANGED <<entry, bundle, clientVars, readerVars, threadVars, childVars, echoes>>

(* Mutant: the bundle is used whatever its digest and its manifest say.      *)
DownloadUnchecked ==
    /\ boot = "download"
    /\ BootTo("place") /\ UNCHANGED faults
    /\ RestUnchanged /\ UNCHANGED volumeVars

(* An archive is fetched and unpacked into a temporary directory, all of it  *)
(* with safe names and links, or the program ends.                           *)
Unpack(step) ==
    \/ BootTo(step) /\ UNCHANGED faults
    \/ BootTo("close") /\ Fault

(* Digest and manifest are those the worker was configured with.             *)
Genuine == bundle = Asked

(* A generation is compared with its digest and its identity.                *)
Download ==
    /\ boot = "download"
    /\ Unpack(IF Genuine \/ entry = "registry" THEN "place" ELSE "close")
    /\ RestUnchanged /\ UNCHANGED volumeVars

(* shutil.move: into a directory that is there, unless its name is taken.    *)
MoveTo(place, place2, step) ==
    \/ place = "none" /\ place2 = "one" /\ BootTo(step)
    \/ place \in {"one", "part"} /\ place2 = "nested" /\ BootTo(step)
    \/ place = "nested" /\ place2 = place /\ BootTo("close")

(* prepare_canonical_workspace and restore_state_bundle remove it first.     *)
ReplaceIn(place2, step) == place2 = "one" /\ BootTo(step)

PlaceWorkspace ==
    /\ boot = "place"
    /\ \/ entry = "generation" /\ MoveTo(workspace, workspace', "restore")
       \/ entry = "registry" /\ ReplaceIn(workspace', "restore")
    /\ RestUnchanged /\ UNCHANGED <<home, used, faults>>

(* A registry worker compares the digest before, the manifest after it.      *)
RestoreState ==
    /\ boot = "restore"
    /\ \/ entry = "generation" /\ MoveTo(home, home', "verify")
       \/ entry = "registry" /\ Genuine /\ ReplaceIn(home', "verify")
       \/ entry = "registry" /\ ~Genuine /\ home' \in {home, "one"} /\ BootTo("close")
    /\ RestUnchanged /\ UNCHANGED <<workspace, used, faults>>

VerifyBinary ==
    /\ boot = "verify"
    /\ \/ BootTo("spawn") /\ UNCHANGED faults
       \/ Fault /\ BootTo("close")
    /\ RestUnchanged /\ UNCHANGED volumeVars

(* StdioMcpClient.__init__: the process, its pipes, and the reader thread.   *)
Spawn ==
    /\ boot = "spawn"
    /\ child' = "fresh"
    /\ BootTo("initialize")
    /\ UNCHANGED <<entry, bundle, volumeVars, clientVars, readerVars, threadVars,
                   stdin, stdout, working, echoes, faults>>

-----------------------------------------------------------------------------
(* _request, in the main thread and in the threads of HTTP requests.         *)

MayRequest(t) ==
    IF t = Main THEN boot \in {"initialize", "tools"} ELSE boot \in Accepting

(* Mutant: the request id is read, but not counted up.                       *)
RegisterSameId(t) ==
    /\ pc[t] = "idle" /\ MayRequest(t)
    /\ pending' = pending \cup {nextId}
    /\ id' = [id EXCEPT ![t] = nextId]
    /\ nextId' = IF initialized THEN nextId ELSE nextId + 1
    /\ pc' = [pc EXCEPT ![t] = "write"]
    /\ UNCHANGED <<entry, bundle, volumeVars, boot, initialized, filled, readerVars,
                   childVars, echoes, faults>>

Register(t) ==
    /\ pc[t] = "idle" /\ MayRequest(t)
    /\ pending' = pending \cup {nextId}
    /\ id' = [id EXCEPT ![t] = nextId]
    /\ nextId' = nextId + 1
    /\ pc' = [pc EXCEPT ![t] = "write"]
    /\ UNCHANGED <<entry, bundle, volumeVars, boot, initialized, filled, readerVars,
                   childVars, echoes, faults>>

(* _write; it blocks, and the write lock with it, while the pipe is full.    *)
Write(t) ==
    /\ pc[t] = "write"
    /\ \/ /\ Alive /\ Len(stdin) < PipeSize
          /\ stdin' = Append(stdin, id[t])
          /\ pc' = [pc EXCEPT ![t] = "wait"]
       \/ /\ ~Alive
          /\ pc' = [pc EXCEPT ![t] = "popError"]
          /\ UNCHANGED stdin
    /\ UNCHANGED <<entry, bundle, volumeVars, boot, clientVars, readerVars, id,
                   child, stdout, working, echoes, faults>>

(* Mutant: waiter.get() without a timeout.                                   *)
AwaitAnswerOnly(t) ==
    /\ pc[t] = "wait"
    /\ id[t] \in filled
    /\ filled' = filled \ {id[t]}
    /\ pc' = [pc EXCEPT ![t] = "pop"]
    /\ UNCHANGED <<entry, bundle, volumeVars, boot, initialized, nextId, pending, readerVars, id,
                   childVars, echoes, faults>>

(* waiter.get: the answer, or nothing within timeout_seconds.                *)
Await(t) ==
    /\ pc[t] = "wait"
    /\ \/ /\ id[t] \in filled
          /\ filled' = filled \ {id[t]}
          /\ pc' = [pc EXCEPT ![t] = "pop"]
       \/ /\ id[t] \notin filled
          /\ pc' = [pc EXCEPT ![t] = "popError"]
          /\ UNCHANGED filled
    /\ UNCHANGED <<entry, bundle, volumeVars, boot, initialized, nextId, pending, readerVars, id,
                   childVars, echoes, faults>>

(* The finally clause; an answer may still be a JSON-RPC error.              *)
Pop(t) ==
    /\ pc[t] \in {"pop", "popError"}
    /\ pending' = pending \ {id[t]}
    /\ \/ /\ pc' = [pc EXCEPT ![t] = IF @ = "pop" THEN "ok" ELSE "failed"]
          /\ UNCHANGED faults
       \/ /\ pc[t] = "pop" /\ Fault
          /\ pc' = [pc EXCEPT ![t] = "failed"]
    /\ UNCHANGED <<entry, bundle, volumeVars, boot, initialized, nextId, filled, readerVars, id,
                   childVars, echoes>>

-----------------------------------------------------------------------------
(* The reader thread: the waiter is looked up under the lock, and the answer *)
(* put into its queue, which blocks while it is full, outside of it.         *)

(* A line of JSON that is no object: message.get raises, which ends the      *)
(* thread.                                                                   *)
Odd == 0

LookUp ==
    /\ reading /\ reader = 0 /\ stdout # <<>>
    /\ reader' = IF Head(stdout) \in pending THEN Head(stdout) ELSE 0
    /\ reading' = (Head(stdout) # Odd)
    /\ stdout' = Tail(stdout)
    /\ UNCHANGED <<entry, bundle, volumeVars, boot, clientVars, threadVars, child, stdin,
                   working, echoes, faults>>

Put ==
    /\ reader # 0 /\ reader \notin filled
    /\ filled' = filled \cup {reader}
    /\ reader' = 0
    /\ UNCHANGED <<entry, bundle, volumeVars, boot, initialized, nextId, pending, reading, threadVars,
                   childVars, echoes, faults>>

-----------------------------------------------------------------------------
(* The main thread goes on: initialize, then the adapter's HTTP server.      *)

AfterRequest ==
    /\ pc[Main] \in {"ok", "failed"}
    /\ BootTo(IF pc[Main] = "failed" THEN "close"
              ELSE IF boot = "initialize" THEN "notify" ELSE "listen")
    /\ pc' = [pc EXCEPT ![Main] = "idle"]
    /\ UNCHANGED <<entry, bundle, volumeVars, clientVars, readerVars, id, childVars, echoes, faults>>

(* Mutant: the tools are listed before the server is told it is initialized. *)
NotifyLater ==
    /\ boot = "notify"
    /\ initialized' = TRUE
    /\ BootTo("tools")
    /\ UNCHANGED <<entry, bundle, volumeVars, nextId, pending, filled, readerVars, threadVars,
                   childVars, echoes, faults>>

Notify ==
    /\ boot = "notify"
    /\ \/ /\ Alive /\ Len(stdin) < PipeSize
          /\ stdin' = Append(stdin, Note)
          /\ initialized' = TRUE
          /\ BootTo("tools")
       \/ /\ ~Alive
          /\ BootTo("close")
          /\ UNCHANGED <<stdin, initialized>>
    /\ UNCHANGED <<entry, bundle, volumeVars, nextId, pending, filled, readerVars, threadVars,
                   child, stdout, working, echoes, faults>>

(* The server thread has 15 seconds to start; uvicorn.run may fail to bind.  *)
Listen ==
    /\ boot = "listen"
    /\ \/ BootTo(IF entry = "registry" THEN "report" ELSE "serve") /\ UNCHANGED faults
       \/ Fault /\ BootTo("close")
    /\ RestUnchanged /\ UNCHANGED volumeVars

(* _report, eight times over; without an acknowledgement the worker gives up *)
(* (and reports that).                                                       *)
Report ==
    /\ boot = "report"
    /\ \/ BootTo("serve") /\ UNCHANGED faults
       \/ Fault /\ BootTo("close")
    /\ RestUnchanged /\ UNCHANGED volumeVars

(* The process ends, its child and its threads with it.                      *)
Gone ==
    /\ boot' = "down"
    /\ initialized' = FALSE
    /\ nextId' = 1 /\ pending' = {} /\ filled' = {} /\ reader' = 0 /\ reading' = TRUE
    /\ pc' = [t \in Threads |-> IF t = Main THEN "idle"
                                ELSE IF pc[t] \in InRequest THEN "failed" ELSE pc[t]]
    /\ id' = [t \in Threads |-> 0]
    /\ child' = "none" /\ stdin' = <<>> /\ stdout' = <<>> /\ working' = {}

Close ==
    /\ boot = "close"
    /\ Gone
    /\ UNCHANGED <<entry, bundle, volumeVars, echoes, faults>>

-----------------------------------------------------------------------------
(* The CodeGraph server.                                                     *)

(* The main thread's first request is initialize.                            *)
Read ==
    /\ child \in Running /\ stdin # <<>>
    /\ LET m == Head(stdin)
       IN  /\ child' = CASE child = "fresh" /\ m = 1 -> "greeted"
                         [] child = "answered" /\ m = Note -> "open"
                         [] child = "open" /\ m # Note -> "open"
                         [] OTHER -> "confused"
           /\ working' = IF m = Note THEN working ELSE working \cup {m}
    /\ stdin' = Tail(stdin)
    /\ UNCHANGED <<entry, bundle, volumeVars, boot, clientVars, readerVars, threadVars, stdout,
                   echoes, faults>>

Answer ==
    /\ child \in Running
    /\ \E m \in working :
         /\ stdout' = Append(stdout, m)
         /\ child' = IF child = "greeted" /\ m = 1 THEN "answered" ELSE child
         /\ \/ working' = working \ {m} /\ UNCHANGED echoes
            \/ echoes < MaxEchoes /\ echoes' = echoes + 1 /\ UNCHANGED working
    /\ UNCHANGED <<entry, bundle, volumeVars, boot, clientVars, readerVars, threadVars, stdin, faults>>

(* It prints a line that the reader does not survive.                        *)
WriteOdd ==
    /\ child \in Running
    /\ echoes < MaxEchoes /\ echoes' = echoes + 1
    /\ stdout' = Append(stdout, Odd)
    /\ UNCHANGED <<entry, bundle, volumeVars, boot, clientVars, readerVars, threadVars, child, stdin,
                   working, faults>>

(* It exits or is killed, or neither reads nor writes any more.              *)
ChildFails ==
    /\ Alive /\ Fault
    /\ \/ child' = "dead" /\ stdin' = <<>> /\ working' = {}
       \/ child' = "hung" /\ UNCHANGED <<stdin, working>>
    /\ UNCHANGED <<entry, bundle, volumeVars, boot, clientVars, readerVars, threadVars, stdout, echoes>>

-----------------------------------------------------------------------------
(* Kubernetes.                                                               *)

(* What a copy that was broken off leaves.                                   *)
Torn(place) == IF entry = "registry" \/ place = "none" THEN "part" ELSE "nested"

(* The container dies, perhaps while it copies to a volume.                  *)
ContainerDies ==
    /\ boot # "down" /\ Fault
    /\ Gone
    /\ \/ UNCHANGED <<workspace, home>>
       \/ boot = "place" /\ workspace' = Torn(workspace) /\ UNCHANGED home
       \/ boot = "restore" /\ home' = Torn(home) /\ UNCHANGED workspace
    /\ UNCHANGED <<entry, bundle, used, echoes>>

(* restartPolicy Always: the container starts again on the same volumes.     *)
Restart ==
    /\ boot = "down"
    /\ used' = (workspace # "none" \/ home # "none")
    /\ BootTo("download")
    /\ RestUnchanged /\ UNCHANGED <<workspace, home, faults>>

(* The Pod is evicted or rolled out; the next one has empty volumes.         *)
ReplacePod ==
    /\ boot = "down" /\ Fault
    /\ workspace' = "none" /\ home' = "none" /\ used' = FALSE
    /\ BootTo("download")
    /\ RestUnchanged

-----------------------------------------------------------------------------
BootStep ==
    \/ Download
    \/ PlaceWorkspace
    \/ RestoreState
    \/ VerifyBinary
    \/ Spawn
    \/ AfterRequest
    \/ Notify
    \/ Listen
    \/ Report
    \/ Close
    \/ Restart

RequestStep(t) == Write(t) \/ Await(t) \/ Pop(t)
ReaderStep == LookUp \/ Put
ChildStep == Read \/ Answer

Next ==
    \/ BootStep
    \/ \E t \in Threads : Register(t) \/ RequestStep(t)
    \/ ReaderStep
    \/ ChildStep
    \/ WriteOdd
    \/ ChildFails
    \/ ContainerDies
    \/ ReplacePod

Spec == Init /\ [][Next]_vars

(* Threads run on, Kubernetes restarts containers, and a child that does not *)
(* hang reads its stdin; nothing makes it answer.                            *)
Fairness ==
    /\ WF_vars(BootStep) /\ WF_vars(ReaderStep) /\ WF_vars(Register(Main)) /\ WF_vars(Read)
    /\ \A t \in Threads : WF_vars(RequestStep(t))

FairSpec == Spec /\ Fairness

-----------------------------------------------------------------------------
(* Properties.                                                               *)

(* The CodeGraph server reads the notification only after it has answered    *)
(* initialize, and requests of agents only after the notification, whichever *)
(* threads write to its stdin, time out or are answered late.                *)
HandshakeFirst == child # "confused"

(* What is served is the bundle that was asked for, checked by digest and    *)
(* identity, in one whole copy: by a registry worker after any restarts, by  *)
(* a generation Pod unless an earlier container has placed anything.         *)
ServesAsked ==
    boot \in Accepting =>
        /\ bundle = Asked
        /\ entry = "registry" \/ ~used => workspace = "one" /\ home = "one"

(* "publishes an immutable cg-serve-<build-id> backend"                      *)
(* (docs/14_workspace_codegraph.md): whatever container of the Pod answers,  *)
(* it serves one whole copy of the generation.                               *)
ServesOneCopy == boot \in Accepting => workspace = "one" /\ home = "one"

(* The reader is never stuck with an answer, unless the child wrote lines    *)
(* too many: a second answer to a request may wait for ever for a place in   *)
(* its queue.                                                                *)
ReaderMovesOn == reader # 0 ~> reader = 0 \/ echoes > 0

(* Every request ends, also when the child dies, hangs, or answers late or   *)
(* twice, or the reader is stuck or has ended; the one exception is a        *)
(* request that could not be written because the child does not empty its    *)
(* stdin.                                                                    *)
RequestsEnd ==
    \A t \in Requests :
        pc[t] \in InRequest ~> pc[t] \in {"ok", "failed"} \/ (pc[t] = "write" /\ child = "hung")
=============================================================================
