------------------------- MODULE GenerationPodProofs -------------------------
(***************************************************************************)
(* Machine-checked proofs about GenerationPod, for any number of request   *)
(* threads, any pipe and any number of repeated answers and faults.        *)
(*                                                                         *)
(* That the bundle asked for is served needs only what each step of the    *)
(* main thread has placed (VolumesOK).  That the child reads the handshake *)
(* first depends on all writers of its stdin: HandshakeOK says which of    *)
(* them may be at work in each phase of the main thread, and what stdin    *)
(* holds for each state the child is in.                                   *)
(***************************************************************************)
EXTENDS GenerationPod, SequenceTheorems, TLAPS

(* What is on the volumes, and was compared, when a boot step is reached.    *)
AfterRestore == {"verify", "spawn", "initialize", "notify", "tools", "listen", "report", "serve"}
AfterPlace == AfterRestore \cup {"restore"}
VolumesOK ==
    /\ entry = "generation" /\ boot \in AfterPlace \cup {"place"} => bundle = Asked
    /\ ~used /\ boot \in {"download", "place"} => workspace = "none"
    /\ ~used /\ boot \in {"download", "place", "restore"} => home = "none"
    /\ ~used /\ boot \in AfterPlace => workspace = "one"
    /\ ~used /\ boot \in AfterRestore => home = "one"
    /\ entry = "registry" /\ boot \in AfterPlace => workspace = "one"
    /\ entry = "registry" /\ boot \in AfterRestore => home = "one" /\ bundle = Asked

(* No process has been started in this life of the container.                *)
Unborn == {"download", "place", "restore", "verify", "spawn", "down"}
UnbornOK ==
    boot \in Unborn =>
        /\ child = "none" /\ stdin = <<>> /\ stdout = <<>> /\ working = {}
        /\ nextId = 1 /\ filled = {} /\ reader = 0 /\ ~initialized

(* Who may be inside _request.                                               *)
WritersOK ==
    /\ pc[Main] # "idle" => boot \in {"initialize", "tools"}
    /\ ~initialized => \A r \in Requests : pc[r] \notin InRequest
    /\ boot \in {"tools", "listen"} \cup Accepting => initialized
    /\ boot \in {"initialize", "notify"} => ~initialized
    /\ boot = "initialize" /\ pc[Main] \in {"idle", "write"} =>
         /\ child \in {"fresh", "dead", "hung"}
         /\ stdin = <<>>
         /\ pc[Main] = "idle" => nextId = 1
         /\ pc[Main] = "write" => id[Main] = 1

(* Before the child has answered initialize, nothing of use is on its        *)
(* stdout, and nobody has got an answer.                                     *)
OddOnly == \A i \in 1 .. Len(stdout) : stdout[i] = Odd

UnansweredOK ==
    child \in {"fresh", "greeted"} =>
        /\ boot \in {"initialize", "close"} /\ ~initialized
        /\ OddOnly /\ reader = 0 /\ filled = {}
        /\ pc[Main] \notin {"pop", "ok"}

(* What the child has read and will read.                                    *)
Numbers(from) == \A i \in from .. Len(stdin) : stdin[i] \in Nat

StdinOK ==
    /\ child = "fresh" => (stdin = <<>> \/ (Len(stdin) = 1 /\ stdin[1] = 1)) /\ working = {}
    /\ child = "greeted" => stdin = <<>> /\ working \subseteq {1}
    /\ child = "answered" /\ ~initialized => stdin = <<>>
    /\ child = "answered" /\ initialized => stdin # <<>> /\ stdin[1] = Note /\ Numbers(2)
    /\ child = "open" => initialized /\ Numbers(1)
    /\ child # "confused"

HandshakeOK == UnbornOK /\ WritersOK /\ UnansweredOK /\ StdinOK

IndInv == TypeOK /\ VolumesOK /\ HandshakeOK
USE DEF readerVars
-----------------------------------------------------------------------------
LEMMA EmptyTyped == <<>> \in Seq(Nat) /\ <<>> \in Seq(Nat \cup {Note})
BY EmptySeq

LEMMA InitIndInv == Init => IndInv
<1> SUFFICES ASSUME Init PROVE IndInv
  OBVIOUS
<1>1. BootTypeOK /\ ThreadTypeOK
  BY DEF Init, BootTypeOK, ThreadTypeOK, Directories, BootSteps, Booting
<1>2. ClientTypeOK
  <2>1. nextId = 1 /\ pending = {} /\ filled = {} /\ reader = 0
    BY DEF Init
  <2>2. initialized \in BOOLEAN /\ reading \in BOOLEAN
    BY Zenon DEF Init
  <2>3. QED
    BY <2>1, <2>2 DEF ClientTypeOK
<1>3. ChildTypeOK
  BY EmptyTyped DEF Init, ChildTypeOK
<1>4. TypeOK
  BY <1>1, <1>2, <1>3 DEF Init, TypeOK
<1>5. VolumesOK
  BY DEF Init, VolumesOK, AfterPlace, AfterRestore
<1>6. HandshakeOK
  BY DEF Init, HandshakeOK, UnbornOK, WritersOK, UnansweredOK, OddOnly, StdinOK, Accepting, InRequest, Threads
<1>7. QED
  BY <1>4, <1>5, <1>6 DEF IndInv
-----------------------------------------------------------------------------
(* Types.                                                                    *)

LEMMA BootTypeInv ==
    ASSUME TypeOK, [Next]_vars
    PROVE  BootTypeOK'
<1> USE DEF BootTypeOK, BootTo, BootSteps, Booting, Directories
<1>1. BootTypeOK
  BY DEF TypeOK
<1>2. CASE Download \/ VerifyBinary \/ Listen \/ Report \/ Restart \/ ReplacePod
  BY <1>1, <1>2 DEF Download, VerifyBinary, Listen, Report, Restart, ReplacePod, RestUnchanged,
                    volumeVars, Unpack
<1>3. CASE PlaceWorkspace \/ RestoreState
  BY <1>1, <1>3 DEF PlaceWorkspace, RestoreState, MoveTo, ReplaceIn, RestUnchanged
<1>4. CASE Spawn \/ AfterRequest \/ Notify
  BY <1>1, <1>4 DEF Spawn, AfterRequest, Notify, volumeVars
<1>5. CASE Close \/ ContainerDies
  BY <1>1, <1>5 DEF Close, ContainerDies, Gone, Torn, volumeVars
<1>6. CASE \E t \in Threads : Register(t) \/ RequestStep(t)
  BY <1>1, <1>6 DEF Register, RequestStep, Write, Await, Pop, volumeVars
<1>7. CASE ReaderStep \/ ChildStep \/ WriteOdd \/ ChildFails
  BY <1>1, <1>7 DEF ReaderStep, LookUp, Put, ChildStep, Read, Answer, WriteOdd, ChildFails, volumeVars
<1>8. CASE UNCHANGED vars
  BY <1>1, <1>8 DEF vars, volumeVars
<1>9. QED
  BY <1>2, <1>3, <1>4, <1>5, <1>6, <1>7, <1>8 DEF Next, BootStep

LEMMA ClientTypeInv ==
    ASSUME TypeOK, [Next]_vars
    PROVE  ClientTypeOK'
<1> USE DEF ClientTypeOK
<1>1. ClientTypeOK
  BY DEF TypeOK
<1>2. CASE \/ Download \/ PlaceWorkspace \/ RestoreState \/ VerifyBinary \/ Spawn \/ AfterRequest
           \/ Listen \/ Report \/ Restart \/ ReplacePod
  BY <1>1, <1>2 DEF Download, PlaceWorkspace, RestoreState, VerifyBinary, Spawn, AfterRequest, Listen,
                    Report, Restart, ReplacePod, RestUnchanged, clientVars
<1>3. CASE Notify \/ ReaderStep \/ ChildStep \/ WriteOdd \/ ChildFails
  <2>1. nextId' = nextId /\ pending' = pending
    BY <1>3 DEF Notify, ReaderStep, LookUp, Put, ChildStep, Read, Answer, WriteOdd, ChildFails, clientVars
  <2>2. /\ reader' = reader \/ reader' \in pending \/ reader' = 0
        /\ filled' = filled \/ (reader # 0 /\ filled' = filled \cup {reader})
    BY <1>3 DEF Notify, ReaderStep, LookUp, Put, ChildStep, Read, Answer, WriteOdd, ChildFails, clientVars
  <2>3. initialized' = initialized \/ initialized' = TRUE
    BY <1>3 DEF Notify, ReaderStep, LookUp, Put, ChildStep, Read, Answer, WriteOdd, ChildFails, clientVars
  <2>4. initialized' \in BOOLEAN
    BY <1>1, <2>3, Zenon
  <2>12. reading' = reading \/ reading' = (Head(stdout) # Odd)
    BY <1>3 DEF Notify, ReaderStep, LookUp, Put, ChildStep, Read, Answer, WriteOdd, ChildFails, clientVars
  <2>13. reading' \in BOOLEAN
    BY <1>1, <2>12, Zenon
  <2>5. /\ nextId \in Nat \ {0} /\ pending \subseteq 1 .. nextId - 1
        /\ filled \subseteq 1 .. nextId - 1 /\ reader \in 0 .. nextId - 1
    BY <1>1
  <2>6. \A i \in pending : i \in 0 .. nextId - 1
    BY <2>5
  <2>7. reader # 0 => reader \in 1 .. nextId - 1
    BY <2>5
  <2>8. 0 \in 0 .. nextId - 1
    BY <2>5
  <2>9. reader' \in 0 .. nextId - 1
    BY <2>2, <2>5, <2>6, <2>8
  <2>10. filled' \subseteq 1 .. nextId - 1
    BY <2>2, <2>5, <2>7
  <2>11. QED
    BY <2>1, <2>4, <2>5, <2>9, <2>10, <2>13
<1>4. CASE Close \/ ContainerDies
  <2>1. nextId' = 1 /\ pending' = {} /\ filled' = {} /\ reader' = 0
    BY <1>4 DEF Close, ContainerDies, Gone
  <2>2. initialized' \in BOOLEAN /\ reading' \in BOOLEAN
    BY <1>4, Zenon DEF Close, ContainerDies, Gone
  <2>3. QED
    BY <2>1, <2>2
<1>5. CASE \E t \in Threads : Register(t)
  BY <1>1, <1>5 DEF Register
<1>6. CASE \E t \in Threads : RequestStep(t)
  BY <1>1, <1>6 DEF RequestStep, Write, Await, Pop, clientVars
<1>7. CASE UNCHANGED vars
  BY <1>1, <1>7 DEF vars, clientVars
<1>8. QED
  BY <1>2, <1>3, <1>4, <1>5, <1>6, <1>7 DEF Next, BootStep

LEMMA ThreadTypeInv ==
    ASSUME TypeOK, [Next]_vars
    PROVE  ThreadTypeOK'
<1> USE DEF ThreadTypeOK, InRequest
<1>1. ThreadTypeOK /\ nextId \in Nat
  BY DEF TypeOK, ClientTypeOK
<1>2. CASE \/ Download \/ PlaceWorkspace \/ RestoreState \/ VerifyBinary \/ Spawn
           \/ Listen \/ Report \/ Restart \/ ReplacePod
  BY <1>1, <1>2 DEF Download, PlaceWorkspace, RestoreState, VerifyBinary, Spawn, Listen,
                    Report, Restart, ReplacePod, RestUnchanged, threadVars
<1>3. CASE Notify \/ ReaderStep \/ ChildStep \/ WriteOdd \/ ChildFails
  BY <1>1, <1>3 DEF Notify, ReaderStep, LookUp, Put, ChildStep, Read, Answer, WriteOdd, ChildFails, threadVars
<1>4. CASE Close \/ ContainerDies
  BY <1>1, <1>4 DEF Close, ContainerDies, Gone
<1>5. CASE AfterRequest \/ \E t \in Threads : Register(t) \/ RequestStep(t)
  BY <1>1, <1>5 DEF AfterRequest, Register, RequestStep, Write, Await, Pop
<1>6. CASE UNCHANGED vars
  BY <1>1, <1>6 DEF vars, threadVars
<1>7. QED
  BY <1>2, <1>3, <1>4, <1>5, <1>6 DEF Next, BootStep

LEMMA ChildTypeInv ==
    ASSUME TypeOK, [Next]_vars
    PROVE  ChildTypeOK'
<1> USE DEF ChildTypeOK, Running
<1>1. ChildTypeOK /\ \A t \in Threads : id[t] \in Nat
  BY DEF TypeOK, ThreadTypeOK
<1>2. CASE \/ Download \/ PlaceWorkspace \/ RestoreState \/ VerifyBinary \/ Spawn \/ AfterRequest
           \/ Listen \/ Report \/ Restart \/ ReplacePod
  BY <1>1, <1>2 DEF Download, PlaceWorkspace, RestoreState, VerifyBinary, Spawn, AfterRequest, Listen,
                    Report, Restart, ReplacePod, RestUnchanged, childVars
<1>3. CASE Notify
  BY <1>1, <1>3 DEF Notify
<1>4. CASE \E t \in Threads : Register(t) \/ RequestStep(t)
  <2>1. stdin' = stdin \/ \E t \in Threads : stdin' = Append(stdin, id[t])
    BY <1>4 DEF Register, RequestStep, Write, Await, Pop, childVars
  <2>2. stdin' \in Seq(Nat \cup {Note})
    BY <1>1, <2>1, AppendProperties
  <2>3. UNCHANGED <<child, stdout, working>>
    BY <1>4 DEF Register, RequestStep, Write, Await, Pop, childVars
  <2>4. QED
    BY <1>1, <2>2, <2>3
<1>5. CASE LookUp \/ Put
  <2>1. stdout' = stdout \/ (stdout # <<>> /\ stdout' = Tail(stdout))
    BY <1>5 DEF LookUp, Put, childVars
  <2>2. stdout' \in Seq(Nat)
    BY <1>1, <2>1, HeadTailProperties
  <2>3. UNCHANGED <<child, stdin, working>>
    BY <1>5 DEF LookUp, Put, childVars
  <2>4. QED
    BY <1>1, <2>2, <2>3
<1>6. CASE Read
  <2>1. stdin # <<>> /\ Head(stdin) \in Nat \cup {Note} /\ Tail(stdin) \in Seq(Nat \cup {Note})
    BY <1>1, <1>6 DEF Read
  <2>2. QED
    BY <1>1, <1>6, <2>1 DEF Read
<1>7. CASE Answer
  <2>1. PICK m \in working : stdout' = Append(stdout, m)
    BY <1>7 DEF Answer
  <2>2. m \in Nat /\ Append(stdout, m) \in Seq(Nat)
    BY <1>1, AppendProperties
  <2>3. working' \subseteq working /\ child' \in {child, "answered"} /\ stdin' = stdin
    BY <1>7 DEF Answer
  <2>4. QED
    BY <1>1, <2>1, <2>2, <2>3
<1>8. CASE ChildFails
  <2>1. stdin' \in {stdin, <<>>} /\ stdout' = stdout /\ working' \subseteq working
        /\ child' \in {"dead", "hung"}
    BY <1>8 DEF ChildFails
  <2>2. QED
    BY <1>1, <2>1, EmptyTyped
<1>9. CASE Close \/ ContainerDies
  <2>1. child' = "none" /\ stdin' = <<>> /\ stdout' = <<>> /\ working' = {}
    BY <1>9 DEF Close, ContainerDies, Gone
  <2>2. QED
    BY <2>1, EmptyTyped
<1>10. CASE WriteOdd
  <2>1. stdout' = Append(stdout, 0) /\ UNCHANGED <<child, stdin, working>>
    BY <1>10 DEF WriteOdd, Odd
  <2>2. QED
    BY <1>1, <2>1, AppendProperties
<1>11. CASE UNCHANGED vars
  BY <1>1, <1>11 DEF vars, childVars
<1>12. QED
  BY <1>2, <1>3, <1>4, <1>5, <1>6, <1>7, <1>8, <1>9, <1>10, <1>11 DEF Next, BootStep, ReaderStep, ChildStep

LEMMA CountersInv ==
    ASSUME TypeOK, [Next]_vars
    PROVE  echoes' \in Nat /\ faults' \in Nat
<1> USE DEF TypeOK, Fault
<1>1. CASE BootStep \/ ReplacePod \/ ContainerDies
  BY <1>1 DEF BootStep, Download, PlaceWorkspace, RestoreState, VerifyBinary, Spawn, AfterRequest,
              Notify, Listen, Report, Close, Restart, ReplacePod, ContainerDies, RestUnchanged, Unpack
<1>2. CASE \E t \in Threads : Register(t) \/ RequestStep(t)
  BY <1>2 DEF Register, RequestStep, Write, Await, Pop
<1>3. CASE ReaderStep \/ ChildStep \/ WriteOdd \/ ChildFails
  BY <1>3 DEF ReaderStep, LookUp, Put, ChildStep, Read, Answer, WriteOdd, ChildFails
<1>4. CASE UNCHANGED vars
  BY <1>4 DEF vars
<1>5. QED
  BY <1>1, <1>2, <1>3, <1>4 DEF Next

LEMMA TypeInv == TypeOK /\ [Next]_vars => TypeOK'
BY BootTypeInv, ClientTypeInv, ThreadTypeInv, ChildTypeInv, CountersInv DEF TypeOK
-----------------------------------------------------------------------------
(* The volumes.                                                              *)

LEMMA VolumesInv ==
    ASSUME VolumesOK, WritersOK, [Next]_vars
    PROVE  VolumesOK'
<1> USE DEF VolumesOK, AfterPlace, AfterRestore, BootTo
<1>1. CASE Download
  BY <1>1 DEF Download, Unpack, Genuine, RestUnchanged, volumeVars
<1>2. CASE PlaceWorkspace
  BY <1>2 DEF PlaceWorkspace, MoveTo, ReplaceIn, RestUnchanged
<1>3. CASE RestoreState
  BY <1>3 DEF RestoreState, MoveTo, ReplaceIn, Genuine, RestUnchanged
<1>4. CASE VerifyBinary \/ Listen \/ Report \/ Restart \/ ReplacePod
  BY <1>4 DEF VerifyBinary, Listen, Report, Restart, ReplacePod, RestUnchanged, volumeVars
<1>5. CASE Spawn \/ AfterRequest \/ Notify
  BY <1>5 DEF Spawn, AfterRequest, Notify, volumeVars, WritersOK
<1>6. CASE Close \/ ContainerDies
  BY <1>6 DEF Close, ContainerDies, Gone
<1>7. CASE \E t \in Threads : Register(t) \/ RequestStep(t)
  BY <1>7 DEF Register, RequestStep, Write, Await, Pop, volumeVars
<1>8. CASE ReaderStep \/ ChildStep \/ WriteOdd \/ ChildFails
  BY <1>8 DEF ReaderStep, LookUp, Put, ChildStep, Read, Answer, WriteOdd, ChildFails, volumeVars
<1>9. CASE UNCHANGED vars
  BY <1>9 DEF vars, volumeVars
<1>10. QED
  BY <1>1, <1>2, <1>3, <1>4, <1>5, <1>6, <1>7, <1>8, <1>9 DEF Next, BootStep
-----------------------------------------------------------------------------
(* The handshake.                                                            *)

(* The steps of the main thread that touch neither client nor child.         *)
LEMMA PlaceHandshake ==
    ASSUME IndInv, Download \/ PlaceWorkspace \/ RestoreState \/ VerifyBinary \/ Restart \/ ReplacePod
    PROVE  HandshakeOK'
<1>1. HandshakeOK /\ boot \in {"download", "place", "restore", "verify", "down"}
  BY DEF IndInv, Download, PlaceWorkspace, RestoreState, VerifyBinary, Restart, ReplacePod
<1>2. UNCHANGED clientVars /\ UNCHANGED reader /\ UNCHANGED threadVars /\ UNCHANGED childVars
  BY DEF Download, PlaceWorkspace, RestoreState, VerifyBinary, Restart, ReplacePod, RestUnchanged
<1>3. boot' \in {"download", "place", "restore", "verify", "spawn", "close"}
  BY DEF Download, PlaceWorkspace, RestoreState, VerifyBinary, Restart, ReplacePod, Unpack, MoveTo,
         ReplaceIn, BootTo
<1>4. QED
  BY <1>1, <1>2, <1>3 DEF HandshakeOK, UnbornOK, Unborn, WritersOK, UnansweredOK, OddOnly, StdinOK, Numbers,
                          Accepting, clientVars, threadVars, childVars

LEMMA ServeHandshake ==
    ASSUME IndInv, Listen \/ Report
    PROVE  HandshakeOK'
<1>1. HandshakeOK /\ boot \in {"listen", "report"}
  BY DEF IndInv, Listen, Report
<1>2. UNCHANGED clientVars /\ UNCHANGED reader /\ UNCHANGED threadVars /\ UNCHANGED childVars
  BY DEF Listen, Report, RestUnchanged
<1>3. boot' \in {"report", "serve", "close"}
  BY DEF Listen, Report, BootTo
<1>4. QED
  BY <1>1, <1>2, <1>3 DEF HandshakeOK, UnbornOK, Unborn, WritersOK, UnansweredOK, OddOnly, StdinOK, Numbers,
                          Accepting, clientVars, threadVars, childVars

LEMMA SpawnHandshake ==
    ASSUME IndInv, Spawn
    PROVE  HandshakeOK'
<1>1. HandshakeOK /\ boot = "spawn" /\ boot' = "initialize" /\ child' = "fresh"
  BY DEF IndInv, Spawn, BootTo
<1>2. UNCHANGED clientVars /\ UNCHANGED <<reader, pc, id, stdin, stdout, working>>
  BY DEF Spawn, threadVars
<1>3. QED
  BY <1>1, <1>2 DEF HandshakeOK, UnbornOK, Unborn, WritersOK, UnansweredOK, OddOnly, StdinOK, Accepting,
                    clientVars

(* A request of the main thread is over: what it got was read by the child.  *)
LEMMA AfterRequestHandshake ==
    ASSUME IndInv, AfterRequest
    PROVE  HandshakeOK'
<1>1. /\ HandshakeOK /\ ThreadTypeOK /\ pc[Main] \in {"ok", "failed"} /\ Main \in Threads
      /\ boot \in {"initialize", "tools"}
  BY DEF IndInv, TypeOK, AfterRequest, Threads, HandshakeOK, WritersOK
<1>2. /\ UNCHANGED clientVars /\ UNCHANGED reader /\ UNCHANGED id /\ UNCHANGED childVars
      /\ pc' = [pc EXCEPT ![Main] = "idle"]
  BY DEF AfterRequest
<1>3. /\ boot' \in {"close", "notify", "listen"}
      /\ boot' = "notify" => pc[Main] = "ok" /\ boot = "initialize"
      /\ boot' = "listen" => boot = "tools"
  BY <1>1 DEF AfterRequest, BootTo
<1>4. pc'[Main] = "idle" /\ \A r \in Requests : pc'[r] = pc[r]
  BY <1>1, <1>2, PodAssumption DEF ThreadTypeOK, Threads
<1>5. QED
  BY <1>1, <1>2, <1>3, <1>4 DEF HandshakeOK, UnbornOK, Unborn, WritersOK, UnansweredOK, OddOnly, StdinOK, Numbers,
                                Accepting, clientVars, childVars

LEMMA NotifyHandshake ==
    ASSUME IndInv, Notify
    PROVE  HandshakeOK'
<1>1. HandshakeOK /\ ChildTypeOK /\ boot = "notify"
  BY DEF IndInv, TypeOK, Notify
<1>2. /\ pc[Main] = "idle" /\ ~initialized
      /\ child \notin {"fresh", "greeted", "open", "confused"}
      /\ child = "answered" => stdin = <<>>
  BY <1>1 DEF HandshakeOK, WritersOK, UnansweredOK, OddOnly, StdinOK
<1>3. UNCHANGED <<pc, id, nextId, filled, reader, child, stdout, working>>
  BY DEF Notify, threadVars
<1>4. CASE ~Alive
  <2>1. boot' = "close" /\ UNCHANGED <<stdin, initialized>>
    BY <1>4 DEF Notify, BootTo
  <2>2. QED
    BY <1>1, <1>2, <1>3, <2>1 DEF HandshakeOK, UnbornOK, Unborn, WritersOK, UnansweredOK, OddOnly, StdinOK, Accepting
<1>5. CASE Alive
  <2>1. boot' = "tools" /\ stdin' = Append(stdin, Note) /\ initialized' = TRUE
    BY <1>5 DEF Notify, BootTo
  <2>2. child = "answered" => stdin' # <<>> /\ stdin'[1] = Note /\ Len(stdin') = 1
    BY <1>2, <2>1
  <2>3. StdinOK'
    BY <1>2, <1>3, <2>1, <2>2 DEF StdinOK, Numbers
  <2>4. QED
    BY <1>1, <1>2, <1>3, <2>1, <2>3 DEF HandshakeOK, UnbornOK, Unborn, WritersOK, UnansweredOK, Accepting
<1>6. QED
  BY <1>4, <1>5

(* The process ends.                                                         *)
LEMMA GoneHandshake ==
    ASSUME IndInv, Close \/ ContainerDies
    PROVE  HandshakeOK'
<1>1. Gone /\ ThreadTypeOK
  BY DEF Close, ContainerDies, IndInv, TypeOK
<1>2. pc'[Main] = "idle" /\ \A r \in Requests : pc'[r] \notin InRequest
  BY <1>1, PodAssumption DEF Gone, ThreadTypeOK, Threads, InRequest
<1>3. QED
  BY <1>1, <1>2 DEF Gone, HandshakeOK, UnbornOK, WritersOK, UnansweredOK, OddOnly, StdinOK, Accepting
-----------------------------------------------------------------------------
LEMMA RegisterHandshake ==
    ASSUME IndInv, NEW t \in Threads, Register(t)
    PROVE  HandshakeOK'
<1>1. /\ HandshakeOK /\ ThreadTypeOK /\ nextId \in Nat /\ pc[t] = "idle" /\ MayRequest(t)
  BY DEF IndInv, TypeOK, ClientTypeOK, Register
<1>2. /\ UNCHANGED <<boot, initialized, filled, reader>> /\ UNCHANGED childVars
      /\ id' = [id EXCEPT ![t] = nextId] /\ pc' = [pc EXCEPT ![t] = "write"]
  BY DEF Register
<1>3. boot \notin Unborn
  BY <1>1 DEF MayRequest, Accepting, Unborn
<1>4. CASE t = Main
  <2>1. boot \in {"initialize", "tools"} /\ pc'[Main] = "write" /\ id'[Main] = nextId
    BY <1>1, <1>2, <1>4 DEF MayRequest, ThreadTypeOK
  <2>2. \A r \in Requests : pc'[r] = pc[r]
    BY <1>1, <1>2, <1>4, PodAssumption DEF ThreadTypeOK, Threads
  <2>3. QED
    BY <1>1, <1>2, <1>3, <1>4, <2>1, <2>2 DEF HandshakeOK, UnbornOK, WritersOK, UnansweredOK, OddOnly, StdinOK,
                                              Numbers, childVars
<1>5. CASE t # Main
  <2>1. boot \in Accepting
    BY <1>1, <1>5 DEF MayRequest
  <2>2. pc'[Main] = pc[Main] /\ id'[Main] = id[Main]
    BY <1>2, <1>5 DEF Threads
  <2>3. QED
    BY <1>1, <1>2, <1>3, <2>1, <2>2 DEF HandshakeOK, UnbornOK, WritersOK, UnansweredOK, OddOnly, StdinOK, Accepting,
                                        Numbers, childVars
<1>6. QED
  BY <1>4, <1>5

(* Only the main thread writes before the notification.                      *)
LEMMA WriteHandshake ==
    ASSUME IndInv, NEW t \in Threads, Write(t)
    PROVE  HandshakeOK'
<1>1. HandshakeOK /\ ThreadTypeOK /\ ChildTypeOK /\ pc[t] = "write" /\ id[t] \in Nat
  BY DEF IndInv, TypeOK, ThreadTypeOK, Write
<1>2. UNCHANGED <<boot, reader, id, child, stdout, working>> /\ UNCHANGED clientVars
  BY DEF Write
<1>3. /\ \A u \in Threads \ {t} : pc'[u] = pc[u]
      /\ pc'[t] \in {"wait", "popError"}
  BY <1>1 DEF Write, ThreadTypeOK
<1>4. initialized \/ (t = Main /\ boot = "initialize")
  BY <1>1 DEF HandshakeOK, WritersOK, Threads, InRequest
<1>5. boot \notin Unborn
  <2>1. t = Main => boot \in {"initialize", "tools"}
    BY <1>1 DEF HandshakeOK, WritersOK
  <2>2. QED
    BY <1>1, <1>4, <2>1 DEF HandshakeOK, UnbornOK, Unborn
<1>6. UnbornOK'
  BY <1>2, <1>5 DEF UnbornOK
<1>7. WritersOK'
  <2>1. boot = "initialize" => pc'[Main] \notin {"idle", "write"} \/ t # Main
    BY <1>3
  <2>2. boot = "initialize" => t = Main
    BY <1>1, <1>4 DEF HandshakeOK, WritersOK
  <2>3. pc'[Main] # "idle" => pc[Main] # "idle"
    BY <1>1, <1>3 DEF Threads
  <2>4. \A r \in Requests : pc'[r] \in InRequest => pc[r] \in InRequest
    BY <1>1, <1>3 DEF Threads, InRequest
  <2>5. QED
    BY <1>1, <1>2, <2>1, <2>2, <2>3, <2>4 DEF HandshakeOK, WritersOK, clientVars
<1>8. stdin' = stdin \/ stdin' = Append(stdin, id[t])
  BY DEF Write
<1>9. UnansweredOK'
  <2>1. pc'[Main] \in {"pop", "ok"} => pc[Main] \in {"pop", "ok"}
    BY <1>3 DEF Threads
  <2>2. QED
    BY <1>1, <1>2, <2>1 DEF HandshakeOK, UnansweredOK, OddOnly, clientVars
<1>10. StdinOK'
  <2>1. CASE stdin' = stdin
    BY <1>1, <1>2, <2>1 DEF HandshakeOK, StdinOK, Numbers, clientVars
  <2>2. CASE stdin' = Append(stdin, id[t])
    <3>1. /\ Len(stdin) \in Nat /\ Len(stdin') = Len(stdin) + 1 /\ stdin' # <<>>
          /\ \A i \in 1 .. Len(stdin) : stdin'[i] = stdin[i]
          /\ stdin'[Len(stdin) + 1] = id[t]
      BY <1>1, <2>2, AppendProperties, LenProperties DEF ChildTypeOK
    <3>2. /\ child # "greeted"
          /\ child = "answered" => initialized
          /\ child = "fresh" => t = Main /\ id[t] = 1 /\ stdin = <<>>
      BY <1>1, <1>4 DEF HandshakeOK, UnansweredOK, WritersOK
    <3>3. child = "answered" => Numbers(2)' /\ stdin'[1] = Note
      <4>1. child = "answered" => Len(stdin) \in Nat \ {0}
        BY <1>1, <3>2, EmptySeq DEF HandshakeOK, StdinOK, ChildTypeOK
      <4>2. child = "answered" => stdin[1] = Note /\ \A i \in 2 .. Len(stdin) : stdin[i] \in Nat
        BY <1>1, <3>2 DEF HandshakeOK, StdinOK, Numbers
      <4>3. QED
        BY <1>1, <3>1, <4>1, <4>2 DEF Numbers
    <3>4. child = "open" => Numbers(1)'
      <4>1. child = "open" => \A i \in 1 .. Len(stdin) : stdin[i] \in Nat
        BY <1>1 DEF HandshakeOK, StdinOK, Numbers
      <4>2. QED
        BY <1>1, <3>1, <4>1 DEF Numbers
    <3>5. child = "fresh" => Len(stdin') = 1 /\ stdin'[1] = 1
      BY <1>1, <3>1, <3>2, EmptySeq DEF ChildTypeOK
    <3>6. QED
      BY <1>1, <1>2, <3>1, <3>2, <3>3, <3>4, <3>5 DEF HandshakeOK, StdinOK, clientVars
  <2>3. QED
    BY <1>8, <2>1, <2>2
<1>11. QED
  BY <1>6, <1>7, <1>9, <1>10 DEF HandshakeOK

(* An answer can be taken only when the child has read a request.            *)
LEMMA AwaitHandshake ==
    ASSUME IndInv, NEW t \in Threads, Await(t) \/ Pop(t)
    PROVE  HandshakeOK'
<1>1. HandshakeOK /\ ThreadTypeOK /\ pc[t] \in {"wait", "pop", "popError"}
  BY DEF IndInv, TypeOK, Await, Pop
<1>2. /\ UNCHANGED <<boot, initialized, nextId, reader, id>> /\ UNCHANGED childVars
      /\ filled' \subseteq filled
  BY DEF Await, Pop
<1>3. /\ \A u \in Threads \ {t} : pc'[u] = pc[u]
      /\ pc'[t] \in {"pop", "popError", "ok", "failed"}
      /\ pc'[t] = "pop" => filled # {}
      /\ pc'[t] = "ok" => pc[t] = "pop"
  BY <1>1 DEF Await, Pop, ThreadTypeOK
<1>4. /\ pc'[Main] # "idle" => pc[Main] # "idle"
      /\ pc'[Main] \in {"idle", "write"} => pc'[Main] = pc[Main]
      /\ \A r \in Requests : pc'[r] \in InRequest => pc[r] \in InRequest
  BY <1>1, <1>3 DEF Threads, InRequest
<1>5. UnansweredOK'
  BY <1>1, <1>2, <1>3 DEF HandshakeOK, UnansweredOK, OddOnly, childVars, Threads
<1>6. QED
  BY <1>1, <1>2, <1>4, <1>5 DEF HandshakeOK, UnbornOK, WritersOK, StdinOK, Numbers, childVars
-----------------------------------------------------------------------------
LEMMA ReaderHandshake ==
    ASSUME IndInv, ReaderStep
    PROVE  HandshakeOK'
<1>1. /\ HandshakeOK /\ ChildTypeOK /\ 0 \notin pending
      /\ stdout # <<>> \/ reader # 0
  BY DEF IndInv, TypeOK, ClientTypeOK, ReaderStep, LookUp, Put
<1>2. /\ UNCHANGED <<boot, initialized, nextId, child, stdin, working>> /\ UNCHANGED threadVars
  BY DEF ReaderStep, LookUp, Put, clientVars, childVars
<1>3. boot \notin Unborn
  BY <1>1 DEF HandshakeOK, UnbornOK
<1>4. UnansweredOK'
  <2> SUFFICES ASSUME child \in {"fresh", "greeted"} PROVE UnansweredOK'
    BY <1>2 DEF UnansweredOK
  <2>1. LookUp /\ stdout # <<>> /\ OddOnly
    BY <1>1 DEF HandshakeOK, UnansweredOK, ReaderStep, Put
  <2>2. /\ Len(stdout) \in Nat \ {0} /\ Head(stdout) = stdout[1] /\ stdout' = Tail(stdout)
        /\ Len(stdout') = Len(stdout) - 1
        /\ \A i \in 1 .. Len(stdout') : stdout'[i] = stdout[i + 1]
    BY <1>1, <2>1, HeadTailProperties, EmptySeq DEF LookUp, ChildTypeOK
  <2>3. OddOnly'
    BY <2>1, <2>2 DEF OddOnly
  <2>4. Head(stdout) = 0
    BY <2>1, <2>2 DEF OddOnly, Odd
  <2>5. reader' = 0 /\ filled' = filled
    BY <1>1, <2>1, <2>4 DEF LookUp, clientVars
  <2>6. QED
    BY <1>1, <1>2, <2>3, <2>5 DEF HandshakeOK, UnansweredOK, threadVars
<1>5. QED
  BY <1>1, <1>2, <1>3, <1>4 DEF HandshakeOK, UnbornOK, WritersOK, StdinOK, Numbers, threadVars

LEMMA ReadHandshake ==
    ASSUME IndInv, Read
    PROVE  HandshakeOK'
<1> DEFINE m == Head(stdin)
<1>1. HandshakeOK /\ ChildTypeOK /\ child \in Running /\ stdin # <<>>
  BY DEF IndInv, TypeOK, Read
<1>2. UNCHANGED <<boot, reader>> /\ UNCHANGED clientVars /\ UNCHANGED threadVars /\ stdin' = Tail(stdin)
  BY DEF Read
<1>3. /\ Len(stdin) \in Nat \ {0} /\ m = stdin[1] /\ Len(stdin') = Len(stdin) - 1
      /\ \A i \in 1 .. Len(stdin') : stdin'[i] = stdin[i + 1]
      /\ stdin' \in Seq(Nat \cup {Note})
  BY <1>1, <1>2, HeadTailProperties, EmptySeq DEF ChildTypeOK
<1>4. boot \notin Unborn
  BY <1>1 DEF HandshakeOK, UnbornOK
<1>5. boot = "initialize" => pc[Main] \notin {"idle", "write"}
  BY <1>1 DEF HandshakeOK, WritersOK
<1>6. UnansweredOK'
  <2>1. child' \in {"fresh", "greeted"} => child = "fresh"
    BY <1>1 DEF Read, HandshakeOK, StdinOK, Running
  <2>2. UNCHANGED stdout
    BY DEF Read
  <2>3. QED
    BY <1>1, <1>2, <2>1, <2>2 DEF HandshakeOK, UnansweredOK, OddOnly, clientVars, threadVars
<1>7. StdinOK'
  <2>1. CASE child = "fresh"
    <3>1. m = 1 /\ Len(stdin) = 1 /\ working = {}
      BY <1>1, <1>3, <2>1 DEF HandshakeOK, StdinOK
    <3>2. child' = "greeted" /\ working' \subseteq {1}
      BY <2>1, <3>1 DEF Read
    <3>3. stdin' = <<>>
      BY <1>3, <3>1, EmptySeq
    <3>4. QED
      BY <3>2, <3>3 DEF StdinOK
  <2>2. CASE child = "answered"
    <3>1. initialized /\ m = Note /\ Numbers(2)
      BY <1>1, <1>3, <2>2 DEF HandshakeOK, StdinOK
    <3>2. child' = "open"
      BY <2>2, <3>1 DEF Read
    <3>3. Numbers(1)'
      BY <1>3, <3>1 DEF Numbers
    <3>4. QED
      BY <1>2, <3>1, <3>2, <3>3 DEF StdinOK, clientVars
  <2>3. CASE child = "open"
    <3>1. initialized /\ m # Note /\ Numbers(1)
      BY <1>1, <1>3, <2>3, PodAssumption DEF HandshakeOK, StdinOK, Numbers
    <3>2. child' = "open"
      BY <2>3, <3>1 DEF Read
    <3>3. Numbers(1)'
      BY <1>3, <3>1 DEF Numbers
    <3>4. QED
      BY <1>2, <3>1, <3>2, <3>3 DEF StdinOK, clientVars
  <2>4. QED
    BY <1>1, <2>1, <2>2, <2>3 DEF HandshakeOK, StdinOK, Running
<1>8. QED
  BY <1>1, <1>2, <1>4, <1>5, <1>6, <1>7 DEF HandshakeOK, UnbornOK, WritersOK, clientVars, threadVars

(* It answers only what it has read: initialize before anything else.        *)
LEMMA AnswerHandshake ==
    ASSUME IndInv, Answer
    PROVE  HandshakeOK'
<1>1. HandshakeOK /\ working # {}
  BY DEF IndInv, Answer
<1>2. /\ UNCHANGED <<boot, reader, stdin>> /\ UNCHANGED clientVars /\ UNCHANGED threadVars
      /\ working' \subseteq working
  BY DEF Answer
<1>3. boot \notin Unborn /\ child # "fresh"
  BY <1>1 DEF HandshakeOK, UnbornOK, StdinOK
<1>4. child' = IF child = "greeted" THEN "answered" ELSE child
  BY <1>1 DEF Answer, HandshakeOK, StdinOK
<1>5. UnansweredOK'
  BY <1>3, <1>4 DEF UnansweredOK
<1>6. WritersOK'
  <2>1. child = "greeted" => ~(boot = "initialize" /\ pc[Main] \in {"idle", "write"})
    BY <1>1 DEF HandshakeOK, WritersOK
  <2>2. QED
    BY <1>1, <1>2, <1>4, <2>1 DEF HandshakeOK, WritersOK, clientVars, threadVars
<1>7. StdinOK'
  BY <1>1, <1>2, <1>3, <1>4 DEF HandshakeOK, StdinOK, UnansweredOK, Numbers, clientVars
<1>8. QED
  BY <1>1, <1>2, <1>3, <1>5, <1>6, <1>7 DEF HandshakeOK, UnbornOK

LEMMA WriteOddHandshake ==
    ASSUME IndInv, WriteOdd
    PROVE  HandshakeOK'
<1>1. HandshakeOK /\ ChildTypeOK /\ child \in Running
  BY DEF IndInv, TypeOK, WriteOdd
<1>2. /\ UNCHANGED <<boot, reader, child, stdin, working>> /\ UNCHANGED clientVars
      /\ UNCHANGED threadVars /\ stdout' = Append(stdout, Odd)
  BY DEF WriteOdd
<1>3. boot \notin Unborn
  BY <1>1 DEF HandshakeOK, UnbornOK, Running
<1>4. OddOnly => OddOnly'
  BY <1>1, <1>2, AppendProperties DEF OddOnly, ChildTypeOK, Odd
<1>5. QED
  BY <1>1, <1>2, <1>3, <1>4 DEF HandshakeOK, UnbornOK, WritersOK, UnansweredOK, StdinOK, Numbers,
                                clientVars, threadVars

LEMMA ChildFailsHandshake ==
    ASSUME IndInv, ChildFails
    PROVE  HandshakeOK'
<1>1. HandshakeOK /\ Alive
  BY DEF IndInv, ChildFails
<1>2. UNCHANGED <<boot, reader, stdout>> /\ UNCHANGED clientVars /\ UNCHANGED threadVars
  BY DEF ChildFails
<1>3. child' \in {"dead", "hung"} /\ stdin' \in {stdin, <<>>}
  BY DEF ChildFails
<1>4. boot \notin Unborn
  BY <1>1 DEF HandshakeOK, UnbornOK, Alive, Running
<1>5. QED
  BY <1>1, <1>2, <1>3, <1>4 DEF HandshakeOK, UnbornOK, WritersOK, UnansweredOK, OddOnly, StdinOK,
                                clientVars, threadVars

LEMMA NextInv == IndInv /\ [Next]_vars => IndInv'
<1> SUFFICES ASSUME IndInv, [Next]_vars PROVE IndInv'
  OBVIOUS
<1>1. TypeOK'
  BY TypeInv DEF IndInv
<1>2. VolumesOK'
  BY VolumesInv DEF IndInv, HandshakeOK
<1>3. CASE BootStep \/ ContainerDies \/ ReplacePod
  BY <1>1, <1>2, <1>3, PlaceHandshake, ServeHandshake, SpawnHandshake, AfterRequestHandshake,
     NotifyHandshake, GoneHandshake DEF BootStep, IndInv
<1>4. ASSUME NEW t \in Threads, Register(t) \/ RequestStep(t) PROVE IndInv'
  BY <1>1, <1>2, <1>4, RegisterHandshake, WriteHandshake, AwaitHandshake DEF RequestStep, IndInv
<1>5. CASE ReaderStep \/ ChildStep \/ WriteOdd \/ ChildFails
  BY <1>1, <1>2, <1>5, ReaderHandshake, ReadHandshake, AnswerHandshake, WriteOddHandshake,
     ChildFailsHandshake DEF ChildStep, IndInv
<1>6. CASE UNCHANGED vars
  <2>1. HandshakeOK'
    BY <1>6 DEF IndInv, vars, clientVars, threadVars, childVars, HandshakeOK, UnbornOK, WritersOK,
               UnansweredOK, OddOnly, StdinOK, Numbers
  <2>2. QED
    BY <1>1, <1>2, <2>1 DEF IndInv
<1>7. QED
  BY <1>3, <1>4, <1>5, <1>6 DEF Next

THEOREM Invariance == Spec => []IndInv
BY InitIndInv, NextInv, PTL DEF Spec
-----------------------------------------------------------------------------
(* Client, reader, child and volumes keep to their types: above all, no      *)
(* request id that was not yet given out is ever awaited or answered, in any *)
(* life of the container.                                                    *)
THEOREM TypeCorrect == Spec => []TypeOK
BY Invariance, PTL DEF IndInv

(* Whatever the threads of StdioMcpClient write, fail or leave behind, the   *)
(* CodeGraph server gets the notification only after it has answered         *)
(* initialize, and other requests only after the notification.               *)
THEOREM TheHandshakeComesFirst == Spec => []HandshakeFirst
<1>1. IndInv => HandshakeFirst
  BY DEF IndInv, HandshakeOK, StdinOK, HandshakeFirst
<1>2. QED
  BY <1>1, Invariance, PTL

(* codegraph_generation_serve.py and codegraph_serve.py accept requests only *)
(* with the bundle asked for, in one whole copy: after any restarts in a     *)
(* registry worker, and in a generation Pod while no earlier container has   *)
(* placed anything on its volumes.  (ServesOneCopy, without that condition,  *)
(* does not hold.)                                                           *)
THEOREM WhatIsServedWasAskedFor == Spec => []ServesAsked
<1>1. IndInv => ServesAsked
  BY DEF IndInv, TypeOK, BootTypeOK, VolumesOK, AfterPlace, AfterRestore, ServesAsked, Accepting
<1>2. QED
  BY <1>1, Invariance, PTL
=============================================================================
