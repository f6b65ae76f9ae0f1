------------------------- MODULE ReferenceStoreProofs -------------------------
(***************************************************************************)
(* Machine-checked proofs about ReferenceStore, for any calls, connections,*)
(* documents, contents, batch and page sizes.                              *)
(*                                                                         *)
(* EmbeddingsOK adds to EmbeddingsDescribe what the backfill script knows  *)
(* of the rows it has read.  StoredOK adds to CataloguedIsStored what an   *)
(* ingestion has put into Qdrant before it writes its row; it holds while  *)
(* no purge hits the document, which is what the history whole[c] says.    *)
(* ScanOK, preserved along with them, bounds what ref_list has counted by  *)
(* the points below its offset, and says what the check before a write     *)
(* has seen.                                                               *)
(***************************************************************************)
EXTENDS ReferenceStore, FiniteSetTheorems, SequenceTheorems, WellFoundedInduction, TLAPS

Storing == {"batch", "catalog", "record"}

CallOK(c) ==
    /\ pc[c] \notin Storing => done[c] = 0
    /\ pc[c] \in {"list", "fetch"} \cup Storing => call[c].ns \in Namespaces
    /\ pc[c] = "list" => call[c].tool = "git_ingest_repo"
    /\ pc[c] = "fetch" => call[c].tool = "git_ingest_repo" \/ call[c].source \in Sources
    /\ pc[c] \in Storing => call[c].source \in Sources /\ text[c] \in Contents
    /\ pc[c] \in {"check", "put"} => call[c].source \in Paths

(* What call c has put into Qdrant.                                          *)
StoredOK(c) ==
    whole[c] =>
        /\ pc[c] = "batch" => \A i \in DOMAIN ChunksOf[text[c]] :
             i <= done[c] => <<Doc(c), i, ChunksOf[text[c]][i]>> \in points
        /\ pc[c] = "catalog" => ChunkPoints(Doc(c), text[c]) \subseteq points

EmbeddingOK(d) ==
    /\ catalog[d] # NoRow =>
         /\ catalog[d].embedding \in {Null, catalog[d].content}
         /\ catalog[d].embedding = Null =>
              backfill.step # "done" /\ (backfill.step = "update" => d \in DOMAIN backfill.rows)
    /\ d \in DOMAIN backfill.rows =>
         /\ catalog[d] # NoRow
         /\ catalog[d].embedding = Null => backfill.rows[d] = catalog[d].content
EmbeddingsOK == \A d \in Docs : EmbeddingOK(d)

CallsOK == \A c \in Calls : CallOK(c) /\ StoredOK(c)

IndInv == TypeOK /\ CallsOK /\ EmbeddingsOK /\ CataloguedIsStored
-----------------------------------------------------------------------------
(* Numbers and sets.                                                         *)

(* Min is the least element of the set of ids of points left to scroll.      *)
LEMMA LeastNatural ==
    ASSUME NEW T \in SUBSET Nat, T # {}
    PROVE  Min(T) \in T /\ \A y \in T : Min(T) =< y
<1>1. \E x \in T : \A y \in T : ~ (<<y, x>> \in OpToRel(<, Nat))
  BY WFMin, NatLessThanWellFounded
<1>2. \A x, y \in Nat : <<y, x>> \in OpToRel(<, Nat) <=> y < x
  BY DEF OpToRel
<1>3. PICK x \in T : \A y \in T : ~ (<<y, x>> \in OpToRel(<, Nat))
  BY <1>1
<1>4. ASSUME NEW y \in T PROVE x =< y
  <2>1. x \in Nat /\ y \in Nat /\ ~(y < x)
    BY <1>2, <1>3
  <2>2. QED
    BY <2>1
<1>5. QED
  BY <1>4 DEF Min

LEMMA ChunksSequence ==
    ASSUME NEW x \in Contents
    PROVE  Len(ChunksOf[x]) \in Nat /\ DOMAIN ChunksOf[x] = 1 .. Len(ChunksOf[x])
BY StoreAssumption, LenProperties

(* What is counted on a page of the scroll.                                  *)
LEMMA CountsArePoints ==
    ASSUME StoreTypeOK, NEW S \in SUBSET points
    PROVE  Cardinality(S) \in Nat
BY StoreAssumption, FS_Subset, FS_CardinalityType DEF StoreTypeOK

LEMMA NothingSelected == DOMAIN << >> = {}
OBVIOUS

LEMMA InitIndInv == Init => IndInv
<1> SUFFICES ASSUME Init PROVE IndInv
  OBVIOUS
<1>1. StoreTypeOK
  <2>1. file \in [Paths -> Contents \cup {Absent}]
    BY StoreAssumption DEF Init
  <2>2. conns \in [Connections -> Registrable \cup {NoConnection}]
    BY AbsenceAssumption DEF Init
  <2>3. points \subseteq Points
    <3>1. \A d \in DOMAIN Legacy : d \in Docs /\ Legacy[d] \in Contents
      BY StoreAssumption
    <3>2. \A d \in DOMAIN Legacy : ChunkPoints(d, Legacy[d]) \subseteq Points
      BY <3>1 DEF Points
    <3>3. QED
      BY <3>2 DEF Init
  <2>4. catalog \in [Docs -> Rows \cup {NoRow}]
    BY StoreAssumption DEF Init, Rows
  <2>5. provenance \subseteq Docs /\ backfill.step = "off" /\ DOMAIN backfill.rows = {}
    BY StoreAssumption, NothingSelected DEF Init
  <2>6. QED
    BY <2>1, <2>2, <2>3, <2>4, <2>5 DEF StoreTypeOK
<1>2. CallTypeOK
  BY DEF Init, CallTypeOK, CallType, Idle, Tools
<1>3. ListTypeOK
  BY DEF Init, ListTypeOK
<1>4. CallsOK
  BY DEF Init, CallsOK, CallOK, StoredOK, Storing
<1>5. EmbeddingsOK
  <2>1. backfill.step = "off" /\ DOMAIN backfill.rows = {}
    BY NothingSelected DEF Init
  <2>2. \A d \in Docs : catalog[d] # NoRow => catalog[d].embedding = Null
    BY DEF Init
  <2>3. QED
    BY <2>1, <2>2 DEF EmbeddingsOK, EmbeddingOK
<1>6. CataloguedIsStored
  BY DEF Init, CataloguedIsStored
<1>7. QED
  BY <1>1, <1>2, <1>3, <1>4, <1>5, <1>6 DEF IndInv, TypeOK
-----------------------------------------------------------------------------
(* The ways a call goes on.                                                  *)

OthersKept(c) ==
    \A d \in Calls \ {c} :
        /\ pc'[d] = pc[d] /\ call'[d] = call[d] /\ text'[d] = text[d]
        /\ done'[d] = done[d] /\ whole'[d] = whole[d]

LEMMA ReturnsOK ==
    ASSUME CallTypeOK, NEW c \in Calls, Returns(c)
    PROVE  CallTypeOK' /\ CallOK(c)' /\ StoredOK(c)' /\ OthersKept(c)
<1>1. Idle \in CallType
  BY DEF Idle, CallType, Tools
<1>2. CallTypeOK'
  BY <1>1 DEF CallTypeOK, Returns, Goto
<1>3. pc'[c] = "idle" /\ done'[c] = 0
  BY DEF CallTypeOK, Returns, Goto
<1>4. OthersKept(c)
  BY DEF OthersKept, CallTypeOK, Returns, Goto
<1>5. QED
  BY <1>2, <1>3, <1>4 DEF CallOK, StoredOK, Storing

LEMMA FileEndsOK ==
    ASSUME CallTypeOK, NEW c \in Calls, CallOK(c), pc[c] \in Storing, FileEnds(c)
    PROVE  CallTypeOK' /\ CallOK(c)' /\ StoredOK(c)' /\ OthersKept(c)
<1>1. CASE todo[c] = {}
  BY <1>1, ReturnsOK DEF FileEnds
<1>2. CASE todo[c] # {}
  <2>1. CallTypeOK'
    BY <1>2 DEF CallTypeOK, FileEnds, Moves, Goto
  <2>2. pc'[c] = "fetch" /\ done'[c] = 0 /\ call' = call
    BY <1>2 DEF CallTypeOK, FileEnds, Moves, Goto
  <2>3. OthersKept(c)
    BY <1>2 DEF OthersKept, CallTypeOK, FileEnds, Moves, Goto
  <2>4. QED
    BY <2>1, <2>2, <2>3 DEF CallOK, StoredOK, Storing
<1>3. QED
  BY <1>1, <1>2

(* The calls that a step of c leaves alone.                                  *)
LEMMA CallsKept ==
    ASSUME IndInv, NEW c \in Calls, OthersKept(c), points \subseteq points', CallOK(c)', StoredOK(c)'
    PROVE  CallsOK'
<1>1. ASSUME NEW d \in Calls, d # c PROVE CallOK(d)' /\ StoredOK(d)'
  BY <1>1 DEF IndInv, CallsOK, OthersKept, CallOK, StoredOK, Doc
<1>2. QED
  BY <1>1 DEF CallsOK

LEMMA CatalogKept ==
    ASSUME IndInv, points \subseteq points', catalog' = catalog
    PROVE  CataloguedIsStored'
BY DEF IndInv, CataloguedIsStored

LEMMA EmbeddingsKept ==
    ASSUME IndInv, catalog' = catalog, backfill' = backfill
    PROVE  EmbeddingsOK'
BY DEF IndInv, EmbeddingsOK, EmbeddingOK
-----------------------------------------------------------------------------
(* One lemma for each group of actions.                                      *)

LEMMA EventsInv ==
    ASSUME IndInv,
           \/ \E p \in Paths : Push(p)
           \/ \E n \in Connections : RepoAdd(n) \/ RepoRemove(n)
    PROVE  IndInv'
<1>1. UNCHANGED storeVars /\ UNCHANGED backfill /\ UNCHANGED callVars
  BY DEF Push, RepoAdd, RepoRemove
<1>2. TypeOK
  BY DEF IndInv
<1>3. file' \in [Paths -> Contents \cup {Absent}] /\ conns' \in [Connections -> Registrable \cup {NoConnection}]
  BY <1>2 DEF Push, RepoAdd, RepoRemove, TypeOK, StoreTypeOK
<1>4. StoreTypeOK'
  BY <1>1, <1>2, <1>3 DEF TypeOK, StoreTypeOK, storeVars
<1>5. CallTypeOK' /\ ListTypeOK'
  BY <1>1, <1>2 DEF TypeOK, CallTypeOK, ListTypeOK, callVars, listVars
<1>6. CallsOK'
  BY <1>1 DEF IndInv, CallsOK, CallOK, StoredOK, Doc, callVars, storeVars
<1>7. EmbeddingsOK' /\ CataloguedIsStored'
  BY <1>1, CatalogKept, EmbeddingsKept DEF storeVars
<1>8. QED
  BY <1>4, <1>5, <1>6, <1>7 DEF IndInv, TypeOK

Begins(c, args, next) ==
    /\ Starts(c, args) /\ Goto(c, next)
    /\ args \in CallType /\ next \in {"list", "fetch", "scroll", "check", "put"}
    /\ next \in {"list", "fetch"} => args.ns \in Namespaces
    /\ next = "list" => args.tool = "git_ingest_repo"
    /\ next = "fetch" => args.source \in Sources
    /\ next \in {"check", "put"} => args.source \in Paths

LEMMA EveryStart ==
    ASSUME StoreTypeOK, NEW c \in Calls, CallStarts(c)
    PROVE  \E args, next : Begins(c, args, next)
<1>1. \A k \in Connections : conns[k] # NoConnection => conns[k].provider \in Providers
  BY DEF StoreTypeOK, Registrable
<1>2. CASE IngestText(c)
  <2>1. PICK n \in Namespaces, x \in Contents :
          Starts(c, [Idle EXCEPT !.tool = "ref_ingest_text", !.ns = n, !.source = Manual, !.content = x])
    BY <1>2 DEF IngestText
  <2> DEFINE a == [Idle EXCEPT !.tool = "ref_ingest_text", !.ns = n, !.source = Manual, !.content = x]
  <2>2. a \in CallType /\ a.ns = n /\ a.source = Manual
    BY DEF CallType, Idle, Tools, Sources
  <2>3. Begins(c, a, "fetch")
    BY <1>2, <2>1, <2>2 DEF IngestText, Begins, Sources
  <2>4. QED
    BY <2>3
<1>3. CASE IngestFile(c)
  <2>1. PICK k \in Connections, n \in Namespaces, p \in Paths :
          /\ conns[k] # NoConnection
          /\ Starts(c, [Idle EXCEPT !.tool = "git_ingest_file", !.ns = n, !.source = p,
                                    !.provider = conns[k].provider])
    BY <1>3 DEF IngestFile
  <2> DEFINE a == [Idle EXCEPT !.tool = "git_ingest_file", !.ns = n, !.source = p,
                              !.provider = conns[k].provider]
  <2>2. a \in CallType /\ a.ns = n /\ a.source = p
    BY <1>1, <2>1 DEF CallType, Idle, Tools, Sources
  <2>3. Begins(c, a, "fetch")
    BY <1>3, <2>1, <2>2 DEF IngestFile, Begins, Sources
  <2>4. QED
    BY <2>3
<1>4. CASE IngestRepo(c)
  <2>1. PICK k \in Connections, n \in Namespaces :
          /\ conns[k] # NoConnection
          /\ Starts(c, [Idle EXCEPT !.tool = "git_ingest_repo", !.ns = n, !.provider = conns[k].provider])
    BY <1>4 DEF IngestRepo
  <2> DEFINE a == [Idle EXCEPT !.tool = "git_ingest_repo", !.ns = n, !.provider = conns[k].provider]
  <2>2. a \in CallType /\ a.ns = n /\ a.tool = "git_ingest_repo"
    BY <1>1, <2>1 DEF CallType, Idle, Tools, Sources
  <2>3. Begins(c, a, "list")
    BY <1>4, <2>1, <2>2 DEF IngestRepo, Begins
  <2>4. QED
    BY <2>3
<1>5. CASE StartList(c)
  <2> DEFINE a == [Idle EXCEPT !.tool = "ref_list"]
  <2>1. a \in CallType
    BY DEF CallType, Idle, Tools
  <2>2. Begins(c, a, "scroll")
    BY <1>5, <2>1 DEF StartList, Begins
  <2>3. QED
    BY <2>2
<1>6. CASE WriteFile(c)
  <2>1. PICK k \in Connections, w \in Written, overwrite \in BOOLEAN :
          /\ conns[k] # NoConnection
          /\ Starts(c, [Idle EXCEPT !.tool = "git_write_file", !.source = w[1], !.content = w[2],
                          !.provider = conns[k].provider, !.overwrite = overwrite])
          /\ Goto(c, IF conns[k].provider = "bitbucket server" THEN "put" ELSE "check")
    BY <1>6 DEF WriteFile
  <2> DEFINE a == [Idle EXCEPT !.tool = "git_write_file", !.source = w[1], !.content = w[2],
                          !.provider = conns[k].provider, !.overwrite = overwrite]
             next == IF conns[k].provider = "bitbucket server" THEN "put" ELSE "check"
  <2>2. w \in Paths \X Contents
    BY StoreAssumption
  <2>3. a \in CallType /\ a.source \in Paths
    BY <1>1, <2>1, <2>2 DEF CallType, Idle, Tools, Sources
  <2>4. Begins(c, a, next)
    BY <2>1, <2>3 DEF Begins
  <2>5. QED
    BY <2>4
<1>7. QED
  BY <1>2, <1>3, <1>4, <1>5, <1>6 DEF CallStarts

LEMMA StartsInv ==
    ASSUME IndInv, NEW c \in Calls, CallStarts(c)
    PROVE  IndInv'
<1>1. /\ StoreTypeOK /\ CallTypeOK /\ ListTypeOK /\ CallOK(c)
  BY DEF IndInv, TypeOK, CallsOK
<1>2. PICK args, next : Begins(c, args, next)
  BY <1>1, EveryStart
<1>3. /\ UNCHANGED <<file, conns, backfill, text, done, whole, chunks, todo, page>> /\ UNCHANGED storeVars
      /\ call' = [call EXCEPT ![c] = args] /\ pc[c] = "idle"
  BY <1>2 DEF Begins, CallStarts, Starts, IngestText, IngestFile, IngestRepo, StartList, WriteFile
<1>4. StoreTypeOK' /\ CallTypeOK'
  BY <1>1, <1>2, <1>3 DEF Begins, StoreTypeOK, CallTypeOK, Goto, storeVars
<1>5. ListTypeOK'
  BY <1>1, <1>3 DEF CallStarts, IngestText, IngestFile, IngestRepo, StartList, WriteFile, ListTypeOK,
                    StoreTypeOK
<1>6. /\ call'[c] = args /\ OthersKept(c) /\ done'[c] = 0
      /\ pc'[c] \in {"list", "fetch", "scroll", "check", "put"}
      /\ pc'[c] \in {"list", "fetch"} => args.ns \in Namespaces
      /\ pc'[c] = "list" => args.tool = "git_ingest_repo"
      /\ pc'[c] = "fetch" => args.source \in Sources
      /\ pc'[c] \in {"check", "put"} => args.source \in Paths
  BY <1>1, <1>2, <1>3 DEF Begins, CallTypeOK, CallOK, Storing, OthersKept, Goto
<1>7. CallOK(c)' /\ StoredOK(c)'
  BY <1>6 DEF CallOK, StoredOK, Storing
<1>8. CallsOK' /\ CataloguedIsStored' /\ EmbeddingsOK'
  BY <1>3, <1>6, <1>7, CallsKept, CatalogKept, EmbeddingsKept DEF storeVars
<1>9. QED
  BY <1>4, <1>5, <1>8 DEF IndInv, TypeOK

(* The steps of a call that only fetch, check or give up.                    *)
LEMMA CallOnly ==
    ASSUME IndInv, NEW c \in Calls, CallTypeOK', CallOK(c)', StoredOK(c)', OthersKept(c),
           file' \in [Paths -> Contents \cup {Absent}], ListTypeOK',
           UNCHANGED <<conns, backfill>>, UNCHANGED storeVars
    PROVE  IndInv'
<1>1. StoreTypeOK'
  BY DEF IndInv, TypeOK, StoreTypeOK, storeVars
<1>2. CallsOK' /\ CataloguedIsStored' /\ EmbeddingsOK'
  BY CallsKept, CatalogKept, EmbeddingsKept DEF storeVars
<1>3. QED
  BY <1>1, <1>2 DEF IndInv, TypeOK

LEMMA ListFilesInv ==
    ASSUME IndInv, NEW c \in Calls, ListFiles(c)
    PROVE  IndInv'
<1>1. CallTypeOK /\ CallOK(c) /\ pc[c] = "list" /\ StoreTypeOK /\ ListTypeOK
  BY DEF IndInv, TypeOK, CallsOK, ListFiles
<1>2. UNCHANGED <<file, conns, backfill>> /\ UNCHANGED storeVars /\ UNCHANGED listVars
  BY DEF ListFiles
<1>3. Listed(c) \subseteq Paths
  BY DEF Listed, Present, TreePageOf
<1>4. CASE Returns(c)
  BY <1>1, <1>2, <1>4, ReturnsOK, CallOnly DEF StoreTypeOK, ListTypeOK, listVars
<1>5. CASE ~Returns(c)
  <2>1. /\ todo' = [todo EXCEPT ![c] = @ \cup Listed(c)]
        /\ page' = [page EXCEPT ![c] = @ + 1] \/ page' = [page EXCEPT ![c] = 0]
        /\ pc' = pc \/ pc' = [pc EXCEPT ![c] = "fetch"]
        /\ UNCHANGED <<call, whole, text, done>>
    BY <1>5 DEF ListFiles, Moves, Goto
  <2>2. CallTypeOK'
    BY <1>1, <1>3, <2>1 DEF CallTypeOK
  <2>3. pc'[c] \in {"list", "fetch"} /\ OthersKept(c)
    BY <1>1, <2>1 DEF CallTypeOK, OthersKept
  <2>4. CallOK(c)' /\ StoredOK(c)'
    BY <1>1, <2>1, <2>3 DEF CallOK, StoredOK, Storing
  <2>5. QED
    BY <1>1, <1>2, <2>2, <2>3, <2>4, CallOnly DEF StoreTypeOK, ListTypeOK, listVars
<1>6. QED
  BY <1>4, <1>5

LEMMA FetchInv ==
    ASSUME IndInv, NEW c \in Calls, Fetch(c)
    PROVE  IndInv'
<1>1. CallTypeOK /\ CallOK(c) /\ pc[c] = "fetch" /\ StoreTypeOK /\ ListTypeOK
  BY DEF IndInv, TypeOK, CallsOK, Fetch
<1>2. UNCHANGED <<file, conns, backfill>> /\ UNCHANGED storeVars /\ UNCHANGED listVars
  BY DEF Fetch
<1>3. CASE Returns(c)
  BY <1>1, <1>2, <1>3, ReturnsOK, CallOnly DEF StoreTypeOK, ListTypeOK, listVars
<1>4. CASE /\ \E d : todo' = [todo EXCEPT ![c] = todo[c] \ {d}]
           /\ UNCHANGED <<pc, call, whole, page, text, done>>
  <2>1. CallTypeOK'
    BY <1>1, <1>4 DEF CallTypeOK
  <2>2. CallOK(c)' /\ StoredOK(c)' /\ OthersKept(c)
    BY <1>1, <1>4 DEF CallOK, StoredOK, OthersKept, Storing
  <2>3. QED
    BY <1>1, <1>2, <2>1, <2>2, CallOnly DEF StoreTypeOK, ListTypeOK, listVars
<1>5. CASE \E d \in Sources, got \in Contents :
             /\ Goto(c, "batch")
             /\ call' = [call EXCEPT ![c].source = d]
             /\ todo' = [todo EXCEPT ![c] = @ \ {d}]
             /\ text' = [text EXCEPT ![c] = got]
             /\ whole' = [whole EXCEPT ![c] = TRUE]
             /\ UNCHANGED <<page, done>>
  <2>1. PICK d \in Sources, got \in Contents :
             /\ Goto(c, "batch")
             /\ call' = [call EXCEPT ![c].source = d]
             /\ todo' = [todo EXCEPT ![c] = @ \ {d}]
             /\ text' = [text EXCEPT ![c] = got]
             /\ whole' = [whole EXCEPT ![c] = TRUE]
             /\ UNCHANGED <<page, done>>
    BY <1>5
  <2>2. CallTypeOK'
    BY <1>1, <2>1 DEF CallTypeOK, CallType, Goto
  <2>3. /\ pc'[c] = "batch" /\ call'[c].source = d /\ call'[c].ns = call[c].ns
        /\ text'[c] = got /\ done'[c] = 0 /\ OthersKept(c)
    BY <1>1, <2>1 DEF CallTypeOK, CallType, CallOK, OthersKept, Goto, Storing
  <2>4. CallOK(c)'
    BY <1>1, <2>3 DEF CallOK, Storing
  <2>5. \A i \in DOMAIN ChunksOf[got] : ~(i =< 0)
    BY ChunksSequence
  <2>6. StoredOK(c)'
    BY <2>3, <2>5 DEF StoredOK
  <2>7. QED
    BY <1>1, <1>2, <2>2, <2>3, <2>4, <2>6, CallOnly DEF StoreTypeOK, ListTypeOK, listVars
<1>6. QED
  <2>1. PICK d \in IF call[c].tool = "git_ingest_repo" THEN todo[c] ELSE {call[c].source} :
          LET got == IF d = Manual THEN call[c].content ELSE file[d] IN
          IF got = Absent \/ (got # Absent /\ ChunksOf[got] = << >>)
          THEN LET left == todo[c] \ {d} IN
               IF left # {}
               THEN /\ todo' = [todo EXCEPT ![c] = left]
                    /\ UNCHANGED <<pc, call, whole, page, text, done>>
               ELSE Returns(c)
          ELSE /\ Goto(c, "batch")
               /\ call' = [call EXCEPT ![c].source = d]
               /\ todo' = [todo EXCEPT ![c] = @ \ {d}]
               /\ text' = [text EXCEPT ![c] = got]
               /\ whole' = [whole EXCEPT ![c] = TRUE]
               /\ UNCHANGED <<page, done>>
    BY DEF Fetch
  <2>2. d \in Sources
    BY <1>1 DEF CallOK, CallTypeOK, Sources
  <2> DEFINE got == IF d = Manual THEN call[c].content ELSE file[d]
  <2>3. got \in Contents \cup {Absent}
    BY <1>1, <2>2 DEF CallTypeOK, CallType, StoreTypeOK, Sources
  <2>4. CASE got = Absent \/ (got # Absent /\ ChunksOf[got] = << >>)
    BY <2>1, <2>4, <1>3, <1>4
  <2>5. CASE ~(got = Absent \/ (got # Absent /\ ChunksOf[got] = << >>))
    BY <2>1, <2>2, <2>3, <2>5, <1>5
  <2>6. QED
    BY <2>4, <2>5

LEMMA WriteFileInv ==
    ASSUME IndInv, NEW c \in Calls, CheckFile(c) \/ Put(c) \/ WriteFails(c)
    PROVE  IndInv'
<1>1. CallTypeOK /\ CallOK(c) /\ StoreTypeOK /\ ListTypeOK
  BY DEF IndInv, TypeOK, CallsOK
<1>2. /\ pc[c] \in {"check", "put"} /\ UNCHANGED <<conns, backfill>>
      /\ UNCHANGED storeVars /\ UNCHANGED listVars
  BY DEF CheckFile, Put, WriteFails
<1>3. file' \in [Paths -> Contents \cup {Absent}]
  BY <1>1 DEF CheckFile, Put, WriteFails, CallTypeOK, CallType, StoreTypeOK
<1>4. ListTypeOK'
  BY <1>1, <1>2 DEF ListTypeOK, listVars
<1>5. CASE Returns(c)
  BY <1>1, <1>2, <1>3, <1>4, <1>5, ReturnsOK, CallOnly
<1>6. CASE ~Returns(c)
  <2>1. PICK seen \in {file[call[c].source], Absent} :
          /\ text' = [text EXCEPT ![c] = seen] /\ Moves(c, "put")
          /\ UNCHANGED <<todo, page, done>> /\ UNCHANGED file
    BY <1>6 DEF CheckFile, Put, WriteFails
  <2>2. call[c].source \in Paths /\ seen \in Contents \cup {Absent}
    BY <1>1, <1>2 DEF StoreTypeOK, CallOK
  <2>3. CallTypeOK'
    BY <1>1, <2>1, <2>2 DEF CallTypeOK, Moves, Goto
  <2>4. pc'[c] = "put" /\ call' = call /\ done' = done /\ OthersKept(c)
    BY <1>1, <2>1 DEF CallTypeOK, OthersKept, Moves, Goto
  <2>5. CallOK(c)' /\ StoredOK(c)'
    BY <1>1, <1>2, <2>2, <2>4 DEF CallOK, StoredOK, Storing
  <2>6. QED
    BY <1>2, <1>3, <1>4, <2>3, <2>4, <2>5, CallOnly
<1>7. QED
  BY <1>5, <1>6
-----------------------------------------------------------------------------
(* Ingestion.                                                                *)

LEMMA ObserveOK ==
    ASSUME ListTypeOK, points' \subseteq Points, Observe
    PROVE  ListTypeOK'
BY DEF ListTypeOK, Observe

(* What holds of a document while it is ingested.                            *)
LEMMA IngestedDocument ==
    ASSUME IndInv, NEW c \in Calls, pc[c] \in Storing
    PROVE  /\ Doc(c) \in Docs /\ text[c] \in Contents
           /\ ChunkPoints(Doc(c), text[c]) \subseteq Points
           /\ Row(c) \in Rows /\ Row(c).embedding # Null
<1>1. CallTypeOK /\ CallOK(c)
  BY DEF IndInv, TypeOK, CallsOK
<1>2. Doc(c) \in Docs /\ text[c] \in Contents
  BY <1>1 DEF CallOK, CallTypeOK, CallType, Doc, Docs, Storing
<1>3. ChunkPoints(Doc(c), text[c]) \subseteq Points
  BY <1>2 DEF Points
<1>4. Row(c) \in Rows /\ Row(c).embedding # Null
  BY <1>1, <1>2, StoreAssumption DEF Row, Rows, CallTypeOK
<1>5. QED
  BY <1>2, <1>3, <1>4

LEMMA BatchIsOfTheDocument ==
    ASSUME IndInv, NEW c \in Calls, pc[c] = "batch"
    PROVE  /\ BatchEnd(c) \in Nat /\ BatchEnd(c) =< Len(ChunksOf[text[c]])
           /\ Batch(c) \subseteq ChunkPoints(Doc(c), text[c])
<1>1. text[c] \in Contents /\ done[c] \in Nat
  BY IngestedDocument DEF Storing, IndInv, TypeOK, CallTypeOK
<1>2. /\ Len(ChunksOf[text[c]]) \in Nat
      /\ DOMAIN ChunksOf[text[c]] = 1 .. Len(ChunksOf[text[c]])
  BY <1>1, ChunksSequence
<1>3. BatchSize \in Nat
  BY StoreAssumption
<1> DEFINE T == {done[c] + BatchSize, Len(ChunksOf[text[c]])}
<1>4. T \in SUBSET Nat /\ T # {}
  BY <1>1, <1>2, <1>3
<1>5. Min(T) \in T /\ \A y \in T : Min(T) =< y
  BY <1>4, LeastNatural
<1>6. BatchEnd(c) \in Nat /\ BatchEnd(c) =< Len(ChunksOf[text[c]])
  BY <1>4, <1>5 DEF BatchEnd
<1>7. \A i \in (done[c] + 1) .. BatchEnd(c) : i \in DOMAIN ChunksOf[text[c]]
  BY <1>1, <1>2, <1>6
<1>8. Batch(c) \subseteq ChunkPoints(Doc(c), text[c])
  BY <1>7 DEF Batch, ChunkPoints
<1>9. QED
  BY <1>6, <1>8

LEMMA UpsertBatchInv ==
    ASSUME IndInv, NEW c \in Calls, UpsertBatch(c)
    PROVE  IndInv'
<1>1. CallTypeOK /\ CallOK(c) /\ StoredOK(c) /\ pc[c] = "batch" /\ StoreTypeOK /\ ListTypeOK
  BY DEF IndInv, TypeOK, CallsOK, UpsertBatch
<1> DEFINE last == Len(ChunksOf[text[c]])
<1>2. /\ points' = points \cup Batch(c) /\ Observe
      /\ UNCHANGED <<file, conns, catalog, provenance, backfill, todo, page, text>>
      /\ done' = [done EXCEPT ![c] = BatchEnd(c)]
      /\ Moves(c, IF BatchEnd(c) = last THEN "catalog" ELSE "batch")
  BY DEF UpsertBatch
<1>3. /\ text[c] \in Contents /\ ChunkPoints(Doc(c), text[c]) \subseteq Points
      /\ BatchEnd(c) \in Nat /\ Batch(c) \subseteq ChunkPoints(Doc(c), text[c])
  BY <1>1, IngestedDocument, BatchIsOfTheDocument DEF Storing
<1>4. StoreTypeOK' /\ ListTypeOK'
  BY <1>1, <1>2, <1>3, ObserveOK DEF StoreTypeOK
<1>5. CallTypeOK'
  BY <1>1, <1>2, <1>3 DEF CallTypeOK, Moves, Goto
<1>6. /\ done'[c] = BatchEnd(c) /\ UNCHANGED <<call, whole, text>>
      /\ pc'[c] = (IF BatchEnd(c) = last THEN "catalog" ELSE "batch") /\ OthersKept(c)
  BY <1>1, <1>2 DEF CallTypeOK, OthersKept, Moves, Goto
<1>7. CallOK(c)'
  BY <1>1, <1>6 DEF CallOK, Storing
<1>8. whole[c] => \A i \in DOMAIN ChunksOf[text[c]] :
        i =< BatchEnd(c) => <<Doc(c), i, ChunksOf[text[c]][i]>> \in points'
  <2> SUFFICES ASSUME whole[c], NEW i \in DOMAIN ChunksOf[text[c]], i =< BatchEnd(c)
               PROVE  <<Doc(c), i, ChunksOf[text[c]][i]>> \in points'
    OBVIOUS
  <2>1. CASE i =< done[c]
    BY <1>1, <1>2, <2>1 DEF StoredOK
  <2>2. CASE ~(i =< done[c])
    <3>1. done[c] \in Nat /\ i \in Nat
      BY <1>1, <1>3, ChunksSequence DEF CallTypeOK
    <3>2. i \in (done[c] + 1) .. BatchEnd(c)
      BY <1>3, <2>2, <3>1
    <3>3. QED
      BY <1>2, <3>2 DEF Batch
  <2>3. QED
    BY <2>1, <2>2
<1>9. StoredOK(c)'
  <2>1. \A i \in DOMAIN ChunksOf[text[c]] : i =< last
    BY <1>3, ChunksSequence
  <2>2. Doc(c)' = Doc(c)
    BY <1>6 DEF Doc
  <2>3. BatchEnd(c) = last /\ whole[c] => ChunkPoints(Doc(c), text[c]) \subseteq points'
    BY <1>8, <2>1 DEF ChunkPoints
  <2>4. QED
    BY <1>6, <1>8, <2>2, <2>3 DEF StoredOK
<1>10. CallsOK' /\ CataloguedIsStored' /\ EmbeddingsOK'
  BY <1>2, <1>6, <1>7, <1>9, CallsKept, CatalogKept, EmbeddingsKept
<1>11. QED
  BY <1>4, <1>5, <1>10 DEF IndInv, TypeOK

(* The row that an ingestion writes.                                         *)
LEMMA RowWritten ==
    ASSUME IndInv, NEW c \in Calls, pc[c] = "catalog",
           catalog' = [catalog EXCEPT ![Doc(c)] = Row(c)], UNCHANGED <<points, backfill>>
    PROVE  catalog' \in [Docs -> Rows \cup {NoRow}] /\ EmbeddingsOK' /\ CataloguedIsStored'
<1>1. /\ Doc(c) \in Docs /\ text[c] \in Contents /\ Row(c) \in Rows /\ Row(c).embedding # Null
      /\ catalog \in [Docs -> Rows \cup {NoRow}]
  BY IngestedDocument DEF Storing, IndInv, TypeOK, StoreTypeOK
<1>2. Row(c).content = text[c] /\ Row(c).embedding = text[c] /\ Row(c).whole = whole[c]
  BY DEF Row
<1>3. catalog' \in [Docs -> Rows \cup {NoRow}]
  BY <1>1
<1>4. catalog'[Doc(c)] = Row(c) /\ \A d \in Docs : d # Doc(c) => catalog'[d] = catalog[d]
  BY <1>1
<1>5. EmbeddingsOK'
  <2>1. ASSUME NEW d \in Docs, d = Doc(c) PROVE EmbeddingOK(d)'
    BY <1>1, <1>2, <1>4, <2>1, AbsenceAssumption DEF EmbeddingOK
  <2>2. ASSUME NEW d \in Docs, d # Doc(c) PROVE EmbeddingOK(d)'
    BY <1>4, <2>2 DEF IndInv, EmbeddingsOK, EmbeddingOK
  <2>3. QED
    BY <2>1, <2>2 DEF EmbeddingsOK
<1>6. CataloguedIsStored'
  <2>1. whole[c] => ChunkPoints(Doc(c), text[c]) \subseteq points
    BY DEF IndInv, CallsOK, StoredOK
  <2>2. QED
    BY <1>2, <1>4, <2>1 DEF IndInv, CataloguedIsStored
<1>7. QED
  BY <1>3, <1>5, <1>6

LEMMA UpsertDocumentInv ==
    ASSUME IndInv, NEW c \in Calls, UpsertDocument(c)
    PROVE  IndInv'
<1>1. CallTypeOK /\ CallOK(c) /\ pc[c] = "catalog" /\ StoreTypeOK /\ ListTypeOK
  BY DEF IndInv, TypeOK, CallsOK, UpsertDocument
<1>2. /\ catalog' = [catalog EXCEPT ![Doc(c)] = Row(c)] /\ Moves(c, "record")
      /\ UNCHANGED <<file, conns, points, provenance, backfill, todo, page, text, done>>
      /\ UNCHANGED listVars
  BY DEF UpsertDocument
<1>3. catalog' \in [Docs -> Rows \cup {NoRow}] /\ EmbeddingsOK' /\ CataloguedIsStored'
  BY <1>1, <1>2, RowWritten
<1>4. StoreTypeOK' /\ ListTypeOK'
  BY <1>1, <1>2, <1>3 DEF StoreTypeOK, ListTypeOK, listVars
<1>5. CallTypeOK'
  BY <1>1, <1>2 DEF CallTypeOK, Moves, Goto
<1>6. pc'[c] = "record" /\ UNCHANGED <<call, whole, text, done>> /\ OthersKept(c)
  BY <1>1, <1>2 DEF CallTypeOK, OthersKept, Moves, Goto
<1>7. CallOK(c)' /\ StoredOK(c)'
  BY <1>1, <1>6 DEF CallOK, StoredOK, Storing
<1>8. CallsOK'
  BY <1>2, <1>6, <1>7, CallsKept
<1>9. QED
  BY <1>3, <1>4, <1>5, <1>8 DEF IndInv, TypeOK

LEMMA RecordProvenanceInv ==
    ASSUME IndInv, NEW c \in Calls, RecordProvenance(c)
    PROVE  IndInv'
<1>1. CallTypeOK /\ CallOK(c) /\ pc[c] = "record" /\ StoreTypeOK /\ ListTypeOK
  BY DEF IndInv, TypeOK, CallsOK, RecordProvenance
<1>2. /\ provenance' = provenance \cup {Doc(c)} /\ FileEnds(c)
      /\ UNCHANGED <<file, conns, points, catalog, backfill>> /\ UNCHANGED listVars
  BY DEF RecordProvenance
<1>3. Doc(c) \in Docs
  BY <1>1, IngestedDocument DEF Storing
<1>4. StoreTypeOK' /\ ListTypeOK'
  BY <1>1, <1>2, <1>3 DEF StoreTypeOK, ListTypeOK, listVars
<1>5. CallTypeOK' /\ CallOK(c)' /\ StoredOK(c)' /\ OthersKept(c)
  BY <1>1, <1>2, FileEndsOK DEF Storing
<1>6. CallsOK' /\ CataloguedIsStored' /\ EmbeddingsOK'
  BY <1>2, <1>5, CallsKept, CatalogKept, EmbeddingsKept
<1>7. QED
  BY <1>4, <1>5, <1>6 DEF IndInv, TypeOK

LEMMA IngestFailsInv ==
    ASSUME IndInv, NEW c \in Calls, IngestFails(c)
    PROVE  IndInv'
<1>1. CallTypeOK /\ CallOK(c) /\ StoreTypeOK /\ ListTypeOK
  BY DEF IndInv, TypeOK, CallsOK
<1>2. UNCHANGED <<file, conns, backfill>>
  BY DEF IngestFails
<1>3. CASE pc[c] \in {"list", "fetch"}
  <2>1. UNCHANGED storeVars /\ UNCHANGED listVars
    BY <1>3 DEF IngestFails
  <2>2. CASE Returns(c)
    BY <1>1, <1>2, <2>1, <2>2, ReturnsOK, CallOnly DEF StoreTypeOK, ListTypeOK, listVars
  <2>3. CASE ~Returns(c)
    <3>1. /\ \E d : todo' = [todo EXCEPT ![c] = @ \ {d}]
          /\ UNCHANGED <<pc, call, whole, page, text, done>>
      BY <1>3, <2>3 DEF IngestFails
    <3>2. CallTypeOK'
      BY <1>1, <3>1 DEF CallTypeOK
    <3>3. CallOK(c)' /\ StoredOK(c)' /\ OthersKept(c)
      BY <1>1, <1>3, <3>1 DEF CallOK, StoredOK, OthersKept, Storing
    <3>4. QED
      BY <1>1, <1>2, <2>1, <3>2, <3>3, CallOnly DEF StoreTypeOK, ListTypeOK, listVars
  <2>4. QED
    BY <2>2, <2>3
<1>4. CASE pc[c] \in Storing
  <2>1. FileEnds(c) /\ points \subseteq points'
    BY <1>4 DEF IngestFails, Storing
  <2>2. CallTypeOK' /\ CallOK(c)' /\ StoredOK(c)' /\ OthersKept(c)
    BY <1>1, <1>4, <2>1, FileEndsOK
  <2>3. CallsOK'
    BY <2>1, <2>2, CallsKept
  <2>4. Doc(c) \in Docs /\ ChunkPoints(Doc(c), text[c]) \subseteq Points
    BY <1>4, IngestedDocument
  <2>5. CASE pc[c] = "batch"
    <3>1. points' \in {points, points \cup Batch(c)} /\ Observe /\ UNCHANGED <<catalog, provenance>>
      BY <2>5 DEF IngestFails
    <3>2. Batch(c) \subseteq Points
      BY <2>4, <2>5, BatchIsOfTheDocument
    <3>3. StoreTypeOK' /\ ListTypeOK'
      BY <1>1, <1>2, <3>1, <3>2, ObserveOK DEF StoreTypeOK
    <3>4. EmbeddingsOK' /\ CataloguedIsStored'
      BY <1>2, <2>1, <3>1, EmbeddingsKept, CatalogKept
    <3>5. QED
      BY <2>2, <2>3, <3>3, <3>4 DEF IndInv, TypeOK
  <2>6. CASE pc[c] = "catalog"
    <3>1. /\ catalog' = catalog \/ catalog' = [catalog EXCEPT ![Doc(c)] = Row(c)]
          /\ UNCHANGED <<points, provenance>> /\ UNCHANGED listVars
      BY <2>6 DEF IngestFails
    <3>2. catalog' \in [Docs -> Rows \cup {NoRow}] /\ EmbeddingsOK' /\ CataloguedIsStored'
      BY <1>1, <1>2, <2>6, <3>1, RowWritten, EmbeddingsKept, CatalogKept DEF StoreTypeOK
    <3>3. StoreTypeOK' /\ ListTypeOK'
      BY <1>1, <1>2, <3>1, <3>2 DEF StoreTypeOK, ListTypeOK, listVars
    <3>4. QED
      BY <2>2, <2>3, <3>2, <3>3 DEF IndInv, TypeOK
  <2>7. CASE pc[c] = "record"
    <3>1. /\ provenance' \in {provenance, provenance \cup {Doc(c)}}
          /\ UNCHANGED <<points, catalog>> /\ UNCHANGED listVars
      BY <2>7 DEF IngestFails
    <3>2. StoreTypeOK' /\ ListTypeOK'
      BY <1>1, <1>2, <2>4, <3>1 DEF StoreTypeOK, ListTypeOK, listVars
    <3>3. EmbeddingsOK' /\ CataloguedIsStored'
      BY <1>2, <3>1, EmbeddingsKept, CatalogKept
    <3>4. QED
      BY <2>2, <2>3, <3>2, <3>3 DEF IndInv, TypeOK
  <2>8. QED
    BY <1>4, <2>5, <2>6, <2>7 DEF Storing
<1>5. QED
  BY <1>3, <1>4 DEF IngestFails, Storing
-----------------------------------------------------------------------------
(* ref_purge, ref_list, the backfill script and the restart.                 *)

LEMMA PurgeInv ==
    ASSUME IndInv, NEW n \in Namespaces, Purge(n)
    PROVE  IndInv'
<1>1. StoreTypeOK /\ CallTypeOK /\ ListTypeOK
  BY DEF IndInv, TypeOK
<1>2. /\ points' = {p \in points : p[1][1] # n} /\ Observe
      /\ UNCHANGED <<file, conns, provenance, backfill, pc, call, todo, page, text, done>>
      /\ whole' = [c \in Calls |-> whole[c] /\ call[c].ns # n]
      /\ catalog' = [d \in Docs |->
           IF d[1] = n /\ catalog[d] # NoRow THEN [catalog[d] EXCEPT !.whole = FALSE] ELSE catalog[d]]
  BY DEF Purge
<1>3. ASSUME NEW d \in Docs
      PROVE  /\ catalog'[d] = NoRow <=> catalog[d] = NoRow
             /\ catalog'[d] \in Rows \cup {NoRow}
             /\ catalog[d] # NoRow => /\ catalog'[d].content = catalog[d].content
                                      /\ catalog'[d].embedding = catalog[d].embedding
                                      /\ catalog'[d].whole => catalog[d].whole /\ d[1] # n
  <2>1. CASE d[1] = n /\ catalog[d] # NoRow
    <3>1. catalog[d] \in Rows /\ catalog'[d] = [catalog[d] EXCEPT !.whole = FALSE]
      BY <1>1, <1>2, <2>1 DEF StoreTypeOK
    <3>2. /\ catalog'[d] \in Rows /\ catalog'[d].content = catalog[d].content
          /\ catalog'[d].embedding = catalog[d].embedding /\ ~catalog'[d].whole
      BY <3>1 DEF Rows
    <3>3. QED
      BY <2>1, <3>2, AbsenceAssumption
  <2>2. CASE ~(d[1] = n /\ catalog[d] # NoRow)
    BY <1>1, <1>2, <2>2 DEF StoreTypeOK
  <2>3. QED
    BY <2>1, <2>2
<1>4. StoreTypeOK' /\ ListTypeOK'
  <2>1. points' \subseteq Points
    BY <1>1, <1>2 DEF StoreTypeOK
  <2>2. catalog' \in [Docs -> Rows \cup {NoRow}]
    BY <1>2, <1>3
  <2>3. QED
    BY <1>1, <1>2, <2>1, <2>2, ObserveOK DEF StoreTypeOK
<1>5. CallTypeOK'
  BY <1>1, <1>2 DEF CallTypeOK
<1>6. \A d \in Docs, x \in Contents : d[1] # n /\ ChunkPoints(d, x) \subseteq points
        => ChunkPoints(d, x) \subseteq points'
  BY <1>2 DEF ChunkPoints
<1>7. CataloguedIsStored'
  <2>1. \A d \in Docs : catalog[d] # NoRow => catalog[d].content \in Contents
    BY <1>1 DEF StoreTypeOK, Rows
  <2>2. QED
    BY <1>3, <1>6, <2>1 DEF IndInv, CataloguedIsStored
<1>8. EmbeddingsOK'
  BY <1>2, <1>3 DEF IndInv, EmbeddingsOK, EmbeddingOK
<1>9. ASSUME NEW c \in Calls PROVE CallOK(c)' /\ StoredOK(c)'
  <2>1. CallOK(c)'
    BY <1>2 DEF IndInv, CallsOK, CallOK
  <2>2. whole'[c] => whole[c] /\ Doc(c)[1] # n /\ Doc(c)' = Doc(c)
    BY <1>2 DEF Doc
  <2>3. CASE pc[c] \notin Storing
    BY <1>2, <2>1, <2>3 DEF StoredOK, Storing
  <2>4. CASE pc[c] \in Storing
    <3>1. Doc(c) \in Docs /\ text[c] \in Contents
      BY <2>4, IngestedDocument
    <3>2. StoredOK(c)
      BY DEF IndInv, CallsOK
    <3>3. \A i : <<Doc(c), i, ChunksOf[text[c]][i]>> \in points /\ Doc(c)[1] # n
            => <<Doc(c), i, ChunksOf[text[c]][i]>> \in points'
      BY <1>2
    <3>4. QED
      BY <1>2, <1>6, <2>1, <2>2, <3>1, <3>2, <3>3 DEF StoredOK
  <2>5. QED
    BY <2>3, <2>4
<1>10. QED
  BY <1>4, <1>5, <1>7, <1>8, <1>9 DEF IndInv, TypeOK, CallsOK

LEMMA ListingInv ==
    ASSUME IndInv, NEW c \in Calls, Scroll(c) \/ Report(c) \/ ScrollFails(c)
    PROVE  IndInv'
<1>1. StoreTypeOK /\ CallTypeOK /\ ListTypeOK /\ CallOK(c)
  BY DEF IndInv, TypeOK, CallsOK
<1>2. UNCHANGED <<file, conns, backfill>> /\ UNCHANGED storeVars
  BY DEF Scroll, Report, ScrollFails, ScrollEnds
<1>3. file' \in [Paths -> Contents \cup {Absent}]
  BY <1>1, <1>2 DEF StoreTypeOK
<1>4. CASE Returns(c)
  <2>1. ~Scroll(c)
    BY <1>1, <1>4 DEF Scroll, Moves, Goto, Returns, CallTypeOK
  <2>2. ListTypeOK'
    <3>1. /\ chunks' = [chunks EXCEPT ![c] = [n \in Namespaces |-> 0]]
          /\ lasting' = [lasting EXCEPT ![c] = {}] /\ ever' = [ever EXCEPT ![c] = {}]
      BY <2>1 DEF Report, ScrollFails, ScrollEnds
    <3>2. [n \in Namespaces |-> 0] \in [Namespaces -> Nat]
      OBVIOUS
    <3>3. QED
      BY <1>1, <3>1, <3>2 DEF ListTypeOK
  <2>3. QED
    BY <1>1, <1>2, <1>3, <1>4, <2>2, ReturnsOK, CallOnly
<1>5. CASE ~Returns(c)
  <2>1. Scroll(c) /\ pc[c] = "scroll"
    BY <1>5 DEF Report, ScrollFails, ScrollEnds, Scroll
  <2>2. \/ Moves(c, "report") /\ page' = [page EXCEPT ![c] = 0]
        \/ page' = [page EXCEPT ![c] = NextOffset(page[c])] /\ UNCHANGED <<pc, call, whole>>
    BY <2>1 DEF Scroll
  <2>3. From(page[c]) # ScrollPageOf(page[c]) => NextOffset(page[c]) \in Nat
    <3> DEFINE left == {RankOf[p] : p \in From(page[c]) \ ScrollPageOf(page[c])}
    <3>1. left \in SUBSET Nat
      <4>1. \A p \in Points : RankOf[p] \in Nat
        BY StoreAssumption
      <4>2. points \subseteq Points
        BY <1>1 DEF StoreTypeOK
      <4>3. From(page[c]) \subseteq points
        BY Zenon DEF From
      <4>4. \A p \in From(page[c]) \ ScrollPageOf(page[c]) : RankOf[p] \in Nat
        BY <4>1, <4>2, <4>3, Zenon
      <4>5. QED
        BY <4>4, Zenon
    <3>2. ASSUME From(page[c]) # ScrollPageOf(page[c]) PROVE left # {}
      <4>1. ScrollPageOf(page[c]) \subseteq From(page[c])
        BY Zenon DEF ScrollPageOf
      <4>2. PICK p : p \in From(page[c]) \ ScrollPageOf(page[c])
        BY <3>2, <4>1, Zenon
      <4>3. RankOf[p] \in left
        BY <4>2, Zenon
      <4>4. QED
        BY <4>3, Zenon
    <3>3. QED
      BY <3>1, <3>2, LeastNatural DEF NextOffset
  <2>4. page' \in [Calls -> Nat]
    BY <1>1, <2>1, <2>3 DEF Scroll, CallTypeOK
  <2>5. UNCHANGED <<call, whole, todo, text, done>> /\ (pc' = pc \/ pc' = [pc EXCEPT ![c] = "report"])
    BY <2>1, <2>2 DEF Scroll, Moves, Goto
  <2>6. CallTypeOK'
    BY <1>1, <2>4, <2>5 DEF CallTypeOK
  <2>7. pc'[c] \in {"scroll", "report"} /\ OthersKept(c)
    BY <1>1, <2>1, <2>5 DEF CallTypeOK, OthersKept
  <2>8. CallOK(c)' /\ StoredOK(c)'
    BY <1>1, <2>1, <2>5, <2>7 DEF CallOK, StoredOK, Storing
  <2>9. ListTypeOK'
    <3>1. \A n \in Namespaces : Cardinality({p \in ScrollPageOf(page[c]) : p[1][1] = n}) \in Nat
      BY <1>1, CountsArePoints DEF ScrollPageOf, From
    <3>2. chunks' \in [Calls -> [Namespaces -> Nat]]
      BY <1>1, <2>1, <3>1 DEF Scroll, ListTypeOK
    <3>3. QED
      BY <1>1, <2>1, <3>2 DEF Scroll, ListTypeOK
  <2>10. QED
    BY <1>2, <1>3, <2>6, <2>7, <2>8, <2>9, CallOnly
<1>6. QED
  BY <1>4, <1>5

LEMMA BackfillInv ==
    ASSUME IndInv, BackfillSelect \/ BackfillUpdate \/ BackfillFails
    PROVE  IndInv'
<1>1. StoreTypeOK /\ CallTypeOK /\ ListTypeOK /\ CallsOK /\ EmbeddingsOK /\ CataloguedIsStored
  BY DEF IndInv, TypeOK
<1>2. UNCHANGED <<file, conns, points, provenance>> /\ UNCHANGED callVars
  BY DEF BackfillSelect, BackfillUpdate, BackfillFails, storeVars
<1>3. CallTypeOK' /\ ListTypeOK' /\ CallsOK'
  <2>1. CallTypeOK' /\ ListTypeOK'
    BY <1>1, <1>2 DEF CallTypeOK, ListTypeOK, callVars, listVars
  <2>2. CallsOK'
    BY <1>1, <1>2 DEF CallsOK, CallOK, StoredOK, Doc, callVars
  <2>3. QED
    BY <2>1, <2>2
<1>4. CASE BackfillSelect
  <2> DEFINE rows == [d \in {e \in Docs : catalog[e] # NoRow /\ catalog[e].embedding = Null}
                        |-> catalog[d].content]
  <2>1. backfill' = [step |-> "update", rows |-> rows] /\ catalog' = catalog
    BY <1>4 DEF BackfillSelect, storeVars
  <2>2. /\ backfill'.step = "update"
        /\ DOMAIN backfill'.rows = {e \in Docs : catalog[e] # NoRow /\ catalog[e].embedding = Null}
        /\ \A d \in DOMAIN backfill'.rows : backfill'.rows[d] = catalog[d].content
    BY <2>1
  <2>3. StoreTypeOK'
    BY <1>1, <1>2, <2>1, <2>2 DEF StoreTypeOK
  <2>4. EmbeddingsOK'
    BY <1>1, <2>1, <2>2 DEF EmbeddingsOK, EmbeddingOK
  <2>5. QED
    BY <1>2, <1>3, <2>1, <2>3, <2>4, CatalogKept DEF IndInv, TypeOK
<1>5. CASE BackfillFails
  <2>1. backfill'.step = "off" /\ DOMAIN backfill'.rows = {} /\ catalog' = catalog
    BY <1>5, NothingSelected DEF BackfillFails, storeVars
  <2>2. StoreTypeOK'
    BY <1>1, <1>2, <2>1 DEF StoreTypeOK
  <2>3. EmbeddingsOK'
    BY <1>1, <2>1 DEF EmbeddingsOK, EmbeddingOK
  <2>4. QED
    BY <1>2, <1>3, <2>1, <2>2, <2>3, CatalogKept DEF IndInv, TypeOK
<1>6. CASE BackfillUpdate /\ DOMAIN backfill.rows = {}
  <2>1. /\ backfill'.step = "done" /\ DOMAIN backfill'.rows = {} /\ catalog' = catalog
        /\ backfill.step = "update"
    BY <1>6, NothingSelected DEF BackfillUpdate
  <2>2. StoreTypeOK'
    BY <1>1, <1>2, <2>1 DEF StoreTypeOK
  <2>3. EmbeddingsOK'
    BY <1>1, <1>6, <2>1 DEF EmbeddingsOK, EmbeddingOK
  <2>4. QED
    BY <1>2, <1>3, <2>1, <2>2, <2>3, CatalogKept DEF IndInv, TypeOK
<1>7. CASE BackfillUpdate /\ DOMAIN backfill.rows # {}
  <2>1. PICK batch \in SUBSET DOMAIN backfill.rows :
          /\ BackfillStores(batch)
          /\ backfill' = [step |-> "update",
               rows |-> [d \in DOMAIN backfill.rows \ batch |-> backfill.rows[d]]]
    BY <1>7 DEF BackfillUpdate
  <2>2. /\ backfill'.step = "update" /\ backfill.step = "update"
        /\ DOMAIN backfill'.rows = DOMAIN backfill.rows \ batch
        /\ \A d \in DOMAIN backfill'.rows : backfill'.rows[d] = backfill.rows[d]
        /\ DOMAIN backfill.rows \subseteq Docs
    BY <1>1, <1>7, <2>1 DEF BackfillUpdate, StoreTypeOK
  <2>3. ASSUME NEW d \in Docs, d \in batch, catalog[d].embedding = Null
        PROVE  /\ catalog'[d] \in Rows /\ catalog[d] # NoRow
               /\ catalog'[d].content = catalog[d].content /\ catalog'[d].whole = catalog[d].whole
               /\ catalog'[d].embedding = catalog[d].content
    <3>1. /\ catalog[d] # NoRow /\ backfill.rows[d] = catalog[d].content
          /\ catalog'[d] = [catalog[d] EXCEPT !.embedding = backfill.rows[d]]
      BY <1>1, <2>1, <2>3 DEF EmbeddingsOK, EmbeddingOK, BackfillStores
    <3>2. catalog[d] \in Rows
      BY <1>1, <3>1 DEF StoreTypeOK
    <3>3. QED
      BY <3>1, <3>2 DEF Rows
  <2>4. \A d \in Docs : ~(d \in batch /\ catalog[d].embedding = Null) => catalog'[d] = catalog[d]
    BY <2>1 DEF BackfillStores
  <2>5. StoreTypeOK'
    <3>1. \A d \in Docs : catalog'[d] \in Rows \cup {NoRow}
      BY <1>1, <2>3, <2>4 DEF StoreTypeOK
    <3>2. catalog' \in [Docs -> Rows \cup {NoRow}]
      BY <2>1, <3>1 DEF BackfillStores
    <3>3. QED
      BY <1>1, <1>2, <2>2, <3>2 DEF StoreTypeOK
  <2>6. ASSUME NEW d \in Docs PROVE EmbeddingOK(d)'
    <3>1. EmbeddingOK(d)
      BY <1>1 DEF EmbeddingsOK
    <3>2. CASE d \in batch /\ catalog[d].embedding = Null
      <4>1. catalog'[d].content # Null
        BY <2>3, <3>2, StoreAssumption DEF Rows
      <4>2. catalog'[d] # NoRow
        BY <2>3, <3>2, AbsenceAssumption
      <4>3. QED
        BY <2>2, <2>3, <3>2, <4>1, <4>2 DEF EmbeddingOK
    <3>3. CASE ~(d \in batch /\ catalog[d].embedding = Null)
      <4>1. catalog'[d] = catalog[d]
        BY <2>4, <3>3
      <4>2. catalog[d].embedding = Null /\ d \in DOMAIN backfill.rows => d \in DOMAIN backfill'.rows
        BY <2>2, <3>3
      <4>3. QED
        BY <2>2, <3>1, <4>1, <4>2 DEF EmbeddingOK
    <3>4. QED
      BY <3>2, <3>3
  <2>7. CataloguedIsStored'
    BY <1>1, <1>2, <2>3, <2>4 DEF CataloguedIsStored
  <2>8. QED
    BY <1>3, <2>5, <2>6, <2>7 DEF IndInv, TypeOK, EmbeddingsOK
<1>8. QED
  BY <1>4, <1>5, <1>6, <1>7

LEMMA RestartInv ==
    ASSUME IndInv, Restart
    PROVE  IndInv'
<1>1. StoreTypeOK /\ CallTypeOK /\ ListTypeOK
  BY DEF IndInv, TypeOK
<1>2. UNCHANGED <<file, conns, backfill>> /\ UNCHANGED storeVars
  BY DEF Restart
<1>3. StoreTypeOK'
  BY <1>1, <1>2 DEF StoreTypeOK, storeVars
<1>4. CallTypeOK'
  BY DEF Restart, CallTypeOK, CallType, Idle, Tools
<1>5. ListTypeOK'
  BY DEF Restart, ListTypeOK
<1>6. CallsOK'
  BY DEF Restart, CallsOK, CallOK, StoredOK, Storing
<1>7. EmbeddingsOK' /\ CataloguedIsStored'
  BY <1>2, CatalogKept, EmbeddingsKept DEF storeVars
<1>8. QED
  BY <1>3, <1>4, <1>5, <1>6, <1>7 DEF IndInv, TypeOK

LEMMA StutterInv ==
    ASSUME IndInv, UNCHANGED vars
    PROVE  IndInv'
<1>1. UNCHANGED <<file, conns, backfill>> /\ UNCHANGED storeVars /\ UNCHANGED callVars
  BY DEF vars
<1>2. TypeOK'
  BY <1>1 DEF IndInv, TypeOK, StoreTypeOK, CallTypeOK, ListTypeOK, storeVars, callVars, listVars
<1>3. CallsOK'
  BY <1>1 DEF IndInv, CallsOK, CallOK, StoredOK, Doc, callVars, storeVars
<1>4. EmbeddingsOK' /\ CataloguedIsStored'
  BY <1>1, CatalogKept, EmbeddingsKept DEF storeVars
<1>5. QED
  BY <1>2, <1>3, <1>4 DEF IndInv
-----------------------------------------------------------------------------
(* The theorems.                                                             *)

LEMMA CallsInv ==
    ASSUME IndInv, NEW c \in Calls,
           CallStarts(c) \/ CallStep(c) \/ IngestFails(c) \/ ScrollFails(c) \/ WriteFails(c)
    PROVE  IndInv'
<1>1. CASE CallStarts(c)
  BY <1>1, StartsInv
<1>2. CASE ListFiles(c) \/ Fetch(c)
  BY <1>2, ListFilesInv, FetchInv
<1>3. CASE UpsertBatch(c) \/ UpsertDocument(c) \/ RecordProvenance(c) \/ IngestFails(c)
  BY <1>3, UpsertBatchInv, UpsertDocumentInv, RecordProvenanceInv, IngestFailsInv
<1>4. CASE Scroll(c) \/ Report(c) \/ ScrollFails(c)
  BY <1>4, ListingInv
<1>5. CASE CheckFile(c) \/ Put(c) \/ WriteFails(c)
  BY <1>5, WriteFileInv
<1>6. QED
  BY <1>1, <1>2, <1>3, <1>4, <1>5 DEF CallStep

LEMMA NextInv ==
    ASSUME IndInv, [Next]_vars
    PROVE  IndInv'
<1>1. CASE \/ \E p \in Paths : Push(p)
           \/ \E n \in Connections : RepoAdd(n) \/ RepoRemove(n)
  BY <1>1, EventsInv
<1>2. CASE \E n \in Namespaces : Purge(n)
  BY <1>2, PurgeInv
<1>3. CASE \E c \in Calls :
             CallStarts(c) \/ CallStep(c) \/ IngestFails(c) \/ ScrollFails(c) \/ WriteFails(c)
  BY <1>3, CallsInv
<1>4. CASE BackfillSelect \/ BackfillUpdate \/ BackfillFails
  BY <1>4, BackfillInv
<1>5. CASE Restart
  BY <1>5, RestartInv
<1>6. CASE UNCHANGED vars
  BY <1>6, StutterInv
<1>7. QED
  BY <1>1, <1>2, <1>3, <1>4, <1>5, <1>6 DEF Next

(* The strengthened invariant holds however the calls, the purges, the faults*)
(* and the backfill script interleave.                                       *)
THEOREM Invariance == Spec => []IndInv
<1>1. Init => IndInv
  BY InitIndInv
<1>2. IndInv /\ [Next]_vars => IndInv'
  BY NextInv
<1>3. QED
  BY <1>1, <1>2, PTL DEF Spec

(* Every variable keeps its type: among others, only points that chunking a  *)
(* content of the document gives are ever in Qdrant, and the counts of       *)
(* ref_list are numbers (reference_catalog.py, content_plane.py).            *)
THEOREM TypeCorrect == Spec => []TypeOK
<1>1. IndInv => TypeOK
  BY DEF IndInv
<1>2. QED
  BY <1>1, Invariance, PTL

(* backfill_reference_descriptor_embeddings.py never leaves a row with the   *)
(* embedding of a content the row no longer has, though ingestions replace   *)
(* rows between its SELECT and its UPDATE; when it is through, every row has *)
(* one.                                                                      *)
THEOREM EmbeddingsDescribeContent == Spec => []EmbeddingsDescribe
<1>1. IndInv => EmbeddingsDescribe
  BY DEF IndInv, EmbeddingsOK, EmbeddingOK, EmbeddingsDescribe
<1>2. QED
  BY <1>1, Invariance, PTL

(* _ingest_document_internal writes the catalog row after the last batch, so *)
(* a row's chunks are in Qdrant whatever else ran or failed meanwhile, a     *)
(* purge of the namespace excepted.                                          *)
THEOREM WhatIsCataloguedIsStored == Spec => []CataloguedIsStored
<1>1. IndInv => CataloguedIsStored
  BY DEF IndInv
<1>2. QED
  BY <1>1, Invariance, PTL
-----------------------------------------------------------------------------
(* What ref_list has counted and what the check of git_write_file has seen.  *)

Of(S, n) == {p \in S : p[1][1] = n}
Below(S, n, offset) == {p \in Of(S, n) : RankOf[p] < offset}

(* A scroll has passed the points below its offset: those that lasted were   *)
(* counted, and only what was there at some time was, each point once.       *)
ListingOK(c) ==
    /\ pc[c] \notin {"list", "scroll"} => page[c] = 0
    /\ pc[c] \notin {"scroll", "report"} => \A n \in Namespaces : chunks[c][n] = 0
    /\ pc[c] = "scroll" =>
         /\ lasting[c] \subseteq points /\ points \subseteq ever[c]
         /\ \A n \in Namespaces :
              /\ Cardinality(Below(lasting[c], n, page[c])) =< chunks[c][n]
              /\ chunks[c][n] =< Cardinality(Below(ever[c], n, page[c]))
    /\ pc[c] = "report" =>
         \A n \in Namespaces :
              /\ Cardinality(Of(lasting[c], n)) =< chunks[c][n]
              /\ chunks[c][n] =< Cardinality(Of(ever[c], n))

(* Without overwrite the write is sent only when the check saw no file.      *)
WriteOK(c) ==
    pc[c] = "put" /\ ~call[c].overwrite /\ call[c].provider \in {"gitlab", "github"} =>
        text[c] = Absent

ScanOK == \A c \in Calls : ListingOK(c) /\ WriteOK(c)

LEMMA CountOfSubset ==
    ASSUME NEW S \in SUBSET Points, NEW T \in SUBSET S
    PROVE  /\ IsFiniteSet(S) /\ Cardinality(S) \in Nat /\ Cardinality(T) \in Nat
           /\ Cardinality(T) =< Cardinality(S)
<1>1. IsFiniteSet(Points) /\ S \subseteq Points
  BY StoreAssumption
<1>2. IsFiniteSet(S)
  BY <1>1, FS_Subset
<1>3. IsFiniteSet(T) /\ Cardinality(T) =< Cardinality(S)
  BY <1>2, FS_Subset
<1>4. QED
  BY <1>2, <1>3, FS_CardinalityType

LEMMA CountOfUnion ==
    ASSUME NEW S \in SUBSET Points, NEW T \in SUBSET Points
    PROVE  /\ Cardinality(S \cup T) =< Cardinality(S) + Cardinality(T)
           /\ S \cap T = {} => Cardinality(S \cup T) = Cardinality(S) + Cardinality(T)
<1>1. IsFiniteSet(S) /\ IsFiniteSet(T) /\ Cardinality(S) \in Nat /\ Cardinality(T) \in Nat
  BY CountOfSubset
<1>2. Cardinality(S \cup T) = Cardinality(S) + Cardinality(T) - Cardinality(S \cap T)
  BY <1>1, FS_Union
<1>3. S \cap T \in SUBSET S
  OBVIOUS
<1>4. Cardinality(S \cap T) \in Nat
  BY <1>3, CountOfSubset
<1>5. S \cap T = {} => Cardinality(S \cap T) = 0
  BY FS_EmptySet
<1>6. QED
  BY <1>1, <1>2, <1>4, <1>5

(* A page that is not the last one ends where the next one begins.           *)
LEMMA PageBelowNextOffset ==
    ASSUME points \subseteq Points, NEW offset \in Nat, From(offset) # ScrollPageOf(offset)
    PROVE  /\ NextOffset(offset) \in Nat
           /\ ScrollPageOf(offset) = {p \in From(offset) : RankOf[p] < NextOffset(offset)}
<1> DEFINE rest == From(offset) \ ScrollPageOf(offset)
           left == {RankOf[p] : p \in rest}
           upto(p) == {q \in From(offset) : RankOf[q] =< RankOf[p]}
<1>1. From(offset) \subseteq Points /\ ScrollPageOf(offset) \subseteq From(offset)
  BY DEF From, ScrollPageOf
<1>2. \A p \in From(offset) : RankOf[p] \in Nat
  BY <1>1, StoreAssumption
<1>3. left \in SUBSET Nat /\ left # {}
  <2>1. PICK p : p \in rest
    BY <1>1
  <2>2. RankOf[p] \in left
    BY <2>1
  <2>3. \A r \in left : r \in Nat
    BY <1>2
  <2>4. QED
    BY <2>2, <2>3
<1>4. Min(left) \in left /\ \A y \in left : Min(left) =< y
  BY <1>3, LeastNatural
<1>5. NextOffset(offset) = Min(left) /\ NextOffset(offset) \in Nat
  BY <1>3, <1>4 DEF NextOffset
<1>6. PICK last \in rest : RankOf[last] = NextOffset(offset)
  BY <1>4, <1>5
<1>7. ASSUME NEW p \in From(offset), RankOf[last] =< RankOf[p] PROVE p \notin ScrollPageOf(offset)
  <2>1. last \in From(offset) /\ ~(Cardinality(upto(last)) =< ScrollPage)
    BY <1>6 DEF ScrollPageOf
  <2>2. \A q \in From(offset) : RankOf[q] \in Nat
    BY <1>2
  <2>3. RankOf[p] \in Nat /\ RankOf[last] \in Nat
    BY <2>1, <2>2
  <2>4. upto(last) \subseteq upto(p)
    BY <1>7, <2>2, <2>3
  <2>5. upto(p) \in SUBSET Points
    BY <1>1
  <2>6. Cardinality(upto(last)) =< Cardinality(upto(p)) /\ Cardinality(upto(p)) \in Nat
        /\ Cardinality(upto(last)) \in Nat
    BY <2>4, <2>5, CountOfSubset
  <2>7. ScrollPage \in Nat
    BY StoreAssumption
  <2>8. ~(Cardinality(upto(p)) =< ScrollPage)
    BY <2>1, <2>6, <2>7
  <2>9. QED
    BY <2>8 DEF ScrollPageOf
<1>8. ASSUME NEW p \in From(offset), RankOf[p] < NextOffset(offset) PROVE p \in ScrollPageOf(offset)
  <2>1. SUFFICES ASSUME p \in rest PROVE FALSE
    BY <1>8
  <2>2. RankOf[p] \in left /\ RankOf[p] \in Nat
    BY <1>2, <2>1
  <2>3. NextOffset(offset) =< RankOf[p]
    BY <1>4, <1>5, <2>2
  <2>4. QED
    BY <1>5, <1>8, <2>2, <2>3
<1>9. ASSUME NEW p \in ScrollPageOf(offset) PROVE RankOf[p] < NextOffset(offset)
  <2>1. p \in From(offset) /\ RankOf[p] \in Nat
    BY <1>1, <1>2
  <2>2. ~(RankOf[last] =< RankOf[p])
    BY <1>7, <1>9, <2>1
  <2>3. QED
    BY <1>5, <1>6, <2>1, <2>2
<1>10. QED
  BY <1>1, <1>5, <1>8, <1>9

(* Counting a page: what lasted and is passed with it has been counted, and  *)
(* what was counted is among what was ever there.                            *)
LEMMA PageAdds ==
    ASSUME ListTypeOK, points \subseteq Points, NEW c \in Calls, NEW n \in Namespaces,
           pc[c] = "scroll", ListingOK(c), page[c] \in Nat,
           NEW L \in SUBSET (Below(lasting[c], n, page[c]) \cup Of(ScrollPageOf(page[c]), n)),
           NEW U \in SUBSET Points,
           Below(ever[c], n, page[c]) \cup Of(ScrollPageOf(page[c]), n) \subseteq U
    PROVE  /\ Cardinality(L) =< chunks[c][n] + Cardinality(Of(ScrollPageOf(page[c]), n))
           /\ chunks[c][n] + Cardinality(Of(ScrollPageOf(page[c]), n)) =< Cardinality(U)
<1> DEFINE P == Of(ScrollPageOf(page[c]), n)
           A == Below(lasting[c], n, page[c])
           B == Below(ever[c], n, page[c])
<1>1. P \in SUBSET Points /\ \A p \in P : RankOf[p] >= page[c]
  BY DEF Of, ScrollPageOf, From
<1>2. A \in SUBSET Points /\ B \in SUBSET Points
  BY DEF ListTypeOK, Below, Of
<1>3. P \cap B = {}
  <2>1. \A p \in B : RankOf[p] \in Nat /\ RankOf[p] < page[c]
    BY <1>2, StoreAssumption DEF Below
  <2>2. QED
    BY <1>1, <2>1
<1>4. /\ Cardinality(A) =< chunks[c][n] /\ chunks[c][n] =< Cardinality(B) /\ chunks[c][n] \in Nat
  BY DEF ListingOK, ListTypeOK
<1>5. /\ Cardinality(A) \in Nat /\ Cardinality(B) \in Nat /\ Cardinality(P) \in Nat
  BY <1>1, <1>2, CountOfSubset
<1>6. Cardinality(L) =< Cardinality(A \cup P) /\ Cardinality(L) \in Nat /\ Cardinality(A \cup P) \in Nat
  <2>1. A \cup P \in SUBSET Points /\ L \in SUBSET (A \cup P)
    BY <1>1, <1>2
  <2>2. QED
    BY <2>1, CountOfSubset
<1>7. Cardinality(A \cup P) =< Cardinality(A) + Cardinality(P)
  BY <1>1, <1>2, CountOfUnion
<1>8. Cardinality(B \cup P) = Cardinality(B) + Cardinality(P)
  <2>1. B \cap P = {}
    BY <1>3
  <2>2. QED
    BY <1>1, <1>2, <2>1, CountOfUnion
<1>9. Cardinality(B \cup P) =< Cardinality(U) /\ Cardinality(U) \in Nat
  <2>1. B \cup P \in SUBSET U
    OBVIOUS
  <2>2. QED
    BY <2>1, CountOfSubset
<1>10. QED
  BY <1>4, <1>5, <1>6, <1>7, <1>8, <1>9

(* What a step leaves of a call and of the points it may have counted.       *)
Untouched(c) ==
    /\ pc'[c] = pc[c] /\ call'[c] = call[c] /\ text'[c] = text[c] /\ page'[c] = page[c]
    /\ chunks'[c] = chunks[c]
Observed(c) ==
    \/ Observe
    \/ UNCHANGED points /\ lasting'[c] = lasting[c] /\ ever'[c] = ever[c]

LEMMA UntouchedOK ==
    ASSUME ListTypeOK, ListTypeOK', points' \subseteq Points, NEW c \in Calls, ListingOK(c), WriteOK(c),
           Untouched(c), Observed(c)
    PROVE  ListingOK(c)' /\ WriteOK(c)'
<1>1. WriteOK(c)'
  BY DEF WriteOK, Untouched
<1>2. /\ pc'[c] \notin {"list", "scroll"} => page'[c] = 0
      /\ pc'[c] \notin {"scroll", "report"} => \A n \in Namespaces : chunks'[c][n] = 0
  BY DEF ListingOK, Untouched
<1>3. lasting'[c] \subseteq lasting[c] /\ ever[c] \subseteq ever'[c] /\ ever'[c] \in SUBSET Points
      /\ lasting[c] \in SUBSET Points
  BY DEF Observed, Observe, ListTypeOK
<1>4. ASSUME NEW n \in Namespaces, NEW k
      PROVE  /\ Cardinality(Below(lasting'[c], n, k)) =< Cardinality(Below(lasting[c], n, k))
             /\ Cardinality(Below(ever[c], n, k)) =< Cardinality(Below(ever'[c], n, k))
             /\ Cardinality(Of(lasting'[c], n)) =< Cardinality(Of(lasting[c], n))
             /\ Cardinality(Of(ever[c], n)) =< Cardinality(Of(ever'[c], n))
             /\ {Cardinality(Below(lasting'[c], n, k)), Cardinality(Below(lasting[c], n, k)),
                 Cardinality(Below(ever'[c], n, k)), Cardinality(Below(ever[c], n, k)),
                 Cardinality(Of(lasting'[c], n)), Cardinality(Of(lasting[c], n)),
                 Cardinality(Of(ever'[c], n)), Cardinality(Of(ever[c], n))} \subseteq Nat
  <2>1. /\ Below(lasting[c], n, k) \in SUBSET Points /\ Below(ever'[c], n, k) \in SUBSET Points
        /\ Of(lasting[c], n) \in SUBSET Points /\ Of(ever'[c], n) \in SUBSET Points
    BY <1>3 DEF Below, Of
  <2>2. /\ Below(lasting'[c], n, k) \in SUBSET Below(lasting[c], n, k)
        /\ Below(ever[c], n, k) \in SUBSET Below(ever'[c], n, k)
        /\ Of(lasting'[c], n) \in SUBSET Of(lasting[c], n)
        /\ Of(ever[c], n) \in SUBSET Of(ever'[c], n)
    BY <1>3 DEF Below, Of
  <2>3. /\ Cardinality(Below(lasting'[c], n, k)) =< Cardinality(Below(lasting[c], n, k))
        /\ Cardinality(Below(lasting'[c], n, k)) \in Nat /\ Cardinality(Below(lasting[c], n, k)) \in Nat
    BY <2>1, <2>2, CountOfSubset
  <2>4. /\ Cardinality(Below(ever[c], n, k)) =< Cardinality(Below(ever'[c], n, k))
        /\ Cardinality(Below(ever[c], n, k)) \in Nat /\ Cardinality(Below(ever'[c], n, k)) \in Nat
    BY <2>1, <2>2, CountOfSubset
  <2>5. /\ Cardinality(Of(lasting'[c], n)) =< Cardinality(Of(lasting[c], n))
        /\ Cardinality(Of(lasting'[c], n)) \in Nat /\ Cardinality(Of(lasting[c], n)) \in Nat
    BY <2>1, <2>2, CountOfSubset
  <2>6. /\ Cardinality(Of(ever[c], n)) =< Cardinality(Of(ever'[c], n))
        /\ Cardinality(Of(ever[c], n)) \in Nat /\ Cardinality(Of(ever'[c], n)) \in Nat
    BY <2>1, <2>2, CountOfSubset
  <2>7. QED
    BY <2>3, <2>4, <2>5, <2>6
<1>5. \A n \in Namespaces : chunks[c][n] \in Nat /\ chunks'[c][n] = chunks[c][n]
  BY DEF ListTypeOK, Untouched
<1>6. ASSUME pc'[c] = "scroll"
      PROVE  /\ lasting'[c] \subseteq points' /\ points' \subseteq ever'[c]
             /\ \A n \in Namespaces :
                  /\ Cardinality(Below(lasting'[c], n, page'[c])) =< chunks'[c][n]
                  /\ chunks'[c][n] =< Cardinality(Below(ever'[c], n, page'[c]))
  <2>1. /\ pc[c] = "scroll" /\ page'[c] = page[c] /\ lasting[c] \subseteq points /\ points \subseteq ever[c]
        /\ \A n \in Namespaces :
             /\ Cardinality(Below(lasting[c], n, page[c])) =< chunks[c][n]
             /\ chunks[c][n] =< Cardinality(Below(ever[c], n, page[c]))
    BY <1>6 DEF ListingOK, Untouched
  <2>2. lasting'[c] \subseteq points' /\ points' \subseteq ever'[c]
    BY <2>1 DEF Observed, Observe
  <2>3. ASSUME NEW n \in Namespaces
        PROVE  /\ Cardinality(Below(lasting'[c], n, page'[c])) =< chunks'[c][n]
               /\ chunks'[c][n] =< Cardinality(Below(ever'[c], n, page'[c]))
    BY <1>4, <1>5, <2>1
  <2>4. QED
    BY <2>2, <2>3
<1>7. ASSUME pc'[c] = "report", NEW n \in Namespaces
      PROVE  /\ Cardinality(Of(lasting'[c], n)) =< chunks'[c][n]
             /\ chunks'[c][n] =< Cardinality(Of(ever'[c], n))
  <2>1. /\ Cardinality(Of(lasting[c], n)) =< chunks[c][n]
        /\ chunks[c][n] =< Cardinality(Of(ever[c], n))
    BY <1>7 DEF ListingOK, Untouched
  <2>2. QED
    BY <1>4, <1>5, <2>1
<1>8. ListingOK(c)'
  BY <1>2, <1>6, <1>7 DEF ListingOK, Below, Of
<1>9. QED
  BY <1>1, <1>8

(* A call that neither lists nor writes.                                     *)
LEMMA QuietOK ==
    ASSUME NEW c \in Calls, pc'[c] \notin {"scroll", "report", "put"},
           pc'[c] = "list" \/ page'[c] = 0, \A n \in Namespaces : chunks'[c][n] = 0
    PROVE  ListingOK(c)' /\ WriteOK(c)'
BY DEF ListingOK, WriteOK

LEMMA InitScan == Init => ScanOK
BY DEF Init, ScanOK, ListingOK, WriteOK

(* What is to be shown of a step of c, the others being untouched.           *)
LEMMA StepScan ==
    ASSUME IndInv, IndInv', ScanOK, NEW c \in Calls, ListingOK(c)', WriteOK(c)',
           \A d \in Calls \ {c} : Untouched(d) /\ Observed(d)
    PROVE  ScanOK'
<1>1. ListTypeOK /\ ListTypeOK' /\ points' \subseteq Points
  BY DEF IndInv, TypeOK, StoreTypeOK
<1>2. \A d \in Calls \ {c} : ListingOK(d) /\ WriteOK(d)
  BY DEF ScanOK
<1>3. ASSUME NEW d \in Calls \ {c} PROVE ListingOK(d)' /\ WriteOK(d)'
  BY <1>1, <1>2, UntouchedOK
<1>4. QED
  BY <1>3 DEF ScanOK

LEMMA StartsScan ==
    ASSUME IndInv, IndInv', ScanOK, NEW c \in Calls, CallStarts(c)
    PROVE  ScanOK'
<1>1. CallTypeOK /\ ListTypeOK /\ points \subseteq Points
  BY DEF IndInv, TypeOK, StoreTypeOK
<1>2. /\ UNCHANGED <<points, text, chunks, page>> /\ pc[c] = "idle"
      /\ \A d \in Calls \ {c} : call'[d] = call[d] /\ pc'[d] = pc[d]
                                 /\ lasting'[d] = lasting[d] /\ ever'[d] = ever[d]
  BY <1>1 DEF CallStarts, IngestText, IngestFile, IngestRepo, StartList, WriteFile, Starts, Goto,
              storeVars, CallTypeOK, ListTypeOK
<1>3. \A d \in Calls \ {c} : Untouched(d) /\ Observed(d)
  BY <1>2 DEF Untouched, Observed
<1>4. page'[c] = 0 /\ \A n \in Namespaces : chunks'[c][n] = 0
  BY <1>2 DEF ScanOK, ListingOK
<1>5. CASE IngestText(c) \/ IngestFile(c) \/ IngestRepo(c)
  <2>1. pc'[c] \in {"list", "fetch"}
    BY <1>1, <1>5 DEF IngestText, IngestFile, IngestRepo, Goto, CallTypeOK
  <2>2. QED
    BY <1>3, <1>4, <2>1, QuietOK, StepScan
<1>6. CASE StartList(c)
  <2>1. pc'[c] = "scroll" /\ lasting'[c] = points /\ ever'[c] = points
    BY <1>1, <1>6 DEF StartList, Goto, CallTypeOK, ListTypeOK
  <2>2. \A n \in Namespaces : Below(points, n, 0) = {}
    <3>1. \A p \in points : RankOf[p] \in Nat
      BY <1>1, StoreAssumption
    <3>2. \A p \in points : ~(RankOf[p] < 0)
      BY <3>1
    <3>3. QED
      BY <3>2 DEF Below, Of
  <2>3. \A n \in Namespaces : Cardinality(Below(points, n, 0)) = 0
    BY <2>2, FS_EmptySet
  <2>4. /\ \A n \in Namespaces :
             /\ Cardinality(Below(lasting'[c], n, page'[c])) =< chunks'[c][n]
             /\ chunks'[c][n] =< Cardinality(Below(ever'[c], n, page'[c]))
    BY <1>4, <2>1, <2>3
  <2>5. ListingOK(c)' /\ WriteOK(c)'
    BY <1>2, <2>1, <2>4 DEF ListingOK, WriteOK, Below, Of
  <2>6. QED
    BY <1>3, <2>5, StepScan
<1>7. CASE WriteFile(c)
  <2>1. PICK k \in Connections, w \in Written, overwrite \in BOOLEAN :
          /\ Starts(c, [Idle EXCEPT !.tool = "git_write_file", !.source = w[1], !.content = w[2],
                          !.provider = conns[k].provider, !.overwrite = overwrite])
          /\ Goto(c, IF conns[k].provider = "bitbucket server" THEN "put" ELSE "check")
    BY <1>7 DEF WriteFile
  <2>2. call'[c].provider = conns[k].provider
    BY <1>1, <2>1 DEF Starts, CallTypeOK, Idle
  <2>3. pc'[c] = (IF conns[k].provider = "bitbucket server" THEN "put" ELSE "check")
    BY <1>1, <2>1 DEF Goto, CallTypeOK
  <2>4. ListingOK(c)' /\ WriteOK(c)'
    BY <1>4, <2>2, <2>3 DEF ListingOK, WriteOK
  <2>5. QED
    BY <1>3, <2>4, StepScan
<1>8. QED
  BY <1>5, <1>6, <1>7 DEF CallStarts

LEMMA IngestionScan ==
    ASSUME IndInv, IndInv', ScanOK, NEW c \in Calls,
           \/ ListFiles(c) \/ Fetch(c) \/ UpsertBatch(c) \/ UpsertDocument(c)
           \/ RecordProvenance(c) \/ IngestFails(c)
    PROVE  ScanOK'
<1>1. CallTypeOK /\ ListTypeOK /\ CallTypeOK'
  BY DEF IndInv, TypeOK
<1>2. pc[c] \in {"list", "fetch", "batch", "catalog", "record"} /\ UNCHANGED chunks
  BY DEF ListFiles, Fetch, UpsertBatch, UpsertDocument, RecordProvenance, IngestFails, listVars, Observe
<1>3. Observe \/ (UNCHANGED points /\ UNCHANGED <<lasting, ever>>)
  BY DEF ListFiles, Fetch, UpsertBatch, UpsertDocument, RecordProvenance, IngestFails, listVars, storeVars
<1>4. /\ \A d \in Calls \ {c} : pc'[d] = pc[d] /\ call'[d] = call[d] /\ text'[d] = text[d]
                                /\ page'[d] = page[d]
      /\ pc'[c] \in {"idle", "list", "fetch", "batch", "catalog", "record"}
      /\ pc'[c] = "list" \/ page'[c] = 0
  <2>1. pc[c] # "list" => page[c] = 0
    BY <1>2 DEF ScanOK, ListingOK
  <2>2. CASE Returns(c)
    BY <1>1, <2>2 DEF Returns, Goto, CallTypeOK
  <2>3. CASE ListFiles(c) /\ ~Returns(c)
    BY <1>1, <2>3 DEF ListFiles, Moves, Goto, CallTypeOK
  <2>4. CASE Fetch(c) /\ ~Returns(c)
    <3>1. UNCHANGED page
      BY <2>4 DEF Fetch
    <3>2. \/ UNCHANGED <<pc, call, text>>
          \/ /\ Goto(c, "batch")
             /\ \E d : call' = [call EXCEPT ![c].source = d]
             /\ \E t : text' = [text EXCEPT ![c] = t]
      BY <2>4, Zenon DEF Fetch
    <3>3. pc[c] = "fetch"
      BY <2>4 DEF Fetch
    <3>4. QED
      BY <1>1, <2>1, <3>1, <3>2, <3>3 DEF Goto, CallTypeOK
  <2>5. CASE UpsertBatch(c) \/ UpsertDocument(c)
    BY <1>1, <2>1, <2>5 DEF UpsertBatch, UpsertDocument, Moves, Goto, CallTypeOK
  <2>6. CASE FileEnds(c) /\ ~Returns(c) /\ pc[c] # "list"
    BY <1>1, <2>1, <2>6 DEF FileEnds, Moves, Goto, CallTypeOK
  <2>7. CASE RecordProvenance(c)
    BY <2>2, <2>6, <2>7 DEF RecordProvenance
  <2>8. CASE IngestFails(c) /\ pc[c] \in {"list", "fetch"} /\ ~Returns(c)
    <3>1. pc[c] = "fetch" /\ UNCHANGED <<pc, call, page, text>>
      BY <2>8 DEF IngestFails
    <3>2. QED
      BY <1>1, <2>1, <3>1 DEF CallTypeOK
  <2>9. CASE IngestFails(c) /\ pc[c] \in {"batch", "catalog", "record"}
    BY <2>2, <2>6, <2>9 DEF IngestFails
  <2>10. QED
    BY <1>2, <2>2, <2>3, <2>4, <2>5, <2>7, <2>8, <2>9
<1>5. \A d \in Calls \ {c} : Untouched(d) /\ Observed(d)
  BY <1>2, <1>3, <1>4 DEF Untouched, Observed
<1>6. \A n \in Namespaces : chunks'[c][n] = 0
  BY <1>2 DEF ScanOK, ListingOK
<1>7. QED
  BY <1>4, <1>5, <1>6, QuietOK, StepScan

LEMMA ScrollScan ==
    ASSUME IndInv, IndInv', ScanOK, NEW c \in Calls, Scroll(c)
    PROVE  ScanOK'
<1>1. CallTypeOK /\ ListTypeOK /\ points \subseteq Points /\ ListingOK(c)
  BY DEF IndInv, TypeOK, StoreTypeOK, ScanOK
<1> DEFINE P == ScrollPageOf(page[c])
           last == From(page[c]) = P
<1>2. /\ pc[c] = "scroll" /\ UNCHANGED <<points, text, lasting, ever, call>>
      /\ chunks' = [chunks EXCEPT ![c] = [n \in Namespaces |->
           @[n] + Cardinality({p \in P : p[1][1] = n})]]
      /\ last => pc' = [pc EXCEPT ![c] = "report"] /\ page' = [page EXCEPT ![c] = 0]
      /\ ~last => page' = [page EXCEPT ![c] = NextOffset(page[c])] /\ pc' = pc
  BY DEF Scroll, Moves, Goto, storeVars
<1>3. \A d \in Calls \ {c} : Untouched(d) /\ Observed(d)
  BY <1>1, <1>2 DEF Untouched, Observed, CallTypeOK, ListTypeOK
<1>4. \A n \in Namespaces : chunks'[c][n] = chunks[c][n] + Cardinality(Of(P, n))
  BY <1>1, <1>2 DEF ListTypeOK, Of
<1>5. page[c] \in Nat /\ lasting[c] \subseteq points /\ points \subseteq ever[c]
      /\ lasting[c] \subseteq Points /\ ever[c] \subseteq Points
  BY <1>1, <1>2 DEF ListingOK, CallTypeOK, ListTypeOK
<1>6. \A p \in Points : RankOf[p] \in Nat
  BY StoreAssumption
<1>7. WriteOK(c)'
  BY <1>1, <1>2 DEF WriteOK, CallTypeOK
<1>8. CASE last
  <2>1. pc'[c] = "report" /\ page'[c] = 0 /\ lasting'[c] = lasting[c] /\ ever'[c] = ever[c]
    BY <1>1, <1>2, <1>8 DEF CallTypeOK
  <2>2. ASSUME NEW n \in Namespaces
        PROVE  /\ Cardinality(Of(lasting[c], n)) =< chunks'[c][n]
               /\ chunks'[c][n] =< Cardinality(Of(ever[c], n))
    <3>1. Of(lasting[c], n) \subseteq Below(lasting[c], n, page[c]) \cup Of(P, n)
      <4>1. ASSUME NEW p \in Of(lasting[c], n), ~(RankOf[p] < page[c]) PROVE p \in P
        BY <1>5, <1>6, <1>8, <4>1 DEF Of, From
      <4>2. QED
        BY <4>1 DEF Of, Below
    <3>2. Of(ever[c], n) \in SUBSET Points
      BY <1>5 DEF Of
    <3>3. Below(ever[c], n, page[c]) \cup Of(P, n) \subseteq Of(ever[c], n)
      BY <1>5 DEF Below, Of, ScrollPageOf, From
    <3>4. /\ Cardinality(Of(lasting[c], n)) =< chunks[c][n] + Cardinality(Of(ScrollPageOf(page[c]), n))
          /\ chunks[c][n] + Cardinality(Of(ScrollPageOf(page[c]), n)) =< Cardinality(Of(ever[c], n))
      BY <1>1, <1>2, <1>5, <3>1, <3>2, <3>3, PageAdds
    <3>5. QED
      BY <1>4, <3>4
  <2>3. ListingOK(c)'
    BY <2>1, <2>2 DEF ListingOK, Of
  <2>4. QED
    BY <1>3, <1>7, <2>3, StepScan
<1>9. CASE ~last
  <2>1. pc'[c] = "scroll" /\ page'[c] = NextOffset(page[c]) /\ lasting'[c] = lasting[c]
        /\ ever'[c] = ever[c] /\ points' = points
    BY <1>1, <1>2, <1>9 DEF CallTypeOK
  <2>2. /\ NextOffset(page[c]) \in Nat
        /\ P = {p \in From(page[c]) : RankOf[p] < NextOffset(page[c])}
    BY <1>1, <1>5, <1>9, PageBelowNextOffset
  <2> DEFINE next == NextOffset(page[c])
  <2>3. page[c] =< next
    <3>1. P # From(page[c]) /\ P \subseteq From(page[c])
      BY <1>9, <2>2
    <3>2. PICK p \in From(page[c]) : p \notin P
      BY <3>1
    <3>3. PICK q \in From(page[c]) \ P : RankOf[q] = next
      <4> DEFINE left == {RankOf[x] : x \in From(page[c]) \ P}
      <4>1. left \in SUBSET Nat
        BY <1>1, <1>6 DEF From
      <4>2. left # {}
        BY <3>2
      <4>3. next \in left
        BY <4>1, <4>2, LeastNatural DEF NextOffset
      <4>4. QED
        BY <4>3
    <3>4. QED
      BY <1>1, <1>5, <1>6, <2>2, <3>3 DEF From
  <2>4. ASSUME NEW n \in Namespaces
        PROVE  /\ Cardinality(Below(lasting[c], n, next)) =< chunks'[c][n]
               /\ chunks'[c][n] =< Cardinality(Below(ever[c], n, next))
    <3>1. Below(lasting[c], n, next) \subseteq Below(lasting[c], n, page[c]) \cup Of(P, n)
      <4>1. ASSUME NEW p \in Below(lasting[c], n, next), ~(RankOf[p] < page[c]) PROVE p \in P
        BY <1>5, <1>6, <2>2, <4>1 DEF Of, From, Below
      <4>2. QED
        BY <4>1 DEF Of, Below
    <3>2. Below(ever[c], n, next) \in SUBSET Points
      BY <1>5 DEF Of, Below
    <3>3. Below(ever[c], n, page[c]) \subseteq Below(ever[c], n, next)
      <4>1. ASSUME NEW p \in Below(ever[c], n, page[c]) PROVE RankOf[p] < next
        BY <1>5, <1>6, <2>2, <2>3, <4>1 DEF Of, Below
      <4>2. QED
        BY <4>1 DEF Below
    <3>4. Of(P, n) \subseteq Below(ever[c], n, next)
      BY <1>5, <2>2 DEF Below, Of, From
    <3>5. Below(ever[c], n, page[c]) \cup Of(P, n) \subseteq Below(ever[c], n, next)
      BY <3>3, <3>4
    <3>6. /\ Cardinality(Below(lasting[c], n, next))
                =< chunks[c][n] + Cardinality(Of(ScrollPageOf(page[c]), n))
          /\ chunks[c][n] + Cardinality(Of(ScrollPageOf(page[c]), n))
                =< Cardinality(Below(ever[c], n, next))
      BY <1>1, <1>2, <1>5, <3>1, <3>2, <3>5, PageAdds
    <3>7. QED
      BY <1>4, <3>6
  <2>5. ListingOK(c)'
    BY <1>5, <2>1, <2>4 DEF ListingOK, Below, Of
  <2>6. QED
    BY <1>3, <1>7, <2>5, StepScan
<1>10. QED
  BY <1>8, <1>9

LEMMA ScrollEndsScan ==
    ASSUME IndInv, IndInv', ScanOK, NEW c \in Calls, Report(c) \/ ScrollFails(c)
    PROVE  ScanOK'
<1>1. CallTypeOK /\ ListTypeOK
  BY DEF IndInv, TypeOK
<1>2. /\ Returns(c) /\ UNCHANGED points
      /\ chunks' = [chunks EXCEPT ![c] = [n \in Namespaces |-> 0]]
      /\ lasting' = [lasting EXCEPT ![c] = {}] /\ ever' = [ever EXCEPT ![c] = {}]
  BY DEF Report, ScrollFails, ScrollEnds, storeVars
<1>3. \A d \in Calls \ {c} : Untouched(d) /\ Observed(d)
  BY <1>1, <1>2 DEF Untouched, Observed, CallTypeOK, ListTypeOK, Returns, Goto
<1>4. pc'[c] = "idle" /\ page'[c] = 0 /\ \A n \in Namespaces : chunks'[c][n] = 0
  BY <1>1, <1>2 DEF CallTypeOK, ListTypeOK, Returns, Goto
<1>5. QED
  BY <1>3, <1>4, QuietOK, StepScan

LEMMA WriteScan ==
    ASSUME IndInv, IndInv', ScanOK, NEW c \in Calls, CheckFile(c) \/ Put(c) \/ WriteFails(c)
    PROVE  ScanOK'
<1>1. CallTypeOK /\ ListTypeOK
  BY DEF IndInv, TypeOK
<1>2. pc[c] \in {"check", "put"} /\ UNCHANGED <<points, chunks, lasting, ever>>
  BY DEF CheckFile, Put, WriteFails, storeVars, listVars
<1>3. page[c] = 0 /\ \A n \in Namespaces : chunks'[c][n] = 0
  BY <1>2 DEF ScanOK, ListingOK
<1>4. CASE Returns(c)
  <2>1. \A d \in Calls \ {c} : Untouched(d) /\ Observed(d)
    BY <1>1, <1>2, <1>4 DEF Untouched, Observed, CallTypeOK, Returns, Goto
  <2>2. pc'[c] = "idle" /\ page'[c] = 0
    BY <1>1, <1>4 DEF CallTypeOK, Returns, Goto
  <2>3. QED
    BY <1>3, <2>1, <2>2, QuietOK, StepScan
<1>5. CASE ~Returns(c)
  <2>1. PICK seen \in {file[call[c].source], Absent} :
          /\ seen = Absent \/ call[c].overwrite
          /\ text' = [text EXCEPT ![c] = seen] /\ Moves(c, "put") /\ UNCHANGED page
    BY <1>5 DEF CheckFile, Put, WriteFails
  <2>2. \A d \in Calls \ {c} : Untouched(d) /\ Observed(d)
    BY <1>1, <1>2, <2>1 DEF Untouched, Observed, CallTypeOK, Moves, Goto
  <2>3. pc'[c] = "put" /\ text'[c] = seen /\ call' = call /\ page'[c] = 0
    BY <1>1, <1>3, <2>1 DEF CallTypeOK, Moves, Goto
  <2>4. ListingOK(c)' /\ WriteOK(c)'
    BY <1>3, <2>1, <2>3 DEF ListingOK, WriteOK
  <2>5. QED
    BY <2>2, <2>4, StepScan
<1>6. QED
  BY <1>4, <1>5

(* The steps that no call takes.                                             *)
LEMMA OthersScan ==
    ASSUME IndInv, IndInv', ScanOK,
           \/ \E p \in Paths : Push(p)
           \/ \E n \in Connections : RepoAdd(n) \/ RepoRemove(n)
           \/ \E n \in Namespaces : Purge(n)
           \/ BackfillSelect \/ BackfillUpdate \/ BackfillFails
           \/ UNCHANGED vars
    PROVE  ScanOK'
<1>1. UNCHANGED <<pc, call, text, page, chunks>>
  BY DEF Push, RepoAdd, RepoRemove, Purge, BackfillSelect, BackfillUpdate, BackfillFails, vars,
         callVars, listVars, Observe
<1>2. Observe \/ UNCHANGED <<points, lasting, ever>>
  BY DEF Push, RepoAdd, RepoRemove, Purge, BackfillSelect, BackfillUpdate, BackfillFails, vars,
         callVars, listVars, storeVars
<1>3. ListTypeOK /\ ListTypeOK' /\ points' \subseteq Points
  BY DEF IndInv, TypeOK, StoreTypeOK
<1>4. ASSUME NEW c \in Calls PROVE ListingOK(c)' /\ WriteOK(c)'
  <2>1. ListingOK(c) /\ WriteOK(c) /\ Untouched(c) /\ Observed(c)
    BY <1>1, <1>2 DEF ScanOK, Untouched, Observed
  <2>2. QED
    BY <1>3, <2>1, UntouchedOK
<1>5. QED
  BY <1>4 DEF ScanOK

LEMMA RestartScan ==
    ASSUME Restart
    PROVE  ScanOK'
<1>1. ASSUME NEW c \in Calls
      PROVE  pc'[c] = "idle" /\ page'[c] = 0 /\ \A n \in Namespaces : chunks'[c][n] = 0
  BY DEF Restart
<1>2. QED
  BY <1>1, QuietOK DEF ScanOK

LEMMA NextScan ==
    ASSUME IndInv, IndInv', ScanOK, [Next]_vars
    PROVE  ScanOK'
<1>1. CASE \E c \in Calls :
             CallStarts(c) \/ CallStep(c) \/ IngestFails(c) \/ ScrollFails(c) \/ WriteFails(c)
  BY <1>1, StartsScan, IngestionScan, ScrollScan, ScrollEndsScan, WriteScan DEF CallStep
<1>2. CASE Restart
  BY <1>2, RestartScan
<1>3. CASE \/ \E p \in Paths : Push(p)
           \/ \E n \in Connections : RepoAdd(n) \/ RepoRemove(n)
           \/ \E n \in Namespaces : Purge(n)
           \/ BackfillSelect \/ BackfillUpdate \/ BackfillFails
           \/ UNCHANGED vars
  BY <1>3, OthersScan
<1>4. QED
  BY <1>1, <1>2, <1>3 DEF Next

LEMMA ScanInvariance == Spec => [](IndInv /\ ScanOK)
<1>1. Init => IndInv /\ ScanOK
  BY InitIndInv, InitScan
<1>2. IndInv /\ ScanOK /\ [Next]_vars => (IndInv /\ ScanOK)'
  BY NextInv, NextScan
<1>3. QED
  BY <1>1, <1>2, PTL DEF Spec

(* ref_list counts each point that was in Qdrant during the whole of its     *)
(* scroll, and counts none twice, whatever the order of the ids, the size of *)
(* the pages and the upserts and purges between two pages.                   *)
THEOREM ListCountsWhatIsStored == Spec => []ListCounts
<1>1. ScanOK => ListCounts
  BY DEF ScanOK, ListingOK, ListCounts, Of
<1>2. QED
  BY <1>1, ScanInvariance, PTL

(* The step by which a write without overwrite ends.                         *)
LEMMA PutKeepsFiles ==
    ASSUME IndInv, ScanOK, [Next]_vars, NEW c \in Calls,
           pc[c] = "put", pc'[c] = "idle", ~call[c].overwrite,
           call[c].provider \in {"gitlab", "github"}, NEW p \in Paths, file'[p] # file[p]
    PROVE  file[p] = Absent
<1>1. CallTypeOK /\ StoreTypeOK /\ CallOK(c) /\ text[c] = Absent
  BY DEF IndInv, TypeOK, CallsOK, ScanOK, WriteOK
<1>2. Accepts(c) => file[call[c].source] = Absent
  BY <1>1 DEF Accepts
<1>3. CASE Put(c) \/ WriteFails(c)
  <2>1. Accepts(c) /\ file' = [file EXCEPT ![call[c].source] = call[c].content]
    BY <1>3 DEF Put, WriteFails
  <2>2. QED
    BY <1>1, <1>2, <2>1 DEF StoreTypeOK
<1>4. CASE \E d \in Calls \ {c} : Put(d) \/ WriteFails(d)
  <2>1. pc'[c] = pc[c]
    BY <1>1, <1>4 DEF Put, WriteFails, Returns, Goto, CallTypeOK
  <2>2. QED
    BY <2>1
<1>5. CASE \E n \in Paths : Push(n)
  BY <1>5 DEF Push, callVars
<1>6. CASE UNCHANGED file
  BY <1>6
<1>7. UNCHANGED file \/ (\E n \in Paths : Push(n)) \/ (\E d \in Calls : Put(d) \/ WriteFails(d))
  BY DEF Next, vars, RepoAdd, RepoRemove, Purge, BackfillSelect, BackfillUpdate, BackfillFails,
         Restart, CallStarts, IngestText, IngestFile, IngestRepo, StartList, WriteFile, Starts,
         CallStep, ListFiles, Fetch, UpsertBatch, UpsertDocument, RecordProvenance, Scroll, Report,
         ScrollEnds, CheckFile, IngestFails, ScrollFails
<1>8. QED
  BY <1>3, <1>4, <1>5, <1>6, <1>7

(* git_write_file with overwrite false replaces no file of GitLab or GitHub, *)
(* though the branch may move between its check and its write.               *)
THEOREM WritesOverwriteNothing == Spec => NoSilentOverwrite
<1> DEFINE Kept ==
      \A c \in Calls :
         pc[c] = "put" /\ pc'[c] = "idle" /\ ~call[c].overwrite
           /\ call[c].provider \in {"gitlab", "github"} =>
         \A p \in Paths : file'[p] # file[p] => file[p] = Absent
<1>1. IndInv /\ ScanOK /\ [Next]_vars => Kept
  BY PutKeepsFiles
<1>2. Spec => [][Kept]_vars
  BY <1>1, ScanInvariance, PTL DEF Spec
<1>3. QED
  BY <1>2 DEF NoSilentOverwrite
=============================================================================
