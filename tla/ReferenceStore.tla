--------------------------- MODULE ReferenceStore ---------------------------
(***************************************************************************)
(* Reference memory as the synchronous MCP tools build, list and purge it: *)
(* ref_ingest_text, ref_list and ref_purge (content_plane.py), the Git     *)
(* tools (git_plane.py) with the repository they read and write, the       *)
(* catalog (reference_catalog.py) and the script that fills in the         *)
(* embeddings of rows older than their column.  The queue of URL jobs is   *)
(* module IngestJobs.                                                      *)
(*                                                                         *)
(* FastMCP runs each call in a thread of its pool, so calls interleave at  *)
(* every request they make; Postgres, Qdrant and the Git provider are      *)
(* reached by separate requests, each of which may fail.                   *)
(*                                                                         *)
(* A document is a namespace (product and version) with a source.  Its id  *)
(* is a hash of the three strings run together: the names here are such    *)
(* that no two documents run together to the same string.                  *)
(***************************************************************************)
EXTENDS Naturals, Sequences, FiniteSets, FiniteSetsExt

CONSTANTS
    Calls,         \* threads for tool calls
    Connections,   \* names of git connections
    Providers,     \* the providers that repo_add is called with
    Paths,         \* files of the repository, numbers in the order of names
    Manual,        \* source_url of ref_ingest_text
    Namespaces,    \* pairs of a product and a version
    Contents,
    ChunksOf,      \* ChunksOf[c]: the chunks that content c is cut into
    Legacy,        \* Legacy[d]: content of a row from before migration 151
    RankOf,        \* RankOf[p]: where the id of point p sorts in Qdrant
    BatchSize,     \* REFERENCE_EMBED_BATCH_SIZE
    ScrollPage,    \* points in a page of ref_list (512)
    TreePage,      \* entries in a page of a repository listing (100)
    ServerLimit,   \* entries a Bitbucket server lists (1000)
    Absent, NoConnection, NoRow, Null,
    Branches,      \* bound: what the branch may hold at first
    Registered,    \* bound: what git_connections may hold at first
    Written,       \* bound: the paths and contents git_write_file is given
    MaxCalls,      \* bound: tool calls
    MaxEvents      \* bound: pushes, purges, connection changes and faults

Sources == Paths \cup {Manual}
Docs == Namespaces \X Sources
ChunkPoints(d, c) == {<<d, i, ChunksOf[c][i]>> : i \in DOMAIN ChunksOf[c]}
Points == UNION {ChunkPoints(d, c) : d \in Docs, c \in Contents}

ASSUME StoreAssumption ==
    /\ Paths \subseteq Nat /\ IsFiniteSet(Paths) /\ Manual \notin Paths
    /\ Providers \subseteq {"gitlab", "github", "bitbucket cloud", "bitbucket server"}
    /\ \A c \in Contents : ChunksOf[c] \in Seq(Range(ChunksOf[c]))
    /\ DOMAIN Legacy \subseteq Docs /\ \A d \in DOMAIN Legacy : Legacy[d] \in Contents
    /\ Branches \subseteq [Paths -> Contents \cup {Absent}]
    /\ Written \subseteq Paths \X Contents
    /\ IsFiniteSet(Points)
    /\ \A p \in Points : RankOf[p] \in Nat
    /\ \A p, q \in Points : RankOf[p] = RankOf[q] => p = q
    /\ {BatchSize, ScrollPage, TreePage, ServerLimit} \subseteq Nat \ {0}
    /\ Absent \notin Contents /\ Null \notin Contents

VARIABLES
    file,      \* file[p]: the file on the branch, as the provider holds it
    conns,     \* table git_connections
    points,    \* the reference points in Qdrant, each <<document, index, chunk>>
    catalog,   \* catalog[d]: row of reference_documents
    provenance,\* the documents with a row in reference_ingestion
    backfill,  \* the script: its step and the rows it has selected
    \* each call
    pc,
    call,      \* the tool, its arguments and the connection it has read
    todo,      \* paths still to ingest
    page,      \* pages of the listing read, or points of the scroll passed
    text,      \* what was fetched, for ingestion or by the existence check
    done,      \* chunks upserted
    chunks,    \* chunks[c][n]: the count of ref_list for namespace n
    \* history
    whole,     \* whole[c]: no purge has hit the document c is ingesting
    lasting,   \* lasting[c]: points that were there during all of c's scroll
    ever,      \* ever[c]: points that were there at some time of c's scroll
    calls, events

storeVars == <<points, catalog, provenance>>
listVars == <<chunks, lasting, ever>>
callVars == <<pc, call, todo, page, text, done, whole, listVars>>
counters == <<calls, events>>
vars == <<file, conns, storeVars, backfill, callVars, counters>>

(* What repo_add accepts.  Only reading from GitLab needs no token, so every *)
(* pair of a provider and an access level may be registered with one.        *)
Registrable ==
    {[provider |-> p, write |-> w] : p \in Providers, w \in BOOLEAN}

Rows == [content : Contents, embedding : Contents \cup {Null}, whole : BOOLEAN]
Tools == {"none", "ref_list", "ref_ingest_text", "git_ingest_repo", "git_ingest_file",
          "git_write_file"}
CallType == [tool : Tools, ns : Namespaces \cup {Null}, source : Sources \cup {Null},
             content : Contents \cup {Absent}, provider : Providers \cup {Null},
             overwrite : BOOLEAN]
Idle == [tool |-> "none", ns |-> Null, source |-> Null, content |-> Absent,
         provider |-> Null, overwrite |-> FALSE]

ASSUME AbsenceAssumption ==
    /\ NoRow \notin Rows
    /\ Registered \subseteq [Connections -> Registrable \cup {NoConnection}]
    /\ Null \notin Namespaces /\ Null \notin Sources

(* Types of the variables.                                                   *)
StoreTypeOK ==
    /\ file \in [Paths -> Contents \cup {Absent}]
    /\ conns \in [Connections -> Registrable \cup {NoConnection}]
    /\ points \subseteq Points
    /\ catalog \in [Docs -> Rows \cup {NoRow}]
    /\ provenance \subseteq Docs
    /\ backfill.step \in {"off", "update", "done"}
    /\ DOMAIN backfill.rows \subseteq Docs

CallTypeOK ==
    /\ pc \in [Calls -> {"idle", "list", "fetch", "batch", "catalog", "record",
                         "scroll", "report", "check", "put"}]
    /\ call \in [Calls -> CallType]
    /\ todo \in [Calls -> SUBSET Paths]
    /\ page \in [Calls -> Nat]
    /\ text \in [Calls -> Contents \cup {Absent}]
    /\ done \in [Calls -> Nat]
    /\ whole \in [Calls -> BOOLEAN]

ListTypeOK ==
    /\ chunks \in [Calls -> [Namespaces -> Nat]]
    /\ lasting \in [Calls -> SUBSET Points]
    /\ ever \in [Calls -> SUBSET Points]

TypeOK == StoreTypeOK /\ CallTypeOK /\ ListTypeOK

Init ==
    /\ file \in Branches
    /\ conns \in Registered
    /\ points = UNION {ChunkPoints(d, Legacy[d]) : d \in DOMAIN Legacy}
    /\ catalog = [d \in Docs |->
         IF d \in DOMAIN Legacy
         THEN [content |-> Legacy[d], embedding |-> Null, whole |-> TRUE] ELSE NoRow]
    /\ provenance = DOMAIN Legacy
    /\ backfill = [step |-> "off", rows |-> << >>]
    /\ pc = [c \in Calls |-> "idle"]
    /\ call = [c \in Calls |-> Idle]
    /\ todo = [c \in Calls |-> {}]
    /\ page = [c \in Calls |-> 0]
    /\ text = [c \in Calls |-> Absent]
    /\ done = [c \in Calls |-> 0]
    /\ chunks = [c \in Calls |-> [n \in Namespaces |-> 0]]
    /\ whole = [c \in Calls |-> TRUE]
    /\ lasting = [c \in Calls |-> {}] /\ ever = [c \in Calls |-> {}]
    /\ calls = 0 /\ events = 0

-----------------------------------------------------------------------------
(* What else happens to the repository and the connections.                  *)

Event == events < MaxEvents /\ events' = events + 1

(* Somebody pushes to the branch.                                            *)
Push(p) ==
    /\ Event
    /\ \E c \in (Contents \cup {Absent}) \ {file[p]} : file' = [file EXCEPT ![p] = c]
    /\ UNCHANGED <<conns, storeVars, backfill, callVars, calls>>

RepoAdd(n) ==
    /\ Event
    /\ \E k \in Registrable : conns' = [conns EXCEPT ![n] = k]
    /\ UNCHANGED <<file, storeVars, backfill, callVars, calls>>

RepoRemove(n) ==
    /\ Event
    /\ conns[n] # NoConnection
    /\ conns' = [conns EXCEPT ![n] = NoConnection]
    /\ UNCHANGED <<file, storeVars, backfill, callVars, calls>>

-----------------------------------------------------------------------------
(* The life of a call.                                                       *)

Goto(c, step) == pc' = [pc EXCEPT ![c] = step]

Starts(c, args) ==
    /\ pc[c] = "idle"
    /\ calls < MaxCalls
    /\ call' = [call EXCEPT ![c] = args]
    /\ calls' = calls + 1
    /\ UNCHANGED <<file, conns, storeVars, backfill, text, done, whole, chunks, events>>

(* Everything a call holds is dropped with its reply.                        *)
Returns(c) ==
    /\ Goto(c, "idle")
    /\ call' = [call EXCEPT ![c] = Idle]
    /\ todo' = [todo EXCEPT ![c] = {}]
    /\ page' = [page EXCEPT ![c] = 0]
    /\ text' = [text EXCEPT ![c] = Absent]
    /\ done' = [done EXCEPT ![c] = 0]
    /\ whole' = [whole EXCEPT ![c] = TRUE]

Moves(c, step) ==
    /\ Goto(c, step)
    /\ UNCHANGED <<call, whole>>

Doc(c) == <<call[c].ns, call[c].source>>

(* The document is over: git_ingest_repo goes on with its next file whether  *)
(* this one failed or not, the other tools return.                           *)
FileEnds(c) ==
    IF todo[c] # {}
    THEN /\ Moves(c, "fetch")
         /\ text' = [text EXCEPT ![c] = Absent]
         /\ done' = [done EXCEPT ![c] = 0]
         /\ UNCHANGED <<todo, page>>
    ELSE Returns(c)

-----------------------------------------------------------------------------
(* Ingestion: _ingest_document_internal and what it calls.                   *)

IngestText(c) ==
    /\ \E n \in Namespaces, x \in Contents :
         /\ Starts(c, [Idle EXCEPT !.tool = "ref_ingest_text", !.ns = n,
                                   !.source = Manual, !.content = x])
    /\ Goto(c, "fetch")
    /\ UNCHANGED <<todo, page, lasting, ever>>

(* _get_connection: the call keeps the row it has read.                      *)
IngestFile(c) ==
    /\ \E k \in Connections, n \in Namespaces, p \in Paths :
         /\ conns[k] # NoConnection
         /\ Starts(c, [Idle EXCEPT !.tool = "git_ingest_file", !.ns = n, !.source = p,
                                   !.provider = conns[k].provider])
    /\ Goto(c, "fetch")
    /\ UNCHANGED <<todo, page, lasting, ever>>

IngestRepo(c) ==
    /\ \E k \in Connections, n \in Namespaces :
         /\ conns[k] # NoConnection
         /\ Starts(c, [Idle EXCEPT !.tool = "git_ingest_repo", !.ns = n,
                                   !.provider = conns[k].provider])
    /\ Goto(c, "list")
    /\ UNCHANGED <<todo, page, lasting, ever>>

Present == {p \in Paths : file[p] # Absent}
Position(p) == Cardinality({q \in Present : q <= p})
TreePageOf(k) == {p \in Present : Position(p) \in (k * TreePage + 1)..((k + 1) * TreePage)}

(* list_files.  GitHub answers with one tree; a Bitbucket server with the    *)
(* first ServerLimit entries; the others with pages by number, each of the   *)
(* branch as it is by then, until one is short.                              *)
Listed(c) ==
    CASE call[c].provider = "github" -> Present
      [] call[c].provider = "bitbucket server" -> {p \in Present : Position(p) <= ServerLimit}
      [] OTHER -> TreePageOf(page[c])

MorePages(c) ==
    /\ call[c].provider \in {"gitlab", "bitbucket cloud"}
    /\ Cardinality(Listed(c)) = TreePage
    /\ call[c].provider = "gitlab" \/ TreePageOf(page[c] + 1) # {}

ListFiles(c) ==
    /\ pc[c] = "list"
    /\ \/ /\ MorePages(c)
          /\ todo' = [todo EXCEPT ![c] = @ \cup Listed(c)]
          /\ page' = [page EXCEPT ![c] = @ + 1]
          /\ UNCHANGED <<pc, call, whole, text, done>>
       \/ /\ ~MorePages(c)
          /\ todo[c] \cup Listed(c) # {}
          /\ todo' = [todo EXCEPT ![c] = @ \cup Listed(c)]
          /\ page' = [page EXCEPT ![c] = 0]
          /\ Moves(c, "fetch")
          /\ UNCHANGED <<text, done>>
       \/ /\ ~MorePages(c)
          /\ todo[c] \cup Listed(c) = {}
          /\ Returns(c)
    /\ UNCHANGED <<file, conns, storeVars, backfill, listVars, counters>>

(* fetch_file, or the argument of ref_ingest_text, and the chunking.  A      *)
(* file that is gone and a text without chunks are errors of this document.  *)
Fetch(c) ==
    /\ pc[c] = "fetch"
    /\ \E d \in IF call[c].tool = "git_ingest_repo" THEN todo[c] ELSE {call[c].source} :
         LET got == IF d = Manual THEN call[c].content ELSE file[d] IN
         IF got = Absent \/ (got # Absent /\ ChunksOf[got] = << >>)
         THEN LET left == todo[c] \ {d} IN
              IF left # {}
              THEN /\ todo' = [todo EXCEPT ![c] = left]
                   /\ UNCHANGED <<pc, call, whole, page, text, done>>
              ELSE Returns(c)
         ELSE /\ Goto(c, "batch")
              /\ call' = [call EXCEPT ![c].source = d]
              /\ todo' = [todo EXCEPT ![c] = @ \ {d}]
              /\ text' = [text EXCEPT ![c] = got]
              /\ whole' = [whole EXCEPT ![c] = TRUE]
              /\ UNCHANGED <<page, done>>
    /\ UNCHANGED <<file, conns, storeVars, backfill, listVars, counters>>

(* A call that scrolls remembers what it could have seen.                    *)
Observe ==
    /\ lasting' = [c \in Calls |-> lasting[c] \cap points']
    /\ ever' = [c \in Calls |-> IF pc[c] = "scroll" THEN ever[c] \cup points' ELSE ever[c]]
    /\ UNCHANGED chunks

BatchEnd(c) == Min({done[c] + BatchSize, Len(ChunksOf[text[c]])})
Batch(c) == {<<Doc(c), i, ChunksOf[text[c]][i]>> : i \in (done[c] + 1)..BatchEnd(c)}

(* The row of the document: title, metadata and hash are those of the text,  *)
(* and so is the descriptor embedded for it.                                 *)
Row(c) == [content |-> text[c], embedding |-> text[c], whole |-> whole[c]]

(* Mutant: the catalog row is written once the first batch is stored.        *)
UpsertBatchEarlyRow(c) ==
    /\ pc[c] = "batch"
    /\ points' = points \cup Batch(c)
    /\ done' = [done EXCEPT ![c] = BatchEnd(c)]
    /\ catalog' = [catalog EXCEPT ![Doc(c)] = Row(c)]
    /\ Moves(c, IF BatchEnd(c) = Len(ChunksOf[text[c]]) THEN "catalog" ELSE "batch")
    /\ Observe
    /\ UNCHANGED events
    /\ UNCHANGED <<file, conns, provenance, backfill, todo, page, text,
                   calls>>

(* One batch embedded and upserted, with wait.                               *)
UpsertBatch(c) ==
    /\ pc[c] = "batch"
    /\ points' = points \cup Batch(c)
    /\ done' = [done EXCEPT ![c] = BatchEnd(c)]
    /\ Moves(c, IF BatchEnd(c) = Len(ChunksOf[text[c]]) THEN "catalog" ELSE "batch")
    /\ Observe
    /\ UNCHANGED events
    /\ UNCHANGED <<file, conns, catalog, provenance, backfill, todo, page, text,
                   calls>>

(* upsert_reference_document, on conflict an update.                         *)
UpsertDocument(c) ==
    /\ pc[c] = "catalog"
    /\ catalog' = [catalog EXCEPT ![Doc(c)] = Row(c)]
    /\ Moves(c, "record")
    /\ UNCHANGED <<file, conns, points, provenance, backfill, todo, page, text,
                   done, listVars, counters>>

RecordProvenance(c) ==
    /\ pc[c] = "record"
    /\ provenance' = provenance \cup {Doc(c)}
    /\ FileEnds(c)
    /\ UNCHANGED <<file, conns, points, catalog, backfill, listVars, counters>>

(* A request of the ingestion fails or times out, which a batch or a row may *)
(* do after it was applied.                                                  *)
IngestFails(c) ==
    /\ Event
    /\ \/ /\ pc[c] = "list"
          /\ Returns(c)
          /\ UNCHANGED <<storeVars, listVars>>
       \/ /\ pc[c] = "fetch" /\ call[c].tool # "ref_ingest_text"
          /\ \E d \in IF call[c].tool = "git_ingest_repo" THEN todo[c] ELSE {call[c].source} :
               IF todo[c] \ {d} # {}
               THEN /\ todo' = [todo EXCEPT ![c] = @ \ {d}]
                    /\ UNCHANGED <<pc, call, whole, page, text, done>>
               ELSE Returns(c)
          /\ UNCHANGED <<storeVars, listVars>>
       \/ /\ pc[c] = "batch"
          /\ points' \in {points, points \cup Batch(c)}
          /\ FileEnds(c)
          /\ Observe
          /\ UNCHANGED <<catalog, provenance>>
       \/ /\ pc[c] = "catalog"
          /\ \/ UNCHANGED catalog
             \/ catalog' = [catalog EXCEPT ![Doc(c)] = Row(c)]
          /\ FileEnds(c)
          /\ UNCHANGED <<points, provenance, listVars>>
       \/ /\ pc[c] = "record"
          /\ provenance' \in {provenance, provenance \cup {Doc(c)}}
          /\ FileEnds(c)
          /\ UNCHANGED <<points, catalog, listVars>>
    /\ UNCHANGED <<file, conns, backfill, calls>>

-----------------------------------------------------------------------------
(* ref_purge and ref_list.                                                   *)

(* The points of a namespace go; its catalog rows stay.                      *)
Purge(n) ==
    /\ Event
    /\ points' = {p \in points : p[1][1] # n}
    /\ catalog' = [d \in Docs |->
         IF d[1] = n /\ catalog[d] # NoRow THEN [catalog[d] EXCEPT !.whole = FALSE]
         ELSE catalog[d]]
    /\ whole' = [c \in Calls |-> whole[c] /\ call[c].ns # n]
    /\ Observe
    /\ UNCHANGED <<file, conns, provenance, backfill, pc, call, todo, page, text, done,
                   calls>>

StartList(c) ==
    /\ Starts(c, [Idle EXCEPT !.tool = "ref_list"])
    /\ Goto(c, "scroll")
    /\ lasting' = [lasting EXCEPT ![c] = points]
    /\ ever' = [ever EXCEPT ![c] = points]
    /\ UNCHANGED <<todo, page>>

(* A page holds the points from the offset on, in the order of their ids; the*)
(* next offset is the id of the first point after it.                        *)
From(offset) == {p \in points : RankOf[p] >= offset}
ScrollPageOf(offset) ==
    {p \in From(offset) :
       Cardinality({q \in From(offset) : RankOf[q] <= RankOf[p]}) <= ScrollPage}
(* Mutant: the scroll goes on from the last point it has read.               *)
NextOffsetRepeats(offset) == Max({RankOf[p] : p \in ScrollPageOf(offset)})

NextOffset(offset) == Min({RankOf[p] : p \in From(offset) \ ScrollPageOf(offset)})

Scroll(c) ==
    /\ pc[c] = "scroll"
    /\ chunks' = [chunks EXCEPT ![c] = [n \in Namespaces |->
         @[n] + Cardinality({p \in ScrollPageOf(page[c]) : p[1][1] = n})]]
    /\ IF From(page[c]) = ScrollPageOf(page[c])
       THEN /\ Moves(c, "report")
            /\ page' = [page EXCEPT ![c] = 0]
       ELSE /\ page' = [page EXCEPT ![c] = NextOffset(page[c])]
            /\ UNCHANGED <<pc, call, whole>>
    /\ UNCHANGED <<file, conns, storeVars, backfill, todo, text, done, lasting, ever, counters>>

(* The counts are answered, or an error of Qdrant instead.                   *)
ScrollEnds(c) ==
    /\ chunks' = [chunks EXCEPT ![c] = [n \in Namespaces |-> 0]]
    /\ lasting' = [lasting EXCEPT ![c] = {}]
    /\ ever' = [ever EXCEPT ![c] = {}]
    /\ Returns(c)
    /\ UNCHANGED <<file, conns, storeVars, backfill, calls>>

Report(c) == pc[c] = "report" /\ ScrollEnds(c) /\ UNCHANGED events

ScrollFails(c) == pc[c] = "scroll" /\ Event /\ ScrollEnds(c)

-----------------------------------------------------------------------------
(* git_write_file.                                                           *)

(* _require_write, on the row that was read.  A Bitbucket server is not      *)
(* asked whether the file exists.                                            *)
WriteFile(c) ==
    /\ \E k \in Connections, w \in Written, overwrite \in BOOLEAN :
         /\ conns[k] # NoConnection
         /\ conns[k].write
         /\ Starts(c, [Idle EXCEPT !.tool = "git_write_file", !.source = w[1], !.content = w[2],
                                   !.provider = conns[k].provider, !.overwrite = overwrite])
         /\ Goto(c, IF conns[k].provider = "bitbucket server" THEN "put" ELSE "check")
    /\ UNCHANGED <<todo, page, lasting, ever>>

(* Mutant: overwrite is not looked at.                                       *)
CheckFileOverwrites(c) ==
    /\ pc[c] = "check"
    /\ \E seen \in {file[call[c].source], Absent} :
         /\ IF seen # file[call[c].source] /\ call[c].provider # "bitbucket cloud"
            THEN Event ELSE UNCHANGED events
         /\ text' = [text EXCEPT ![c] = seen]
         /\ Moves(c, "put")
         /\ UNCHANGED <<todo, page, done>>
    /\ UNCHANGED <<file, conns, storeVars, backfill, listVars, calls>>

(* The file exists when the check answers 200; every other status, an error  *)
(* of the provider included, reads as absent.  The check that is sent to     *)
(* Bitbucket Cloud carries GitLab's header, so a private file is not seen.   *)
CheckFile(c) ==
    /\ pc[c] = "check"
    /\ \E seen \in {file[call[c].source], Absent} :
         /\ IF seen # file[call[c].source] /\ call[c].provider # "bitbucket cloud"
            THEN Event ELSE UNCHANGED events
         /\ IF seen # Absent /\ ~call[c].overwrite
            THEN Returns(c)
            ELSE /\ text' = [text EXCEPT ![c] = seen]
                 /\ Moves(c, "put")
                 /\ UNCHANGED <<todo, page, done>>
    /\ UNCHANGED <<file, conns, storeVars, backfill, listVars, calls>>

(* What the provider accepts: GitLab creates with POST and updates with PUT; *)
(* GitHub updates the version whose sha is sent and creates without one; the *)
(* Bitbucket requests create or update.                                      *)
Accepts(c) ==
    LET current == file[call[c].source] IN
    CASE call[c].provider = "gitlab" -> (text[c] = Absent) = (current = Absent)
      [] call[c].provider = "github" -> text[c] = current
      [] OTHER -> TRUE

Put(c) ==
    /\ pc[c] = "put"
    /\ IF Accepts(c)
       THEN /\ file' = [file EXCEPT ![call[c].source] = call[c].content]
            /\ Returns(c)
       ELSE /\ Returns(c)
            /\ UNCHANGED file
    /\ UNCHANGED <<conns, storeVars, backfill, listVars, counters>>

(* Lost on the way, or applied and its answer lost.                          *)
WriteFails(c) ==
    /\ pc[c] \in {"check", "put"}
    /\ Event
    /\ Returns(c)
    /\ file' \in {file} \cup
         IF pc[c] = "put" /\ Accepts(c)
         THEN {[file EXCEPT ![call[c].source] = call[c].content]} ELSE {}
    /\ UNCHANGED <<conns, storeVars, backfill, listVars, calls>>

-----------------------------------------------------------------------------
(* backfill_reference_descriptor_embeddings.py.                              *)

BackfillSelect ==
    /\ backfill.step = "off"
    /\ backfill' = [step |-> "update",
         rows |-> [d \in {e \in Docs : catalog[e] # NoRow /\ catalog[e].embedding = Null}
                     |-> catalog[d].content]]
    /\ UNCHANGED <<file, conns, storeVars, callVars, counters>>

(* Mutant: the update does not look at the embedding again.                  *)
BackfillStoresAll(batch) ==
    catalog' = [d \in Docs |->
      IF d \in batch THEN [catalog[d] EXCEPT !.embedding = backfill.rows[d]] ELSE catalog[d]]

(* A batch of the rows it read is embedded and stored where there is still   *)
(* no embedding.                                                             *)
BackfillStores(batch) ==
    catalog' = [d \in Docs |->
      IF d \in batch /\ catalog[d].embedding = Null
      THEN [catalog[d] EXCEPT !.embedding = backfill.rows[d]] ELSE catalog[d]]

BackfillUpdate ==
    /\ backfill.step = "update"
    /\ LET rows == DOMAIN backfill.rows IN
       IF rows = {}
       THEN /\ backfill' = [step |-> "done", rows |-> << >>]
            /\ UNCHANGED catalog
       ELSE \E batch \in SUBSET rows :
              /\ Cardinality(batch) = Min({BatchSize, Cardinality(rows)})
              /\ BackfillStores(batch)
              /\ backfill' = [step |-> "update",
                   rows |-> [d \in rows \ batch |-> backfill.rows[d]]]
    /\ UNCHANGED <<file, conns, points, provenance, callVars, counters>>

(* The script fails between two batches and is started again.                *)
BackfillFails ==
    /\ backfill.step = "update"
    /\ Event
    /\ backfill' = [step |-> "off", rows |-> << >>]
    /\ UNCHANGED <<file, conns, storeVars, callVars, calls>>

-----------------------------------------------------------------------------

(* The MCP server restarts: the calls under way are gone.                    *)
Restart ==
    /\ Event
    /\ \E c \in Calls : pc[c] # "idle"
    /\ pc' = [c \in Calls |-> "idle"]
    /\ call' = [c \in Calls |-> Idle]
    /\ todo' = [c \in Calls |-> {}]
    /\ page' = [c \in Calls |-> 0]
    /\ text' = [c \in Calls |-> Absent]
    /\ done' = [c \in Calls |-> 0]
    /\ whole' = [c \in Calls |-> TRUE]
    /\ chunks' = [c \in Calls |-> [n \in Namespaces |-> 0]]
    /\ lasting' = [c \in Calls |-> {}] /\ ever' = [c \in Calls |-> {}]
    /\ UNCHANGED <<file, conns, storeVars, backfill, calls>>

CallStarts(c) ==
    \/ IngestText(c) \/ IngestFile(c) \/ IngestRepo(c) \/ StartList(c) \/ WriteFile(c)

CallStep(c) ==
    \/ ListFiles(c) \/ Fetch(c) \/ UpsertBatch(c) \/ UpsertDocument(c) \/ RecordProvenance(c)
    \/ Scroll(c) \/ Report(c) \/ CheckFile(c) \/ Put(c)

Next ==
    \/ \E p \in Paths : Push(p)
    \/ \E n \in Connections : RepoAdd(n) \/ RepoRemove(n)
    \/ \E n \in Namespaces : Purge(n)
    \/ \E c \in Calls :
         CallStarts(c) \/ CallStep(c) \/ IngestFails(c) \/ ScrollFails(c) \/ WriteFails(c)
    \/ BackfillSelect \/ BackfillUpdate \/ BackfillFails
    \/ Restart

Spec == Init /\ [][Next]_vars

-----------------------------------------------------------------------------
(* The embedding of a catalog row describes the content of that row, though  *)
(* the backfill embeds rows it read before an ingestion replaced them; and   *)
(* once the backfill has gone through, no row is without (a preflight is     *)
(* refused as long as one is).                                               *)
EmbeddingsDescribe ==
    \A d \in Docs : catalog[d] # NoRow =>
        /\ catalog[d].embedding \in {Null, catalog[d].content}
        /\ backfill.step = "done" => catalog[d].embedding # Null

(* What the catalog says a document contains can be retrieved: all its       *)
(* chunks are in Qdrant unless the namespace was purged since the document   *)
(* was fetched, however many ingestions of it overlapped, failed half way    *)
(* or were cut off.                                                          *)
CataloguedIsStored ==
    \A d \in Docs : catalog[d] # NoRow /\ catalog[d].whole =>
        ChunkPoints(d, catalog[d].content) \subseteq points

(* ref_list reads page after page while others write: it counts every point  *)
(* that was there all the time, and no point twice.                          *)
ListCounts ==
    \A c \in Calls : pc[c] = "report" =>
        \A n \in Namespaces :
            LET Of(set) == Cardinality({p \in set : p[1][1] = n})
            IN  Of(lasting[c]) <= chunks[c][n] /\ chunks[c][n] <= Of(ever[c])

(* git_write_file with overwrite false never replaces a file, whatever was   *)
(* pushed between the check and the write ("If false and file exists,        *)
(* returns error instead of updating").  It rests on what GitLab and GitHub  *)
(* refuse; Bitbucket refuses nothing, and there the check proves nothing.    *)
NoSilentOverwrite ==
    [][\A c \in Calls :
         pc[c] = "put" /\ pc'[c] = "idle" /\ ~call[c].overwrite
           /\ call[c].provider \in {"gitlab", "github"} =>
         \A p \in Paths : file'[p] # file[p] => file[p] = Absent]_vars
=============================================================================
