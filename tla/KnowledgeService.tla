-------------------------- MODULE KnowledgeService ---------------------------
(***************************************************************************)
(* Knowledge spaces: the tables for spaces, documents and chunks, the      *)
(* vector store, and the requests and threads that change them.            *)
(*                                                                         *)
(* The endpoints are plain functions, which FastAPI runs in a thread pool, *)
(* so requests overlap.  Each data access object method is a transaction   *)
(* of its own and one step here; between two of them a request holds rows  *)
(* it read before.  sync_knowledge_document starts a thread that goes on   *)
(* after the request has been answered.                                    *)
(***************************************************************************)
EXTENDS Integers, Sequences, FiniteSets

CONSTANTS
  Client,      \* threads of the pool
  Space,       \* names of knowledge spaces
  DocName,     \* names of documents
  DocIds,      \* lists of ids that a sync request may carry
  MaxSpaces, MaxDocs, MaxSyncs,  \* bounds on rows ever inserted and threads ever started
  Overlap,     \* whether requests overlap
  DeletesSyncing,  \* whether documents are deleted while their thread runs
  StoreErrors, \* whether the vector store fails to delete
  TableErrors, \* whether a table cannot be read or written (locked, lost, a value too long)
  ReusesIds,   \* whether the id of a deleted newest row returns (in SQLite, not in MySQL)
  SplitsIds,   \* whether delete_by_ids takes "id1,id2" apart (Milvus does, Chroma does not)
  Crashes      \* whether the server process may die and start again

ASSUME KnowledgeAssumption ==
  /\ IsFiniteSet(Client)
  /\ MaxSpaces \in Nat /\ MaxDocs \in Nat /\ MaxSyncs \in Nat
  /\ DocIds \subseteq Seq(Nat)
  /\ {Overlap, DeletesSyncing, StoreErrors, TableErrors, ReusesIds, SplitsIds, Crashes} \subseteq BOOLEAN

VARIABLES
  spaces,      \* rows of knowledge_space
  documents,   \* rows of knowledge_document
  chunks,      \* document_chunk: the chunks of one sync are one element
  vectors,     \* the vector store: the vectors of one sync are one element
  last_id,     \* rows ever inserted into the tables, and threads started
  pc, arg,     \* where a request is, and what it holds
  thread,      \* the async_doc_embedding threads, by the number of their sync
  crashed,     \* history: the process died at least once
  lost         \* history: documents whose thread or request raised at the status RUNNING

tables == <<spaces, documents, chunks, vectors>>
vars == <<tables, last_id, pc, arg, thread, crashed, lost>>

None == 0   \* vector_ids is NULL

SpaceRow == [id : 1..MaxSpaces, name : Space]

\* vector_ids names the sync whose ids it lists.
DocRow == [id : 1..MaxDocs, space : Space, name : DocName,
           status : {"TODO", "RUNNING", "FINISHED", "FAILED"},
           vector_ids : 0..MaxSyncs]

\* Vectors of a load that broke off have ids that nobody got to know.
Vectors == [space : Space, sync : 1..MaxSyncs, known : BOOLEAN]

TypeOK ==
  /\ spaces \subseteq SpaceRow
  /\ documents \subseteq DocRow
  /\ \A s, t \in spaces : s.id = t.id => s = t
  /\ \A d, e \in documents : d.id = e.id => d = e
  /\ chunks \subseteq [document_id : 1..MaxDocs, sync : 1..MaxSyncs]
  /\ vectors \subseteq Vectors
  /\ last_id \in [space : 0..MaxSpaces, document : 0..MaxDocs, sync : 0..MaxSyncs]
  /\ DOMAIN pc = Client /\ DOMAIN arg = Client
  /\ thread \in [1..last_id.sync -> [state : {"embedding", "storing", "done"}, doc : DocRow]]
  /\ crashed \in BOOLEAN /\ lost \subseteq 1..MaxDocs

NoArg == [todo |-> <<>>]

Init ==
  /\ spaces = {} /\ documents = {} /\ chunks = {} /\ vectors = {}
  /\ last_id = [space |-> 0, document |-> 0, sync |-> 0]
  /\ pc = [c \in Client |-> "idle"]
  /\ arg = [c \in Client |-> NoArg]
  /\ thread = <<>>
  /\ crashed = FALSE /\ lost = {}
-----------------------------------------------------------------------------
(* Tables and requests *)

\* Mutant: session.add.
MergeAdds(table, row) == table \cup {row}

\* session.merge: the detached row replaces the stored one as a whole, and is
\* inserted again when it is no longer there.
Merge(table, row) == {r \in table : r.id # row.id} \cup {row}

\* The id of the n-th row ever inserted, in a table without AUTOINCREMENT and in
\* one with AUTO_INCREMENT.
IsNextId(id, table, n) ==
  /\ \A row \in table : row.id < id
  /\ IF ReusesIds THEN id = 1 \/ \E row \in table : row.id = id - 1 ELSE id = n

SpacesCalled(s) == {row \in spaces : row.name = s}

DocumentsCalled(s, n) == {row \in documents : row.space = s /\ row.name = n}

\* A request begins; a client that waits for its answers never overlaps itself.
Begins(c) ==
  /\ pc[c] = "idle"
  /\ Overlap \/ \A other \in Client : pc[other] = "idle"

Goes(c, step, held) ==
  /\ pc' = [pc EXCEPT ![c] = step]
  /\ arg' = [arg EXCEPT ![c] = held]

\* The request returns or raises.
Ends(c) == Goes(c, "idle", NoArg)

At(step) == Cardinality({c \in Client : pc[c] = step})

\* Bound: past it, sources cannot be read any more.
NoSyncLeft == last_id.sync + At("prepare") + At("mark") + At("start") >= MaxSyncs
-----------------------------------------------------------------------------
(* create_knowledge_space, create_knowledge_document *)

\* Mutant: the name is not looked up.
create_space_unchecked(c, s) ==
  /\ Begins(c)
  /\ last_id.space + At("insert_space") < MaxSpaces
  /\ Goes(c, "insert_space", [name |-> s])
  /\ UNCHANGED <<tables, last_id, thread, crashed, lost>>

\* Only when there is no space of that name; otherwise the request raises.
create_knowledge_space(c, s) ==
  /\ Begins(c)
  /\ last_id.space + At("insert_space") < MaxSpaces
  /\ SpacesCalled(s) = {}
  /\ Goes(c, "insert_space", [name |-> s])
  /\ UNCHANGED <<tables, last_id, thread, crashed, lost>>

InsertSpace(c) ==
  /\ pc[c] = "insert_space"
  /\ last_id' = [last_id EXCEPT !.space = @ + 1]
  /\ \E id \in 1..last_id'.space :
       /\ IsNextId(id, spaces, last_id'.space)
       /\ spaces' = spaces \cup {[id |-> id, name |-> arg[c].name]}
  /\ Ends(c)
  /\ UNCHANGED <<documents, chunks, vectors, thread, crashed, lost>>

\* Mutant: the name is looked up among documents that were not synced yet.
create_document_beside_synced(c, s, n) ==
  /\ Begins(c)
  /\ last_id.document + At("insert_document") < MaxDocs
  /\ \A row \in DocumentsCalled(s, n) : row.status # "TODO"
  /\ Goes(c, "insert_document", [space |-> s, name |-> n])
  /\ UNCHANGED <<tables, last_id, thread, crashed, lost>>

\* The space need not exist.
create_knowledge_document(c, s, n) ==
  /\ Begins(c)
  /\ last_id.document + At("insert_document") < MaxDocs
  /\ DocumentsCalled(s, n) = {}
  /\ Goes(c, "insert_document", [space |-> s, name |-> n])
  /\ UNCHANGED <<tables, last_id, thread, crashed, lost>>

InsertDocument(c) ==
  /\ pc[c] = "insert_document"
  /\ last_id' = [last_id EXCEPT !.document = @ + 1]
  /\ \E id \in 1..last_id'.document :
       /\ IsNextId(id, documents, last_id'.document)
       /\ documents' = documents \cup
            {[id |-> id, space |-> arg[c].space, name |-> arg[c].name,
              status |-> "TODO", vector_ids |-> None]}
  /\ Ends(c)
  /\ UNCHANGED <<spaces, chunks, vectors, thread, crashed, lost>>
-----------------------------------------------------------------------------
(* argument_save *)

argument_save(c, s) ==
  /\ Begins(c)
  /\ \E row \in SpacesCalled(s) :
       /\ SpacesCalled(s) = {row}
       /\ Goes(c, "save_space", [row |-> row])
  /\ UNCHANGED <<tables, last_id, thread, crashed, lost>>

SaveSpace(c) ==
  /\ pc[c] = "save_space"
  /\ spaces' = Merge(spaces, arg[c].row)
  /\ Ends(c)
  /\ UNCHANGED <<documents, chunks, vectors, last_id, thread, crashed, lost>>
-----------------------------------------------------------------------------
(* sync_knowledge_document: the loop over doc_ids *)

sync_knowledge_document(c, s, ids) ==
  /\ Begins(c)
  /\ Goes(c, "read", [space |-> s, todo |-> ids])
  /\ UNCHANGED <<tables, last_id, thread, crashed, lost>>

\* Mutant: only a finished document is refused.
ReadDocumentUnlessFinished(c) ==
  LET fit == {row \in documents : /\ row.id = Head(arg[c].todo) /\ row.space = arg[c].space
                                  /\ row.status # "FINISHED"} IN
  /\ pc[c] = "read"
  /\ \/ (fit = {} \/ NoSyncLeft) /\ Ends(c)
     \/ ~NoSyncLeft /\ \E row \in fit :
          Goes(c, "prepare", [space |-> arg[c].space, todo |-> arg[c].todo, row |-> row])
  /\ UNCHANGED <<tables, last_id, thread, crashed, lost>>

\* The row is read and checked; no row, or one that is RUNNING or FINISHED,
\* ends the request, with the documents after it unsynced.
ReadDocument(c) ==
  LET found == {row \in documents : row.id = Head(arg[c].todo) /\ row.space = arg[c].space}
      fit == {row \in found : row.status \notin {"RUNNING", "FINISHED"}} IN
  /\ pc[c] = "read"
  /\ \/ (fit = {} \/ NoSyncLeft) /\ Ends(c)
     \/ ~NoSyncLeft /\ \E row \in fit :
          Goes(c, "prepare", [space |-> arg[c].space, todo |-> arg[c].todo, row |-> row])
  /\ UNCHANGED <<tables, last_id, thread, crashed, lost>>

\* get_space_context wants exactly one space; then the source is read and split,
\* which may raise.
PrepareDocument(c) ==
  /\ pc[c] = "prepare"
  /\ \/ /\ Cardinality(SpacesCalled(arg[c].space)) = 1
        /\ Goes(c, "mark", arg[c])
     \/ Ends(c)
  /\ UNCHANGED <<tables, last_id, thread, crashed, lost>>

\* The row that was read is stored with its new status.
MarkRunning(c) ==
  LET doc == [arg[c].row EXCEPT !.status = "RUNNING"] IN
  /\ pc[c] = "mark"
  /\ documents' = Merge(documents, doc)
  /\ Goes(c, "start", [arg[c] EXCEPT !.row = doc])
  /\ UNCHANGED <<spaces, chunks, vectors, last_id, thread, crashed, lost>>

\* The row is committed and read again for its id: if that raises, no thread
\* is started.
MarkInVain(c) ==
  /\ TableErrors
  /\ pc[c] = "mark"
  /\ documents' = Merge(documents, [arg[c].row EXCEPT !.status = "RUNNING"])
  /\ lost' = lost \cup {arg[c].row.id}
  /\ Ends(c)
  /\ UNCHANGED <<spaces, chunks, vectors, last_id, thread, crashed>>

StartThread(c) ==
  /\ pc[c] = "start"
  /\ last_id' = [last_id EXCEPT !.sync = @ + 1]
  /\ thread' = Append(thread, [state |-> "embedding", doc |-> arg[c].row])
  /\ Goes(c, "chunks", [space |-> arg[c].space, todo |-> Tail(arg[c].todo),
                        chunk |-> [document_id |-> arg[c].row.id, sync |-> last_id'.sync]])
  /\ UNCHANGED <<tables, crashed, lost>>

SaveChunks(c) ==
  /\ pc[c] = "chunks"
  /\ chunks' = chunks \cup {arg[c].chunk}
  /\ IF arg[c].todo = <<>> THEN Ends(c)
     ELSE Goes(c, "read", [space |-> arg[c].space, todo |-> arg[c].todo])
  /\ UNCHANGED <<spaces, documents, vectors, last_id, thread, crashed, lost>>
-----------------------------------------------------------------------------
(* async_doc_embedding *)

\* Mutants: the exception ends the thread; success is recorded in a finally.
EmbedUncaught(t) ==
  /\ thread[t].state = "embedding"
  /\ \E known \in BOOLEAN :
       /\ thread' = [thread EXCEPT ![t].state = IF known THEN "storing" ELSE "done",
                                   ![t].doc.status = IF known THEN "FINISHED" ELSE @,
                                   ![t].doc.vector_ids = IF known THEN t ELSE @]
       /\ vectors' = vectors \cup {[space |-> thread[t].doc.space, sync |-> t, known |-> known]}
  /\ UNCHANGED <<spaces, documents, chunks, last_id, pc, arg, crashed, lost>>
EmbedFinishesAlways(t) ==
  /\ thread[t].state = "embedding"
  /\ \E known \in BOOLEAN :
       /\ thread' = [thread EXCEPT ![t].state = "storing", ![t].doc.status = "FINISHED",
                                   ![t].doc.vector_ids = IF known THEN t ELSE @]
       /\ vectors' = vectors \cup {[space |-> thread[t].doc.space, sync |-> t, known |-> known]}
  /\ UNCHANGED <<spaces, documents, chunks, last_id, pc, arg, crashed, lost>>

\* The row as the thread is going to store it.
Embedded(doc, t, known) ==
  IF known THEN [doc EXCEPT !.status = "FINISHED", !.vector_ids = t]
  ELSE [doc EXCEPT !.status = "FAILED"]

\* knowledge_embedding_batch stored the vectors, or raised at any point.
Embed(t) ==
  /\ thread[t].state = "embedding"
  /\ \E known \in BOOLEAN :
       /\ thread' = [thread EXCEPT ![t] = [state |-> "storing",
                                          doc |-> Embedded(thread[t].doc, t, known)]]
       /\ \/ vectors' = vectors \cup {[space |-> thread[t].doc.space, sync |-> t, known |-> known]}
          \/ ~known /\ UNCHANGED vectors
  /\ UNCHANGED <<spaces, documents, chunks, last_id, pc, arg, crashed, lost>>

\* Mutant: a failure is not written back.
StoreSuccessOnly(t) ==
  /\ thread[t].state = "storing"
  /\ documents' = IF thread[t].doc.status = "FAILED" THEN documents
                  ELSE Merge(documents, thread[t].doc)
  /\ thread' = [thread EXCEPT ![t].state = "done"]
  /\ UNCHANGED <<spaces, chunks, vectors, last_id, pc, arg, crashed, lost>>

StoreResult(t) ==
  /\ thread[t].state = "storing"
  /\ documents' = Merge(documents, thread[t].doc)
  /\ thread' = [thread EXCEPT ![t].state = "done"]
  /\ UNCHANGED <<spaces, chunks, vectors, last_id, pc, arg, crashed, lost>>

\* The write stands outside the try: when it raises, the thread ends with it.
LoseResult(t) ==
  /\ TableErrors
  /\ thread[t].state = "storing"
  /\ thread' = [thread EXCEPT ![t].state = "done"]
  /\ lost' = lost \cup {thread[t].doc.id}
  /\ UNCHANGED <<tables, last_id, pc, arg, crashed>>

Active(t) == thread[t].state # "done"
-----------------------------------------------------------------------------
(* delete_document *)

\* Nothing looks at the status; that deletions wait is up to the users.
MayDelete(rows) ==
  DeletesSyncing \/ \A t \in DOMAIN thread : Active(t) => \A row \in rows : row.id # thread[t].doc.id

\* Exactly one row, or the request raises.
delete_document(c, s, n) ==
  /\ Begins(c)
  /\ \E row \in DocumentsCalled(s, n) :
       /\ DocumentsCalled(s, n) = {row}
       /\ MayDelete({row})
       /\ Goes(c, IF row.vector_ids = None THEN "delete_chunks" ELSE "delete_vectors",
               [row |-> row])
  /\ UNCHANGED <<tables, last_id, thread, crashed, lost>>

\* Mutant: the vectors of a finished document are left to the space.
DeleteVectorsNever(c) ==
  /\ pc[c] = "delete_vectors"
  /\ Goes(c, "delete_chunks", arg[c])
  /\ UNCHANGED <<tables, last_id, thread, crashed, lost>>

\* vector_ids is one string.  A store that takes it for an id finds nothing (of
\* a document with more than one chunk, as all are here).
DeleteVectors(c) ==
  LET row == arg[c].row IN
  /\ pc[c] = "delete_vectors"
  /\ \/ /\ vectors' = IF SplitsIds
                      THEN {v \in vectors : ~(v.known /\ v.sync = row.vector_ids /\ v.space = row.space)}
                      ELSE vectors
        /\ Goes(c, "delete_chunks", arg[c])
     \/ /\ StoreErrors
        /\ Ends(c)
        /\ UNCHANGED vectors
  /\ UNCHANGED <<spaces, documents, chunks, last_id, thread, crashed, lost>>

DeleteChunks(c) ==
  /\ pc[c] = "delete_chunks"
  /\ chunks' = {k \in chunks : k.document_id # arg[c].row.id}
  /\ Goes(c, "delete_document", arg[c])
  /\ UNCHANGED <<spaces, documents, vectors, last_id, thread, crashed, lost>>

\* By space and name, not by the id of the row that was read.
DeleteDocument(c) ==
  /\ pc[c] = "delete_document"
  /\ documents' = documents \ DocumentsCalled(arg[c].row.space, arg[c].row.name)
  /\ Ends(c)
  /\ UNCHANGED <<spaces, chunks, vectors, last_id, thread, crashed, lost>>
-----------------------------------------------------------------------------
(* delete_space *)

InSpace(s) == {row \in documents : row.space = s}

\* The newest of the spaces of that name.
delete_space(c, s) ==
  /\ Begins(c)
  /\ MayDelete(InSpace(s))
  /\ \E row \in SpacesCalled(s) :
       /\ \A other \in SpacesCalled(s) : other.id <= row.id
       /\ Goes(c, "drop_vectors", [row |-> row])
  /\ UNCHANGED <<tables, last_id, thread, crashed, lost>>

\* Dropping the collection may fail before it, or after it while cleaning up.
DropVectors(c) ==
  LET rest == {v \in vectors : v.space # arg[c].row.name} IN
  /\ pc[c] = "drop_vectors"
  /\ \/ /\ vectors' = rest
        /\ Goes(c, "list_documents", arg[c])
     \/ /\ StoreErrors
        /\ vectors' \in {vectors, rest}
        /\ Ends(c)
  /\ UNCHANGED <<spaces, documents, chunks, last_id, thread, crashed, lost>>

ListDocuments(c) ==
  /\ pc[c] = "list_documents"
  /\ Goes(c, "delete_each", [row |-> arg[c].row,
                             ids |-> {doc.id : doc \in InSpace(arg[c].row.name)}])
  /\ UNCHANGED <<tables, last_id, thread, crashed, lost>>

\* One transaction for the chunks of each document, newest document first.
DeleteEachChunks(c) ==
  /\ pc[c] = "delete_each"
  /\ \E id \in arg[c].ids :
       /\ \A other \in arg[c].ids : other <= id
       /\ chunks' = {k \in chunks : k.document_id # id}
       /\ Goes(c, "delete_each", [arg[c] EXCEPT !.ids = @ \ {id}])
  /\ UNCHANGED <<spaces, documents, vectors, last_id, thread, crashed, lost>>

DeleteDocuments(c) ==
  /\ pc[c] = "delete_each" /\ arg[c].ids = {}
  /\ documents' = documents \ InSpace(arg[c].row.name)
  /\ Goes(c, "delete_space", arg[c])
  /\ UNCHANGED <<spaces, chunks, vectors, last_id, thread, crashed, lost>>

DeleteSpace(c) ==
  /\ pc[c] = "delete_space"
  /\ spaces' = {row \in spaces : row.id # arg[c].row.id}
  /\ Ends(c)
  /\ UNCHANGED <<documents, chunks, vectors, last_id, thread, crashed, lost>>
-----------------------------------------------------------------------------
\* Tables and vectors persist; requests and embedding threads do not.
Crash ==
  /\ Crashes /\ ~crashed
  /\ crashed' = TRUE
  /\ pc' = [c \in Client |-> "idle"]
  /\ arg' = [c \in Client |-> NoArg]
  /\ thread' = [t \in DOMAIN thread |-> [thread[t] EXCEPT !.state = "done"]]
  /\ UNCHANGED <<tables, last_id, lost>>

\* A step that reads or writes a table raises: nothing is committed, and the
\* request ends.
TableRaises(c) ==
  /\ TableErrors
  /\ pc[c] \notin {"idle", "start", "delete_vectors", "drop_vectors"}
  /\ Ends(c)
  /\ UNCHANGED <<tables, last_id, thread, crashed, lost>>

RequestStarts(c) ==
  \E s \in Space :
    \/ create_knowledge_space(c, s) \/ argument_save(c, s) \/ delete_space(c, s)
    \/ \E n \in DocName : create_knowledge_document(c, s, n) \/ delete_document(c, s, n)
    \/ \E ids \in DocIds : sync_knowledge_document(c, s, ids)

RequestGoesOn(c) ==
  \/ InsertSpace(c) \/ InsertDocument(c) \/ SaveSpace(c)
  \/ ReadDocument(c) \/ PrepareDocument(c) \/ MarkRunning(c) \/ StartThread(c) \/ SaveChunks(c)
  \/ MarkInVain(c) \/ TableRaises(c)
  \/ DeleteVectors(c) \/ DeleteChunks(c) \/ DeleteDocument(c)
  \/ DropVectors(c) \/ ListDocuments(c) \/ DeleteEachChunks(c) \/ DeleteDocuments(c) \/ DeleteSpace(c)

Next ==
  \/ \E c \in Client : RequestStarts(c) \/ RequestGoesOn(c)
  \/ \E t \in DOMAIN thread : Embed(t) \/ StoreResult(t) \/ LoseResult(t)
  \/ Crash

Spec == Init /\ [][Next]_vars

\* Threads of the pool and embedding threads are scheduled and their calls return.
FairSpec ==
  /\ Spec
  /\ \A c \in Client : WF_vars(RequestGoesOn(c))
  /\ \A t \in 1..MaxSyncs : WF_vars(t \in DOMAIN thread /\ (Embed(t) \/ StoreResult(t) \/ LoseResult(t)))
-----------------------------------------------------------------------------
(* Properties *)

BeingSynced(id) ==
  \/ \E c \in Client : pc[c] = "start" /\ arg[c].row.id = id
  \/ \E t \in DOMAIN thread : Active(t) /\ thread[t].doc.id = id

\* A document that says RUNNING is being synced: whatever overlaps, a thread that
\* will write a final status is running or about to be started, unless the
\* process died or that write, or the look at the row before it, raised.
RunningIsBeingSynced ==
  \A d \in documents : d.status = "RUNNING" => BeingSynced(d.id) \/ crashed \/ d.id \in lost

\* Nobody is going to store another status; after an exception a request that
\* read the row before it said RUNNING still may.
Abandoned(d) ==
  /\ d.status = "RUNNING" /\ ~BeingSynced(d.id)
  /\ d.id \in lost => \A c \in Client : pc[c] \in {"prepare", "mark"} => arg[c].row.id # d.id

\* The status left behind by a dead process or an exception is final: no request
\* ever syncs such a document again, it can only be deleted (service.py:167-173).
AbandonedStaysRunning ==
  [][\A d \in documents :
       Abandoned(d) /\ (\E e \in documents' : e.id = d.id)
         => d \in documents' /\ ~BeingSynced(d.id)']_vars

\* No document stays RUNNING for ever, unless the process died or a write raised.
SyncSettles ==
  \A id \in 1..MaxDocs :
    (\E d \in documents : d.id = id /\ d.status = "RUNNING")
      ~> ((\A d \in documents : d.id = id => d.status # "RUNNING") \/ crashed \/ id \in lost)

Deleting == \E c \in Client : pc[c] \in
  {"delete_vectors", "delete_chunks", "delete_document", "drop_vectors",
   "list_documents", "delete_each", "delete_space"}

\* A name names one document of a space ("have already named", service.py:74):
\* with two rows of a name neither can be deleted again.
OneDocumentPerName ==
  \A d, e \in documents : d.space = e.space /\ d.name = e.name => d = e

OneSpacePerName == \A s, t \in spaces : s.name = t.name => s = t

\* At most one thread embeds a document ("can not sync", service.py:172).
OneThreadPerDocument ==
  \A t, u \in DOMAIN thread :
    Active(t) /\ Active(u) /\ thread[t].doc.id = thread[u].doc.id => t = u

\* Between requests, a finished document can be searched: the vectors it lists
\* are stored, and so are the chunks of the same sync.
FinishedIsComplete ==
  ~Deleting =>
    \A d \in documents : d.status = "FINISHED" =>
      /\ [space |-> d.space, sync |-> d.vector_ids, known |-> TRUE] \in vectors
      /\ \/ [document_id |-> d.id, sync |-> d.vector_ids] \in chunks
         \/ \E c \in Client : pc[c] = "chunks" /\ arg[c].chunk.sync = d.vector_ids

\* Nothing is left of a deleted document: chunks belong to a row of the table,
\* and vectors whose ids got known are listed by one, or will be by their thread.
NothingOrphaned ==
  ~Deleting =>
    /\ \A k \in chunks : \E d \in documents : d.id = k.document_id
    /\ \A v \in vectors : v.known =>
         \/ \E d \in documents : d.vector_ids = v.sync
         \/ thread[v.sync].state = "storing"
=============================================================================
