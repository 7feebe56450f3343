------------------------ MODULE KnowledgeSerialProofs -------------------------
(***************************************************************************)
(* Theorems about the knowledge service for users who wait for an answer   *)
(* before they ask for the next thing: requests do not overlap, while the  *)
(* threads they started go on beside them.                                 *)
(***************************************************************************)
EXTENDS KnowledgeProofs

\* At most one request is under way.
Alone == \A b, c \in Client : pc[b] # "idle" /\ pc[c] # "idle" => b = c

Serial == ~Overlap /\ TypeInv /\ Alone

-----------------------------------------------------------------------------
(* What the steps of requests do *)

\* Nobody but c is under way, before and after the step.
Others(c) == \A o \in Client : o # c => pc[o] = "idle" /\ pc'[o] = "idle"

(* A request that moves is the only one. *)
LEMMA Moved ==
  ASSUME Serial, NEW c \in Client, NEW step, NEW held, Goes(c, step, held),
         pc[c] # "idle" \/ Begins(c)
  PROVE  pc'[c] = step /\ arg'[c] = held /\ Others(c) /\ Alone'
<1>1. /\ pc'[c] = step /\ arg'[c] = held
      /\ \A o \in Client : o # c => pc'[o] = pc[o]
  BY TypedPlaces, Going DEF Serial, TypeInv
<1>2. \A o \in Client : o # c => pc[o] = "idle"
  BY DEF Serial, Alone, Begins
<1> QED
  BY <1>1, <1>2 DEF Others, Alone

\* What a request that begins has looked up.
LookedUp(step, held) ==
  \/ step = "insert_space" /\ SpacesCalled(held.name) = {}
  \/ step = "save_space" /\ held.row \in spaces
  \/ step = "insert_document" /\ DocumentsCalled(held.space, held.name) = {}
  \/ step = "read"
  \/ step = "delete_vectors" /\ held.row \in documents /\ MayDelete({held.row})
  \/ step = "delete_chunks" /\ held.row \in documents /\ MayDelete({held.row})
                            /\ held.row.vector_ids = None
  \/ step = "drop_vectors" /\ MayDelete(InSpace(held.row.name))

LEMMA Begun ==
  ASSUME Serial, NEW c \in Client, RequestStarts(c)
  PROVE  /\ Others(c) /\ Alone' /\ pc[c] = "idle" /\ LookedUp(pc'[c], arg'[c])
         /\ UNCHANGED <<spaces, documents, chunks, vectors, last_id, thread, crashed, lost>>
<1>1. PICK s \in Space :
        \/ create_knowledge_space(c, s) \/ argument_save(c, s) \/ delete_space(c, s)
        \/ \E n \in DocName : create_knowledge_document(c, s, n) \/ delete_document(c, s, n)
        \/ \E ids \in DocIds : sync_knowledge_document(c, s, ids)
  BY DEF RequestStarts
<1>2. Begins(c) /\ UNCHANGED <<spaces, documents, chunks, vectors, last_id, thread, crashed, lost>>
  BY <1>1 DEF create_knowledge_space, argument_save, delete_space, create_knowledge_document,
     delete_document, sync_knowledge_document, tables
<1> DEFINE Goal == \E step, held : Goes(c, step, held) /\ LookedUp(step, held)
<1>3. ASSUME create_knowledge_space(c, s) PROVE Goal
  <2> DEFINE held == [name |-> s]
  <2>1. Goes(c, "insert_space", held) /\ SpacesCalled(held.name) = {}
    BY <1>3 DEF create_knowledge_space
  <2> HIDE DEF held
  <2> QED
    BY <2>1 DEF LookedUp
<1>4. ASSUME argument_save(c, s) PROVE Goal
  <2>1. PICK row \in spaces : Goes(c, "save_space", [row |-> row])
    BY <1>4 DEF argument_save, SpacesCalled
  <2> DEFINE held == [row |-> row]
  <2>2. Goes(c, "save_space", held) /\ held.row \in spaces
    BY <2>1
  <2> HIDE DEF held
  <2> QED
    BY <2>2 DEF LookedUp
<1>5. ASSUME delete_space(c, s) PROVE Goal
  <2>1. PICK row \in spaces : Goes(c, "drop_vectors", [row |-> row]) /\ row.name = s
    BY <1>5 DEF delete_space, SpacesCalled
  <2> DEFINE held == [row |-> row]
  <2>2. Goes(c, "drop_vectors", held) /\ MayDelete(InSpace(held.row.name))
    BY <1>5, <2>1 DEF delete_space
  <2> HIDE DEF held
  <2> QED
    BY <2>2 DEF LookedUp
<1>6. ASSUME NEW n \in DocName, create_knowledge_document(c, s, n) PROVE Goal
  <2> DEFINE held == [space |-> s, name |-> n]
  <2>1. Goes(c, "insert_document", held) /\ DocumentsCalled(held.space, held.name) = {}
    BY <1>6 DEF create_knowledge_document
  <2> HIDE DEF held
  <2> QED
    BY <2>1 DEF LookedUp
<1>7. ASSUME NEW n \in DocName, delete_document(c, s, n) PROVE Goal
  <2>1. PICK row \in documents :
          /\ MayDelete({row})
          /\ Goes(c, IF row.vector_ids = None THEN "delete_chunks" ELSE "delete_vectors",
                  [row |-> row])
    BY <1>7 DEF delete_document, DocumentsCalled
  <2> DEFINE held == [row |-> row]
  <2>2. /\ held.row = row
        /\ \/ row.vector_ids = None /\ Goes(c, "delete_chunks", held)
           \/ Goes(c, "delete_vectors", held)
    BY <2>1
  <2> HIDE DEF held
  <2> QED
    BY <2>1, <2>2 DEF LookedUp
<1>8. ASSUME NEW ids \in DocIds, sync_knowledge_document(c, s, ids) PROVE Goal
  BY <1>8 DEF sync_knowledge_document, LookedUp
<1>9. Goal
  BY <1>1, <1>3, <1>4, <1>5, <1>6, <1>7, <1>8
<1> HIDE DEF Goal
<1>10. PICK step, held : Goes(c, step, held) /\ LookedUp(step, held)
  BY <1>9 DEF Goal
<1>11. pc'[c] = step /\ arg'[c] = held /\ Others(c) /\ Alone'
  BY <1>2, <1>10, Moved
<1> QED
  BY <1>2, <1>10, <1>11 DEF Begins

(* Inserted rows have ids that no row of the table has. *)
LEMMA InsertedSpace ==
  ASSUME Serial, NEW c \in Client, InsertSpace(c)
  PROVE  /\ Others(c) /\ Alone' /\ pc[c] = "insert_space" /\ pc'[c] = "idle"
         /\ UNCHANGED <<documents, chunks, vectors, thread, crashed, lost>>
         /\ \E row : row.name = arg[c].name /\ spaces' = spaces \cup {row}
<1>1. pc[c] = "insert_space" /\ Goes(c, "idle", NoArg)
      /\ UNCHANGED <<documents, chunks, vectors, thread, crashed, lost>>
  BY DEF InsertSpace, Ends
<1>2. \E row : row.name = arg[c].name /\ spaces' = spaces \cup {row}
  BY DEF InsertSpace
<1> QED
  BY <1>1, <1>2, Moved

LEMMA InsertedDocument ==
  ASSUME Serial, NEW c \in Client, InsertDocument(c)
  PROVE  /\ Others(c) /\ Alone' /\ pc[c] = "insert_document" /\ pc'[c] = "idle"
         /\ UNCHANGED <<spaces, chunks, vectors, thread, crashed, lost>>
         /\ \E row : /\ documents' = documents \cup {row}
                     /\ row.space = arg[c].space /\ row.name = arg[c].name
                     /\ row.status = "TODO" /\ row.vector_ids = None
                     /\ \A d \in documents : d.id # row.id
                     /\ ReusesIds \/ \A t \in DOMAIN thread : thread[t].doc.id # row.id
<1>1. PICK id \in 1..last_id'.document :
        /\ IsNextId(id, documents, last_id'.document)
        /\ documents' = documents \cup
             {[id |-> id, space |-> arg[c].space, name |-> arg[c].name,
               status |-> "TODO", vector_ids |-> None]}
  BY DEF InsertDocument
<1> DEFINE row == [id |-> id, space |-> arg[c].space, name |-> arg[c].name,
                   status |-> "TODO", vector_ids |-> None]
<1>2. pc[c] = "insert_document" /\ Goes(c, "idle", NoArg)
      /\ UNCHANGED <<spaces, chunks, vectors, thread, crashed, lost>>
  BY DEF InsertDocument, Ends
<1>3. last_id'.document = last_id.document + 1 /\ last_id.document \in Nat
  BY TypedPlaces, KnowledgeAssumption DEF InsertDocument, Serial, TypeInv, Ids
<1>4. /\ \A d \in documents : d.id \in Nat /\ d.id < id
      /\ ReusesIds \/ id = last_id.document + 1
  BY <1>1, <1>3, KnowledgeAssumption DEF IsNextId, Serial, TypeInv, TypeOK, DocRow
<1>5. \A t \in DOMAIN thread : thread[t].doc.id <= last_id.document /\ thread[t].doc.id \in Nat
  BY KnowledgeAssumption DEF Serial, TypeInv, TypeOK, Numbered, DocRow
<1>6. /\ documents' = documents \cup {row}
      /\ row.id = id /\ row.space = arg[c].space /\ row.name = arg[c].name
      /\ row.status = "TODO" /\ row.vector_ids = None
  BY <1>1
<1> HIDE DEF row
<1>7. /\ \A d \in documents : d.id # row.id
      /\ ReusesIds \/ \A t \in DOMAIN thread : thread[t].doc.id # row.id
  BY <1>3, <1>4, <1>5, <1>6
<1> QED
  BY <1>2, <1>6, <1>7, Moved

\* A row takes the place of the one with its id, in every table of unique ids.
Replaces(row) ==
  /\ \A d \in documents' : (d \in documents /\ d.id # row.id) \/ d = row
  /\ \A d \in documents : d.id # row.id => d \in documents'
  /\ row \in documents'

LEMMA Replaced ==
  ASSUME TypeInv, NEW row, documents' = Merge(documents, row)
  PROVE  Replaces(row)
<1>1. \A r, q \in documents : r.id = q.id => r = q
  BY DEF TypeInv, TypeOK
<1> QED
  BY <1>1, MergeRows DEF Replaces, Merge

(* Rows that a sync may take are neither being synced nor finished. *)
LEMMA ReadOne ==
  ASSUME Serial, NEW c \in Client, ReadDocument(c)
  PROVE  /\ Others(c) /\ Alone' /\ pc[c] = "read"
         /\ UNCHANGED <<spaces, documents, chunks, vectors, last_id, thread, crashed, lost>>
         /\ \/ pc'[c] = "idle"
            \/ /\ pc'[c] = "prepare" /\ arg'[c].row \in documents
               /\ arg'[c].row.status \notin {"RUNNING", "FINISHED"}
<1>1. pc[c] = "read" /\ UNCHANGED <<spaces, documents, chunks, vectors, last_id, thread, crashed, lost>>
  BY DEF ReadDocument, tables
<1>2. CASE Ends(c)
  BY <1>1, <1>2, Moved DEF Ends
<1>3. CASE ~Ends(c)
  <2>1. PICK row \in documents :
          /\ row.status \notin {"RUNNING", "FINISHED"}
          /\ Goes(c, "prepare", [space |-> arg[c].space, todo |-> arg[c].todo, row |-> row])
    BY <1>3 DEF ReadDocument
  <2> DEFINE held == [space |-> arg[c].space, todo |-> arg[c].todo, row |-> row]
  <2>2. Goes(c, "prepare", held) /\ held.row = row
    BY <2>1
  <2> HIDE DEF held
  <2> QED
    BY <1>1, <2>1, <2>2, Moved
<1> QED
  BY <1>2, <1>3

LEMMA PreparedOne ==
  ASSUME Serial, NEW c \in Client, PrepareDocument(c)
  PROVE  /\ Others(c) /\ Alone' /\ pc[c] = "prepare"
         /\ UNCHANGED <<spaces, documents, chunks, vectors, last_id, thread, crashed, lost>>
         /\ \/ pc'[c] = "idle"
            \/ pc'[c] = "mark" /\ arg'[c] = arg[c]
BY Moved DEF PrepareDocument, Ends, tables

LEMMA MarkedOne ==
  ASSUME Serial, NEW c \in Client, MarkRunning(c)
  PROVE  /\ Others(c) /\ Alone' /\ pc[c] = "mark" /\ pc'[c] = "start"
         /\ UNCHANGED <<spaces, chunks, vectors, last_id, thread, crashed, lost>>
         /\ Replaces(arg'[c].row)
         /\ arg'[c].row.status = "RUNNING"
         /\ arg'[c].row.id = arg[c].row.id /\ arg'[c].row.space = arg[c].row.space
         /\ arg'[c].row.name = arg[c].row.name
         /\ arg'[c].row.vector_ids = arg[c].row.vector_ids
<1> DEFINE row == [arg[c].row EXCEPT !.status = "RUNNING"]
           held == [arg[c] EXCEPT !.row = row]
<1>1. /\ pc[c] = "mark" /\ Goes(c, "start", held) /\ documents' = Merge(documents, row)
      /\ UNCHANGED <<spaces, chunks, vectors, last_id, thread, crashed, lost>>
  BY DEF MarkRunning
<1>2. Fits("mark", arg[c], last_id)
  BY <1>1 DEF Serial, TypeInv, Held
<1>3. /\ arg[c] = [space |-> arg[c].space, todo |-> arg[c].todo, row |-> arg[c].row]
      /\ arg[c].row \in DocRow
  BY <1>2 DEF Fits
<1>4. /\ row.status = "RUNNING" /\ row.id = arg[c].row.id /\ row.space = arg[c].row.space
      /\ row.name = arg[c].row.name /\ row.vector_ids = arg[c].row.vector_ids
  BY <1>3 DEF DocRow
<1>5. held = [space |-> arg[c].space, todo |-> arg[c].todo, row |-> row]
  BY <1>3
<1>6. held.row = row
  BY <1>5
<1> HIDE DEF row, held
<1>7. pc'[c] = "start" /\ arg'[c].row = row /\ Others(c) /\ Alone'
  BY <1>1, <1>6, Moved
<1>8. Replaces(row)
  BY <1>1, Replaced DEF Serial
<1> QED
  BY <1>1, <1>4, <1>7, <1>8

(* A request that marks in vain ends, and one whose table raises changes nothing. *)
LEMMA VainOne ==
  ASSUME Serial, NEW c \in Client, MarkInVain(c)
  PROVE  /\ TableErrors /\ Others(c) /\ Alone' /\ pc[c] = "mark" /\ pc'[c] = "idle"
         /\ UNCHANGED <<spaces, chunks, vectors, last_id, thread, crashed>>
         /\ \E row : /\ Replaces(row) /\ row.status = "RUNNING"
                     /\ row.id = arg[c].row.id /\ row.space = arg[c].row.space
                     /\ row.name = arg[c].row.name /\ row.vector_ids = arg[c].row.vector_ids
<1> DEFINE row == [arg[c].row EXCEPT !.status = "RUNNING"]
<1>1. /\ TableErrors /\ pc[c] = "mark" /\ Goes(c, "idle", NoArg)
      /\ documents' = Merge(documents, row)
      /\ UNCHANGED <<spaces, chunks, vectors, last_id, thread, crashed>>
  BY DEF MarkInVain, Ends
<1>2. arg[c].row \in DocRow
  BY <1>1 DEF Serial, TypeInv, Held, Fits
<1>3. /\ row.status = "RUNNING" /\ row.id = arg[c].row.id /\ row.space = arg[c].row.space
      /\ row.name = arg[c].row.name /\ row.vector_ids = arg[c].row.vector_ids
  BY <1>2 DEF DocRow
<1> HIDE DEF row
<1>4. Replaces(row)
  BY <1>1, Replaced DEF Serial
<1> QED
  BY <1>1, <1>3, <1>4, Moved

LEMMA RaisedOne ==
  ASSUME Serial, NEW c \in Client, TableRaises(c)
  PROVE  /\ TableErrors /\ Others(c) /\ Alone' /\ pc'[c] = "idle"
         /\ UNCHANGED <<spaces, documents, chunks, vectors, last_id, thread, crashed, lost>>
BY Moved DEF TableRaises, Ends, tables

(* The thread that is started takes the next number. *)
LEMMA StartedOne ==
  ASSUME Serial, NEW c \in Client, StartThread(c)
  PROVE  /\ Others(c) /\ Alone' /\ pc[c] = "start" /\ pc'[c] = "chunks"
         /\ UNCHANGED <<spaces, documents, chunks, vectors, crashed, lost>>
         /\ \E n : /\ n \notin DOMAIN thread /\ n # None /\ DOMAIN thread' = DOMAIN thread \cup {n}
                   /\ thread'[n].state = "embedding" /\ thread'[n].doc = arg[c].row
                   /\ \A t \in DOMAIN thread : thread'[t] = thread[t]
                   /\ arg'[c].chunk = [document_id |-> arg[c].row.id, sync |-> n]
<1> DEFINE new == [state |-> "embedding", doc |-> arg[c].row]
           chunk == [document_id |-> arg[c].row.id, sync |-> last_id'.sync]
           held == [space |-> arg[c].space, todo |-> Tail(arg[c].todo), chunk |-> chunk]
           n == last_id.sync
           Thread == [state : {"embedding", "storing", "done"}, doc : DocRow]
<1>1. /\ pc[c] = "start" /\ UNCHANGED <<spaces, documents, chunks, vectors, crashed, lost>>
      /\ thread' = Append(thread, new) /\ Goes(c, "chunks", held)
  BY DEF StartThread, tables
<1>2. n \in Nat /\ last_id'.sync = n + 1
  BY TypedPlaces, KnowledgeAssumption DEF StartThread, Serial, TypeInv, Ids
<1>3. thread \in [1..n -> Thread]
  BY DEF Serial, TypeInv, TypeOK
<1>4. new \in Thread
  <2>1. arg[c].row \in DocRow
    BY <1>1 DEF Serial, TypeInv, Held, Fits
  <2> QED
    BY <2>1
<1>5. /\ new.state = "embedding" /\ new.doc = arg[c].row
      /\ held.chunk = [document_id |-> arg[c].row.id, sync |-> n + 1]
  BY <1>2
<1> HIDE DEF Thread, n, new, held
<1>6. thread \in Seq(Thread) /\ Len(thread) = n /\ DOMAIN thread = 1..n
  BY <1>2, <1>3
<1>7. /\ thread' \in Seq(Thread) /\ Len(thread') = n + 1 /\ thread'[n + 1] = new
      /\ \A t \in 1..n : thread'[t] = thread[t]
  BY <1>1, <1>4, <1>6, AppendProperties
<1>8. DOMAIN thread' = 1..(n + 1)
  BY <1>2, <1>7
<1>9. n + 1 \notin DOMAIN thread /\ n + 1 # None /\ DOMAIN thread' = DOMAIN thread \cup {n + 1}
  BY <1>2, <1>6, <1>8 DEF None
<1>10. pc'[c] = "chunks" /\ arg'[c] = held /\ Others(c) /\ Alone'
  BY <1>1, Moved
<1> QED
  BY <1>1, <1>5, <1>6, <1>7, <1>9, <1>10

LEMMA SavedChunks ==
  ASSUME Serial, NEW c \in Client, SaveChunks(c)
  PROVE  /\ Others(c) /\ Alone' /\ pc[c] = "chunks" /\ pc'[c] \in {"idle", "read"}
         /\ UNCHANGED <<spaces, documents, vectors, last_id, thread, crashed, lost>>
         /\ chunks' = chunks \cup {arg[c].chunk}
<1>1. PICK step \in {"idle", "read"} : \E held : Goes(c, step, held)
  BY DEF SaveChunks, Ends
<1> PICK held : Goes(c, step, held)
  BY <1>1
<1>2. pc[c] = "chunks"
  BY DEF SaveChunks
<1>3. pc'[c] = step /\ Others(c) /\ Alone'
  BY <1>2, Moved
<1> QED
  BY <1>2, <1>3 DEF SaveChunks

(* Requests that delete, step by step. *)
LEMMA VectorsDeleted ==
  ASSUME Serial, NEW c \in Client, DeleteVectors(c)
  PROVE  /\ Others(c) /\ Alone' /\ pc[c] = "delete_vectors"
         /\ UNCHANGED <<spaces, documents, chunks, last_id, thread, crashed, lost>>
         /\ \/ /\ pc'[c] = "delete_chunks" /\ arg'[c] = arg[c]
               /\ vectors' = IF SplitsIds
                             THEN {v \in vectors : ~(/\ v.known /\ v.sync = arg[c].row.vector_ids
                                                     /\ v.space = arg[c].row.space)}
                             ELSE vectors
            \/ StoreErrors /\ pc'[c] = "idle" /\ UNCHANGED vectors
BY Moved DEF DeleteVectors, Ends

LEMMA ChunksDeleted ==
  ASSUME Serial, NEW c \in Client, DeleteChunks(c)
  PROVE  /\ Others(c) /\ Alone' /\ pc[c] = "delete_chunks" /\ pc'[c] = "delete_document"
         /\ arg'[c] = arg[c]
         /\ UNCHANGED <<spaces, documents, vectors, last_id, thread, crashed, lost>>
         /\ chunks' = {k \in chunks : k.document_id # arg[c].row.id}
BY Moved DEF DeleteChunks

LEMMA DocumentDeleted ==
  ASSUME Serial, NEW c \in Client, DeleteDocument(c)
  PROVE  /\ Others(c) /\ Alone' /\ pc[c] = "delete_document" /\ pc'[c] = "idle"
         /\ UNCHANGED <<spaces, chunks, vectors, last_id, thread, crashed, lost>>
         /\ documents' = documents \ DocumentsCalled(arg[c].row.space, arg[c].row.name)
BY Moved DEF DeleteDocument, Ends

LEMMA VectorsDropped ==
  ASSUME Serial, NEW c \in Client, DropVectors(c)
  PROVE  /\ Others(c) /\ Alone' /\ pc[c] = "drop_vectors" /\ vectors' \subseteq vectors
         /\ UNCHANGED <<spaces, documents, chunks, last_id, thread, crashed, lost>>
         /\ \/ /\ pc'[c] = "list_documents" /\ arg'[c] = arg[c]
               /\ vectors' = {v \in vectors : v.space # arg[c].row.name}
            \/ StoreErrors /\ pc'[c] = "idle"
BY Moved DEF DropVectors, Ends

LEMMA DocumentsListed ==
  ASSUME Serial, NEW c \in Client, ListDocuments(c)
  PROVE  /\ Others(c) /\ Alone' /\ pc[c] = "list_documents" /\ pc'[c] = "delete_each"
         /\ UNCHANGED <<spaces, documents, chunks, vectors, last_id, thread, crashed, lost>>
         /\ arg'[c].row = arg[c].row
         /\ arg'[c].ids = {doc.id : doc \in InSpace(arg[c].row.name)}
         /\ arg'[c] = [row |-> arg'[c].row, ids |-> arg'[c].ids]
<1> DEFINE held == [row |-> arg[c].row, ids |-> {doc.id : doc \in InSpace(arg[c].row.name)}]
<1>1. /\ pc[c] = "list_documents" /\ Goes(c, "delete_each", held)
      /\ UNCHANGED <<spaces, documents, chunks, vectors, last_id, thread, crashed, lost>>
  BY DEF ListDocuments, tables
<1>2. /\ held.row = arg[c].row /\ held.ids = {doc.id : doc \in InSpace(arg[c].row.name)}
      /\ held = [row |-> held.row, ids |-> held.ids]
  OBVIOUS
<1> HIDE DEF held
<1>3. pc'[c] = "delete_each" /\ arg'[c] = held /\ Others(c) /\ Alone'
  BY <1>1, Moved
<1> QED
  BY <1>1, <1>2, <1>3

\* What a request holds while it deletes the chunks of a space.
Listing(held) == held = [row |-> held.row, ids |-> held.ids]

LEMMA EachDeleted ==
  ASSUME Serial, NEW c \in Client, DeleteEachChunks(c), Listing(arg[c])
  PROVE  /\ Others(c) /\ Alone' /\ pc[c] = "delete_each" /\ pc'[c] = "delete_each"
         /\ UNCHANGED <<spaces, documents, vectors, last_id, thread, crashed, lost>>
         /\ Listing(arg'[c]) /\ arg'[c].row = arg[c].row
         /\ \E id \in arg[c].ids : /\ arg'[c].ids = arg[c].ids \ {id}
                                   /\ chunks' = {k \in chunks : k.document_id # id}
<1>1. PICK id \in arg[c].ids :
        /\ chunks' = {k \in chunks : k.document_id # id}
        /\ Goes(c, "delete_each", [arg[c] EXCEPT !.ids = @ \ {id}])
  BY DEF DeleteEachChunks
<1> DEFINE held == [arg[c] EXCEPT !.ids = @ \ {id}]
<1>2. held = [row |-> arg[c].row, ids |-> arg[c].ids \ {id}]
  BY DEF Listing
<1>3. held.row = arg[c].row /\ held.ids = arg[c].ids \ {id} /\ Listing(held)
  BY <1>2 DEF Listing
<1>4. pc[c] = "delete_each" /\ UNCHANGED <<spaces, documents, vectors, last_id, thread, crashed, lost>>
  BY DEF DeleteEachChunks
<1>5. Goes(c, "delete_each", held)
  BY <1>1
<1> HIDE DEF held
<1>6. pc'[c] = "delete_each" /\ arg'[c] = held /\ Others(c) /\ Alone'
  BY <1>4, <1>5, Moved
<1> QED
  BY <1>1, <1>3, <1>4, <1>6

LEMMA DocumentsDeleted ==
  ASSUME Serial, NEW c \in Client, DeleteDocuments(c)
  PROVE  /\ Others(c) /\ Alone' /\ pc[c] = "delete_each" /\ pc'[c] = "delete_space"
         /\ arg[c].ids = {}
         /\ UNCHANGED <<spaces, chunks, vectors, last_id, thread, crashed, lost>>
         /\ documents' = documents \ InSpace(arg[c].row.name)
BY Moved DEF DeleteDocuments

LEMMA SpaceDeleted ==
  ASSUME Serial, NEW c \in Client, DeleteSpace(c)
  PROVE  /\ Others(c) /\ Alone' /\ pc[c] = "delete_space" /\ pc'[c] = "idle"
         /\ UNCHANGED <<documents, chunks, vectors, last_id, thread, crashed, lost>>
         /\ spaces' \subseteq spaces
BY Moved DEF DeleteSpace, Ends

LEMMA SavedSpace ==
  ASSUME Serial, NEW c \in Client, SaveSpace(c)
  PROVE  /\ Others(c) /\ Alone' /\ pc[c] = "save_space" /\ pc'[c] = "idle"
         /\ UNCHANGED <<documents, chunks, vectors, last_id, thread, crashed, lost>>
         /\ \A s \in spaces' : s \in spaces \/ s = arg[c].row
BY Moved DEF SaveSpace, Ends, Merge

-----------------------------------------------------------------------------
(* What the steps of embedding threads do *)

LEMMA EmbeddedOne ==
  ASSUME TypeInv, NEW t \in DOMAIN thread, Embed(t)
  PROVE  /\ UNCHANGED <<spaces, documents, chunks, last_id, pc, arg, crashed, lost>>
         /\ thread[t].state = "embedding" /\ DOMAIN thread' = DOMAIN thread
         /\ \A u \in DOMAIN thread : u # t => thread'[u] = thread[u]
         /\ thread'[t].state = "storing"
         /\ thread'[t].doc.id = thread[t].doc.id /\ thread'[t].doc.space = thread[t].doc.space
         /\ thread'[t].doc.name = thread[t].doc.name
         /\ \/ /\ thread'[t].doc.status = "FINISHED" /\ thread'[t].doc.vector_ids = t
               /\ vectors' = vectors \cup
                    {[space |-> thread[t].doc.space, sync |-> t, known |-> TRUE]}
            \/ /\ thread'[t].doc.status = "FAILED"
               /\ thread'[t].doc.vector_ids = thread[t].doc.vector_ids
               /\ \/ vectors' = vectors \cup
                       {[space |-> thread[t].doc.space, sync |-> t, known |-> FALSE]}
                  \/ UNCHANGED vectors
<1> DEFINE old == thread[t].doc
           Thread == [state : {"embedding", "storing", "done"}, doc : DocRow]
<1>1. PICK known \in BOOLEAN :
        /\ thread' = [thread EXCEPT ![t] = [state |-> "storing", doc |-> Embedded(old, t, known)]]
        /\ \/ vectors' = vectors \cup {[space |-> old.space, sync |-> t, known |-> known]}
           \/ ~known /\ UNCHANGED vectors
  BY DEF Embed
<1>2. /\ UNCHANGED <<spaces, documents, chunks, last_id, pc, arg, crashed, lost>>
      /\ thread[t].state = "embedding"
  BY DEF Embed
<1>3. old \in DocRow
  <2>1. thread[t] \in Thread
    BY DEF TypeInv, TypeOK
  <2> QED
    BY <2>1
<1> DEFINE doc == Embedded(old, t, known)
<1>4. /\ DOMAIN thread' = DOMAIN thread
      /\ \A u \in DOMAIN thread : u # t => thread'[u] = thread[u]
      /\ thread'[t].state = "storing" /\ thread'[t].doc = doc
  <2> HIDE DEF doc
  <2> QED
    BY <1>1 DEF doc
<1>5. doc.id = old.id /\ doc.space = old.space /\ doc.name = old.name
  BY <1>3 DEF Embedded, DocRow
<1>6. known => doc.status = "FINISHED" /\ doc.vector_ids = t
  BY <1>3 DEF Embedded, DocRow
<1>7. ~known => doc.status = "FAILED" /\ doc.vector_ids = old.vector_ids
  BY <1>3 DEF Embedded, DocRow
<1> HIDE DEF doc, Thread
<1>8. CASE known = TRUE
  BY <1>1, <1>2, <1>4, <1>5, <1>6, <1>8
<1>9. CASE known = FALSE
  BY <1>1, <1>2, <1>4, <1>5, <1>7, <1>9
<1> QED
  BY <1>8, <1>9

LEMMA StoredOne ==
  ASSUME TypeInv, NEW t \in DOMAIN thread, StoreResult(t)
  PROVE  /\ UNCHANGED <<spaces, chunks, vectors, last_id, pc, arg, crashed, lost>>
         /\ thread[t].state = "storing" /\ DOMAIN thread' = DOMAIN thread
         /\ \A u \in DOMAIN thread : u # t => thread'[u] = thread[u]
         /\ thread'[t].state = "done" /\ thread'[t].doc = thread[t].doc
         /\ Replaces(thread[t].doc) /\ thread[t].doc.status # "RUNNING"
<1>1. /\ UNCHANGED <<spaces, chunks, vectors, last_id, pc, arg, crashed, lost>>
      /\ thread[t].state = "storing" /\ thread' = [thread EXCEPT ![t].state = "done"]
      /\ documents' = Merge(documents, thread[t].doc)
  BY DEF StoreResult
<1>2. Replaces(thread[t].doc)
  BY <1>1, Replaced
<1>3. thread[t].doc.status # "RUNNING"
  BY <1>1 DEF TypeInv, Outcomes
<1>4. /\ DOMAIN thread' = DOMAIN thread
      /\ \A u \in DOMAIN thread : u # t => thread'[u] = thread[u]
      /\ thread'[t].state = "done" /\ thread'[t].doc = thread[t].doc
  BY <1>1 DEF TypeInv, TypeOK
<1> QED
  BY <1>1, <1>2, <1>3, <1>4

LEMMA LostOne ==
  ASSUME TypeInv, NEW t \in DOMAIN thread, LoseResult(t)
  PROVE  /\ TableErrors
         /\ UNCHANGED <<spaces, documents, chunks, vectors, last_id, pc, arg, crashed>>
         /\ thread[t].state = "storing" /\ DOMAIN thread' = DOMAIN thread
         /\ \A u \in DOMAIN thread : u # t => thread'[u] = thread[u]
         /\ thread'[t].state = "done" /\ thread'[t].doc = thread[t].doc
<1>1. /\ TableErrors /\ thread[t].state = "storing" /\ thread' = [thread EXCEPT ![t].state = "done"]
      /\ UNCHANGED <<spaces, documents, chunks, vectors, last_id, pc, arg, crashed>>
  BY DEF LoseResult, tables
<1>2. /\ DOMAIN thread' = DOMAIN thread
      /\ \A u \in DOMAIN thread : u # t => thread'[u] = thread[u]
      /\ thread'[t].state = "done" /\ thread'[t].doc = thread[t].doc
  BY <1>1 DEF TypeInv, TypeOK
<1> QED
  BY <1>1, <1>2

LEMMA Crashed ==
  ASSUME TypeInv, Crash
  PROVE  /\ Crashes /\ UNCHANGED <<spaces, documents, chunks, vectors, last_id>>
         /\ \A c \in Client : pc'[c] = "idle"
         /\ DOMAIN thread' = DOMAIN thread
         /\ \A t \in DOMAIN thread : thread'[t].state = "done" /\ thread'[t].doc = thread[t].doc
<1>1. thread' = [t \in DOMAIN thread |-> [thread[t] EXCEPT !.state = "done"]]
  BY DEF Crash
<1>2. \A t \in DOMAIN thread : thread'[t].state = "done" /\ thread'[t].doc = thread[t].doc
  BY <1>1 DEF TypeInv, TypeOK
<1> QED
  BY <1>1, <1>2 DEF Crash, tables

(* The steps of a request under way. *)
LEMMA GoesOnAlone ==
  ASSUME Serial, NEW c \in Client, RequestGoesOn(c)
  PROVE  Alone'
<1>1. CASE \/ InsertSpace(c) \/ InsertDocument(c) \/ SaveSpace(c) \/ ReadDocument(c)
           \/ PrepareDocument(c) \/ MarkRunning(c) \/ StartThread(c) \/ SaveChunks(c)
  BY <1>1, InsertedSpace, InsertedDocument, SavedSpace, ReadOne, PreparedOne, MarkedOne,
     StartedOne, SavedChunks
<1>2. CASE \/ DeleteVectors(c) \/ DeleteChunks(c) \/ DeleteDocument(c) \/ DropVectors(c)
           \/ ListDocuments(c) \/ DeleteDocuments(c) \/ DeleteSpace(c)
  BY <1>2, VectorsDeleted, ChunksDeleted, DocumentDeleted, VectorsDropped, DocumentsListed,
     DocumentsDeleted, SpaceDeleted
<1>3. CASE DeleteEachChunks(c)
  BY <1>3, Moved DEF DeleteEachChunks
<1>4. CASE MarkInVain(c) \/ TableRaises(c)
  BY <1>4, VainOne, RaisedOne
<1> QED
  BY <1>1, <1>2, <1>3, <1>4 DEF RequestGoesOn

LEMMA SerialKept == Serial /\ [Next]_vars => Serial'
<1> SUFFICES ASSUME Serial, [Next]_vars PROVE Serial'
  OBVIOUS
<1>1. ASSUME NEW c \in Client, RequestStarts(c) \/ RequestGoesOn(c) PROVE Alone'
  BY <1>1, Begun, GoesOnAlone
<1>2. ASSUME NEW t \in DOMAIN thread, Embed(t) \/ StoreResult(t) \/ LoseResult(t) PROVE Alone'
  BY <1>2 DEF Embed, StoreResult, LoseResult, Serial, Alone
<1>3. ASSUME Crash \/ UNCHANGED vars PROVE Alone'
  BY <1>3, Crashed DEF Serial, Alone, vars
<1>4. Alone'
  BY <1>1, <1>2, <1>3 DEF Next
<1> QED
  BY <1>4, TypesKept DEF Serial

LEMMA SerialAtFirst == ~Overlap /\ Init => Serial
BY InitTypes DEF Init, Serial, Alone

-----------------------------------------------------------------------------
(* Spaces *)

\* The look-up of a request that inserts a space still holds, and a row that is
\* to be stored again is still in the table.
SpaceHeld(c) ==
  /\ pc[c] = "insert_space" => SpacesCalled(arg[c].name) = {}
  /\ pc[c] = "save_space" => arg[c].row \in spaces

SpaceInv == OneSpacePerName /\ \A c \in Client : SpaceHeld(c)

(* Whoever moves, nobody else holds anything about a space. *)
LEMMA SpaceMoved ==
  ASSUME NEW c \in Client, Others(c), pc'[c] \notin {"insert_space", "save_space"}, OneSpacePerName'
  PROVE  SpaceInv'
BY DEF SpaceInv, SpaceHeld, Others

LEMMA SpaceFewer == OneSpacePerName /\ spaces' \subseteq spaces => OneSpacePerName'
BY DEF OneSpacePerName

LEMMA SpaceStep ==
  ASSUME Serial, SpaceInv, NEW c \in Client, RequestStarts(c) \/ RequestGoesOn(c)
  PROVE  SpaceInv'
<1>1. CASE RequestStarts(c)
  <2>1. OneSpacePerName' /\ UNCHANGED spaces
    BY <1>1, Begun DEF SpaceInv, OneSpacePerName
  <2>2. SpaceHeld(c)'
    BY <1>1, Begun DEF LookedUp, SpaceHeld, SpacesCalled
  <2>3. \A o \in Client : o # c => SpaceHeld(o)'
    BY <1>1, Begun DEF Others, SpaceHeld
  <2> QED
    BY <2>1, <2>2, <2>3 DEF SpaceInv
<1>2. CASE InsertSpace(c)
  <2>1. PICK row : row.name = arg[c].name /\ spaces' = spaces \cup {row}
    BY <1>2, InsertedSpace
  <2>2. \A s \in spaces : s.name # row.name
    BY <1>2, <2>1, InsertedSpace DEF SpaceInv, SpaceHeld, SpacesCalled
  <2>3. OneSpacePerName'
    BY <2>1, <2>2 DEF SpaceInv, OneSpacePerName
  <2> QED
    BY <1>2, <2>3, InsertedSpace, SpaceMoved
<1>3. CASE SaveSpace(c)
  <2>1. spaces' \subseteq spaces
    BY <1>3, SavedSpace DEF SpaceInv, SpaceHeld
  <2> QED
    BY <1>3, <2>1, SavedSpace, SpaceFewer, SpaceMoved DEF SpaceInv
<1>4. CASE \/ InsertDocument(c) \/ ReadDocument(c) \/ PrepareDocument(c) \/ MarkRunning(c)
           \/ StartThread(c) \/ SaveChunks(c)
  <2>1. /\ spaces' \subseteq spaces /\ Others(c)
        /\ pc'[c] \in {"idle", "prepare", "mark", "start", "chunks", "read"}
    BY <1>4, InsertedDocument, ReadOne, PreparedOne, MarkedOne, StartedOne, SavedChunks
  <2> QED
    BY <2>1, SpaceFewer, SpaceMoved DEF SpaceInv
<1>5. CASE \/ DeleteVectors(c) \/ DeleteChunks(c) \/ DeleteDocument(c) \/ DropVectors(c)
           \/ ListDocuments(c) \/ DeleteDocuments(c) \/ DeleteSpace(c)
  <2>1. /\ spaces' \subseteq spaces /\ Others(c)
        /\ pc'[c] \in {"idle", "delete_chunks", "delete_document", "list_documents",
                       "delete_each", "delete_space"}
    BY <1>5, VectorsDeleted, ChunksDeleted, DocumentDeleted, VectorsDropped, DocumentsListed,
       DocumentsDeleted, SpaceDeleted
  <2> QED
    BY <2>1, SpaceFewer, SpaceMoved DEF SpaceInv
<1>6. CASE DeleteEachChunks(c)
  <2>1. UNCHANGED spaces /\ Others(c) /\ pc'[c] = "delete_each"
    BY <1>6, Moved DEF DeleteEachChunks
  <2> QED
    BY <2>1, SpaceFewer, SpaceMoved DEF SpaceInv
<1>7. CASE MarkInVain(c) \/ TableRaises(c)
  <2>1. UNCHANGED spaces /\ Others(c) /\ pc'[c] = "idle"
    BY <1>7, VainOne, RaisedOne
  <2> QED
    BY <2>1, SpaceFewer, SpaceMoved DEF SpaceInv
<1> QED
  BY <1>1, <1>2, <1>3, <1>4, <1>5, <1>6, <1>7 DEF RequestGoesOn

LEMMA SpaceKept == Serial /\ SpaceInv /\ [Next]_vars => SpaceInv'
<1> SUFFICES ASSUME Serial, SpaceInv, [Next]_vars PROVE SpaceInv'
  OBVIOUS
<1>1. ASSUME NEW t \in DOMAIN thread, Embed(t) \/ StoreResult(t) \/ LoseResult(t)
      PROVE  SpaceInv'
  BY <1>1 DEF Embed, StoreResult, LoseResult, tables, SpaceInv, OneSpacePerName, SpaceHeld, SpacesCalled
<1>2. CASE Crash
  BY <1>2, Crashed DEF Serial, SpaceInv, OneSpacePerName, SpaceHeld
<1>3. CASE UNCHANGED vars
  BY <1>3 DEF vars, tables, SpaceInv, OneSpacePerName, SpaceHeld, SpacesCalled
<1> QED
  BY <1>1, <1>2, <1>3, SpaceStep DEF Next

-----------------------------------------------------------------------------
(* Threads *)

\* A thread embeds the document.
Embedding(id) == \E t \in DOMAIN thread : Active(t) /\ thread[t].doc.id = id

\* The row of the document a thread embeds is still in the table.
Lists(t) == \E d \in documents : /\ d.id = thread[t].doc.id /\ d.status = "RUNNING"
                                 /\ d.space = thread[t].doc.space /\ d.name = thread[t].doc.name

\* What keeps a new row from the id of a document that a thread embeds.
Apart == ~ReusesIds \/ \A t \in DOMAIN thread : Active(t) => Lists(t)

\* A document that a request is going to sync has no thread yet.
SyncHeld(c) ==
  /\ pc[c] \in {"prepare", "mark", "start"} => ~Embedding(arg[c].row.id)
  /\ pc[c] = "start" => \A d \in documents : d.id = arg[c].row.id => d.status = "RUNNING"

\* While a thread embeds a document its row says RUNNING, so that no request
\* finds it fit for another sync.
ThreadInv ==
  /\ OneThreadPerDocument
  /\ \A t \in DOMAIN thread : Active(t) =>
       \A d \in documents : d.id = thread[t].doc.id => d.status = "RUNNING"
  /\ \A c \in Client : SyncHeld(c)

(* A step that neither syncs a document nor moves a thread. *)
LEMMA ThreadMoved ==
  ASSUME ThreadInv, NEW c \in Client, Others(c), pc'[c] \notin {"prepare", "mark", "start"},
         documents' \subseteq documents, UNCHANGED thread
  PROVE  ThreadInv'
<1>1. OneThreadPerDocument'
  BY DEF ThreadInv, OneThreadPerDocument, Active
<1>2. \A o \in Client : SyncHeld(o)'
  BY DEF Others, SyncHeld
<1>3. (\A t \in DOMAIN thread : Active(t) =>
         \A d \in documents : d.id = thread[t].doc.id => d.status = "RUNNING")'
  BY DEF ThreadInv, Active
<1> QED
  BY <1>1, <1>2, <1>3 DEF ThreadInv

LEMMA ThreadStep ==
  ASSUME Serial, ThreadInv, Apart, NEW c \in Client, RequestStarts(c) \/ RequestGoesOn(c)
  PROVE  ThreadInv'
<1>1. CASE RequestStarts(c)
  <2>1. Others(c) /\ LookedUp(pc'[c], arg'[c]) /\ UNCHANGED <<documents, thread>>
    BY <1>1, Begun
  <2>2. pc'[c] \notin {"prepare", "mark", "start"}
    BY <2>1 DEF LookedUp
  <2> QED
    BY <2>1, <2>2, ThreadMoved
<1>2. CASE InsertDocument(c)
  <2>0. PICK row : /\ documents' = documents \cup {row}
                   /\ \A d \in documents : d.id # row.id
                   /\ ReusesIds \/ \A t \in DOMAIN thread : thread[t].doc.id # row.id
    BY <1>2, InsertedDocument
  <2>1. \A t \in DOMAIN thread : Active(t) => thread[t].doc.id # row.id
    BY <2>0 DEF Apart, Lists
  <2>2. /\ documents' = documents \cup {row}
        /\ Others(c) /\ pc'[c] = "idle" /\ UNCHANGED thread
    BY <1>2, <2>0, InsertedDocument
  <2>3. \A o \in Client : SyncHeld(o)'
    BY <2>2 DEF Others, SyncHeld
  <2> QED
    BY <2>1, <2>2, <2>3 DEF ThreadInv, OneThreadPerDocument, Active
<1>3. CASE ReadDocument(c)
  <2>1. /\ Others(c) /\ UNCHANGED <<documents, thread>>
        /\ \/ pc'[c] = "idle"
           \/ /\ pc'[c] = "prepare" /\ arg'[c].row \in documents
              /\ arg'[c].row.status # "RUNNING"
    BY <1>3, ReadOne
  <2>2. CASE pc'[c] = "prepare"
    <3>1. ~Embedding(arg'[c].row.id)
      BY <2>1, <2>2 DEF ThreadInv, Embedding
    <3>2. \A o \in Client : SyncHeld(o)'
      BY <2>1, <2>2, <3>1 DEF Others, SyncHeld, Embedding, Active
    <3> QED
      BY <2>1, <3>2 DEF ThreadInv, OneThreadPerDocument, Active
  <2>3. CASE pc'[c] = "idle"
    BY <2>1, <2>3, ThreadMoved
  <2> QED
    BY <2>1, <2>2, <2>3
<1>4. CASE PrepareDocument(c)
  <2>1. /\ Others(c) /\ pc[c] = "prepare" /\ UNCHANGED <<documents, thread>>
        /\ \/ pc'[c] = "idle"
           \/ pc'[c] = "mark" /\ arg'[c] = arg[c]
    BY <1>4, PreparedOne
  <2>2. \A o \in Client : SyncHeld(o)'
    BY <2>1 DEF ThreadInv, Others, SyncHeld, Embedding, Active
  <2> QED
    BY <2>1, <2>2 DEF ThreadInv, OneThreadPerDocument, Active
<1>5. CASE MarkRunning(c)
  <2>1. /\ Others(c) /\ pc[c] = "mark" /\ pc'[c] = "start" /\ UNCHANGED thread
        /\ Replaces(arg'[c].row) /\ arg'[c].row.status = "RUNNING"
        /\ arg'[c].row.id = arg[c].row.id
    BY <1>5, MarkedOne
  <2>2. ~Embedding(arg[c].row.id)
    BY <2>1 DEF ThreadInv, SyncHeld
  <2>3. \A o \in Client : SyncHeld(o)'
    BY <2>1, <2>2 DEF Others, SyncHeld, Embedding, Active, Replaces
  <2> QED
    BY <2>1, <2>3 DEF ThreadInv, OneThreadPerDocument, Active, Replaces
<1>6. CASE StartThread(c)
  <2>1. /\ Others(c) /\ pc[c] = "start" /\ pc'[c] = "chunks" /\ UNCHANGED documents
    BY <1>6, StartedOne
  <2>2. PICK n : /\ n \notin DOMAIN thread /\ DOMAIN thread' = DOMAIN thread \cup {n}
                 /\ thread'[n].doc = arg[c].row
                 /\ \A t \in DOMAIN thread : thread'[t] = thread[t]
    BY <1>6, StartedOne
  <2>3. /\ ~Embedding(arg[c].row.id)
        /\ \A d \in documents : d.id = arg[c].row.id => d.status = "RUNNING"
    BY <2>1 DEF ThreadInv, SyncHeld
  <2>4. \A o \in Client : SyncHeld(o)'
    BY <2>1 DEF Others, SyncHeld
  <2>5. OneThreadPerDocument'
    BY <2>2, <2>3 DEF ThreadInv, OneThreadPerDocument, Active, Embedding
  <2> QED
    BY <2>1, <2>2, <2>3, <2>4, <2>5 DEF ThreadInv, Active
<1>7. CASE InsertSpace(c) \/ SaveSpace(c) \/ SaveChunks(c)
  <2>1. Others(c) /\ UNCHANGED <<documents, thread>> /\ pc'[c] \in {"idle", "read"}
    BY <1>7, InsertedSpace, SavedSpace, SavedChunks
  <2> QED
    BY <2>1, ThreadMoved
<1>8. CASE \/ DeleteVectors(c) \/ DeleteChunks(c) \/ DeleteDocument(c) \/ DropVectors(c)
           \/ ListDocuments(c) \/ DeleteDocuments(c) \/ DeleteSpace(c)
  <2>1. /\ documents' \subseteq documents /\ Others(c) /\ UNCHANGED thread
        /\ pc'[c] \in {"idle", "delete_chunks", "delete_document", "list_documents",
                       "delete_each", "delete_space"}
    BY <1>8, VectorsDeleted, ChunksDeleted, DocumentDeleted, VectorsDropped, DocumentsListed,
       DocumentsDeleted, SpaceDeleted
  <2> QED
    BY <2>1, ThreadMoved
<1>9. CASE DeleteEachChunks(c)
  <2>1. UNCHANGED <<documents, thread>> /\ Others(c) /\ pc'[c] = "delete_each"
    BY <1>9, Moved DEF DeleteEachChunks
  <2> QED
    BY <2>1, ThreadMoved
<1>10. CASE MarkInVain(c)
  <2>1. Others(c) /\ pc[c] = "mark" /\ pc'[c] = "idle" /\ UNCHANGED thread
    BY <1>10, VainOne
  <2>2. PICK row : Replaces(row) /\ row.status = "RUNNING"
    BY <1>10, VainOne
  <2>3. \A o \in Client : SyncHeld(o)'
    BY <2>1 DEF Others, SyncHeld
  <2> QED
    BY <2>1, <2>2, <2>3 DEF ThreadInv, OneThreadPerDocument, Active, Replaces
<1>11. CASE TableRaises(c)
  BY <1>11, RaisedOne, ThreadMoved
<1> QED
  BY <1>1, <1>2, <1>3, <1>4, <1>5, <1>6, <1>7, <1>8, <1>9, <1>10, <1>11 DEF RequestGoesOn

LEMMA ThreadKept == Serial /\ ThreadInv /\ Apart /\ [Next]_vars => ThreadInv'
<1> SUFFICES ASSUME Serial, ThreadInv, Apart, [Next]_vars PROVE ThreadInv'
  OBVIOUS
<1>1. ASSUME NEW t \in DOMAIN thread, Embed(t) PROVE ThreadInv'
  <2>1. /\ UNCHANGED <<documents, pc, arg>> /\ DOMAIN thread' = DOMAIN thread
        /\ \A u \in DOMAIN thread : /\ Active(u)' => Active(u)
                                    /\ thread'[u].doc.id = thread[u].doc.id
    BY <1>1, EmbeddedOne DEF Serial, Active
  <2> QED
    BY <2>1 DEF ThreadInv, OneThreadPerDocument, SyncHeld, Embedding
<1>2. ASSUME NEW t \in DOMAIN thread, StoreResult(t) PROVE ThreadInv'
  <2>1. /\ UNCHANGED <<pc, arg>> /\ DOMAIN thread' = DOMAIN thread /\ Active(t)
        /\ \A u \in DOMAIN thread : (Active(u)' => Active(u) /\ u # t)
                                    /\ thread'[u].doc.id = thread[u].doc.id
        /\ Replaces(thread[t].doc)
    BY <1>2, StoredOne DEF Serial, Active
  <2>2. ASSUME NEW c \in Client PROVE SyncHeld(c)'
    BY <2>1 DEF ThreadInv, SyncHeld, Embedding, Replaces
  <2>3. ASSUME NEW u \in DOMAIN thread', Active(u)', NEW d \in documents', d.id = thread'[u].doc.id
        PROVE  d.status = "RUNNING"
    BY <2>1, <2>3 DEF ThreadInv, OneThreadPerDocument, Replaces
  <2> QED
    BY <2>1, <2>2, <2>3 DEF ThreadInv, OneThreadPerDocument
<1>3. CASE Crash
  BY <1>3, Crashed DEF Serial, ThreadInv, OneThreadPerDocument, SyncHeld, Active
<1>4. CASE UNCHANGED vars
  BY <1>4 DEF vars, tables, ThreadInv, OneThreadPerDocument, SyncHeld, Embedding, Active
<1>5. ASSUME NEW t \in DOMAIN thread, LoseResult(t) PROVE ThreadInv'
  <2>1. /\ UNCHANGED <<documents, pc, arg>> /\ DOMAIN thread' = DOMAIN thread
        /\ \A u \in DOMAIN thread : /\ Active(u)' => Active(u)
                                    /\ thread'[u].doc.id = thread[u].doc.id
    BY <1>5, LostOne DEF Serial, Active
  <2> QED
    BY <2>1 DEF ThreadInv, OneThreadPerDocument, SyncHeld, Embedding
<1> QED
  BY <1>1, <1>2, <1>3, <1>4, <1>5, ThreadStep DEF Next

-----------------------------------------------------------------------------
(* Which sync the vectors of a document come from *)

SyncNumbers ==
  /\ \A d \in documents :
       /\ d.vector_ids # None <=> d.status = "FINISHED"
       /\ d.vector_ids # None => /\ d.vector_ids \in DOMAIN thread /\ ~Active(d.vector_ids)
                                 /\ thread[d.vector_ids].doc.id = d.id
  /\ \A t \in DOMAIN thread :
       /\ t # None
       /\ thread[t].state = "embedding" =>
            thread[t].doc.vector_ids = None /\ thread[t].doc.status = "RUNNING"
       /\ thread[t].state = "storing" =>
            thread[t].doc.vector_ids = IF thread[t].doc.status = "FINISHED" THEN t ELSE None
  /\ \A c \in Client :
       pc[c] \in {"prepare", "mark", "start"} => arg[c].row.vector_ids = None

LEMMA NumbersMoved ==
  ASSUME SyncNumbers, NEW c \in Client, Others(c), pc'[c] \notin {"prepare", "mark", "start"},
         documents' \subseteq documents, UNCHANGED thread
  PROVE  SyncNumbers'
BY DEF SyncNumbers, Others, Active

LEMMA NumbersStep ==
  ASSUME Serial, SyncNumbers, NEW c \in Client, RequestStarts(c) \/ RequestGoesOn(c)
  PROVE  SyncNumbers'
<1>1. CASE RequestStarts(c)
  <2>1. Others(c) /\ LookedUp(pc'[c], arg'[c]) /\ UNCHANGED <<documents, thread>>
    BY <1>1, Begun
  <2>2. pc'[c] \notin {"prepare", "mark", "start"}
    BY <2>1 DEF LookedUp
  <2> QED
    BY <2>1, <2>2, NumbersMoved
<1>2. CASE InsertDocument(c)
  <2>1. PICK row : documents' = documents \cup {row} /\ row.status = "TODO" /\ row.vector_ids = None
    BY <1>2, InsertedDocument
  <2>2. Others(c) /\ pc'[c] = "idle" /\ UNCHANGED thread
    BY <1>2, InsertedDocument
  <2> QED
    BY <2>1, <2>2 DEF SyncNumbers, Others, Active
<1>3. CASE ReadDocument(c)
  BY <1>3, ReadOne DEF SyncNumbers, Others, Active
<1>4. CASE PrepareDocument(c)
  BY <1>4, PreparedOne DEF SyncNumbers, Others, Active
<1>5. CASE MarkRunning(c)
  BY <1>5, MarkedOne DEF SyncNumbers, Others, Active, Replaces
<1>6. CASE StartThread(c)
  <2>1. /\ Others(c) /\ pc[c] = "start" /\ pc'[c] = "chunks" /\ UNCHANGED documents
    BY <1>6, StartedOne
  <2>2. PICK n : /\ n \notin DOMAIN thread /\ n # None /\ DOMAIN thread' = DOMAIN thread \cup {n}
                 /\ thread'[n].state = "embedding" /\ thread'[n].doc = arg[c].row
                 /\ \A t \in DOMAIN thread : thread'[t] = thread[t]
    BY <1>6, StartedOne
  <2>3. arg[c].row.vector_ids = None /\ arg[c].row.status = "RUNNING"
    BY <2>1 DEF SyncNumbers, Serial, TypeInv, Held, Fits
  <2> QED
    BY <2>1, <2>2, <2>3 DEF SyncNumbers, Others, Active
<1>7. CASE InsertSpace(c) \/ SaveSpace(c) \/ SaveChunks(c)
  <2>1. Others(c) /\ UNCHANGED <<documents, thread>> /\ pc'[c] \in {"idle", "read"}
    BY <1>7, InsertedSpace, SavedSpace, SavedChunks
  <2> QED
    BY <2>1, NumbersMoved
<1>8. CASE \/ DeleteVectors(c) \/ DeleteChunks(c) \/ DeleteDocument(c) \/ DropVectors(c)
           \/ ListDocuments(c) \/ DeleteDocuments(c) \/ DeleteSpace(c)
  <2>1. /\ documents' \subseteq documents /\ Others(c) /\ UNCHANGED thread
        /\ pc'[c] \in {"idle", "delete_chunks", "delete_document", "list_documents",
                       "delete_each", "delete_space"}
    BY <1>8, VectorsDeleted, ChunksDeleted, DocumentDeleted, VectorsDropped, DocumentsListed,
       DocumentsDeleted, SpaceDeleted
  <2> QED
    BY <2>1, NumbersMoved
<1>9. CASE DeleteEachChunks(c)
  <2>1. UNCHANGED <<documents, thread>> /\ Others(c) /\ pc'[c] = "delete_each"
    BY <1>9, Moved DEF DeleteEachChunks
  <2> QED
    BY <2>1, NumbersMoved
<1>10. CASE MarkInVain(c)
  <2>1. Others(c) /\ pc[c] = "mark" /\ pc'[c] = "idle" /\ UNCHANGED thread
    BY <1>10, VainOne
  <2>2. PICK row : Replaces(row) /\ row.status = "RUNNING" /\ row.vector_ids = arg[c].row.vector_ids
    BY <1>10, VainOne
  <2> QED
    BY <2>1, <2>2 DEF SyncNumbers, Others, Active, Replaces
<1>11. CASE TableRaises(c)
  BY <1>11, RaisedOne, NumbersMoved
<1> QED
  BY <1>1, <1>2, <1>3, <1>4, <1>5, <1>6, <1>7, <1>8, <1>9, <1>10, <1>11 DEF RequestGoesOn

LEMMA NumbersKept == Serial /\ SyncNumbers /\ [Next]_vars => SyncNumbers'
<1> SUFFICES ASSUME Serial, SyncNumbers, [Next]_vars PROVE SyncNumbers'
  OBVIOUS
<1>1. ASSUME NEW t \in DOMAIN thread, Embed(t) PROVE SyncNumbers'
  <2>1. /\ UNCHANGED <<documents, pc, arg>> /\ thread[t].state = "embedding"
        /\ DOMAIN thread' = DOMAIN thread
        /\ \A u \in DOMAIN thread : u # t => thread'[u] = thread[u]
        /\ thread'[t].state = "storing" /\ thread'[t].doc.id = thread[t].doc.id
        /\ \/ thread'[t].doc.status = "FINISHED" /\ thread'[t].doc.vector_ids = t
           \/ /\ thread'[t].doc.status = "FAILED"
              /\ thread'[t].doc.vector_ids = thread[t].doc.vector_ids
    BY <1>1, EmbeddedOne DEF Serial
  <2> QED
    BY <2>1 DEF SyncNumbers, Active
<1>2. ASSUME NEW t \in DOMAIN thread, StoreResult(t) PROVE SyncNumbers'
  <2>1. /\ UNCHANGED <<pc, arg>> /\ thread[t].state = "storing" /\ DOMAIN thread' = DOMAIN thread
        /\ \A u \in DOMAIN thread : u # t => thread'[u] = thread[u]
        /\ thread'[t].state = "done" /\ thread'[t].doc = thread[t].doc
        /\ Replaces(thread[t].doc)
    BY <1>2, StoredOne DEF Serial
  <2> QED
    BY <2>1 DEF SyncNumbers, Active, Replaces
<1>3. CASE Crash
  BY <1>3, Crashed DEF Serial, SyncNumbers, Active
<1>4. CASE UNCHANGED vars
  BY <1>4 DEF vars, tables, SyncNumbers, Active
<1>5. ASSUME NEW t \in DOMAIN thread, LoseResult(t) PROVE SyncNumbers'
  BY <1>5, LostOne DEF Serial, SyncNumbers, Active
<1> QED
  BY <1>1, <1>2, <1>3, <1>4, <1>5, NumbersStep DEF Next

-----------------------------------------------------------------------------
(* Documents, when nobody deletes one that is being synced *)

DeletesOne == {"delete_vectors", "delete_chunks", "delete_document"}
DeletesAll == {"drop_vectors", "list_documents", "delete_each"}

\* What a request read is still so.
DocHeld(c) ==
  /\ pc[c] = "insert_document" => DocumentsCalled(arg[c].space, arg[c].name) = {}
  /\ pc[c] \in {"prepare", "mark", "start"} => arg[c].row \in documents
  /\ pc[c] \in DeletesOne => arg[c].row \in documents /\ ~Embedding(arg[c].row.id)
  /\ pc[c] \in DeletesAll =>
       \A t \in DOMAIN thread : Active(t) => thread[t].doc.space # arg[c].row.name
  /\ pc[c] = "delete_each" =>
       /\ Listing(arg[c])
       /\ \A d \in documents : d.id \in arg[c].ids => d.space = arg[c].row.name

DocInv ==
  /\ OneDocumentPerName
  /\ \A t \in DOMAIN thread : Active(t) => Lists(t)
  /\ \A c \in Client : DocHeld(c)

\* What the invariants of documents, their chunks and vectors rest on.
Synced == Serial /\ ThreadInv /\ SyncNumbers

(* A row of a document replaced by one of the same name changes no names. *)
LEMMA SameNames ==
  ASSUME TypeInv, OneDocumentPerName, NEW row, Replaces(row),
         \E d \in documents : d.id = row.id /\ d.space = row.space /\ d.name = row.name
  PROVE  OneDocumentPerName'
<1>1. \A d, e \in documents : d.id = e.id => d = e
  BY DEF TypeInv, TypeOK
<1> QED
  BY <1>1 DEF OneDocumentPerName, Replaces

(* A step that changes no document and no thread. *)
LEMMA DocMoved ==
  ASSUME DocInv, NEW c \in Client, Others(c), UNCHANGED <<documents, thread>>, DocHeld(c)'
  PROVE  DocInv'
<1>1. \A o \in Client : DocHeld(o)'
  BY DEF Others, DocHeld, DeletesOne, DeletesAll
<1> QED
  BY <1>1 DEF DocInv, OneDocumentPerName, Lists, Active

(* Deleting looks at whether a thread embeds the document. *)
LEMMA DocBegun ==
  ASSUME Synced, DocInv, ~DeletesSyncing, NEW c \in Client, RequestStarts(c)
  PROVE  DocInv'
<1>1. /\ Others(c) /\ LookedUp(pc'[c], arg'[c]) /\ UNCHANGED <<documents, thread>>
  BY Begun DEF Synced
<1>2. CASE pc'[c] \in {"delete_vectors", "delete_chunks"}
  <2>1. /\ arg'[c].row \in documents
        /\ \A t \in DOMAIN thread : Active(t) => arg'[c].row.id # thread[t].doc.id
    BY <1>1, <1>2 DEF LookedUp, MayDelete
  <2>2. DocHeld(c)'
    BY <1>1, <1>2, <2>1 DEF DocHeld, Embedding, Active, DeletesOne, DeletesAll
  <2> QED
    BY <1>1, <2>2, DocMoved
<1>3. CASE pc'[c] = "drop_vectors"
  <2>1. \A t \in DOMAIN thread : Active(t) =>
          \A row \in InSpace(arg'[c].row.name) : row.id # thread[t].doc.id
    BY <1>1, <1>3 DEF LookedUp, MayDelete
  <2>2. \A t \in DOMAIN thread : Active(t) => thread[t].doc.space # arg'[c].row.name
    BY <2>1 DEF DocInv, Lists, InSpace
  <2>3. DocHeld(c)'
    BY <1>1, <1>3, <2>2 DEF DocHeld, Active, DeletesOne, DeletesAll
  <2> QED
    BY <1>1, <2>3, DocMoved
<1>4. CASE pc'[c] \in {"insert_space", "save_space", "insert_document", "read"}
  <2>1. DocHeld(c)'
    BY <1>1, <1>4 DEF LookedUp, DocHeld, DocumentsCalled, DeletesOne, DeletesAll
  <2> QED
    BY <1>1, <2>1, DocMoved
<1> QED
  BY <1>1, <1>2, <1>3, <1>4 DEF LookedUp

LEMMA DocInserted ==
  ASSUME Synced, DocInv, NEW c \in Client, InsertDocument(c)
  PROVE  DocInv'
<1>1. PICK row : /\ documents' = documents \cup {row}
                 /\ row.space = arg[c].space /\ row.name = arg[c].name
  BY InsertedDocument DEF Synced
<1>2. Others(c) /\ pc[c] = "insert_document" /\ pc'[c] = "idle" /\ UNCHANGED thread
  BY InsertedDocument DEF Synced
<1>3. \A d \in documents : ~(d.space = row.space /\ d.name = row.name)
  BY <1>1, <1>2 DEF DocInv, DocHeld, DocumentsCalled
<1>4. OneDocumentPerName'
  BY <1>1, <1>3 DEF DocInv, OneDocumentPerName
<1>5. \A o \in Client : DocHeld(o)'
  BY <1>2 DEF Others, DocHeld, DeletesOne, DeletesAll
<1> QED
  BY <1>1, <1>2, <1>4, <1>5 DEF DocInv, Lists, Active

(* The request that syncs a document. *)
LEMMA DocMarked ==
  ASSUME Synced, DocInv, NEW c \in Client, MarkRunning(c)
  PROVE  DocInv'
<1>1. /\ Others(c) /\ pc[c] = "mark" /\ pc'[c] = "start" /\ UNCHANGED thread
      /\ Replaces(arg'[c].row)
      /\ arg'[c].row.id = arg[c].row.id /\ arg'[c].row.space = arg[c].row.space
      /\ arg'[c].row.name = arg[c].row.name
  BY MarkedOne DEF Synced
<1>2. arg[c].row \in documents /\ ~Embedding(arg[c].row.id)
  BY <1>1 DEF Synced, ThreadInv, SyncHeld, DocInv, DocHeld
<1>3. OneDocumentPerName'
  BY <1>1, <1>2, SameNames DEF DocInv, Synced, Serial
<1>4. \A o \in Client : DocHeld(o)'
  BY <1>1 DEF Others, DocHeld, DeletesOne, DeletesAll, Replaces
<1>5. ASSUME NEW t \in DOMAIN thread, Active(t) PROVE Lists(t)'
  BY <1>1, <1>2, <1>5 DEF DocInv, Lists, Embedding, Replaces
<1> QED
  BY <1>1, <1>3, <1>4, <1>5 DEF DocInv, Active

LEMMA DocVain ==
  ASSUME Synced, DocInv, NEW c \in Client, MarkInVain(c)
  PROVE  DocInv'
<1>1. Others(c) /\ pc[c] = "mark" /\ pc'[c] = "idle" /\ UNCHANGED thread
  BY VainOne DEF Synced
<1>2. PICK row : /\ Replaces(row) /\ row.id = arg[c].row.id /\ row.space = arg[c].row.space
                 /\ row.name = arg[c].row.name
  BY VainOne DEF Synced
<1>3. arg[c].row \in documents /\ ~Embedding(arg[c].row.id)
  BY <1>1 DEF Synced, ThreadInv, SyncHeld, DocInv, DocHeld
<1>4. OneDocumentPerName'
  BY <1>2, <1>3, SameNames DEF DocInv, Synced, Serial
<1>5. \A o \in Client : DocHeld(o)'
  BY <1>1 DEF Others, DocHeld, DeletesOne, DeletesAll
<1>6. ASSUME NEW t \in DOMAIN thread, Active(t) PROVE Lists(t)'
  BY <1>1, <1>2, <1>3, <1>6 DEF DocInv, Lists, Embedding, Replaces
<1> QED
  BY <1>1, <1>4, <1>5, <1>6 DEF DocInv, Active

LEMMA DocStarted ==
  ASSUME Synced, DocInv, NEW c \in Client, StartThread(c)
  PROVE  DocInv'
<1>1. Others(c) /\ pc[c] = "start" /\ pc'[c] = "chunks" /\ UNCHANGED documents
  BY StartedOne DEF Synced
<1>2. PICK n : /\ DOMAIN thread' = DOMAIN thread \cup {n} /\ thread'[n].doc = arg[c].row
               /\ \A t \in DOMAIN thread : thread'[t] = thread[t]
  BY StartedOne DEF Synced
<1>3. arg[c].row \in documents /\ arg[c].row.status = "RUNNING"
  BY <1>1 DEF DocInv, DocHeld, Synced, Serial, TypeInv, Held, Fits
<1>4. \A o \in Client : DocHeld(o)'
  BY <1>1 DEF Others, DocHeld, DeletesOne, DeletesAll
<1> QED
  BY <1>1, <1>2, <1>3, <1>4 DEF DocInv, OneDocumentPerName, Lists, Active

(* Deleting takes no document that a thread embeds. *)
LEMMA DocDeleted ==
  ASSUME Synced, DocInv, NEW c \in Client, DeleteDocument(c)
  PROVE  DocInv'
<1>1. /\ Others(c) /\ pc[c] = "delete_document" /\ pc'[c] = "idle" /\ UNCHANGED thread
      /\ documents' = documents \ DocumentsCalled(arg[c].row.space, arg[c].row.name)
  BY DocumentDeleted DEF Synced
<1>2. arg[c].row \in documents /\ ~Embedding(arg[c].row.id)
  BY <1>1 DEF DocInv, DocHeld, DeletesOne
<1>3. DocumentsCalled(arg[c].row.space, arg[c].row.name) = {arg[c].row}
  BY <1>2 DEF DocInv, OneDocumentPerName, DocumentsCalled
<1>4. \A o \in Client : DocHeld(o)'
  BY <1>1 DEF Others, DocHeld, DeletesOne, DeletesAll
<1>5. ASSUME NEW t \in DOMAIN thread, Active(t) PROVE Lists(t)'
  BY <1>1, <1>2, <1>3, <1>5 DEF DocInv, Lists, Embedding
<1>6. OneDocumentPerName'
  BY <1>1 DEF DocInv, OneDocumentPerName
<1> QED
  BY <1>1, <1>4, <1>5, <1>6 DEF DocInv, Active

LEMMA DocsDeleted ==
  ASSUME Synced, DocInv, NEW c \in Client, DeleteDocuments(c)
  PROVE  DocInv'
<1>1. /\ Others(c) /\ pc[c] = "delete_each" /\ pc'[c] = "delete_space" /\ UNCHANGED thread
      /\ documents' = documents \ InSpace(arg[c].row.name)
  BY DocumentsDeleted DEF Synced
<1>2. \A t \in DOMAIN thread : Active(t) => thread[t].doc.space # arg[c].row.name
  BY <1>1 DEF DocInv, DocHeld, DeletesAll
<1>3. \A o \in Client : DocHeld(o)'
  BY <1>1 DEF Others, DocHeld, DeletesOne, DeletesAll
<1>4. ASSUME NEW t \in DOMAIN thread, Active(t) PROVE Lists(t)'
  BY <1>1, <1>2, <1>4 DEF DocInv, Lists, InSpace
<1>5. OneDocumentPerName'
  BY <1>1 DEF DocInv, OneDocumentPerName
<1> QED
  BY <1>1, <1>3, <1>4, <1>5 DEF DocInv, Active

(* The other steps of a deletion keep what it read. *)
LEMMA DocDeletes ==
  ASSUME Synced, DocInv, NEW c \in Client,
         \/ DeleteVectors(c) \/ DeleteChunks(c) \/ DropVectors(c) \/ ListDocuments(c)
         \/ DeleteEachChunks(c) \/ DeleteSpace(c)
  PROVE  DocInv'
<1> DEFINE Stays == Others(c) /\ UNCHANGED <<documents, thread>> /\ DocHeld(c)'
<1>0. DocHeld(c)
  BY DEF DocInv
<1>1. ASSUME DeleteVectors(c) \/ DeleteChunks(c) PROVE Stays
  <2>1. /\ Others(c) /\ UNCHANGED <<documents, thread>> /\ pc[c] \in DeletesOne
        /\ \/ pc'[c] = "idle"
           \/ pc'[c] \in {"delete_chunks", "delete_document"} /\ arg'[c] = arg[c]
    BY <1>1, VectorsDeleted, ChunksDeleted DEF Synced, DeletesOne
  <2> QED
    BY <1>0, <2>1 DEF DocHeld, Embedding, Active, DeletesOne, DeletesAll
<1>2. ASSUME DropVectors(c) PROVE Stays
  <2>1. /\ Others(c) /\ UNCHANGED <<documents, thread>> /\ pc[c] \in DeletesAll
        /\ \/ pc'[c] = "idle"
           \/ pc'[c] = "list_documents" /\ arg'[c] = arg[c]
    BY <1>2, VectorsDropped DEF Synced, DeletesAll
  <2> QED
    BY <1>0, <2>1 DEF DocHeld, Active, DeletesOne, DeletesAll
<1>3. ASSUME ListDocuments(c) PROVE Stays
  <2>1. /\ Others(c) /\ UNCHANGED <<documents, thread>> /\ pc[c] \in DeletesAll
        /\ pc'[c] = "delete_each" /\ Listing(arg'[c]) /\ arg'[c].row = arg[c].row
        /\ arg'[c].ids = {doc.id : doc \in InSpace(arg[c].row.name)}
    BY <1>3, DocumentsListed DEF Synced, DeletesAll, Listing
  <2>2. ASSUME NEW d \in documents, d.id \in arg'[c].ids PROVE d.space = arg'[c].row.name
    BY <2>1, <2>2 DEF InSpace, Synced, Serial, TypeInv, TypeOK
  <2> QED
    BY <1>0, <2>1, <2>2 DEF DocHeld, Active, DeletesOne, DeletesAll
<1>4. ASSUME DeleteEachChunks(c) PROVE Stays
  <2>1. pc[c] = "delete_each" /\ Listing(arg[c])
    BY <1>0, <1>4 DEF DeleteEachChunks, DocHeld
  <2>2. /\ Others(c) /\ UNCHANGED <<documents, thread>>
        /\ pc'[c] = "delete_each" /\ Listing(arg'[c]) /\ arg'[c].row = arg[c].row
        /\ arg'[c].ids \subseteq arg[c].ids
    BY <1>4, <2>1, EachDeleted DEF Synced
  <2> QED
    BY <1>0, <2>1, <2>2 DEF DocHeld, Active, DeletesOne, DeletesAll
<1>5. ASSUME DeleteSpace(c) PROVE Stays
  BY <1>5, SpaceDeleted DEF Synced, DocHeld, DeletesOne, DeletesAll
<1> HIDE DEF Stays
<1>6. Stays
  BY <1>1, <1>2, <1>3, <1>4, <1>5
<1> QED
  BY <1>6, DocMoved DEF Stays

(* The steps of a sync that change no document. *)
LEMMA DocReads ==
  ASSUME Synced, DocInv, NEW c \in Client,
         \/ ReadDocument(c) \/ PrepareDocument(c) \/ SaveChunks(c) \/ InsertSpace(c) \/ SaveSpace(c)
         \/ TableRaises(c)
  PROVE  DocInv'
<1>1. CASE ReadDocument(c)
  <2>1. /\ Others(c) /\ UNCHANGED <<documents, thread>>
        /\ \/ pc'[c] = "idle"
           \/ pc'[c] = "prepare" /\ arg'[c].row \in documents
    BY <1>1, ReadOne DEF Synced
  <2> QED
    BY <2>1, DocMoved DEF DocHeld, DeletesOne, DeletesAll
<1>2. CASE PrepareDocument(c)
  <2>1. /\ Others(c) /\ pc[c] = "prepare" /\ UNCHANGED <<documents, thread>>
        /\ \/ pc'[c] = "idle"
           \/ pc'[c] = "mark" /\ arg'[c] = arg[c]
    BY <1>2, PreparedOne DEF Synced
  <2>2. DocHeld(c)'
    BY <2>1 DEF DocInv, DocHeld, DeletesOne, DeletesAll
  <2> QED
    BY <2>1, <2>2, DocMoved
<1>3. CASE SaveChunks(c) \/ InsertSpace(c) \/ SaveSpace(c) \/ TableRaises(c)
  <2>1. Others(c) /\ UNCHANGED <<documents, thread>> /\ pc'[c] \in {"idle", "read"}
    BY <1>3, SavedChunks, InsertedSpace, SavedSpace, RaisedOne DEF Synced
  <2> QED
    BY <2>1, DocMoved DEF DocHeld, DeletesOne, DeletesAll
<1> QED
  BY <1>1, <1>2, <1>3

(* The thread goes on; the row of its document is the one it was given. *)
LEMMA DocEmbedded ==
  ASSUME Synced, DocInv, NEW t \in DOMAIN thread, Embed(t)
  PROVE  DocInv'
<1>1. /\ UNCHANGED <<documents, pc, arg>> /\ DOMAIN thread' = DOMAIN thread
      /\ \A u \in DOMAIN thread :
           /\ Active(u)' => Active(u)
           /\ thread'[u].doc.id = thread[u].doc.id /\ thread'[u].doc.space = thread[u].doc.space
           /\ thread'[u].doc.name = thread[u].doc.name
  BY EmbeddedOne DEF Synced, Serial, Active
<1> QED
  BY <1>1 DEF DocInv, OneDocumentPerName, Lists, DocHeld, DocumentsCalled, Embedding

LEMMA DocStored ==
  ASSUME Synced, DocInv, NEW t \in DOMAIN thread, StoreResult(t)
  PROVE  DocInv'
<1>1. /\ UNCHANGED <<pc, arg>> /\ DOMAIN thread' = DOMAIN thread /\ Active(t)
      /\ \A u \in DOMAIN thread : (Active(u)' => Active(u) /\ u # t)
                                  /\ thread'[u].doc = thread[u].doc
      /\ Replaces(thread[t].doc)
  BY StoredOne DEF Synced, Serial, Active
<1>2. PICK old \in documents : /\ old.id = thread[t].doc.id /\ old.space = thread[t].doc.space
                               /\ old.name = thread[t].doc.name
  BY <1>1 DEF DocInv, Lists
<1>3. OneDocumentPerName'
  BY <1>1, <1>2, SameNames DEF Synced, Serial, DocInv
<1>4. ASSUME NEW u \in DOMAIN thread', Active(u)' PROVE Lists(u)'
  <2>1. Lists(u) /\ thread[u].doc.id # thread[t].doc.id
    BY <1>1, <1>4 DEF DocInv, Synced, ThreadInv, OneThreadPerDocument
  <2> QED
    BY <1>1, <1>4, <2>1 DEF Lists, Replaces
<1>5. \A d \in documents' : \E e \in documents :
        d.id = e.id /\ d.space = e.space /\ d.name = e.name
  BY <1>1, <1>2 DEF Replaces
<1>6. ASSUME NEW c \in Client PROVE DocHeld(c)'
  <2>1. DocHeld(c) /\ SyncHeld(c)
    BY DEF DocInv, Synced, ThreadInv
  <2>2. \A id : Embedding(id)' => Embedding(id)
    BY <1>1 DEF Embedding
  <2>3. pc[c] = "insert_document" => DocumentsCalled(arg[c].space, arg[c].name)' = {}
    BY <1>1, <1>5, <2>1 DEF DocHeld, DocumentsCalled
  <2>4. \A d \in documents : ~Embedding(d.id) => d \in documents'
    BY <1>1 DEF Replaces, Embedding
  <2> QED
    BY <1>1, <1>5, <2>1, <2>2, <2>3, <2>4 DEF DocHeld, SyncHeld
<1> QED
  BY <1>3, <1>4, <1>6 DEF DocInv

LEMMA DocLost ==
  ASSUME Synced, DocInv, NEW t \in DOMAIN thread, LoseResult(t)
  PROVE  DocInv'
<1>1. /\ UNCHANGED <<documents, pc, arg>> /\ DOMAIN thread' = DOMAIN thread
      /\ \A u \in DOMAIN thread : /\ Active(u)' => Active(u)
                                  /\ thread'[u].doc = thread[u].doc
  BY LostOne DEF Synced, Serial, Active
<1> QED
  BY <1>1 DEF DocInv, OneDocumentPerName, Lists, DocHeld, DocumentsCalled, Embedding

LEMMA DocCrashed ==
  ASSUME Synced, DocInv, Crash
  PROVE  DocInv'
<1>1. /\ UNCHANGED documents /\ \A c \in Client : pc'[c] = "idle"
      /\ \A t \in DOMAIN thread' : ~Active(t)'
  BY Crashed DEF Synced, Serial, Active
<1> QED
  BY <1>1 DEF DocInv, OneDocumentPerName, DocHeld, DeletesOne, DeletesAll

LEMMA DocKept == ~DeletesSyncing /\ Synced /\ DocInv /\ [Next]_vars => DocInv'
<1> SUFFICES ASSUME ~DeletesSyncing, Synced, DocInv, [Next]_vars PROVE DocInv'
  OBVIOUS
<1>1. ASSUME NEW c \in Client, RequestGoesOn(c) PROVE DocInv'
  BY <1>1, DocInserted, DocMarked, DocVain, DocStarted, DocDeleted, DocsDeleted, DocDeletes, DocReads
     DEF RequestGoesOn
<1>2. CASE UNCHANGED vars
  BY <1>2 DEF vars, tables, DocInv, OneDocumentPerName, Lists, DocHeld, DocumentsCalled,
     Embedding, Active
<1> QED
  BY <1>1, <1>2, DocBegun, DocEmbedded, DocStored, DocLost, DocCrashed DEF Next

-----------------------------------------------------------------------------
(* Finished documents *)

\* A request deletes what belongs to the document.
Doomed(d) == \E c \in Client :
  \/ pc[c] \in DeletesOne /\ arg[c].row.id = d.id
  \/ pc[c] \in DeletesAll /\ arg[c].row.name = d.space

Chunk(t) == [document_id |-> thread[t].doc.id, sync |-> t]
Vec(d) == [space |-> d.space, sync |-> d.vector_ids, known |-> TRUE]

\* The chunks of a sync are stored, or about to be.
Saved(t) == Chunk(t) \in chunks \/ \E c \in Client : pc[c] = "chunks" /\ arg[c].chunk = Chunk(t)

Whole(d) ==
  /\ \A t \in DOMAIN thread :
       thread[t].doc.id = d.id /\ (Active(t) \/ t = d.vector_ids) => Saved(t)
  /\ d.status = "FINISHED" => Vec(d) \in vectors

CompleteInv ==
  /\ \A d \in documents : ~Doomed(d) => Whole(d)
  /\ \A t \in DOMAIN thread :
       thread[t].state = "storing" /\ thread[t].doc.status = "FINISHED" =>
         Vec(thread[t].doc) \in vectors

\* What holds besides of requests that do not overlap.
Kept == Synced /\ DocInv

(* A step that takes away neither chunks nor vectors of a document that stays. *)
LEMMA CompleteMoved ==
  ASSUME CompleteInv, NEW c \in Client, Others(c), pc[c] # "chunks",
         documents' \subseteq documents, UNCHANGED <<chunks, vectors, thread>>,
         \A d \in documents' : Doomed(d) => Doomed(d)'
  PROVE  CompleteInv'
<1>1. ASSUME NEW t \in DOMAIN thread, Saved(t) PROVE Saved(t)'
  BY <1>1 DEF Saved, Chunk, Others
<1> QED
  BY <1>1 DEF CompleteInv, Whole, Vec, Active

(* Before a request begins nothing is doomed. *)
LEMMA CompleteBegun ==
  ASSUME Kept, CompleteInv, NEW c \in Client, RequestStarts(c)
  PROVE  CompleteInv'
<1>1. Others(c) /\ pc[c] = "idle" /\ UNCHANGED <<documents, chunks, vectors, thread>>
  BY Begun DEF Kept, Synced
<1>2. \A d : ~Doomed(d)
  BY <1>1 DEF Others, Doomed, DeletesOne, DeletesAll
<1> QED
  BY <1>1, <1>2, CompleteMoved

(* Nobody syncs a new document, even if its id was somebody else's before. *)
LEMMA CompleteInserted ==
  ASSUME Kept, CompleteInv, NEW c \in Client, InsertDocument(c)
  PROVE  CompleteInv'
<1>1. PICK row : /\ documents' = documents \cup {row} /\ row.status = "TODO"
                 /\ row.vector_ids = None /\ \A d \in documents : d.id # row.id
  BY InsertedDocument DEF Kept, Synced
<1>2. Others(c) /\ pc[c] = "insert_document" /\ UNCHANGED <<chunks, vectors, thread>>
  BY InsertedDocument DEF Kept, Synced
<1>3. \A d : ~Doomed(d)
  BY <1>2 DEF Others, Doomed, DeletesOne, DeletesAll
<1>4. ASSUME NEW t \in DOMAIN thread, Saved(t) PROVE Saved(t)'
  BY <1>2, <1>4 DEF Saved, Chunk, Others
<1>5. ASSUME NEW t \in DOMAIN thread, thread[t].doc.id = row.id
      PROVE  ~Active(t) /\ t # row.vector_ids
  BY <1>1, <1>5 DEF Kept, DocInv, Lists, Synced, SyncNumbers
<1>6. Whole(row)'
  BY <1>1, <1>2, <1>5 DEF Whole, Active
<1>7. ASSUME NEW d \in documents PROVE Whole(d)'
  BY <1>2, <1>3, <1>4 DEF CompleteInv, Whole, Vec, Active
<1> QED
  BY <1>1, <1>2, <1>6, <1>7 DEF CompleteInv, Vec

LEMMA CompleteMarked ==
  ASSUME Kept, CompleteInv, NEW c \in Client, MarkRunning(c)
  PROVE  CompleteInv'
<1>1. /\ Others(c) /\ pc[c] = "mark" /\ UNCHANGED <<chunks, vectors, thread>>
      /\ Replaces(arg'[c].row) /\ arg'[c].row.id = arg[c].row.id
      /\ arg'[c].row.status = "RUNNING" /\ arg'[c].row.vector_ids = arg[c].row.vector_ids
  BY MarkedOne DEF Kept, Synced
<1>2. arg[c].row \in documents
  BY <1>1 DEF Kept, DocInv, DocHeld
<1>3. \A d : ~Doomed(d)
  BY <1>1 DEF Others, Doomed, DeletesOne, DeletesAll
<1>4. ASSUME NEW t \in DOMAIN thread, Saved(t) PROVE Saved(t)'
  BY <1>1, <1>4 DEF Saved, Chunk, Others
<1>5. ASSUME NEW d \in documents' PROVE Whole(d)'
  <2>1. CASE d \in documents
    BY <1>1, <1>3, <1>4, <2>1 DEF CompleteInv, Whole, Vec, Active
  <2>2. CASE d = arg'[c].row
    <3>1. \A t \in DOMAIN thread : t # arg'[c].row.vector_ids
      BY <1>1 DEF Kept, Synced, SyncNumbers
    <3> QED
      BY <1>1, <1>2, <1>3, <1>4, <2>2, <3>1 DEF CompleteInv, Whole, Active
  <2> QED
    BY <1>1, <2>1, <2>2 DEF Replaces
<1> QED
  BY <1>1, <1>5 DEF CompleteInv, Vec

(* The chunks of the sync that starts are about to be stored. *)
LEMMA CompleteStarted ==
  ASSUME Kept, CompleteInv, NEW c \in Client, StartThread(c)
  PROVE  CompleteInv'
<1>1. /\ Others(c) /\ pc[c] = "start" /\ pc'[c] = "chunks"
      /\ UNCHANGED <<documents, chunks, vectors>>
  BY StartedOne DEF Kept, Synced
<1>2. PICK n : /\ n \notin DOMAIN thread /\ DOMAIN thread' = DOMAIN thread \cup {n}
               /\ thread'[n].state = "embedding" /\ thread'[n].doc = arg[c].row
               /\ \A t \in DOMAIN thread : thread'[t] = thread[t]
               /\ arg'[c].chunk = [document_id |-> arg[c].row.id, sync |-> n]
  BY StartedOne DEF Kept, Synced
<1>3. \A d : ~Doomed(d)
  BY <1>1 DEF Others, Doomed, DeletesOne, DeletesAll
<1>4. ASSUME NEW t \in DOMAIN thread, Saved(t) PROVE Saved(t)'
  BY <1>1, <1>2, <1>4 DEF Saved, Chunk, Others
<1>5. Saved(n)'
  BY <1>1, <1>2 DEF Saved, Chunk
<1> QED
  BY <1>1, <1>2, <1>3, <1>4, <1>5 DEF CompleteInv, Whole, Vec, Active

LEMMA CompleteSaved ==
  ASSUME Kept, CompleteInv, NEW c \in Client, SaveChunks(c)
  PROVE  CompleteInv'
<1>1. /\ Others(c) /\ pc[c] = "chunks" /\ UNCHANGED <<documents, vectors, thread>>
      /\ chunks' = chunks \cup {arg[c].chunk}
  BY SavedChunks DEF Kept, Synced
<1>2. \A d : ~Doomed(d)
  BY <1>1 DEF Others, Doomed, DeletesOne, DeletesAll
<1>3. ASSUME NEW t \in DOMAIN thread, Saved(t) PROVE Saved(t)'
  BY <1>1, <1>3 DEF Saved, Chunk, Others
<1> QED
  BY <1>1, <1>2, <1>3 DEF CompleteInv, Whole, Vec, Active

(* The vectors that go are those of the document that is to be deleted. *)
LEMMA CompleteUnvectored ==
  ASSUME Kept, CompleteInv, ~StoreErrors, NEW c \in Client, DeleteVectors(c)
  PROVE  CompleteInv'
<1>1. /\ Others(c) /\ pc[c] = "delete_vectors" /\ pc'[c] = "delete_chunks" /\ arg'[c] = arg[c]
      /\ UNCHANGED <<documents, chunks, thread>>
      /\ \A v \in vectors : v \in vectors' \/ v.sync = arg[c].row.vector_ids
  BY VectorsDeleted DEF Kept, Synced
<1>2. arg[c].row \in documents
  BY <1>1 DEF Kept, DocInv, DocHeld, DeletesOne
<1>3. \A d : Doomed(d)' <=> Doomed(d)
  BY <1>1 DEF Others, Doomed, DeletesOne, DeletesAll
<1>4. ASSUME NEW t \in DOMAIN thread, Saved(t) PROVE Saved(t)'
  BY <1>1, <1>4 DEF Saved, Chunk, Others
<1>5. ASSUME NEW d \in documents, ~Doomed(d), d.status = "FINISHED" PROVE Vec(d) \in vectors'
  <2>1. Vec(d) \in vectors /\ Vec(d).sync = d.vector_ids
    BY <1>5 DEF CompleteInv, Whole, Vec, Active
  <2>2. d.id # arg[c].row.id
    BY <1>1, <1>5 DEF Doomed, DeletesOne
  <2>3. d.vector_ids # arg[c].row.vector_ids
    BY <1>2, <1>5, <2>2 DEF Kept, Synced, SyncNumbers
  <2> QED
    BY <1>1, <2>1, <2>3
<1>6. ASSUME NEW t \in DOMAIN thread, thread[t].state = "storing", thread[t].doc.status = "FINISHED"
      PROVE  Vec(thread[t].doc) \in vectors'
  <2>1. Vec(thread[t].doc) \in vectors /\ Vec(thread[t].doc).sync = t
    BY <1>6 DEF CompleteInv, Vec, Kept, Synced, SyncNumbers
  <2>2. t # arg[c].row.vector_ids
    BY <1>2, <1>6 DEF Kept, Synced, SyncNumbers, Active
  <2> QED
    BY <1>1, <2>1, <2>2
<1>7. ASSUME NEW d \in documents, ~Doomed(d) PROVE Whole(d)'
  BY <1>1, <1>4, <1>5, <1>7 DEF CompleteInv, Whole, Vec, Active
<1> QED
  BY <1>1, <1>3, <1>6, <1>7 DEF CompleteInv, Vec

LEMMA CompleteUnchunked ==
  ASSUME Kept, CompleteInv, NEW c \in Client, DeleteChunks(c)
  PROVE  CompleteInv'
<1>1. /\ Others(c) /\ pc[c] = "delete_chunks" /\ pc'[c] = "delete_document" /\ arg'[c] = arg[c]
      /\ UNCHANGED <<documents, vectors, thread>>
      /\ chunks' = {k \in chunks : k.document_id # arg[c].row.id}
  BY ChunksDeleted DEF Kept, Synced
<1>2. \A d : Doomed(d)' <=> Doomed(d)
  BY <1>1 DEF Others, Doomed, DeletesOne, DeletesAll
<1>3. ASSUME NEW t \in DOMAIN thread, Saved(t), thread[t].doc.id # arg[c].row.id PROVE Saved(t)'
  <2>1. Chunk(t).document_id = thread[t].doc.id
    BY DEF Chunk
  <2> QED
    BY <1>1, <1>3, <2>1 DEF Saved, Chunk, Others
<1>4. ASSUME NEW d \in documents, ~Doomed(d) PROVE Whole(d)'
  <2>1. d.id # arg[c].row.id
    BY <1>1, <1>4 DEF Doomed, DeletesOne
  <2> QED
    BY <1>1, <1>3, <1>4, <2>1 DEF CompleteInv, Whole, Vec, Active
<1> QED
  BY <1>1, <1>2, <1>4 DEF CompleteInv, Vec

LEMMA CompleteDeleted ==
  ASSUME Kept, CompleteInv, NEW c \in Client, DeleteDocument(c)
  PROVE  CompleteInv'
<1>1. /\ Others(c) /\ pc[c] = "delete_document" /\ pc'[c] = "idle"
      /\ UNCHANGED <<chunks, vectors, thread>>
      /\ documents' = documents \ DocumentsCalled(arg[c].row.space, arg[c].row.name)
  BY DocumentDeleted DEF Kept, Synced
<1>2. arg[c].row \in DocumentsCalled(arg[c].row.space, arg[c].row.name)
  BY <1>1 DEF Kept, DocInv, DocHeld, DeletesOne, DocumentsCalled
<1>3. \A d \in documents' : ~Doomed(d)
  BY <1>1, <1>2 DEF Others, Doomed, DeletesOne, DeletesAll, Kept, Synced, Serial, TypeInv, TypeOK,
     DocumentsCalled
<1> QED
  BY <1>1, <1>3, CompleteMoved

LEMMA CompleteDropped ==
  ASSUME Kept, CompleteInv, ~StoreErrors, NEW c \in Client, DropVectors(c)
  PROVE  CompleteInv'
<1>1. /\ Others(c) /\ pc[c] = "drop_vectors" /\ pc'[c] = "list_documents" /\ arg'[c] = arg[c]
      /\ UNCHANGED <<documents, chunks, thread>>
      /\ vectors' = {v \in vectors : v.space # arg[c].row.name}
  BY VectorsDropped DEF Kept, Synced
<1>2. \A d : Doomed(d)' <=> Doomed(d)
  BY <1>1 DEF Others, Doomed, DeletesOne, DeletesAll
<1>3. ASSUME NEW t \in DOMAIN thread, Saved(t) PROVE Saved(t)'
  BY <1>1, <1>3 DEF Saved, Chunk, Others
<1>4. ASSUME NEW d, Vec(d) \in vectors, d.space # arg[c].row.name PROVE Vec(d) \in vectors'
  BY <1>1, <1>4 DEF Vec
<1>5. ASSUME NEW d \in documents, ~Doomed(d) PROVE Whole(d)'
  <2>1. d.space # arg[c].row.name
    BY <1>1, <1>5 DEF Doomed, DeletesAll
  <2> QED
    BY <1>1, <1>3, <1>4, <1>5, <2>1 DEF CompleteInv, Whole, Vec, Active
<1>6. ASSUME NEW t \in DOMAIN thread, thread[t].state = "storing", thread[t].doc.status = "FINISHED"
      PROVE  Vec(thread[t].doc) \in vectors'
  <2>1. thread[t].doc.space # arg[c].row.name
    BY <1>1, <1>6 DEF Kept, DocInv, DocHeld, DeletesAll, Active
  <2> QED
    BY <1>4, <1>6, <2>1 DEF CompleteInv
<1> QED
  BY <1>1, <1>2, <1>5, <1>6 DEF CompleteInv, Vec

LEMMA CompleteEach ==
  ASSUME Kept, CompleteInv, NEW c \in Client, DeleteEachChunks(c)
  PROVE  CompleteInv'
<1>1. pc[c] = "delete_each" /\ DocHeld(c)
  BY DEF DeleteEachChunks, Kept, DocInv
<1>2. PICK id \in arg[c].ids : chunks' = {k \in chunks : k.document_id # id}
  BY <1>1, EachDeleted DEF DocHeld, Kept, Synced
<1>3. /\ Others(c) /\ pc'[c] = "delete_each" /\ arg'[c].row = arg[c].row
      /\ UNCHANGED <<documents, vectors, thread>>
  BY <1>1, EachDeleted DEF DocHeld, Kept, Synced
<1>4. \A d : Doomed(d)' <=> Doomed(d)
  BY <1>1, <1>3 DEF Others, Doomed, DeletesOne, DeletesAll
<1>5. ASSUME NEW t \in DOMAIN thread, Saved(t), thread[t].doc.id # id PROVE Saved(t)'
  <2>1. Chunk(t).document_id = thread[t].doc.id
    BY DEF Chunk
  <2> QED
    BY <1>1, <1>2, <1>3, <1>5, <2>1 DEF Saved, Chunk, Others
<1>6. ASSUME NEW d \in documents, ~Doomed(d) PROVE Whole(d)'
  <2>1. d.id # id
    BY <1>1, <1>6 DEF Doomed, DeletesAll, DocHeld
  <2> QED
    BY <1>3, <1>5, <1>6, <2>1 DEF CompleteInv, Whole, Vec, Active
<1> QED
  BY <1>3, <1>4, <1>6 DEF CompleteInv, Vec

LEMMA CompleteEmptied ==
  ASSUME Kept, CompleteInv, NEW c \in Client, DeleteDocuments(c)
  PROVE  CompleteInv'
<1>1. /\ Others(c) /\ pc[c] = "delete_each" /\ pc'[c] = "delete_space"
      /\ UNCHANGED <<chunks, vectors, thread>>
      /\ documents' = documents \ InSpace(arg[c].row.name)
  BY DocumentsDeleted DEF Kept, Synced
<1>2. \A d \in documents' : ~Doomed(d)
  BY <1>1 DEF Others, Doomed, DeletesOne, DeletesAll, InSpace
<1> QED
  BY <1>1, <1>2, CompleteMoved

(* Steps that leave documents, chunks and vectors alone. *)
LEMMA CompleteRest ==
  ASSUME Kept, CompleteInv, NEW c \in Client,
         \/ InsertSpace(c) \/ SaveSpace(c) \/ ReadDocument(c) \/ PrepareDocument(c)
         \/ ListDocuments(c) \/ DeleteSpace(c)
  PROVE  CompleteInv'
<1>1. CASE ListDocuments(c)
  <2>1. /\ Others(c) /\ pc[c] = "list_documents" /\ pc'[c] = "delete_each"
        /\ arg'[c].row = arg[c].row /\ UNCHANGED <<documents, chunks, vectors, thread>>
    BY <1>1, DocumentsListed DEF Kept, Synced
  <2>2. \A d : Doomed(d) => Doomed(d)'
    BY <2>1 DEF Others, Doomed, DeletesOne, DeletesAll
  <2> QED
    BY <2>1, <2>2, CompleteMoved
<1>2. CASE \/ InsertSpace(c) \/ SaveSpace(c) \/ ReadDocument(c) \/ PrepareDocument(c)
           \/ DeleteSpace(c)
  <2>1. /\ Others(c) /\ pc[c] \in {"insert_space", "save_space", "read", "prepare", "delete_space"}
        /\ UNCHANGED <<documents, chunks, vectors, thread>>
    BY <1>2, InsertedSpace, SavedSpace, ReadOne, PreparedOne, SpaceDeleted DEF Kept, Synced
  <2>2. \A d : ~Doomed(d)
    BY <2>1 DEF Others, Doomed, DeletesOne, DeletesAll
  <2> QED
    BY <2>1, <2>2, CompleteMoved
<1> QED
  BY <1>1, <1>2

(* A thread says FINISHED only of vectors that it stored. *)
LEMMA CompleteEmbedded ==
  ASSUME Kept, CompleteInv, NEW t \in DOMAIN thread, Embed(t)
  PROVE  CompleteInv'
<1>1. /\ UNCHANGED <<documents, chunks, pc, arg>> /\ DOMAIN thread' = DOMAIN thread
      /\ vectors \subseteq vectors'
      /\ \A u \in DOMAIN thread : u # t => thread'[u] = thread[u]
      /\ thread'[t].doc.id = thread[t].doc.id
      /\ Active(t)
      /\ thread'[t].doc.status = "FINISHED" => Vec(thread'[t].doc) \in vectors'
  BY EmbeddedOne DEF Kept, Synced, Serial, Vec, Active
<1>2. ASSUME NEW u \in DOMAIN thread, Saved(u) PROVE Saved(u)'
  <2>1. thread'[u].doc.id = thread[u].doc.id
    BY <1>1
  <2> QED
    BY <1>1, <1>2, <2>1 DEF Saved, Chunk
<1>3. \A d : Doomed(d)' <=> Doomed(d)
  BY <1>1 DEF Doomed
<1>4. ASSUME NEW d \in documents, ~Doomed(d) PROVE Whole(d)'
  BY <1>1, <1>2, <1>4 DEF CompleteInv, Whole, Vec, Active
<1>5. ASSUME NEW u \in DOMAIN thread, thread'[u].state = "storing",
             thread'[u].doc.status = "FINISHED"
      PROVE  Vec(thread'[u].doc) \in vectors'
  BY <1>1, <1>5 DEF CompleteInv
<1> QED
  BY <1>1, <1>3, <1>4, <1>5 DEF CompleteInv, Vec

LEMMA CompleteStored ==
  ASSUME Kept, CompleteInv, NEW t \in DOMAIN thread, StoreResult(t)
  PROVE  CompleteInv'
<1>1. /\ UNCHANGED <<chunks, vectors, pc, arg>> /\ thread[t].state = "storing"
      /\ DOMAIN thread' = DOMAIN thread
      /\ \A u \in DOMAIN thread : u # t => thread'[u] = thread[u]
      /\ thread'[t].state = "done" /\ thread'[t].doc = thread[t].doc
      /\ Replaces(thread[t].doc)
  BY StoredOne DEF Kept, Synced, Serial
<1>2. PICK old \in documents : old.id = thread[t].doc.id /\ old.space = thread[t].doc.space
  BY <1>1 DEF Kept, DocInv, Lists, Active
<1>3. ASSUME NEW u \in DOMAIN thread, Saved(u) PROVE Saved(u)'
  <2>1. thread'[u].doc = thread[u].doc
    BY <1>1
  <2> QED
    BY <1>1, <1>3, <2>1 DEF Saved, Chunk
<1>4. \A d : Doomed(d)' <=> Doomed(d)
  BY <1>1 DEF Doomed
<1>5. \A u \in DOMAIN thread : thread'[u].doc = thread[u].doc
  BY <1>1
<1>6. ASSUME NEW d \in documents', ~Doomed(d) PROVE Whole(d)'
  <2>1. CASE d \in documents
    BY <1>1, <1>3, <1>5, <1>6, <2>1 DEF CompleteInv, Whole, Vec, Active
  <2>2. CASE d = thread[t].doc
    <3>1. ~Doomed(old)
      BY <1>2, <1>6, <2>2 DEF Doomed
    <3>2. ASSUME NEW u \in DOMAIN thread, thread[u].doc.id = d.id, Active(u) \/ u = d.vector_ids
          PROVE  Saved(u)
      <4>1. Active(u)
        BY <1>1, <2>2, <3>2 DEF Kept, Synced, SyncNumbers, Active
      <4> QED
        BY <1>2, <2>2, <3>1, <3>2, <4>1 DEF CompleteInv, Whole
    <3>3. d.status = "FINISHED" => Vec(d) \in vectors
      BY <1>1, <2>2 DEF CompleteInv
    <3> QED
      BY <1>1, <1>3, <1>5, <3>2, <3>3 DEF Whole, Vec, Active
  <2> QED
    BY <1>1, <2>1, <2>2 DEF Replaces
<1> QED
  BY <1>1, <1>4, <1>6 DEF CompleteInv, Vec

LEMMA CompleteKept ==
  ~StoreErrors /\ ~TableErrors /\ ~Crashes /\ Kept /\ CompleteInv /\ [Next]_vars => CompleteInv'
<1> SUFFICES ASSUME ~StoreErrors, ~TableErrors, ~Crashes, Kept, CompleteInv, [Next]_vars
             PROVE  CompleteInv'
  OBVIOUS
<1>1. ASSUME NEW c \in Client, RequestGoesOn(c) PROVE CompleteInv'
  <2>1. CASE \/ InsertDocument(c) \/ MarkRunning(c) \/ StartThread(c) \/ SaveChunks(c)
    BY <2>1, CompleteInserted, CompleteMarked, CompleteStarted, CompleteSaved
  <2>2. CASE \/ DeleteVectors(c) \/ DeleteChunks(c) \/ DeleteDocument(c) \/ DropVectors(c)
             \/ DeleteEachChunks(c) \/ DeleteDocuments(c)
    BY <2>2, CompleteUnvectored, CompleteUnchunked, CompleteDeleted, CompleteDropped,
       CompleteEach, CompleteEmptied
  <2> QED
    BY <1>1, <2>1, <2>2, CompleteRest DEF RequestGoesOn, MarkInVain, TableRaises
<1>2. /\ ~Crash /\ \A t \in DOMAIN thread : ~LoseResult(t)
  BY DEF Crash, LoseResult
<1>3. CASE UNCHANGED vars
  BY <1>3 DEF vars, tables, CompleteInv, Whole, Saved, Chunk, Vec, Doomed, Active
<1> QED
  BY <1>1, <1>2, <1>3, CompleteBegun, CompleteEmbedded, CompleteStored DEF Next

-----------------------------------------------------------------------------
(* What is left of deleted documents, in a store that takes lists of ids apart *)

HasRow(id) == \E d \in documents : d.id = id

\* A row lists the vectors, or the thread that stored them is going to.
Rooted(v) ==
  /\ v.sync \in DOMAIN thread
  /\ \/ \E d \in documents : d.vector_ids = v.sync /\ d.space = v.space
     \/ /\ thread[v.sync].state = "storing" /\ thread[v.sync].doc.vector_ids = v.sync
        /\ thread[v.sync].doc.space = v.space

\* What a deletion has got rid of so far.
OrphanHeld(c) ==
  /\ pc[c] = "chunks" => HasRow(arg[c].chunk.document_id)
  /\ pc[c] \in {"delete_chunks", "delete_document"} =>
       \A v \in vectors : v.known => v.sync # arg[c].row.vector_ids
  /\ pc[c] = "delete_document" => \A k \in chunks : k.document_id # arg[c].row.id
  /\ pc[c] \in {"list_documents", "delete_each"} =>
       \A v \in vectors : v.known => v.space # arg[c].row.name
  /\ pc[c] = "delete_each" =>
       \A k \in chunks : \A d \in documents :
         d.id = k.document_id /\ d.space = arg[c].row.name => d.id \in arg[c].ids

OrphanInv ==
  /\ \A k \in chunks : HasRow(k.document_id)
  /\ \A v \in vectors : v.known => Rooted(v)
  /\ \A c \in Client : OrphanHeld(c)

(* A step that changes none of the tables. *)
LEMMA OrphanMoved ==
  ASSUME OrphanInv, NEW c \in Client, Others(c), OrphanHeld(c)',
         UNCHANGED <<documents, thread>>, chunks' \subseteq chunks, vectors' \subseteq vectors
  PROVE  OrphanInv'
<1>1. \A o \in Client : OrphanHeld(o)'
  BY DEF Others, OrphanHeld
<1> QED
  BY <1>1 DEF OrphanInv, HasRow, Rooted

(* Vectors are listed by number of their sync, which is never the empty list. *)
LEMMA OrphanBegun ==
  ASSUME Kept, OrphanInv, NEW c \in Client, RequestStarts(c)
  PROVE  OrphanInv'
<1>1. /\ Others(c) /\ LookedUp(pc'[c], arg'[c]) /\ UNCHANGED <<documents, chunks, vectors, thread>>
  BY Begun DEF Kept, Synced
<1>2. pc'[c] = "delete_chunks" => \A v \in vectors : v.known => v.sync # arg'[c].row.vector_ids
  BY <1>1 DEF LookedUp, OrphanInv, Rooted, Kept, Synced, SyncNumbers
<1>3. OrphanHeld(c)'
  BY <1>1, <1>2 DEF LookedUp, OrphanHeld
<1> QED
  BY <1>1, <1>3, OrphanMoved

LEMMA OrphanInserted ==
  ASSUME Kept, OrphanInv, NEW c \in Client, InsertDocument(c)
  PROVE  OrphanInv'
<1>1. /\ Others(c) /\ pc'[c] = "idle" /\ UNCHANGED <<chunks, vectors, thread>>
      /\ documents \subseteq documents'
  BY InsertedDocument DEF Kept, Synced
<1>2. \A o \in Client : OrphanHeld(o)'
  BY <1>1 DEF Others, OrphanHeld
<1> QED
  BY <1>1, <1>2 DEF OrphanInv, HasRow, Rooted

(* A row that is marked lists no vectors yet. *)
LEMMA OrphanMarked ==
  ASSUME Kept, OrphanInv, NEW c \in Client, MarkRunning(c)
  PROVE  OrphanInv'
<1>1. /\ Others(c) /\ pc[c] = "mark" /\ pc'[c] = "start" /\ UNCHANGED <<chunks, vectors, thread>>
      /\ Replaces(arg'[c].row) /\ arg'[c].row.id = arg[c].row.id
  BY MarkedOne DEF Kept, Synced
<1>2. arg[c].row \in documents /\ arg[c].row.vector_ids = None
  BY <1>1 DEF Kept, DocInv, DocHeld, Synced, SyncNumbers
<1>3. ASSUME NEW id, HasRow(id) PROVE HasRow(id)'
  BY <1>1, <1>3 DEF HasRow, Replaces
<1>4. ASSUME NEW v \in vectors, Rooted(v) PROVE Rooted(v)'
  <2>1. ASSUME NEW d \in documents, d.vector_ids = v.sync PROVE d \in documents'
    <3>1. v.sync # None
      BY <1>4 DEF Rooted, Kept, Synced, SyncNumbers
    <3>2. d.id # arg[c].row.id
      BY <1>2, <2>1, <3>1 DEF Kept, Synced, Serial, TypeInv, TypeOK
    <3> QED
      BY <1>1, <3>2 DEF Replaces
  <2> QED
    BY <1>1, <1>4, <2>1 DEF Rooted
<1>5. \A o \in Client : OrphanHeld(o)'
  BY <1>1 DEF Others, OrphanHeld
<1> QED
  BY <1>1, <1>3, <1>4, <1>5 DEF OrphanInv

LEMMA OrphanStarted ==
  ASSUME Kept, OrphanInv, NEW c \in Client, StartThread(c)
  PROVE  OrphanInv'
<1>1. /\ Others(c) /\ pc[c] = "start" /\ pc'[c] = "chunks"
      /\ UNCHANGED <<documents, chunks, vectors>>
  BY StartedOne DEF Kept, Synced
<1>2. PICK n : /\ DOMAIN thread' = DOMAIN thread \cup {n}
               /\ \A t \in DOMAIN thread : thread'[t] = thread[t]
               /\ arg'[c].chunk = [document_id |-> arg[c].row.id, sync |-> n]
  BY StartedOne DEF Kept, Synced
<1>3. arg[c].row \in documents /\ arg'[c].chunk.document_id = arg[c].row.id
  BY <1>1, <1>2 DEF Kept, DocInv, DocHeld
<1>4. \A o \in Client : OrphanHeld(o)'
  BY <1>1, <1>3 DEF Others, OrphanHeld, HasRow
<1> QED
  BY <1>1, <1>2, <1>4 DEF OrphanInv, HasRow, Rooted

LEMMA OrphanSaved ==
  ASSUME Kept, OrphanInv, NEW c \in Client, SaveChunks(c)
  PROVE  OrphanInv'
<1>1. /\ Others(c) /\ pc[c] = "chunks" /\ pc'[c] \in {"idle", "read"}
      /\ UNCHANGED <<documents, vectors, thread>> /\ chunks' = chunks \cup {arg[c].chunk}
  BY SavedChunks DEF Kept, Synced
<1>2. HasRow(arg[c].chunk.document_id)
  BY <1>1 DEF OrphanInv, OrphanHeld
<1>3. \A o \in Client : OrphanHeld(o)'
  BY <1>1 DEF Others, OrphanHeld
<1> QED
  BY <1>1, <1>2, <1>3 DEF OrphanInv, HasRow, Rooted

(* No other vectors than those of the document bear the numbers it lists, and *)
(* all that do are in its space.                                               *)
LEMMA OrphanUnvectored ==
  ASSUME Kept, OrphanInv, SplitsIds, NEW c \in Client, DeleteVectors(c)
  PROVE  OrphanInv'
<1>1. /\ Others(c) /\ pc[c] = "delete_vectors" /\ UNCHANGED <<documents, chunks, thread>>
      /\ \/ /\ pc'[c] = "delete_chunks" /\ arg'[c] = arg[c]
            /\ vectors' = {v \in vectors : ~(/\ v.known /\ v.sync = arg[c].row.vector_ids
                                             /\ v.space = arg[c].row.space)}
         \/ pc'[c] = "idle" /\ UNCHANGED vectors
  BY VectorsDeleted DEF Kept, Synced
<1>2. arg[c].row \in documents
  BY <1>1 DEF Kept, DocInv, DocHeld, DeletesOne
<1>3. ASSUME NEW v \in vectors, v.known, v.sync = arg[c].row.vector_ids
      PROVE  v.space = arg[c].row.space
  <2>1. Rooted(v) /\ v.sync # None
    BY <1>3 DEF OrphanInv, Rooted, Kept, Synced, SyncNumbers
  <2>2. thread[v.sync].doc.id = arg[c].row.id /\ ~Active(v.sync)
    BY <1>2, <1>3, <2>1 DEF Kept, Synced, SyncNumbers
  <2>3. PICK d \in documents : d.vector_ids = v.sync /\ d.space = v.space
    BY <2>1, <2>2 DEF Rooted, Active
  <2>4. d.id = arg[c].row.id
    BY <2>1, <2>2, <2>3 DEF Kept, Synced, SyncNumbers
  <2> QED
    BY <1>2, <2>3, <2>4 DEF Kept, Synced, Serial, TypeInv, TypeOK
<1>4. OrphanHeld(c)'
  BY <1>1, <1>3 DEF OrphanHeld
<1>5. vectors' \subseteq vectors
  BY <1>1
<1> QED
  BY <1>1, <1>4, <1>5, OrphanMoved

LEMMA OrphanUnchunked ==
  ASSUME Kept, OrphanInv, NEW c \in Client, DeleteChunks(c)
  PROVE  OrphanInv'
<1>1. /\ Others(c) /\ pc[c] = "delete_chunks" /\ pc'[c] = "delete_document" /\ arg'[c] = arg[c]
      /\ UNCHANGED <<documents, vectors, thread>>
      /\ chunks' = {k \in chunks : k.document_id # arg[c].row.id}
  BY ChunksDeleted DEF Kept, Synced
<1>2. OrphanHeld(c)'
  BY <1>1 DEF OrphanInv, OrphanHeld
<1> QED
  BY <1>1, <1>2, OrphanMoved

(* The row that goes has no chunks and no vectors any more. *)
LEMMA OrphanDeleted ==
  ASSUME Kept, OrphanInv, NEW c \in Client, DeleteDocument(c)
  PROVE  OrphanInv'
<1>1. /\ Others(c) /\ pc[c] = "delete_document" /\ pc'[c] = "idle"
      /\ UNCHANGED <<chunks, vectors, thread>>
      /\ documents' = documents \ DocumentsCalled(arg[c].row.space, arg[c].row.name)
  BY DocumentDeleted DEF Kept, Synced
<1>2. documents' = documents \ {arg[c].row}
  <2>1. arg[c].row \in documents
    BY <1>1 DEF Kept, DocInv, DocHeld, DeletesOne
  <2>2. DocumentsCalled(arg[c].row.space, arg[c].row.name) = {arg[c].row}
    BY <2>1 DEF Kept, DocInv, OneDocumentPerName, DocumentsCalled
  <2> QED
    BY <1>1, <2>2
<1>3. OrphanHeld(c)
  BY DEF OrphanInv
<1>4. \A k \in chunks : HasRow(k.document_id)'
  BY <1>1, <1>2, <1>3 DEF OrphanInv, OrphanHeld, HasRow
<1>5. \A v \in vectors : v.known => Rooted(v)'
  BY <1>1, <1>2, <1>3 DEF OrphanInv, OrphanHeld, Rooted
<1>6. \A o \in Client : OrphanHeld(o)'
  BY <1>1 DEF Others, OrphanHeld
<1> QED
  BY <1>1, <1>4, <1>5, <1>6 DEF OrphanInv

LEMMA OrphanDropped ==
  ASSUME Kept, OrphanInv, NEW c \in Client, DropVectors(c)
  PROVE  OrphanInv'
<1>1. /\ Others(c) /\ pc[c] = "drop_vectors" /\ vectors' \subseteq vectors
      /\ UNCHANGED <<documents, chunks, thread>>
      /\ \/ /\ pc'[c] = "list_documents" /\ arg'[c] = arg[c]
            /\ vectors' = {v \in vectors : v.space # arg[c].row.name}
         \/ pc'[c] = "idle"
  BY VectorsDropped DEF Kept, Synced
<1>2. OrphanHeld(c)'
  BY <1>1 DEF OrphanHeld
<1> QED
  BY <1>1, <1>2, OrphanMoved

LEMMA OrphanListed ==
  ASSUME Kept, OrphanInv, NEW c \in Client, ListDocuments(c)
  PROVE  OrphanInv'
<1>1. /\ Others(c) /\ pc[c] = "list_documents" /\ pc'[c] = "delete_each"
      /\ UNCHANGED <<documents, chunks, vectors, thread>>
      /\ arg'[c].row = arg[c].row
      /\ arg'[c].ids = {doc.id : doc \in InSpace(arg[c].row.name)}
  BY DocumentsListed DEF Kept, Synced
<1>2. \A d \in documents : d.space = arg[c].row.name => d.id \in arg'[c].ids
  BY <1>1 DEF InSpace
<1>3. OrphanHeld(c)'
  BY <1>1, <1>2 DEF OrphanInv, OrphanHeld
<1> QED
  BY <1>1, <1>3, OrphanMoved

LEMMA OrphanEach ==
  ASSUME Kept, OrphanInv, NEW c \in Client, DeleteEachChunks(c)
  PROVE  OrphanInv'
<1>1. pc[c] = "delete_each" /\ Listing(arg[c])
  BY DEF DeleteEachChunks, Kept, DocInv, DocHeld
<1>2. PICK id \in arg[c].ids :
        arg'[c].ids = arg[c].ids \ {id} /\ chunks' = {k \in chunks : k.document_id # id}
  BY <1>1, EachDeleted DEF Kept, Synced
<1>3. /\ Others(c) /\ pc'[c] = "delete_each" /\ arg'[c].row = arg[c].row
      /\ UNCHANGED <<documents, vectors, thread>>
  BY <1>1, EachDeleted DEF Kept, Synced
<1>4. OrphanHeld(c)'
  BY <1>1, <1>2, <1>3 DEF OrphanInv, OrphanHeld
<1> QED
  BY <1>2, <1>3, <1>4, OrphanMoved

(* The rows that go have no chunks left, and their space has no vectors. *)
LEMMA OrphanEmptied ==
  ASSUME Kept, OrphanInv, NEW c \in Client, DeleteDocuments(c)
  PROVE  OrphanInv'
<1>1. /\ Others(c) /\ pc[c] = "delete_each" /\ pc'[c] = "delete_space" /\ arg[c].ids = {}
      /\ UNCHANGED <<chunks, vectors, thread>>
      /\ documents' = documents \ InSpace(arg[c].row.name)
  BY DocumentsDeleted DEF Kept, Synced
<1>2. OrphanHeld(c)
  BY DEF OrphanInv
<1>3. \A k \in chunks : HasRow(k.document_id)'
  BY <1>1, <1>2 DEF OrphanInv, OrphanHeld, HasRow, InSpace
<1>4. \A v \in vectors : v.known => Rooted(v)'
  BY <1>1, <1>2 DEF OrphanInv, OrphanHeld, Rooted, InSpace
<1>5. \A o \in Client : OrphanHeld(o)'
  BY <1>1 DEF Others, OrphanHeld
<1> QED
  BY <1>1, <1>3, <1>4, <1>5 DEF OrphanInv

LEMMA OrphanRest ==
  ASSUME Kept, OrphanInv, NEW c \in Client,
         \/ InsertSpace(c) \/ SaveSpace(c) \/ ReadDocument(c) \/ PrepareDocument(c)
         \/ DeleteSpace(c)
  PROVE  OrphanInv'
<1>1. /\ Others(c) /\ pc'[c] \in {"idle", "prepare", "mark"}
      /\ UNCHANGED <<documents, chunks, vectors, thread>>
  BY InsertedSpace, SavedSpace, ReadOne, PreparedOne, SpaceDeleted DEF Kept, Synced
<1>2. OrphanHeld(c)'
  BY <1>1 DEF OrphanHeld
<1> QED
  BY <1>1, <1>2, OrphanMoved

(* New vectors bear the number of their thread, which no row lists yet; a      *)
(* deletion that is under way is of other documents.                           *)
LEMMA OrphanEmbedded ==
  ASSUME Kept, OrphanInv, NEW t \in DOMAIN thread, Embed(t)
  PROVE  OrphanInv'
<1>1. /\ UNCHANGED <<documents, chunks, pc, arg>> /\ thread[t].state = "embedding"
      /\ DOMAIN thread' = DOMAIN thread
      /\ \A u \in DOMAIN thread : u # t => thread'[u] = thread[u]
      /\ thread'[t].state = "storing" /\ thread'[t].doc.space = thread[t].doc.space
  BY EmbeddedOne DEF Kept, Synced, Serial
<1>2. ASSUME NEW v \in vectors', v.known, v \notin vectors
      PROVE  v.sync = t /\ v.space = thread[t].doc.space /\ thread'[t].doc.vector_ids = t
  BY <1>2, EmbeddedOne DEF Kept, Synced, Serial
<1>3. ASSUME NEW v \in vectors, Rooted(v) PROVE Rooted(v)'
  BY <1>1, <1>3 DEF Rooted
<1>4. \A v \in vectors' : v.known => Rooted(v)'
  BY <1>1, <1>2, <1>3 DEF OrphanInv, Rooted
<1>5. ASSUME NEW c \in Client PROVE OrphanHeld(c)'
  <2>1. OrphanHeld(c) /\ DocHeld(c)
    BY DEF OrphanInv, Kept, DocInv
  <2>2. ASSUME pc[c] \in {"delete_chunks", "delete_document"}, NEW v \in vectors', v.known
        PROVE  v.sync # arg[c].row.vector_ids
    <3>1. CASE v \in vectors
      BY <2>1, <2>2, <3>1 DEF OrphanHeld
    <3>2. CASE v \notin vectors
      <4>1. v.sync = t /\ t # None /\ Active(t)
        BY <1>1, <1>2, <2>2, <3>2 DEF Kept, Synced, SyncNumbers, Active
      <4>2. arg[c].row \in documents
        BY <2>1, <2>2 DEF DocHeld, DeletesOne
      <4> QED
        BY <4>1, <4>2 DEF Kept, Synced, SyncNumbers
    <3> QED
      BY <3>1, <3>2
  <2>3. ASSUME pc[c] \in {"list_documents", "delete_each"}, NEW v \in vectors', v.known
        PROVE  v.space # arg[c].row.name
    <3>1. CASE v \in vectors
      BY <2>1, <2>3, <3>1 DEF OrphanHeld
    <3>2. CASE v \notin vectors
      <4>1. v.space = thread[t].doc.space /\ Active(t)
        BY <1>1, <1>2, <2>3, <3>2 DEF Active
      <4> QED
        BY <2>1, <2>3, <4>1 DEF DocHeld, DeletesAll
    <3> QED
      BY <3>1, <3>2
  <2> QED
    BY <1>1, <2>1, <2>2, <2>3 DEF OrphanHeld, HasRow
<1> QED
  BY <1>1, <1>4, <1>5 DEF OrphanInv, HasRow

(* The thread that ends leaves its vectors to the row. *)
LEMMA OrphanStored ==
  ASSUME Kept, OrphanInv, NEW t \in DOMAIN thread, StoreResult(t)
  PROVE  OrphanInv'
<1>1. /\ UNCHANGED <<chunks, vectors, pc, arg>> /\ thread[t].state = "storing"
      /\ DOMAIN thread' = DOMAIN thread
      /\ \A u \in DOMAIN thread : u # t => thread'[u] = thread[u]
      /\ Replaces(thread[t].doc)
  BY StoredOne DEF Kept, Synced, Serial
<1>2. PICK old \in documents : /\ old.id = thread[t].doc.id /\ old.status = "RUNNING"
                               /\ old.space = thread[t].doc.space
  BY <1>1 DEF Kept, DocInv, Lists, Active
<1>3. ASSUME NEW id, HasRow(id) PROVE HasRow(id)'
  BY <1>1, <1>3 DEF HasRow, Replaces
<1>4. ASSUME NEW v \in vectors, Rooted(v) PROVE Rooted(v)'
  <2>1. ASSUME NEW d \in documents, d.vector_ids = v.sync PROVE d \in documents'
    <3>1. d.status = "FINISHED"
      BY <1>4, <2>1 DEF Rooted, Kept, Synced, SyncNumbers
    <3>2. d.id # thread[t].doc.id
      BY <1>2, <3>1 DEF Kept, Synced, Serial, TypeInv, TypeOK
    <3> QED
      BY <1>1, <3>2 DEF Replaces
  <2>2. thread[t].doc \in documents'
    BY <1>1 DEF Replaces
  <2> QED
    BY <1>1, <1>4, <2>1, <2>2 DEF Rooted
<1>5. \A d \in documents' : \E e \in documents : d.id = e.id /\ d.space = e.space
  BY <1>1, <1>2 DEF Replaces
<1>6. ASSUME NEW c \in Client PROVE OrphanHeld(c)'
  <2>1. OrphanHeld(c)
    BY DEF OrphanInv
  <2> QED
    BY <1>1, <1>3, <1>5, <2>1 DEF OrphanHeld
<1> QED
  BY <1>1, <1>3, <1>4, <1>6 DEF OrphanInv

LEMMA OrphanKept ==
  SplitsIds /\ ~TableErrors /\ ~Crashes /\ Kept /\ OrphanInv /\ [Next]_vars => OrphanInv'
<1> SUFFICES ASSUME SplitsIds, ~TableErrors, ~Crashes, Kept, OrphanInv, [Next]_vars PROVE OrphanInv'
  OBVIOUS
<1>1. ASSUME NEW c \in Client, RequestGoesOn(c) PROVE OrphanInv'
  <2>1. CASE \/ InsertDocument(c) \/ MarkRunning(c) \/ StartThread(c) \/ SaveChunks(c)
    BY <2>1, OrphanInserted, OrphanMarked, OrphanStarted, OrphanSaved
  <2>2. CASE \/ DeleteVectors(c) \/ DeleteChunks(c) \/ DeleteDocument(c) \/ DropVectors(c)
             \/ ListDocuments(c) \/ DeleteEachChunks(c) \/ DeleteDocuments(c)
    BY <2>2, OrphanUnvectored, OrphanUnchunked, OrphanDeleted, OrphanDropped, OrphanListed,
       OrphanEach, OrphanEmptied
  <2> QED
    BY <1>1, <2>1, <2>2, OrphanRest DEF RequestGoesOn, MarkInVain, TableRaises
<1>2. /\ ~Crash /\ \A t \in DOMAIN thread : ~LoseResult(t)
  BY DEF Crash, LoseResult
<1>3. CASE UNCHANGED vars
  BY <1>3 DEF vars, tables, OrphanInv, HasRow, Rooted, OrphanHeld
<1> QED
  BY <1>1, <1>2, <1>3, OrphanBegun, OrphanEmbedded, OrphanStored DEF Next

-----------------------------------------------------------------------------
(* Theorems *)

(* With requests that do not overlap a name names one space: the look-up still *)
(* holds when the row is inserted, and a row that argument_save stores again   *)
(* was not deleted meanwhile.                                                  *)
THEOREM SpacesUnique == ASSUME ~Overlap PROVE Spec => []OneSpacePerName
<1>1. Init => Serial /\ SpaceInv
  BY SerialAtFirst DEF Init, SpaceInv, OneSpacePerName, SpaceHeld
<1>2. Serial /\ SpaceInv /\ [Next]_vars => (Serial /\ SpaceInv)'
  BY SerialKept, SpaceKept
<1>3. SpaceInv => OneSpacePerName
  BY DEF SpaceInv
<1> QED
  BY <1>1, <1>2, <1>3, PTL DEF Spec

(* Requests stay apart and syncs agree with their threads, whatever is deleted *)
(* during a sync, fails or crashes, where no id is given twice.                *)
LEMMA SyncedAlways == ASSUME ~Overlap, ~ReusesIds PROVE Spec => []Synced
<1>1. Init => Synced
  BY SerialAtFirst DEF Init, Synced, ThreadInv, OneThreadPerDocument, SyncHeld, SyncNumbers
<1>2. Synced /\ [Next]_vars => Synced'
  BY SerialKept, ThreadKept, NumbersKept DEF Synced, Apart
<1> QED
  BY <1>1, <1>2, PTL DEF Spec

(* What requests read is still so when they write, while nobody deletes a      *)
(* document that is being synced, even where ids return.                       *)
LEMMA KeptAlways == ASSUME ~Overlap, ~DeletesSyncing PROVE Spec => []Kept
<1>1. Init => Synced
  BY SerialAtFirst DEF Init, Synced, ThreadInv, OneThreadPerDocument, SyncHeld, SyncNumbers
<1>2. Init => DocInv
  BY DEF Init, DocInv, OneDocumentPerName, DocHeld, DeletesOne, DeletesAll
<1>3. Init => Kept
  BY <1>1, <1>2 DEF Kept
<1>4. Kept /\ [Next]_vars => Kept'
  <2>1. Kept => Apart
    BY DEF Kept, DocInv, Apart
  <2> QED
    BY <2>1, SerialKept, ThreadKept, NumbersKept, DocKept DEF Kept, Synced
<1> QED
  BY <1>3, <1>4, PTL DEF Spec

(* sync_knowledge_document starts no second thread for a document while one    *)
(* still embeds it: the check of the status suffices as long as requests do    *)
(* not overlap and either nobody deletes a document that is being synced or    *)
(* the database gives no id twice.  (With SQLite a document that is created    *)
(* after such a deletion may get the id, and a thread, beside the old one.)    *)
THEOREM ThreadsUnique ==
  ASSUME ~Overlap, ~DeletesSyncing \/ ~ReusesIds
  PROVE  Spec => []OneThreadPerDocument
<1>1. Synced => OneThreadPerDocument
  BY DEF Synced, ThreadInv
<1>2. Kept => OneThreadPerDocument
  BY <1>1 DEF Kept
<1>3. CASE ~ReusesIds
  BY <1>1, <1>3, SyncedAlways, PTL
<1>4. CASE ~DeletesSyncing
  BY <1>2, <1>4, KeptAlways, PTL
<1> QED
  BY <1>3, <1>4

(* A name names one document of a space, although threads store rows that they *)
(* were given long ago: while nobody deletes a document that is being synced,  *)
(* the row a thread stores takes the place of the one it was read from.        *)
THEOREM DocumentsUnique == ASSUME ~Overlap, ~DeletesSyncing PROVE Spec => []OneDocumentPerName
<1>1. Kept => OneDocumentPerName
  BY DEF Kept, DocInv
<1> QED
  BY <1>1, KeptAlways, PTL

(* A document that says FINISHED can be searched: its vectors and the chunks   *)
(* of the same sync are stored, when neither the vector store nor a table nor  *)
(* the process fails.  (The chunks are stored after the thread was started: if *)
(* that raises, the document becomes FINISHED without them.)                   *)
THEOREM FinishedComplete ==
  ASSUME ~Overlap, ~DeletesSyncing, ~StoreErrors, ~TableErrors, ~Crashes
  PROVE  Spec => []FinishedIsComplete
<1>1. Init => CompleteInv
  BY DEF Init, CompleteInv
<1>2. Kept /\ CompleteInv /\ [Next]_vars => CompleteInv'
  BY CompleteKept
<1>3. Kept /\ CompleteInv => FinishedIsComplete
  <2> SUFFICES ASSUME Kept, CompleteInv, ~Deleting, NEW d \in documents, d.status = "FINISHED"
               PROVE  /\ Vec(d) \in vectors
                      /\ \/ [document_id |-> d.id, sync |-> d.vector_ids] \in chunks
                         \/ \E c \in Client : pc[c] = "chunks" /\ arg[c].chunk.sync = d.vector_ids
    BY DEF FinishedIsComplete, Vec
  <2>1. ~Doomed(d)
    BY DEF Doomed, Deleting, DeletesOne, DeletesAll
  <2>2. Whole(d)
    BY <2>1 DEF CompleteInv
  <2>3. d.vector_ids \in DOMAIN thread /\ thread[d.vector_ids].doc.id = d.id
    BY DEF Kept, Synced, SyncNumbers
  <2>4. Saved(d.vector_ids)
    BY <2>2, <2>3 DEF Whole
  <2>5. /\ Chunk(d.vector_ids) = [document_id |-> d.id, sync |-> d.vector_ids]
        /\ Chunk(d.vector_ids).sync = d.vector_ids
    BY <2>3 DEF Chunk
  <2> QED
    BY <2>2, <2>4, <2>5 DEF Whole, Saved
<1> QED
  BY <1>1, <1>2, <1>3, KeptAlways, PTL DEF Spec

(* Deleting leaves nothing behind, even when the vector store fails on the way *)
(* and the request is given up: no chunk without its row, and no vectors that  *)
(* nobody lists, in a store that takes a list of ids apart, when no table and  *)
(* no process fails.                                                           *)
THEOREM NoneOrphaned ==
  ASSUME ~Overlap, ~DeletesSyncing, SplitsIds, ~TableErrors, ~Crashes
  PROVE  Spec => []NothingOrphaned
<1>1. Init => OrphanInv
  BY DEF Init, OrphanInv, OrphanHeld
<1>2. Kept /\ OrphanInv /\ [Next]_vars => OrphanInv'
  BY OrphanKept
<1>3. OrphanInv => NothingOrphaned
  BY DEF OrphanInv, HasRow, Rooted, NothingOrphaned
<1> QED
  BY <1>1, <1>2, <1>3, KeptAlways, PTL DEF Spec

=============================================================================
