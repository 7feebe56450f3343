--------------------------- MODULE KnowledgeProofs ---------------------------
(***************************************************************************)
(* Theorems about the knowledge service, for any number of clients, spaces *)
(* and documents, any lists of ids and any overlap, failure and crash.     *)
(***************************************************************************)
EXTENDS KnowledgeService, FiniteSetTheorems, SequenceTheorems, TLAPS

(* What a request holds at each of its steps, ids being the counters. *)
Fits(step, held, ids) ==
  /\ step = "insert_space" => held.name \in Space
  /\ step = "insert_document" => held.space \in Space /\ held.name \in DocName
  /\ step = "save_space" => held.row \in SpaceRow /\ held.row.id <= ids.space
  /\ step \in {"prepare", "mark", "start"} =>
       /\ held = [space |-> held.space, todo |-> held.todo, row |-> held.row]
       /\ held.row \in DocRow /\ held.row.id <= ids.document
       /\ held.row.status = "RUNNING" <=> step = "start"
  /\ step = "chunks" => held.chunk \in [document_id : 1..MaxDocs, sync : 1..MaxSyncs]

Held == \A c \in Client : Fits(pc[c], arg[c], last_id)

\* Rows and threads have numbers the counters have given out.
Numbered ==
  /\ \A s \in spaces : s.id <= last_id.space
  /\ \A d \in documents : d.id <= last_id.document
  /\ \A t \in DOMAIN thread : thread[t].doc.id <= last_id.document

\* The bounds hold with the requests that are about to use a number.
Room ==
  /\ last_id.space + At("insert_space") <= MaxSpaces
  /\ last_id.document + At("insert_document") <= MaxDocs
  /\ last_id.sync + At("prepare") + At("mark") + At("start") <= MaxSyncs

\* A thread that is about to store has a final status.
Outcomes ==
  \A t \in DOMAIN thread : thread[t].state = "storing" => thread[t].doc.status # "RUNNING"

TypeInv == TypeOK /\ Held /\ Numbered /\ Room /\ Outcomes

\* No request is about to sync a document that was left behind without an exception.
AbandonedIsNotHeld ==
  \A d \in documents : d.status = "RUNNING" /\ ~BeingSynced(d.id) /\ d.id \notin lost =>
    \A c \in Client : pc[c] \in {"prepare", "mark"} => arg[c].row.id # d.id

SyncInv == RunningIsBeingSynced /\ AbandonedIsNotHeld

IInv == TypeInv /\ SyncInv

-----------------------------------------------------------------------------
(* Requests that move *)

Places == DOMAIN pc = Client /\ DOMAIN arg = Client

(* A request moves and the others stay. *)
LEMMA Going ==
  ASSUME Places, NEW c \in Client, NEW step, NEW held, Goes(c, step, held)
  PROVE  /\ Places'
         /\ pc'[c] = step /\ arg'[c] = held
         /\ \A o \in Client : o # c => pc'[o] = pc[o] /\ arg'[o] = arg[o]
BY DEF Places, Goes

(* How many requests are at a step, before and after a move. *)
LEMMA Counting ==
  ASSUME Places, NEW c \in Client, NEW step, NEW held, Goes(c, step, held), NEW s
  PROVE  /\ At(s) \in Nat /\ At(s)' \in Nat
         /\ pc[c] = s /\ step # s => At(s)' = At(s) - 1
         /\ pc[c] # s /\ step = s => At(s)' = At(s) + 1
         /\ (pc[c] = s <=> step = s) => At(s)' = At(s)
<1> DEFINE Here == {o \in Client : pc[o] = s}
           Then == {o \in Client : pc'[o] = s}
<1>1. /\ IsFiniteSet(Here) /\ IsFiniteSet(Then)
      /\ Cardinality(Here) \in Nat /\ Cardinality(Then) \in Nat
  <2>1. Here \in SUBSET Client /\ Then \in SUBSET Client
    OBVIOUS
  <2>2. IsFiniteSet(Here) /\ IsFiniteSet(Then)
    BY <2>1, FS_Subset, KnowledgeAssumption
  <2> QED
    BY <2>2, FS_CardinalityType
<1>2. At(s) = Cardinality(Here) /\ At(s)' = Cardinality(Then)
  BY DEF At
<1>3. pc'[c] = step /\ \A o \in Client : o # c => pc'[o] = pc[o]
  BY Going
<1>4. CASE pc[c] = s /\ step # s
  <2>1. Then = Here \ {c} /\ c \in Here
    BY <1>3, <1>4
  <2>2. Cardinality(Then) = Cardinality(Here) - 1
    BY <1>1, <2>1, FS_RemoveElement
  <2> QED
    BY <1>1, <1>2, <1>4, <2>2
<1>5. CASE pc[c] # s /\ step = s
  <2>1. Then = Here \cup {c} /\ c \notin Here
    BY <1>3, <1>5
  <2>2. Cardinality(Then) = Cardinality(Here) + 1
    BY <1>1, <2>1, FS_AddElement
  <2> QED
    BY <1>1, <1>2, <1>5, <2>2
<1>6. CASE pc[c] = s <=> step = s
  <2>1. Then = Here
    BY <1>3, <1>6
  <2> QED
    BY <1>1, <1>2, <1>6, <2>1
<1> QED
  BY <1>4, <1>5, <1>6

(* What a request needs to move on without a new number. *)
RoomFor(from, step) ==
  /\ step = "insert_space" => last_id.space + At("insert_space") < MaxSpaces
  /\ step = "insert_document" => last_id.document + At("insert_document") < MaxDocs
  /\ step = "prepare" => ~NoSyncLeft
  /\ step = "mark" => from = "prepare"
  /\ step = "start" => from = "mark"

Ids == [space : 0..MaxSpaces, document : 0..MaxDocs, sync : 0..MaxSyncs]

LEMMA RoomKept ==
  ASSUME Places, Room, last_id \in Ids,
         NEW c \in Client, NEW step, NEW held, Goes(c, step, held),
         RoomFor(pc[c], step), UNCHANGED last_id
  PROVE  Room'
<1>0. MaxSpaces \in Nat /\ MaxDocs \in Nat /\ MaxSyncs \in Nat
  BY KnowledgeAssumption
<1>1. last_id.space \in Nat /\ last_id.document \in Nat /\ last_id.sync \in Nat
  BY KnowledgeAssumption DEF Ids
<1>2. last_id.space + At("insert_space")' <= MaxSpaces
  <2> DEFINE n == At("insert_space") nn == At("insert_space")'
  <2>1. /\ n \in Nat /\ nn \in Nat
        /\ pc[c] = "insert_space" /\ step # "insert_space" => nn = n - 1
        /\ pc[c] # "insert_space" /\ step = "insert_space" => nn = n + 1
        /\ (pc[c] = "insert_space" <=> step = "insert_space") => nn = n
    BY Counting
  <2>2. /\ last_id.space + n <= MaxSpaces
        /\ step = "insert_space" => last_id.space + n < MaxSpaces
    BY DEF Room, RoomFor
  <2> HIDE DEF n, nn
  <2>3. last_id.space + nn <= MaxSpaces
    BY <1>0, <1>1, <2>1, <2>2
  <2> QED
    BY <2>3 DEF nn
<1>3. last_id.document + At("insert_document")' <= MaxDocs
  <2> DEFINE n == At("insert_document") nn == At("insert_document")'
  <2>1. /\ n \in Nat /\ nn \in Nat
        /\ pc[c] = "insert_document" /\ step # "insert_document" => nn = n - 1
        /\ pc[c] # "insert_document" /\ step = "insert_document" => nn = n + 1
        /\ (pc[c] = "insert_document" <=> step = "insert_document") => nn = n
    BY Counting
  <2>2. /\ last_id.document + n <= MaxDocs
        /\ step = "insert_document" => last_id.document + n < MaxDocs
    BY DEF Room, RoomFor
  <2> HIDE DEF n, nn
  <2>3. last_id.document + nn <= MaxDocs
    BY <1>0, <1>1, <2>1, <2>2
  <2> QED
    BY <2>3 DEF nn
<1>4. last_id.sync + At("prepare")' + At("mark")' + At("start")' <= MaxSyncs
  <2> DEFINE p == At("prepare") m == At("mark") s == At("start")
             pp == At("prepare")' mm == At("mark")' ss == At("start")'
  <2>1. /\ p \in Nat /\ pp \in Nat
        /\ pc[c] = "prepare" /\ step # "prepare" => pp = p - 1
        /\ pc[c] # "prepare" /\ step = "prepare" => pp = p + 1
        /\ (pc[c] = "prepare" <=> step = "prepare") => pp = p
    BY Counting
  <2>2. /\ m \in Nat /\ mm \in Nat
        /\ pc[c] = "mark" /\ step # "mark" => mm = m - 1
        /\ pc[c] # "mark" /\ step = "mark" => mm = m + 1
        /\ (pc[c] = "mark" <=> step = "mark") => mm = m
    BY Counting
  <2>3. /\ s \in Nat /\ ss \in Nat
        /\ pc[c] = "start" /\ step # "start" => ss = s - 1
        /\ pc[c] # "start" /\ step = "start" => ss = s + 1
        /\ (pc[c] = "start" <=> step = "start") => ss = s
    BY Counting
  <2>4. /\ last_id.sync + p + m + s <= MaxSyncs
        /\ step = "prepare" => ~(last_id.sync + p + m + s >= MaxSyncs)
    BY DEF Room, RoomFor, NoSyncLeft
  <2>5. (step = "mark" => pc[c] = "prepare") /\ (step = "start" => pc[c] = "mark")
    BY DEF RoomFor
  <2> HIDE DEF p, m, s, pp, mm, ss
  <2>6. last_id.sync + pp + mm + ss <= MaxSyncs
    <3>0. /\ p \in Nat /\ m \in Nat /\ s \in Nat
          /\ pp \in Nat /\ mm \in Nat /\ ss \in Nat
          /\ last_id.sync \in Nat /\ MaxSyncs \in Nat
      BY <1>0, <1>1, <2>1, <2>2, <2>3
    <3>1. CASE step = "prepare"
      <4>1. (pp = p \/ pp = p + 1) /\ (mm = m \/ mm = m - 1) /\ (ss = s \/ ss = s - 1)
        BY <2>1, <2>2, <2>3, <3>1
      <4>2. ~(last_id.sync + p + m + s >= MaxSyncs)
        BY <2>4, <3>1
      <4> QED
        BY <3>0, <4>1, <4>2
    <3>2. CASE step = "mark"
      <4>1. pp = p - 1 /\ mm = m + 1 /\ ss = s
        BY <2>1, <2>2, <2>3, <2>5, <3>2
      <4> QED
        BY <2>4, <3>0, <4>1
    <3>3. CASE step = "start"
      <4>1. pp = p /\ mm = m - 1 /\ ss = s + 1
        BY <2>1, <2>2, <2>3, <2>5, <3>3
      <4> QED
        BY <2>4, <3>0, <4>1
    <3>4. CASE step \notin {"prepare", "mark", "start"}
      <4>1. (pp = p \/ pp = p - 1) /\ (mm = m \/ mm = m - 1) /\ (ss = s \/ ss = s - 1)
        BY <2>1, <2>2, <2>3, <3>4
      <4> QED
        BY <2>4, <3>0, <4>1
    <3> QED
      BY <3>1, <3>2, <3>3, <3>4
  <2> QED
    BY <2>6 DEF pp, mm, ss
<1> QED
  BY <1>2, <1>3, <1>4 DEF Room

LEMMA FitsGrows ==
  ASSUME NEW step, NEW held, NEW ids \in Ids, NEW later \in Ids,
         later.space >= ids.space, later.document >= ids.document, Fits(step, held, ids)
  PROVE  Fits(step, held, later)
<1>1. /\ ids.space \in Nat /\ ids.document \in Nat /\ later.space \in Nat /\ later.document \in Nat
  BY KnowledgeAssumption DEF Ids
<1>2. held.row \in SpaceRow \/ held.row \in DocRow => held.row.id \in Nat
  BY KnowledgeAssumption DEF SpaceRow, DocRow
<1>3. held.row \in SpaceRow /\ held.row.id <= ids.space => held.row.id <= later.space
  BY <1>1, <1>2
<1>4. held.row \in DocRow /\ held.row.id <= ids.document => held.row.id <= later.document
  BY <1>1, <1>2
<1> QED
  BY <1>3, <1>4 DEF Fits

(* What requests hold stays fit while numbers only grow. *)
LEMMA HeldKept ==
  ASSUME Places, Held, last_id \in Ids, last_id' \in Ids,
         last_id'.space >= last_id.space, last_id'.document >= last_id.document,
         NEW c \in Client, NEW step, NEW held, Goes(c, step, held),
         Fits(step, held, last_id')
  PROVE  Held'
<1>1. ASSUME NEW o \in Client, o # c PROVE Fits(pc'[o], arg'[o], last_id')
  <2>1. pc'[o] = pc[o] /\ arg'[o] = arg[o]
    BY <1>1, Going
  <2>2. Fits(pc[o], arg[o], last_id)
    BY DEF Held
  <2>3. Fits(pc[o], arg[o], last_id')
    BY <2>2, FitsGrows
  <2> QED
    BY <2>1, <2>3
<1>2. Fits(pc'[c], arg'[c], last_id')
  BY Going
<1> QED
  BY <1>1, <1>2 DEF Held

LEMMA TypedPlaces == TypeOK => Places /\ last_id \in Ids
BY DEF TypeOK, Places, Ids

-----------------------------------------------------------------------------
(* Types *)

LEMMA InitTypes == Init => TypeInv
<1> SUFFICES ASSUME Init PROVE TypeInv
  OBVIOUS
<1>1. MaxSpaces \in Nat /\ MaxDocs \in Nat /\ MaxSyncs \in Nat
  BY KnowledgeAssumption
<1>2. TypeOK
  <2>1. last_id \in Ids /\ last_id.sync = 0
    BY <1>1 DEF Init, Ids
  <2>2. DOMAIN pc = Client /\ DOMAIN arg = Client
    BY DEF Init
  <2>3. thread \in [1..0 -> [state : {"embedding", "storing", "done"}, doc : DocRow]]
    BY DEF Init
  <2> QED
    BY <2>1, <2>2, <2>3 DEF Init, TypeOK, Ids
<1>3. Held /\ Numbered /\ Outcomes
  BY DEF Init, Held, Fits, Numbered, Outcomes
<1>4. Room
  <2>1. ASSUME NEW s, s # "idle" PROVE At(s) = 0
    <3>1. {c \in Client : pc[c] = s} = {}
      BY <2>1 DEF Init
    <3> QED
      BY <3>1, FS_EmptySet DEF At
  <2>2. /\ At("insert_space") = 0 /\ At("insert_document") = 0
        /\ At("prepare") = 0 /\ At("mark") = 0 /\ At("start") = 0
    BY <2>1
  <2> QED
    BY <1>1, <2>2 DEF Init, Room
<1> QED
  BY <1>2, <1>3, <1>4 DEF TypeInv

(* A request that inserts nothing. *)
LEMMA MoveKeeps ==
  ASSUME TypeInv, NEW c \in Client, NEW step, NEW held, Goes(c, step, held),
         RoomFor(pc[c], step), Fits(step, held, last_id),
         spaces' \subseteq spaces, documents' \subseteq documents,
         chunks' \subseteq chunks, vectors' \subseteq vectors,
         UNCHANGED <<last_id, thread, crashed, lost>>
  PROVE  TypeInv'
<1>1. Places /\ last_id \in Ids
  BY TypedPlaces DEF TypeInv
<1>2. Places' /\ Room'
  BY <1>1, Going, RoomKept DEF TypeInv
<1>3. Held'
  <2>1. last_id' \in Ids /\ last_id'.space >= last_id.space /\ last_id'.document >= last_id.document
    BY <1>1, KnowledgeAssumption DEF Ids
  <2> QED
    BY <1>1, <2>1, HeldKept DEF TypeInv
<1>4. TypeOK'
  BY <1>2 DEF TypeInv, TypeOK, Places
<1>5. Numbered' /\ Outcomes'
  BY DEF TypeInv, Numbered, Outcomes
<1> QED
  BY <1>2, <1>3, <1>4, <1>5 DEF TypeInv

(* Where a request need hold nothing in particular. *)
Loose == {"idle", "read", "delete_vectors", "delete_chunks", "delete_document",
          "drop_vectors", "list_documents", "delete_each", "delete_space"}

LEMMA LooseKeeps ==
  ASSUME TypeInv, NEW c \in Client, NEW step \in Loose, NEW held, Goes(c, step, held),
         spaces' \subseteq spaces, documents' \subseteq documents,
         chunks' \subseteq chunks, vectors' \subseteq vectors,
         UNCHANGED <<last_id, thread, crashed, lost>>
  PROVE  TypeInv'
<1>1. RoomFor(pc[c], step) /\ Fits(step, held, last_id)
  BY DEF Loose, RoomFor, Fits
<1> QED
  BY <1>1, MoveKeeps

(* The look-ups of a request that begins leave room for what it will insert. *)
LEMMA StartKeepsTypes ==
  ASSUME TypeInv, NEW c \in Client, RequestStarts(c)
  PROVE  TypeInv'
<1>1. ASSUME NEW s \in Space, create_knowledge_space(c, s) PROVE TypeInv'
  <2> DEFINE held == [name |-> s]
  <2>1. RoomFor(pc[c], "insert_space") /\ Fits("insert_space", held, last_id)
    BY <1>1 DEF create_knowledge_space, RoomFor, Fits
  <2>2. Goes(c, "insert_space", held) /\ UNCHANGED <<tables, last_id, thread, crashed, lost>>
    BY <1>1 DEF create_knowledge_space
  <2> HIDE DEF held
  <2> QED
    BY <2>1, <2>2, MoveKeeps DEF tables
<1>2. ASSUME NEW s \in Space, argument_save(c, s) PROVE TypeInv'
  <2>1. PICK row \in spaces : Goes(c, "save_space", [row |-> row])
    BY <1>2 DEF argument_save, SpacesCalled
  <2> DEFINE held == [row |-> row]
  <2>2. row \in SpaceRow /\ row.id <= last_id.space
    BY DEF TypeInv, TypeOK, Numbered
  <2>3. RoomFor(pc[c], "save_space") /\ Fits("save_space", held, last_id)
    BY <2>2 DEF RoomFor, Fits
  <2>4. Goes(c, "save_space", held) /\ UNCHANGED <<tables, last_id, thread, crashed, lost>>
    BY <1>2, <2>1 DEF argument_save
  <2> HIDE DEF held
  <2> QED
    BY <2>3, <2>4, MoveKeeps DEF tables
<1>3. ASSUME NEW s \in Space, NEW n \in DocName, create_knowledge_document(c, s, n) PROVE TypeInv'
  <2> DEFINE held == [space |-> s, name |-> n]
  <2>1. RoomFor(pc[c], "insert_document") /\ Fits("insert_document", held, last_id)
    BY <1>3 DEF create_knowledge_document, RoomFor, Fits
  <2>2. Goes(c, "insert_document", held) /\ UNCHANGED <<tables, last_id, thread, crashed, lost>>
    BY <1>3 DEF create_knowledge_document
  <2> HIDE DEF held
  <2> QED
    BY <2>1, <2>2, MoveKeeps DEF tables
<1>4. ASSUME NEW s \in Space, NEW n \in DocName, delete_document(c, s, n) PROVE TypeInv'
  <2>1. PICK row : Goes(c, IF row.vector_ids = None THEN "delete_chunks" ELSE "delete_vectors",
                        [row |-> row])
    BY <1>4 DEF delete_document
  <2>2. UNCHANGED <<tables, last_id, thread, crashed, lost>>
    BY <1>4 DEF delete_document
  <2> QED
    BY <2>1, <2>2, LooseKeeps DEF tables, Loose
<1>5. ASSUME NEW s \in Space, delete_space(c, s) PROVE TypeInv'
  <2>1. PICK row : Goes(c, "drop_vectors", [row |-> row])
    BY <1>5 DEF delete_space
  <2>2. UNCHANGED <<tables, last_id, thread, crashed, lost>>
    BY <1>5 DEF delete_space
  <2> QED
    BY <2>1, <2>2, LooseKeeps DEF tables, Loose
<1>6. ASSUME NEW s \in Space, NEW ids \in DocIds, sync_knowledge_document(c, s, ids) PROVE TypeInv'
  BY <1>6, LooseKeeps DEF sync_knowledge_document, tables, Loose
<1> QED
  BY <1>1, <1>2, <1>3, <1>4, <1>5, <1>6 DEF RequestStarts

(* Requests that delete. *)
LEMMA DeletionKeepsTypes ==
  ASSUME TypeInv, NEW c \in Client,
         \/ DeleteVectors(c) \/ DeleteChunks(c) \/ DeleteDocument(c) \/ DropVectors(c)
         \/ ListDocuments(c) \/ DeleteEachChunks(c) \/ DeleteDocuments(c) \/ DeleteSpace(c)
  PROVE  TypeInv'
<1>1. UNCHANGED <<last_id, thread, crashed, lost>>
  BY DEF DeleteVectors, DeleteChunks, DeleteDocument, DropVectors, ListDocuments,
         DeleteEachChunks, DeleteDocuments, DeleteSpace, tables
<1>2. /\ spaces' \subseteq spaces /\ documents' \subseteq documents
      /\ chunks' \subseteq chunks /\ vectors' \subseteq vectors
  BY DEF DeleteVectors, DeleteChunks, DeleteDocument, DropVectors, ListDocuments,
         DeleteEachChunks, DeleteDocuments, DeleteSpace, tables
<1>3. \E step \in Loose : \E held : Goes(c, step, held)
  BY DEF DeleteVectors, DeleteChunks, DeleteDocument, DropVectors, ListDocuments,
         DeleteEachChunks, DeleteDocuments, DeleteSpace, Ends, Loose
<1> QED
  BY <1>1, <1>2, <1>3, LooseKeeps

(* A request whose table raises ends and leaves nothing. *)
LEMMA RaisingKeepsTypes ==
  ASSUME TypeInv, NEW c \in Client, TableRaises(c)
  PROVE  TypeInv'
BY LooseKeeps DEF TableRaises, Ends, Loose, tables

(* A request that reads a document holds a row that may be synced. *)
LEMMA ReadKeepsTypes ==
  ASSUME TypeInv, NEW c \in Client, ReadDocument(c) \/ PrepareDocument(c)
  PROVE  TypeInv'
<1>1. UNCHANGED <<tables, last_id, thread, crashed, lost>>
  BY DEF ReadDocument, PrepareDocument
<1>2. CASE Ends(c)
  BY <1>1, <1>2, LooseKeeps DEF Ends, Loose, tables
<1>3. CASE ReadDocument(c) /\ ~Ends(c)
  <2>1. PICK row \in documents :
          /\ row.status \notin {"RUNNING", "FINISHED"} /\ ~NoSyncLeft
          /\ Goes(c, "prepare", [space |-> arg[c].space, todo |-> arg[c].todo, row |-> row])
    BY <1>3 DEF ReadDocument
  <2> DEFINE held == [space |-> arg[c].space, todo |-> arg[c].todo, row |-> row]
  <2>2. row \in DocRow /\ row.id <= last_id.document
    BY DEF TypeInv, TypeOK, Numbered
  <2>3. held = [space |-> held.space, todo |-> held.todo, row |-> held.row] /\ held.row = row
    OBVIOUS
  <2>4. Goes(c, "prepare", held)
    BY <2>1
  <2> HIDE DEF held
  <2>5. RoomFor(pc[c], "prepare") /\ Fits("prepare", held, last_id)
    BY <2>1, <2>2, <2>3 DEF RoomFor, Fits
  <2> QED
    BY <1>1, <2>4, <2>5, MoveKeeps DEF tables
<1>4. CASE PrepareDocument(c) /\ ~Ends(c)
  <2>1. pc[c] = "prepare" /\ Goes(c, "mark", arg[c])
    BY <1>4 DEF PrepareDocument
  <2>2. Fits("prepare", arg[c], last_id)
    BY <2>1 DEF TypeInv, Held
  <2>3. RoomFor(pc[c], "mark") /\ Fits("mark", arg[c], last_id)
    BY <2>1, <2>2 DEF RoomFor, Fits
  <2> QED
    BY <1>1, <2>1, <2>3, MoveKeeps DEF tables
<1> QED
  BY <1>2, <1>3, <1>4

(* Requests that store rows without a new number. *)
LEMMA StepKeeps ==
  ASSUME TypeInv, NEW c \in Client, NEW step, NEW held, Goes(c, step, held),
         RoomFor(pc[c], step), Fits(step, held, last_id), UNCHANGED last_id
  PROVE  Places' /\ Room' /\ Held'
<1>1. Places /\ last_id \in Ids
  BY TypedPlaces DEF TypeInv
<1>2. last_id' \in Ids /\ last_id'.space >= last_id.space /\ last_id'.document >= last_id.document
  BY <1>1, KnowledgeAssumption DEF Ids
<1> QED
  BY <1>1, <1>2, Going, RoomKept, HeldKept DEF TypeInv

(* A merged row takes the place of the one with its id. *)
LEMMA MergeRows ==
  ASSUME NEW table, NEW row, \A r, q \in table : r.id = q.id => r = q
  PROVE  /\ \A r \in Merge(table, row) : (r \in table /\ r.id # row.id) \/ r = row
         /\ \A r, q \in Merge(table, row) : r.id = q.id => r = q
         /\ \A r \in table : r.id # row.id => r \in Merge(table, row)
BY DEF Merge

LEMMA SaveKeepsTypes ==
  ASSUME TypeInv, NEW c \in Client, SaveSpace(c)
  PROVE  TypeInv'
<1>1. arg[c].row \in SpaceRow /\ arg[c].row.id <= last_id.space
  BY DEF SaveSpace, TypeInv, Held, Fits
<1>2. RoomFor(pc[c], "idle") /\ Fits("idle", NoArg, last_id)
  BY DEF RoomFor, Fits
<1>3. UNCHANGED last_id /\ Goes(c, "idle", NoArg)
  BY DEF SaveSpace, Ends
<1>4. Places' /\ Room' /\ Held'
  BY <1>2, <1>3, StepKeeps
<1>5. /\ \A s \in spaces' : s \in spaces \/ s = arg[c].row
      /\ \A s, t \in spaces' : s.id = t.id => s = t
  BY MergeRows DEF SaveSpace, TypeInv, TypeOK
<1>6. TypeOK'
  BY <1>1, <1>4, <1>5 DEF SaveSpace, TypeInv, TypeOK, Places
<1>7. Numbered' /\ Outcomes'
  BY <1>1, <1>5 DEF SaveSpace, TypeInv, Numbered, Outcomes
<1> QED
  BY <1>4, <1>6, <1>7 DEF TypeInv

LEMMA ChunksKeepTypes ==
  ASSUME TypeInv, NEW c \in Client, SaveChunks(c)
  PROVE  TypeInv'
<1>1. arg[c].chunk \in [document_id : 1..MaxDocs, sync : 1..MaxSyncs]
  BY DEF SaveChunks, TypeInv, Held, Fits
<1>2. PICK step \in Loose : \E held : Goes(c, step, held)
  BY DEF SaveChunks, Ends, Loose
<1> PICK held : Goes(c, step, held)
  BY <1>2
<1>3. RoomFor(pc[c], step) /\ Fits(step, held, last_id)
  BY <1>2 DEF RoomFor, Fits, Loose
<1>4. Places' /\ Room' /\ Held'
  BY <1>2, <1>3, StepKeeps DEF SaveChunks
<1>5. TypeOK'
  BY <1>1, <1>4 DEF SaveChunks, TypeInv, TypeOK, Places
<1>6. Numbered' /\ Outcomes'
  BY DEF SaveChunks, TypeInv, Numbered, Outcomes
<1> QED
  BY <1>4, <1>5, <1>6 DEF TypeInv

(* The row that a request marks. *)
LEMMA MarkedRow ==
  ASSUME TypeInv, NEW c \in Client, pc[c] = "mark",
         NEW row, row = [arg[c].row EXCEPT !.status = "RUNNING"]
  PROVE  /\ arg[c] = [space |-> arg[c].space, todo |-> arg[c].todo, row |-> arg[c].row]
         /\ row \in DocRow /\ row.status = "RUNNING"
         /\ row.id = arg[c].row.id /\ row.id <= last_id.document
<1>1. Fits("mark", arg[c], last_id)
  BY DEF TypeInv, Held
<1>2. /\ arg[c] = [space |-> arg[c].space, todo |-> arg[c].todo, row |-> arg[c].row]
      /\ arg[c].row \in DocRow /\ arg[c].row.id <= last_id.document
  BY <1>1 DEF Fits
<1>3. row \in DocRow /\ row.status = "RUNNING" /\ row.id = arg[c].row.id
  BY <1>2 DEF DocRow
<1> QED
  BY <1>2, <1>3

(* What a request holds when it marked its document RUNNING. *)
LEMMA MarkHolds ==
  ASSUME TypeInv, NEW c \in Client, MarkRunning(c)
  PROVE  \E held :
           /\ held = [space |-> held.space, todo |-> held.todo, row |-> held.row]
           /\ held.row \in DocRow /\ held.row.status = "RUNNING"
           /\ held.row.id = arg[c].row.id /\ held.row.id <= last_id.document
           /\ Goes(c, "start", held)
           /\ documents' = Merge(documents, held.row)
<1> DEFINE row == [arg[c].row EXCEPT !.status = "RUNNING"]
           held == [arg[c] EXCEPT !.row = row]
<1>1. pc[c] = "mark" /\ Goes(c, "start", held) /\ documents' = Merge(documents, row)
  BY DEF MarkRunning
<1>2. /\ arg[c] = [space |-> arg[c].space, todo |-> arg[c].todo, row |-> arg[c].row]
      /\ row \in DocRow /\ row.status = "RUNNING"
      /\ row.id = arg[c].row.id /\ row.id <= last_id.document
  BY <1>1, MarkedRow
<1>3. held = [space |-> arg[c].space, todo |-> arg[c].todo, row |-> row]
  BY <1>2
<1>4. held.row = row /\ held = [space |-> held.space, todo |-> held.todo, row |-> held.row]
  BY <1>3
<1> HIDE DEF row, held
<1> QED
  BY <1>1, <1>2, <1>4

LEMMA MarkKeepsTypes ==
  ASSUME TypeInv, NEW c \in Client, MarkRunning(c)
  PROVE  TypeInv'
<1>1. PICK held :
        /\ held = [space |-> held.space, todo |-> held.todo, row |-> held.row]
        /\ held.row \in DocRow /\ held.row.status = "RUNNING"
        /\ held.row.id = arg[c].row.id /\ held.row.id <= last_id.document
        /\ Goes(c, "start", held)
        /\ documents' = Merge(documents, held.row)
  BY MarkHolds
<1>2. RoomFor(pc[c], "start") /\ Fits("start", held, last_id)
  BY <1>1 DEF MarkRunning, RoomFor, Fits
<1>3. UNCHANGED <<spaces, chunks, vectors, last_id, thread, crashed, lost>>
  BY DEF MarkRunning
<1>4. Places' /\ Room' /\ Held'
  BY <1>1, <1>2, <1>3, StepKeeps
<1>5. /\ \A d \in documents' : d \in documents \/ d = held.row
      /\ \A d, e \in documents' : d.id = e.id => d = e
  BY <1>1, MergeRows DEF TypeInv, TypeOK
<1>6. TypeOK'
  BY <1>1, <1>3, <1>4, <1>5 DEF TypeInv, TypeOK, Places
<1>7. Numbered' /\ Outcomes'
  BY <1>1, <1>3, <1>5 DEF TypeInv, Numbered, Outcomes
<1> QED
  BY <1>4, <1>6, <1>7 DEF TypeInv

LEMMA VainKeepsTypes ==
  ASSUME TypeInv, NEW c \in Client, MarkInVain(c)
  PROVE  TypeInv'
<1> DEFINE row == [arg[c].row EXCEPT !.status = "RUNNING"]
<1>1. /\ pc[c] = "mark" /\ Goes(c, "idle", NoArg) /\ documents' = Merge(documents, row)
      /\ lost' = lost \cup {arg[c].row.id}
      /\ UNCHANGED <<spaces, chunks, vectors, last_id, thread, crashed>>
  BY DEF MarkInVain, Ends
<1>2. row \in DocRow /\ row.id <= last_id.document /\ row.id = arg[c].row.id
  BY <1>1, MarkedRow
<1> HIDE DEF row
<1>3. RoomFor(pc[c], "idle") /\ Fits("idle", NoArg, last_id)
  BY DEF RoomFor, Fits
<1>4. Places' /\ Room' /\ Held'
  BY <1>1, <1>3, StepKeeps
<1>5. /\ \A d \in documents' : d \in documents \/ d = row
      /\ \A d, e \in documents' : d.id = e.id => d = e
  BY <1>1, MergeRows DEF TypeInv, TypeOK
<1>6. lost' \subseteq 1..MaxDocs
  BY <1>1, <1>2 DEF TypeInv, TypeOK, DocRow
<1>7. TypeOK'
  BY <1>1, <1>2, <1>4, <1>5, <1>6 DEF TypeInv, TypeOK, Places
<1>8. Numbered' /\ Outcomes'
  BY <1>1, <1>2, <1>5 DEF TypeInv, Numbered, Outcomes
<1> QED
  BY <1>4, <1>7, <1>8 DEF TypeInv

(* A request that used its number leaves the count of those about to use one.  *)
LEMMA InsertCounts ==
  ASSUME TypeInv, NEW c \in Client, NEW step, NEW held, Goes(c, step, held),
         NEW from, pc[c] = from, step # from
  PROVE  /\ At(from)' = At(from) - 1 /\ At(from) \in Nat \ {0}
         /\ \A s : s \notin {step, from} => At(s)' = At(s)
<1>1. Places
  BY TypedPlaces DEF TypeInv
<1>2. At(from)' = At(from) - 1 /\ At(from) \in Nat /\ At(from)' \in Nat
  BY <1>1, Counting
<1>3. ASSUME NEW s, s \notin {step, from} PROVE At(s)' = At(s)
  BY <1>1, <1>3, Counting
<1> QED
  BY <1>2, <1>3

LEMMA InsertSpaceKeepsTypes ==
  ASSUME TypeInv, NEW c \in Client, InsertSpace(c)
  PROVE  TypeInv'
<1>0. PICK id \in 1..last_id'.space :
        /\ IsNextId(id, spaces, last_id'.space)
        /\ spaces' = spaces \cup {[id |-> id, name |-> arg[c].name]}
  BY DEF InsertSpace
<1> DEFINE row == [id |-> id, name |-> arg[c].name]
<1>1. Places /\ last_id \in Ids /\ MaxSpaces \in Nat /\ MaxDocs \in Nat /\ MaxSyncs \in Nat
  BY TypedPlaces, KnowledgeAssumption DEF TypeInv
<1>2. pc[c] = "insert_space" /\ Goes(c, "idle", NoArg)
  BY DEF InsertSpace, Ends
<1>3. /\ At("insert_space")' = At("insert_space") - 1 /\ At("insert_space") \in Nat \ {0}
      /\ At("insert_document")' = At("insert_document")
      /\ At("prepare")' = At("prepare") /\ At("mark")' = At("mark") /\ At("start")' = At("start")
  BY <1>2, InsertCounts
<1>4. /\ last_id'.space = last_id.space + 1 /\ last_id'.document = last_id.document
      /\ last_id'.sync = last_id.sync /\ last_id.space \in Nat
      /\ last_id' = [space |-> last_id'.space, document |-> last_id'.document, sync |-> last_id'.sync]
  BY <1>1 DEF InsertSpace, Ids
<1>5. last_id.space + 1 <= MaxSpaces
  <2>1. last_id.space + At("insert_space") <= MaxSpaces
    BY DEF TypeInv, Room
  <2> QED
    BY <1>1, <1>3, <1>4, <2>1
<1>6. last_id' \in Ids
  BY <1>1, <1>4, <1>5 DEF Ids
<1>7. Room'
  <2>1. last_id'.space + At("insert_space")' <= MaxSpaces
    <3>1. last_id.space + At("insert_space") <= MaxSpaces
      BY DEF TypeInv, Room
    <3> QED
      BY <1>1, <1>3, <1>4, <3>1
  <2> QED
    BY <1>3, <1>4, <2>1 DEF TypeInv, Room
<1>8. Places' /\ Held'
  <2>1. Fits("idle", NoArg, last_id')
    BY DEF Fits
  <2>2. last_id'.space >= last_id.space /\ last_id'.document >= last_id.document
    BY <1>1, <1>4 DEF Ids
  <2> QED
    BY <1>1, <1>2, <1>6, <2>1, <2>2, HeldKept, Going DEF TypeInv
<1>9. row \in SpaceRow
  <2>1. arg[c].name \in Space
    BY <1>2 DEF TypeInv, Held, Fits
  <2> QED
    BY <1>0, <1>1, <1>4, <1>5, <2>1 DEF SpaceRow
<1>10. spaces' = spaces \cup {row} /\ \A s \in spaces : s.id <= last_id.space /\ s.id \in Nat
  <2>1. \A s \in spaces : s.id <= last_id.space /\ s.id \in Nat
    BY <1>1 DEF TypeInv, Numbered, TypeOK, SpaceRow
  <2> QED
    BY <1>0, <2>1
<1>11. UNCHANGED <<documents, chunks, vectors, thread, crashed, lost>>
  BY DEF InsertSpace
<1>12. row.id \in 1..last_id'.space /\ \A r \in spaces : r.id < row.id
  BY <1>0 DEF IsNextId
<1> HIDE DEF row
<1>13. /\ \A s \in spaces' : s.id <= last_id'.space
       /\ \A s, t \in spaces' : s.id = t.id => s = t
  <2>1. \A s \in spaces : s.id # row.id
    BY <1>4, <1>10, <1>12
  <2>2. \A s, t \in spaces : s.id = t.id => s = t
    BY DEF TypeInv, TypeOK
  <2> QED
    BY <1>4, <1>10, <1>12, <2>1, <2>2
<1>14. TypeOK'
  BY <1>4, <1>6, <1>8, <1>9, <1>10, <1>11, <1>13 DEF TypeInv, TypeOK, Places, Ids
<1>15. Numbered' /\ Outcomes'
  BY <1>4, <1>11, <1>13 DEF TypeInv, Numbered, Outcomes
<1> QED
  BY <1>7, <1>8, <1>14, <1>15 DEF TypeInv

LEMMA InsertDocumentKeepsTypes ==
  ASSUME TypeInv, NEW c \in Client, InsertDocument(c)
  PROVE  TypeInv'
<1>0. PICK id \in 1..last_id'.document :
        /\ IsNextId(id, documents, last_id'.document)
        /\ documents' = documents \cup
             {[id |-> id, space |-> arg[c].space, name |-> arg[c].name,
               status |-> "TODO", vector_ids |-> None]}
  BY DEF InsertDocument
<1> DEFINE row == [id |-> id, space |-> arg[c].space, name |-> arg[c].name,
                   status |-> "TODO", vector_ids |-> None]
<1>1. Places /\ last_id \in Ids /\ MaxSpaces \in Nat /\ MaxDocs \in Nat /\ MaxSyncs \in Nat
  BY TypedPlaces, KnowledgeAssumption DEF TypeInv
<1>2. pc[c] = "insert_document" /\ Goes(c, "idle", NoArg)
  BY DEF InsertDocument, Ends
<1>3. /\ At("insert_document")' = At("insert_document") - 1 /\ At("insert_document") \in Nat \ {0}
      /\ At("insert_space")' = At("insert_space")
      /\ At("prepare")' = At("prepare") /\ At("mark")' = At("mark") /\ At("start")' = At("start")
  BY <1>2, InsertCounts
<1>4. /\ last_id'.document = last_id.document + 1 /\ last_id'.space = last_id.space
      /\ last_id'.sync = last_id.sync /\ last_id.document \in Nat
      /\ last_id' = [space |-> last_id'.space, document |-> last_id'.document, sync |-> last_id'.sync]
  BY <1>1 DEF InsertDocument, Ids
<1>5. last_id.document + 1 <= MaxDocs
  <2>1. last_id.document + At("insert_document") <= MaxDocs
    BY DEF TypeInv, Room
  <2> QED
    BY <1>1, <1>3, <1>4, <2>1
<1>6. last_id' \in Ids
  BY <1>1, <1>4, <1>5 DEF Ids
<1>7. Room'
  <2>1. last_id'.document + At("insert_document")' <= MaxDocs
    <3>1. last_id.document + At("insert_document") <= MaxDocs
      BY DEF TypeInv, Room
    <3> QED
      BY <1>1, <1>3, <1>4, <3>1
  <2> QED
    BY <1>3, <1>4, <2>1 DEF TypeInv, Room
<1>8. Places' /\ Held'
  <2>1. Fits("idle", NoArg, last_id')
    BY DEF Fits
  <2>2. last_id'.space >= last_id.space /\ last_id'.document >= last_id.document
    BY <1>1, <1>4 DEF Ids
  <2> QED
    BY <1>1, <1>2, <1>6, <2>1, <2>2, HeldKept, Going DEF TypeInv
<1>9. row \in DocRow
  <2>1. arg[c].space \in Space /\ arg[c].name \in DocName
    BY <1>2 DEF TypeInv, Held, Fits
  <2> QED
    BY <1>0, <1>1, <1>4, <1>5, <2>1 DEF DocRow, None
<1>10. documents' = documents \cup {row} /\ \A d \in documents : d.id <= last_id.document /\ d.id \in Nat
  <2>1. \A d \in documents : d.id <= last_id.document /\ d.id \in Nat
    BY <1>1 DEF TypeInv, Numbered, TypeOK, DocRow
  <2> QED
    BY <1>0, <2>1
<1>11. UNCHANGED <<spaces, chunks, vectors, thread, crashed, lost>>
  BY DEF InsertDocument
<1>12. row.id \in 1..last_id'.document /\ \A r \in documents : r.id < row.id
  BY <1>0 DEF IsNextId
<1> HIDE DEF row
<1>13. /\ \A d \in documents' : d.id <= last_id'.document
       /\ \A d, e \in documents' : d.id = e.id => d = e
  <2>1. \A d \in documents : d.id # row.id
    BY <1>4, <1>10, <1>12
  <2>2. \A d, e \in documents : d.id = e.id => d = e
    BY DEF TypeInv, TypeOK
  <2> QED
    BY <1>4, <1>10, <1>12, <2>1, <2>2
<1>14. TypeOK'
  BY <1>4, <1>6, <1>8, <1>9, <1>10, <1>11, <1>13 DEF TypeInv, TypeOK, Places, Ids
<1>15. \A t \in DOMAIN thread : thread[t].doc.id <= last_id'.document
  <2>1. ASSUME NEW t \in DOMAIN thread PROVE thread[t].doc.id \in Nat
    BY <1>1, <2>1 DEF TypeInv, TypeOK, DocRow
  <2> QED
    BY <1>4, <2>1 DEF TypeInv, Numbered
<1>16. Numbered' /\ Outcomes'
  BY <1>4, <1>11, <1>13, <1>15 DEF TypeInv, Numbered, Outcomes
<1> QED
  BY <1>7, <1>8, <1>14, <1>16 DEF TypeInv

(* The thread of a document that was marked takes the number of its sync. *)
LEMMA ThreadKeepsTypes ==
  ASSUME TypeInv, NEW c \in Client, StartThread(c)
  PROVE  TypeInv'
<1> DEFINE row == arg[c].row
           chunk == [document_id |-> row.id, sync |-> last_id'.sync]
           held == [space |-> arg[c].space, todo |-> Tail(arg[c].todo), chunk |-> chunk]
           new == [state |-> "embedding", doc |-> row]
<1>1. Places /\ last_id \in Ids /\ MaxSpaces \in Nat /\ MaxDocs \in Nat /\ MaxSyncs \in Nat
  BY TypedPlaces, KnowledgeAssumption DEF TypeInv
<1>2. pc[c] = "start" /\ Goes(c, "chunks", held) /\ UNCHANGED <<tables, crashed, lost>>
  BY DEF StartThread
<1>3. /\ At("start")' = At("start") - 1 /\ At("start") \in Nat \ {0}
      /\ At("insert_space")' = At("insert_space") /\ At("insert_document")' = At("insert_document")
      /\ At("prepare")' = At("prepare") /\ At("mark")' = At("mark")
  <2> HIDE DEF held
  <2> QED
    BY <1>2, InsertCounts
<1>4. /\ last_id'.sync = last_id.sync + 1 /\ last_id'.space = last_id.space
      /\ last_id'.document = last_id.document /\ last_id.sync \in Nat
      /\ last_id' = [space |-> last_id'.space, document |-> last_id'.document, sync |-> last_id'.sync]
  BY <1>1 DEF StartThread, Ids
<1>5. /\ last_id.sync + At("prepare") + At("mark") + At("start") <= MaxSyncs
      /\ At("prepare") \in Nat /\ At("mark") \in Nat
  <2> HIDE DEF held
  <2> QED
    BY <1>1, <1>2, Counting DEF TypeInv, Room
<1>6. last_id.sync + 1 <= MaxSyncs
  BY <1>1, <1>3, <1>4, <1>5
<1>7. last_id' \in Ids
  BY <1>1, <1>4, <1>6 DEF Ids
<1>8. Room'
  <2>1. last_id'.sync + At("prepare")' + At("mark")' + At("start")' <= MaxSyncs
    BY <1>1, <1>3, <1>4, <1>5
  <2> QED
    BY <1>3, <1>4, <2>1 DEF TypeInv, Room
<1>9. row \in DocRow /\ row.id <= last_id.document /\ row.status = "RUNNING"
  BY <1>2 DEF TypeInv, Held, Fits
<1>10. chunk \in [document_id : 1..MaxDocs, sync : 1..MaxSyncs] /\ held.chunk = chunk
  BY <1>1, <1>4, <1>6, <1>9 DEF DocRow
<1>11. Places' /\ Held'
  <2> HIDE DEF held, chunk
  <2>1. Fits("chunks", held, last_id')
    BY <1>10 DEF Fits
  <2>2. last_id'.space >= last_id.space /\ last_id'.document >= last_id.document
    BY <1>1, <1>4 DEF Ids
  <2> QED
    BY <1>1, <1>2, <1>7, <2>1, <2>2, HeldKept, Going DEF TypeInv
<1>12. new \in [state : {"embedding", "storing", "done"}, doc : DocRow] /\ new.doc = row
       /\ new.state = "embedding"
  BY <1>9
<1>13. thread' = Append(thread, new)
  BY DEF StartThread
<1> HIDE DEF new, chunk, held, row
<1>14. /\ thread' \in [1..last_id'.sync -> [state : {"embedding", "storing", "done"}, doc : DocRow]]
       /\ DOMAIN thread = 1..last_id.sync /\ DOMAIN thread' = 1..last_id'.sync
       /\ thread'[last_id.sync + 1] = new
       /\ \A t \in DOMAIN thread : thread'[t] = thread[t]
  <2> DEFINE Thread == [state : {"embedding", "storing", "done"}, doc : DocRow]
  <2>1. thread \in [1..last_id.sync -> Thread]
    BY DEF TypeInv, TypeOK
  <2>2. new \in Thread
    BY <1>12
  <2> HIDE DEF Thread
  <2>3. thread \in Seq(Thread) /\ Len(thread) = last_id.sync
    BY <1>4, <2>1
  <2>4. /\ thread' \in Seq(Thread) /\ Len(thread') = last_id.sync + 1
        /\ thread'[last_id.sync + 1] = new
        /\ \A t \in 1..last_id.sync : thread'[t] = thread[t]
    BY <1>13, <2>2, <2>3, AppendProperties
  <2>5. thread' \in [1..last_id'.sync -> Thread]
    BY <1>4, <2>4
  <2> QED
    BY <1>4, <2>1, <2>4, <2>5 DEF Thread
<1>15. TypeOK'
  BY <1>2, <1>4, <1>7, <1>11, <1>14 DEF TypeInv, TypeOK, Places, Ids, tables
<1>16. ASSUME NEW t \in DOMAIN thread'
       PROVE  \/ t \in DOMAIN thread /\ thread'[t] = thread[t]
              \/ thread'[t] = new
  BY <1>4, <1>14
<1>17. Numbered'
  BY <1>2, <1>4, <1>9, <1>12, <1>16 DEF TypeInv, Numbered, tables
<1>18. Outcomes'
  BY <1>12, <1>16 DEF TypeInv, Outcomes
<1> QED
  BY <1>8, <1>11, <1>15, <1>17, <1>18 DEF TypeInv

(* What a step of an embedding thread does to it. *)
LEMMA EmbedEffect ==
  ASSUME TypeInv, NEW t \in DOMAIN thread, Embed(t)
  PROVE  \E doc \in DocRow :
           /\ thread' = [thread EXCEPT ![t] = [state |-> "storing", doc |-> doc]]
           /\ doc.id = thread[t].doc.id /\ doc.status # "RUNNING"
           /\ vectors' \subseteq Vectors
<1>1. /\ thread[t] \in [state : {"embedding", "storing", "done"}, doc : DocRow]
      /\ t \in 1..MaxSyncs
  BY KnowledgeAssumption DEF TypeInv, TypeOK
<1>2. PICK known \in BOOLEAN :
        /\ thread' = [thread EXCEPT ![t] = [state |-> "storing",
                                            doc |-> Embedded(thread[t].doc, t, known)]]
        /\ \/ vectors' = vectors \cup {[space |-> thread[t].doc.space, sync |-> t, known |-> known]}
           \/ UNCHANGED vectors
  BY DEF Embed
<1> DEFINE doc == Embedded(thread[t].doc, t, known)
<1>3. doc \in DocRow /\ doc.id = thread[t].doc.id /\ doc.status # "RUNNING"
  <2> DEFINE old == thread[t].doc
  <2>0. old \in DocRow /\ t \in 0..MaxSyncs
    BY <1>1, KnowledgeAssumption
  <2> HIDE DEF old
  <2>1. CASE known
    <3>1. doc = [old EXCEPT !.status = "FINISHED", !.vector_ids = t]
      BY <2>1 DEF Embedded, old
    <3>2. /\ [old EXCEPT !.status = "FINISHED", !.vector_ids = t] \in DocRow
          /\ [old EXCEPT !.status = "FINISHED", !.vector_ids = t].id = old.id
          /\ [old EXCEPT !.status = "FINISHED", !.vector_ids = t].status = "FINISHED"
      BY <2>0 DEF DocRow
    <3> HIDE DEF doc
    <3> QED
      BY <3>1, <3>2 DEF old
  <2>2. CASE ~known
    <3>1. doc = [old EXCEPT !.status = "FAILED"]
      BY <2>2 DEF Embedded, old
    <3>2. /\ [old EXCEPT !.status = "FAILED"] \in DocRow
          /\ [old EXCEPT !.status = "FAILED"].id = old.id
          /\ [old EXCEPT !.status = "FAILED"].status = "FAILED"
      BY <2>0 DEF DocRow
    <3> HIDE DEF doc
    <3> QED
      BY <3>1, <3>2 DEF old
  <2> QED
    BY <2>1, <2>2
<1>4. vectors' \subseteq Vectors
  <2>1. thread[t].doc.space \in Space
    BY <1>1 DEF DocRow
  <2> QED
    BY <1>1, <1>2, <2>1 DEF TypeInv, TypeOK, Vectors
<1> HIDE DEF doc
<1>5. thread' = [thread EXCEPT ![t] = [state |-> "storing", doc |-> doc]]
  BY <1>2 DEF doc
<1> QED
  BY <1>3, <1>4, <1>5

LEMMA EmbedKeepsTypes ==
  ASSUME TypeInv, NEW t \in DOMAIN thread, Embed(t)
  PROVE  TypeInv'
<1>1. PICK doc \in DocRow :
        /\ thread' = [thread EXCEPT ![t] = [state |-> "storing", doc |-> doc]]
        /\ doc.id = thread[t].doc.id /\ doc.status # "RUNNING"
        /\ vectors' \subseteq Vectors
  BY EmbedEffect
<1>2. UNCHANGED <<spaces, documents, chunks, last_id, pc, arg, crashed, lost>>
  BY DEF Embed
<1>3. /\ DOMAIN thread' = DOMAIN thread
      /\ \A u \in DOMAIN thread :
           thread'[u] = IF u = t THEN [state |-> "storing", doc |-> doc] ELSE thread[u]
  BY <1>1
<1>4. thread' \in [1..last_id.sync -> [state : {"embedding", "storing", "done"}, doc : DocRow]]
  BY <1>1 DEF TypeInv, TypeOK
<1>5. TypeOK'
  BY <1>1, <1>2, <1>4 DEF TypeInv, TypeOK
<1>6. Numbered' /\ Outcomes'
  BY <1>1, <1>2, <1>3 DEF TypeInv, Numbered, Outcomes
<1>7. Held' /\ Room'
  BY <1>2 DEF TypeInv, Held, Room, At
<1> QED
  BY <1>5, <1>6, <1>7 DEF TypeInv

LEMMA ResultKeepsTypes ==
  ASSUME TypeInv, NEW t \in DOMAIN thread, StoreResult(t)
  PROVE  TypeInv'
<1>1. /\ thread' = [thread EXCEPT ![t].state = "done"]
      /\ documents' = Merge(documents, thread[t].doc)
      /\ UNCHANGED <<spaces, chunks, vectors, last_id, pc, arg, crashed, lost>>
  BY DEF StoreResult
<1>2. thread[t].doc \in DocRow /\ thread[t].doc.id <= last_id.document
  BY DEF TypeInv, TypeOK, Numbered
<1>3. /\ \A d \in documents' : d \in documents \/ d = thread[t].doc
      /\ \A d, e \in documents' : d.id = e.id => d = e
  BY <1>1, MergeRows DEF TypeInv, TypeOK
<1>4. /\ thread' \in [1..last_id.sync -> [state : {"embedding", "storing", "done"}, doc : DocRow]]
      /\ DOMAIN thread' = DOMAIN thread
      /\ \A u \in DOMAIN thread : thread'[u].doc = thread[u].doc
                                  /\ (thread'[u].state = "storing" => thread[u].state = "storing")
  BY <1>1 DEF TypeInv, TypeOK
<1>5. TypeOK'
  BY <1>1, <1>2, <1>3, <1>4 DEF TypeInv, TypeOK
<1>6. Numbered' /\ Outcomes'
  BY <1>1, <1>2, <1>3, <1>4 DEF TypeInv, Numbered, Outcomes
<1>7. Held' /\ Room'
  BY <1>1 DEF TypeInv, Held, Room, At
<1> QED
  BY <1>5, <1>6, <1>7 DEF TypeInv

LEMMA LossKeepsTypes ==
  ASSUME TypeInv, NEW t \in DOMAIN thread, LoseResult(t)
  PROVE  TypeInv'
<1>1. /\ thread' = [thread EXCEPT ![t].state = "done"]
      /\ lost' = lost \cup {thread[t].doc.id}
      /\ UNCHANGED <<tables, last_id, pc, arg, crashed>>
  BY DEF LoseResult
<1>2. thread[t].doc.id \in 1..MaxDocs
  BY DEF TypeInv, TypeOK, DocRow
<1>3. /\ thread' \in [1..last_id.sync -> [state : {"embedding", "storing", "done"}, doc : DocRow]]
      /\ DOMAIN thread' = DOMAIN thread
      /\ \A u \in DOMAIN thread : thread'[u].doc = thread[u].doc
                                  /\ (thread'[u].state = "storing" => thread[u].state = "storing")
  BY <1>1 DEF TypeInv, TypeOK
<1>4. TypeOK'
  BY <1>1, <1>2, <1>3 DEF TypeInv, TypeOK, tables
<1>5. Numbered' /\ Outcomes'
  BY <1>1, <1>3 DEF TypeInv, Numbered, Outcomes, tables
<1>6. Held' /\ Room'
  BY <1>1 DEF TypeInv, Held, Room, At
<1> QED
  BY <1>4, <1>5, <1>6 DEF TypeInv

LEMMA CrashKeepsTypes == TypeInv /\ Crash => TypeInv'
<1> SUFFICES ASSUME TypeInv, Crash PROVE TypeInv'
  OBVIOUS
<1>1. MaxSpaces \in Nat /\ MaxDocs \in Nat /\ MaxSyncs \in Nat
  BY KnowledgeAssumption
<1>2. UNCHANGED <<tables, last_id, lost>> /\ crashed' = TRUE
      /\ pc' = [c \in Client |-> "idle"] /\ arg' = [c \in Client |-> NoArg]
      /\ thread' = [t \in DOMAIN thread |-> [thread[t] EXCEPT !.state = "done"]]
  BY DEF Crash
<1>3. /\ thread' \in [1..last_id.sync -> [state : {"embedding", "storing", "done"}, doc : DocRow]]
      /\ \A t \in DOMAIN thread : thread'[t].doc = thread[t].doc /\ thread'[t].state = "done"
      /\ DOMAIN thread' = DOMAIN thread
  <2>1. thread \in [1..last_id.sync -> [state : {"embedding", "storing", "done"}, doc : DocRow]]
    BY DEF TypeInv, TypeOK
  <2> QED
    BY <1>2, <2>1
<1>4. TypeOK'
  BY <1>2, <1>3 DEF TypeInv, TypeOK, tables
<1>5. Held' /\ Numbered' /\ Outcomes'
  BY <1>2, <1>3 DEF TypeInv, Held, Fits, Numbered, Outcomes, tables
<1>6. Room'
  <2>1. ASSUME NEW s, s # "idle" PROVE At(s)' = 0
    <3>1. {c \in Client : pc'[c] = s} = {}
      BY <1>2, <2>1
    <3> QED
      BY <3>1, FS_EmptySet DEF At
  <2>2. /\ At("insert_space")' = 0 /\ At("insert_document")' = 0
        /\ At("prepare")' = 0 /\ At("mark")' = 0 /\ At("start")' = 0
    BY <2>1
  <2>3. last_id' \in Ids
    BY <1>2, TypedPlaces DEF TypeInv
  <2> QED
    BY <1>1, <2>2, <2>3 DEF Room, Ids
<1> QED
  BY <1>4, <1>5, <1>6 DEF TypeInv

LEMMA TypesKept == TypeInv /\ [Next]_vars => TypeInv'
<1> SUFFICES ASSUME TypeInv, [Next]_vars PROVE TypeInv'
  OBVIOUS
<1>1. ASSUME NEW c \in Client, RequestGoesOn(c) PROVE TypeInv'
  BY <1>1, InsertSpaceKeepsTypes, InsertDocumentKeepsTypes, SaveKeepsTypes, ReadKeepsTypes,
     MarkKeepsTypes, VainKeepsTypes, ThreadKeepsTypes, ChunksKeepTypes, DeletionKeepsTypes,
     RaisingKeepsTypes DEF RequestGoesOn
<1>2. ASSUME UNCHANGED vars PROVE TypeInv'
  BY <1>2 DEF vars, tables, TypeInv, TypeOK, Held, Numbered, Room, At, Outcomes
<1> QED
  BY <1>1, <1>2, StartKeepsTypes, EmbedKeepsTypes, ResultKeepsTypes, LossKeepsTypes,
     CrashKeepsTypes DEF Next

-----------------------------------------------------------------------------
(* RUNNING documents *)

LEMMA InitSync == Init => SyncInv
BY DEF Init, SyncInv, RunningIsBeingSynced, AbandonedIsNotHeld

\* What AbandonedStaysRunning says of one step.
AbandonedStays ==
  \A d \in documents :
    Abandoned(d) /\ (\E e \in documents' : e.id = d.id)
    => d \in documents' /\ ~BeingSynced(d.id)'

SyncStep == SyncInv' /\ AbandonedStays

\* A step adds no RUNNING document and none under an id that is taken.
AddsNoneRunning ==
  \A d \in documents' :
    \/ d \in documents
    \/ d.status # "RUNNING" /\ \A e \in documents : e.id # d.id

\* What a request goes on with is no document that was left behind.
TakesNoneAbandoned(step, held) ==
  step \in {"prepare", "mark"} =>
    \A d \in documents : d.status = "RUNNING" /\ ~BeingSynced(d.id) /\ d.id \notin lost =>
      held.row.id # d.id

(* A step of a request that neither marks a document nor starts a thread. *)
LEMMA QuietKeeps ==
  ASSUME TypeInv, SyncInv, NEW c \in Client, NEW step, NEW held, Goes(c, step, held),
         pc[c] # "start", step # "start", UNCHANGED <<thread, crashed, lost>>,
         AddsNoneRunning, TakesNoneAbandoned(step, held)
  PROVE  SyncStep
<1>1. /\ pc'[c] = step /\ arg'[c] = held
      /\ \A o \in Client : o # c => pc'[o] = pc[o] /\ arg'[o] = arg[o]
  BY TypedPlaces, Going DEF TypeInv
<1>2. ASSUME NEW id PROVE BeingSynced(id)' <=> BeingSynced(id)
  BY <1>1 DEF BeingSynced, Active
<1>3. RunningIsBeingSynced'
  BY <1>2 DEF SyncInv, RunningIsBeingSynced, AddsNoneRunning
<1>4. AbandonedIsNotHeld'
  <2> SUFFICES ASSUME NEW d \in documents', d.status = "RUNNING", ~BeingSynced(d.id)',
                      d.id \notin lost',
                      NEW o \in Client, pc'[o] \in {"prepare", "mark"}
               PROVE  arg'[o].row.id # d.id
    BY DEF AbandonedIsNotHeld
  <2>1. d \in documents /\ ~BeingSynced(d.id)
    BY <1>2 DEF AddsNoneRunning
  <2>2. CASE o = c
    BY <1>1, <2>1, <2>2 DEF TakesNoneAbandoned
  <2>3. CASE o # c
    BY <1>1, <2>1, <2>3 DEF SyncInv, AbandonedIsNotHeld
  <2> QED
    BY <2>2, <2>3
<1>5. AbandonedStays
  <2> SUFFICES ASSUME NEW d \in documents, ~BeingSynced(d.id), NEW e \in documents', e.id = d.id
               PROVE  d \in documents' /\ ~BeingSynced(d.id)'
    BY DEF AbandonedStays, Abandoned
  <2>1. e = d
    BY DEF TypeInv, TypeOK, AddsNoneRunning
  <2> QED
    BY <1>2, <2>1
<1> QED
  BY <1>3, <1>4, <1>5 DEF SyncStep, SyncInv

(* Requests that begin, save, insert or delete. *)
LEMMA LooseSync ==
  ASSUME TypeInv, SyncInv, NEW c \in Client,
         \/ RequestStarts(c) \/ InsertSpace(c) \/ SaveSpace(c) \/ SaveChunks(c)
         \/ DeleteVectors(c) \/ DeleteChunks(c) \/ DeleteDocument(c) \/ DropVectors(c)
         \/ ListDocuments(c) \/ DeleteEachChunks(c) \/ DeleteDocuments(c) \/ DeleteSpace(c)
         \/ TableRaises(c)
  PROVE  SyncStep
<1> DEFINE Apart == {"idle", "read", "delete_vectors", "delete_chunks", "delete_document",
                     "drop_vectors", "list_documents", "delete_each", "delete_space",
                     "insert_space", "insert_document", "save_space"}
<1>1. /\ pc[c] # "start" /\ UNCHANGED <<thread, crashed, lost>> /\ documents' \subseteq documents
      /\ \E step \in Apart : \E held : Goes(c, step, held)
  <2>1. CASE RequestStarts(c)
    <3>1. ASSUME NEW s \in Space, NEW n \in DocName, delete_document(c, s, n)
          PROVE  \E step \in Apart : \E held : Goes(c, step, held)
      <4>1. PICK row : Goes(c, IF row.vector_ids = None THEN "delete_chunks" ELSE "delete_vectors",
                            [row |-> row])
        BY <3>1 DEF delete_document
      <4> QED
        BY <4>1
    <3>2. ASSUME NEW s \in Space,
                 \/ create_knowledge_space(c, s) \/ argument_save(c, s) \/ delete_space(c, s)
                 \/ \E n \in DocName : create_knowledge_document(c, s, n)
                 \/ \E ids \in DocIds : sync_knowledge_document(c, s, ids)
          PROVE  \E step \in Apart : \E held : Goes(c, step, held)
      BY <3>2 DEF create_knowledge_space, argument_save, delete_space,
         create_knowledge_document, sync_knowledge_document
    <3>3. pc[c] = "idle" /\ UNCHANGED <<documents, thread, crashed, lost>>
      BY <2>1 DEF RequestStarts, create_knowledge_space, argument_save, delete_space,
         create_knowledge_document, delete_document, sync_knowledge_document, Begins, tables
    <3>4. \E step \in Apart : \E held : Goes(c, step, held)
      BY <2>1, <3>1, <3>2 DEF RequestStarts
    <3> QED
      BY <3>3, <3>4
  <2>2. CASE InsertSpace(c) \/ SaveSpace(c) \/ SaveChunks(c)
    BY <2>2 DEF InsertSpace, SaveSpace, SaveChunks, Ends
  <2>4. CASE TableRaises(c)
    BY <2>4 DEF TableRaises, Ends, tables
  <2>3. CASE \/ DeleteVectors(c) \/ DeleteChunks(c) \/ DeleteDocument(c) \/ DropVectors(c)
             \/ ListDocuments(c) \/ DeleteEachChunks(c) \/ DeleteDocuments(c) \/ DeleteSpace(c)
    BY <2>3 DEF DeleteVectors, DeleteChunks, DeleteDocument, DropVectors, ListDocuments,
       DeleteEachChunks, DeleteDocuments, DeleteSpace, Ends, tables
  <2> QED
    BY <2>1, <2>2, <2>3, <2>4
<1>2. PICK step \in Apart : \E held : Goes(c, step, held)
  BY <1>1
<1>3. PICK held : Goes(c, step, held)
  BY <1>2
<1>4. AddsNoneRunning /\ TakesNoneAbandoned(step, held) /\ step # "start"
  BY <1>1 DEF AddsNoneRunning, TakesNoneAbandoned
<1> HIDE DEF Apart
<1> QED
  BY <1>1, <1>3, <1>4, QuietKeeps

LEMMA InsertSync ==
  ASSUME TypeInv, SyncInv, NEW c \in Client, InsertDocument(c)
  PROVE  SyncStep
<1>1. PICK id \in 1..last_id'.document :
        /\ IsNextId(id, documents, last_id'.document)
        /\ documents' = documents \cup
             {[id |-> id, space |-> arg[c].space, name |-> arg[c].name,
               status |-> "TODO", vector_ids |-> None]}
  BY DEF InsertDocument
<1> DEFINE row == [id |-> id, space |-> arg[c].space, name |-> arg[c].name,
                   status |-> "TODO", vector_ids |-> None]
<1>2. documents' = documents \cup {row} /\ row.status # "RUNNING" /\ row.id = id
  BY <1>1
<1>3. \A e \in documents : e.id \in Nat /\ e.id < id
  BY <1>1, KnowledgeAssumption DEF IsNextId, TypeInv, TypeOK, DocRow
<1>4. pc[c] = "insert_document" /\ Goes(c, "idle", NoArg) /\ UNCHANGED <<thread, crashed, lost>>
  BY DEF InsertDocument, Ends
<1> HIDE DEF row
<1>5. AddsNoneRunning /\ TakesNoneAbandoned("idle", NoArg)
  <2>1. \A e \in documents : e.id # row.id
    BY <1>2, <1>3
  <2> QED
    BY <1>2, <2>1 DEF AddsNoneRunning, TakesNoneAbandoned
<1> QED
  BY <1>4, <1>5, QuietKeeps

LEMMA ReadSync ==
  ASSUME TypeInv, SyncInv, NEW c \in Client, ReadDocument(c) \/ PrepareDocument(c)
  PROVE  SyncStep
<1>1. UNCHANGED <<thread, crashed, lost>> /\ pc[c] # "start" /\ AddsNoneRunning
  BY DEF ReadDocument, PrepareDocument, tables, AddsNoneRunning
<1>2. CASE Ends(c)
  <2>1. TakesNoneAbandoned("idle", NoArg)
    BY DEF TakesNoneAbandoned
  <2> QED
    BY <1>1, <1>2, <2>1, QuietKeeps DEF Ends
<1>3. CASE ReadDocument(c) /\ ~Ends(c)
  <2>1. PICK row \in documents :
          /\ row.status # "RUNNING"
          /\ Goes(c, "prepare", [space |-> arg[c].space, todo |-> arg[c].todo, row |-> row])
    BY <1>3 DEF ReadDocument
  <2> DEFINE held == [space |-> arg[c].space, todo |-> arg[c].todo, row |-> row]
  <2>2. held.row = row /\ Goes(c, "prepare", held)
    BY <2>1
  <2> HIDE DEF held
  <2>3. TakesNoneAbandoned("prepare", held)
    BY <2>1, <2>2 DEF TypeInv, TypeOK, TakesNoneAbandoned
  <2> QED
    BY <1>1, <2>2, <2>3, QuietKeeps
<1>4. CASE PrepareDocument(c) /\ ~Ends(c)
  <2>1. pc[c] = "prepare" /\ Goes(c, "mark", arg[c])
    BY <1>4 DEF PrepareDocument
  <2>2. TakesNoneAbandoned("mark", arg[c])
    BY <2>1 DEF SyncInv, AbandonedIsNotHeld, TakesNoneAbandoned
  <2> QED
    BY <1>1, <2>1, <2>2, QuietKeeps
<1> QED
  BY <1>2, <1>3, <1>4

(* The document that is marked was not left behind, and a thread will follow. *)
LEMMA MarkSync ==
  ASSUME TypeInv, SyncInv, NEW c \in Client, MarkRunning(c)
  PROVE  SyncStep
<1>1. PICK held :
        /\ held.row.id = arg[c].row.id
        /\ Goes(c, "start", held)
        /\ documents' = Merge(documents, held.row)
  BY MarkHolds
<1>2. pc[c] = "mark" /\ UNCHANGED <<thread, crashed, lost>>
  BY DEF MarkRunning
<1>3. /\ pc'[c] = "start" /\ arg'[c] = held
      /\ \A o \in Client : o # c => pc'[o] = pc[o] /\ arg'[o] = arg[o]
  BY <1>1, TypedPlaces, Going DEF TypeInv
<1>4. BeingSynced(held.row.id)'
  BY <1>3 DEF BeingSynced
<1>5. ASSUME NEW id, id # held.row.id PROVE BeingSynced(id)' <=> BeingSynced(id)
  BY <1>2, <1>3, <1>5 DEF BeingSynced, Active
<1>6. \A r, q \in documents : r.id = q.id => r = q
  BY DEF TypeInv, TypeOK
<1>7. /\ \A d \in documents' : (d \in documents /\ d.id # held.row.id) \/ d = held.row
      /\ \A d \in documents : d.id # held.row.id => d \in documents'
  BY <1>1, <1>6, MergeRows
<1>8. RunningIsBeingSynced'
  BY <1>2, <1>4, <1>5, <1>7 DEF SyncInv, RunningIsBeingSynced
<1>9. AbandonedIsNotHeld'
  <2> SUFFICES ASSUME NEW d \in documents', d.status = "RUNNING", ~BeingSynced(d.id)',
                      d.id \notin lost',
                      NEW o \in Client, pc'[o] \in {"prepare", "mark"}
               PROVE  arg'[o].row.id # d.id
    BY DEF AbandonedIsNotHeld
  <2>1. o # c /\ d # held.row
    BY <1>3, <1>4
  <2>2. d \in documents /\ ~BeingSynced(d.id)
    BY <1>5, <1>7, <2>1
  <2> QED
    BY <1>2, <1>3, <2>1, <2>2 DEF SyncInv, AbandonedIsNotHeld
<1>10. AbandonedStays
  <2> SUFFICES ASSUME NEW d \in documents, Abandoned(d)
               PROVE  d \in documents' /\ ~BeingSynced(d.id)'
    BY DEF AbandonedStays
  <2>1. d.id # held.row.id
    BY <1>1, <1>2 DEF SyncInv, AbandonedIsNotHeld, Abandoned
  <2> QED
    BY <1>5, <1>7, <2>1 DEF Abandoned
<1> QED
  BY <1>8, <1>9, <1>10 DEF SyncStep, SyncInv

(* A request that marks a document in vain leaves it to those that read it before. *)
LEMMA VainSync ==
  ASSUME TypeInv, SyncInv, NEW c \in Client, MarkInVain(c)
  PROVE  SyncStep
<1> DEFINE row == [arg[c].row EXCEPT !.status = "RUNNING"]
<1>1. /\ pc[c] = "mark" /\ Goes(c, "idle", NoArg) /\ documents' = Merge(documents, row)
      /\ lost' = lost \cup {arg[c].row.id} /\ UNCHANGED <<thread, crashed>>
  BY DEF MarkInVain, Ends
<1>2. row.id = arg[c].row.id
  BY <1>1, MarkedRow
<1> HIDE DEF row
<1>3. /\ pc'[c] = "idle"
      /\ \A o \in Client : o # c => pc'[o] = pc[o] /\ arg'[o] = arg[o]
  BY <1>1, TypedPlaces, Going DEF TypeInv
<1>4. ASSUME NEW id PROVE BeingSynced(id)' <=> BeingSynced(id)
  BY <1>1, <1>3 DEF BeingSynced, Active
<1>5. \A r, q \in documents : r.id = q.id => r = q
  BY DEF TypeInv, TypeOK
<1>6. /\ \A d \in documents' : (d \in documents /\ d.id # row.id) \/ d = row
      /\ \A d \in documents : d.id # row.id => d \in documents'
  BY <1>1, <1>5, MergeRows
<1>7. row.id \in lost' /\ lost \subseteq lost'
  BY <1>1, <1>2
<1>8. RunningIsBeingSynced'
  BY <1>1, <1>4, <1>6, <1>7 DEF SyncInv, RunningIsBeingSynced
<1>9. AbandonedIsNotHeld'
  <2> SUFFICES ASSUME NEW d \in documents', d.status = "RUNNING", ~BeingSynced(d.id)',
                      d.id \notin lost',
                      NEW o \in Client, pc'[o] \in {"prepare", "mark"}
               PROVE  arg'[o].row.id # d.id
    BY DEF AbandonedIsNotHeld
  <2>1. o # c /\ d \in documents /\ ~BeingSynced(d.id) /\ d.id \notin lost
    BY <1>3, <1>4, <1>6, <1>7
  <2> QED
    BY <1>3, <2>1 DEF SyncInv, AbandonedIsNotHeld
<1>10. AbandonedStays
  <2> SUFFICES ASSUME NEW d \in documents, Abandoned(d)
               PROVE  d \in documents' /\ ~BeingSynced(d.id)'
    BY DEF AbandonedStays
  <2>1. d.id # row.id
    BY <1>1, <1>2 DEF SyncInv, AbandonedIsNotHeld, Abandoned
  <2> QED
    BY <1>4, <1>6, <2>1 DEF Abandoned
<1> QED
  BY <1>8, <1>9, <1>10 DEF SyncStep, SyncInv

(* Syncing a document passes from the request to its thread. *)
LEMMA ThreadSync ==
  ASSUME TypeInv, SyncInv, NEW c \in Client, StartThread(c)
  PROVE  SyncStep
<1> DEFINE new == [state |-> "embedding", doc |-> arg[c].row]
<1>1. PICK held : Goes(c, "chunks", held)
  BY DEF StartThread
<1>2. pc[c] = "start" /\ UNCHANGED <<documents, crashed, lost>> /\ thread' = Append(thread, new)
  BY DEF StartThread, tables
<1>3. /\ pc'[c] = "chunks"
      /\ \A o \in Client : o # c => pc'[o] = pc[o] /\ arg'[o] = arg[o]
  BY <1>1, TypedPlaces, Going DEF TypeInv
<1>4. /\ DOMAIN thread \subseteq DOMAIN thread'
      /\ \A t \in DOMAIN thread : thread'[t] = thread[t]
      /\ \E t \in DOMAIN thread' : thread'[t] = new
      /\ \A t \in DOMAIN thread' : t \in DOMAIN thread \/ thread'[t] = new
  <2> DEFINE n == last_id.sync
             Thread == [state : {"embedding", "storing", "done"}, doc : DocRow]
  <2>1. n \in Nat
    BY TypedPlaces, KnowledgeAssumption DEF TypeInv, Ids
  <2>2. thread \in [1..n -> Thread]
    BY DEF TypeInv, TypeOK
  <2>3. new \in Thread
    <3>1. arg[c].row \in DocRow
      BY <1>2 DEF TypeInv, Held, Fits
    <3> QED
      BY <3>1
  <2> HIDE DEF Thread, n, new
  <2>4. thread \in Seq(Thread) /\ Len(thread) = n /\ DOMAIN thread = 1..n
    BY <2>1, <2>2
  <2>5. /\ thread' \in Seq(Thread) /\ Len(thread') = n + 1 /\ thread'[n + 1] = new
        /\ \A t \in 1..n : thread'[t] = thread[t]
    BY <1>2, <2>3, <2>4, AppendProperties
  <2>6. DOMAIN thread' = 1..(n + 1)
    BY <2>1, <2>5
  <2> QED
    BY <2>1, <2>4, <2>5, <2>6
<1>5. new.state # "done" /\ new.doc = arg[c].row
  OBVIOUS
<1> HIDE DEF new
<1>6. ASSUME NEW id PROVE BeingSynced(id)' <=> BeingSynced(id)
  <2>1. BeingSynced(id) => BeingSynced(id)'
    <3>1. CASE \E t \in DOMAIN thread : Active(t) /\ thread[t].doc.id = id
      BY <1>4, <3>1 DEF BeingSynced, Active
    <3>2. CASE arg[c].row.id = id
      BY <1>4, <1>5, <3>2 DEF BeingSynced, Active
    <3>3. ASSUME NEW o \in Client, o # c, pc[o] = "start", arg[o].row.id = id
          PROVE  BeingSynced(id)'
      BY <1>3, <3>3 DEF BeingSynced
    <3> QED
      BY <3>1, <3>2, <3>3 DEF BeingSynced
  <2>2. BeingSynced(id)' => BeingSynced(id)
    <3>1. ASSUME NEW t \in DOMAIN thread', Active(t)', thread'[t].doc.id = id
          PROVE  BeingSynced(id)
      BY <1>2, <1>4, <1>5, <3>1 DEF BeingSynced, Active
    <3>2. ASSUME NEW o \in Client, pc'[o] = "start", arg'[o].row.id = id
          PROVE  BeingSynced(id)
      BY <1>3, <3>2 DEF BeingSynced
    <3> QED
      BY <3>1, <3>2 DEF BeingSynced
  <2> QED
    BY <2>1, <2>2
<1>7. RunningIsBeingSynced'
  BY <1>2, <1>6 DEF SyncInv, RunningIsBeingSynced
<1>8. AbandonedIsNotHeld'
  BY <1>2, <1>3, <1>6 DEF SyncInv, AbandonedIsNotHeld
<1>9. AbandonedStays
  BY <1>2, <1>6 DEF AbandonedStays, Abandoned
<1> QED
  BY <1>7, <1>8, <1>9 DEF SyncStep, SyncInv

(* Embedding goes on; only its result is still to be stored. *)
LEMMA EmbedSync ==
  ASSUME TypeInv, SyncInv, NEW t \in DOMAIN thread, Embed(t)
  PROVE  SyncStep
<1>1. PICK doc \in DocRow :
        /\ thread' = [thread EXCEPT ![t] = [state |-> "storing", doc |-> doc]]
        /\ doc.id = thread[t].doc.id
  BY EmbedEffect
<1>2. UNCHANGED <<documents, pc, arg, crashed, lost>> /\ thread[t].state = "embedding"
  BY DEF Embed
<1>3. /\ DOMAIN thread' = DOMAIN thread
      /\ thread'[t].state = "storing" /\ thread'[t].doc.id = thread[t].doc.id
      /\ \A u \in DOMAIN thread : u # t => thread'[u] = thread[u]
  BY <1>1
<1>4. ASSUME NEW id PROVE BeingSynced(id)' <=> BeingSynced(id)
  <2>1. ASSUME NEW u \in DOMAIN thread
        PROVE  /\ Active(u)' <=> Active(u)
               /\ thread'[u].doc.id = thread[u].doc.id
    BY <1>2, <1>3 DEF Active
  <2> QED
    BY <1>2, <1>3, <2>1 DEF BeingSynced
<1> QED
  BY <1>2, <1>4 DEF SyncStep, SyncInv, RunningIsBeingSynced, AbandonedIsNotHeld, AbandonedStays,
     Abandoned

(* The thread that ends leaves its document with a final status. *)
LEMMA ResultSync ==
  ASSUME TypeInv, SyncInv, NEW t \in DOMAIN thread, StoreResult(t)
  PROVE  SyncStep
<1> DEFINE row == thread[t].doc
<1>1. /\ thread[t].state = "storing" /\ thread' = [thread EXCEPT ![t].state = "done"]
      /\ documents' = Merge(documents, row) /\ UNCHANGED <<pc, arg, crashed, lost>>
  BY DEF StoreResult
<1>2. row.status # "RUNNING" /\ BeingSynced(row.id)
  BY <1>1 DEF TypeInv, Outcomes, BeingSynced, Active
<1>3. /\ DOMAIN thread' = DOMAIN thread
      /\ \A u \in DOMAIN thread : thread'[u].doc = thread[u].doc
                                  /\ (u # t => thread'[u].state = thread[u].state)
      /\ thread'[t].state = "done"
  BY <1>1 DEF TypeInv, TypeOK
<1> HIDE DEF row
<1>4. ASSUME NEW id, id # row.id PROVE BeingSynced(id)' <=> BeingSynced(id)
  BY <1>1, <1>3, <1>4 DEF BeingSynced, Active, row
<1>5. /\ \A d \in documents' : (d \in documents /\ d.id # row.id) \/ d = row
      /\ \A d \in documents : d.id # row.id => d \in documents'
  <2>1. \A r, q \in documents : r.id = q.id => r = q
    BY DEF TypeInv, TypeOK
  <2> QED
    BY <1>1, <2>1, MergeRows
<1>6. RunningIsBeingSynced'
  BY <1>1, <1>2, <1>4, <1>5 DEF SyncInv, RunningIsBeingSynced
<1>7. AbandonedIsNotHeld'
  BY <1>1, <1>2, <1>4, <1>5 DEF SyncInv, AbandonedIsNotHeld
<1>8. AbandonedStays
  BY <1>2, <1>4, <1>5 DEF AbandonedStays, Abandoned
<1> QED
  BY <1>6, <1>7, <1>8 DEF SyncStep, SyncInv

(* The thread that ends without its result leaves a document of a failed write. *)
LEMMA LossSync ==
  ASSUME TypeInv, SyncInv, NEW t \in DOMAIN thread, LoseResult(t)
  PROVE  SyncStep
<1> DEFINE id == thread[t].doc.id
<1>1. /\ thread[t].state = "storing" /\ thread' = [thread EXCEPT ![t].state = "done"]
      /\ lost' = lost \cup {id} /\ UNCHANGED <<documents, pc, arg, crashed>>
  BY DEF LoseResult, tables
<1>2. /\ DOMAIN thread' = DOMAIN thread
      /\ \A u \in DOMAIN thread : thread'[u].doc = thread[u].doc
                                  /\ (u # t => thread'[u].state = thread[u].state)
      /\ thread'[t].state = "done"
  BY <1>1 DEF TypeInv, TypeOK
<1>3. ASSUME NEW other, other # id PROVE BeingSynced(other)' <=> BeingSynced(other)
  BY <1>1, <1>2, <1>3 DEF BeingSynced, Active
<1>4. ASSUME NEW other, BeingSynced(other)' PROVE BeingSynced(other)
  BY <1>1, <1>2, <1>4 DEF BeingSynced, Active
<1> HIDE DEF id
<1>5. id \in lost' /\ lost \subseteq lost'
  BY <1>1
<1>6. RunningIsBeingSynced'
  BY <1>1, <1>3, <1>5 DEF SyncInv, RunningIsBeingSynced
<1>7. AbandonedIsNotHeld'
  BY <1>1, <1>3, <1>5 DEF SyncInv, AbandonedIsNotHeld
<1>8. AbandonedStays
  BY <1>1, <1>4 DEF AbandonedStays, Abandoned
<1> QED
  BY <1>6, <1>7, <1>8 DEF SyncStep, SyncInv

(* After a crash nobody holds anything, and no status changes. *)
LEMMA CrashSync ==
  ASSUME TypeInv, SyncInv, Crash
  PROVE  SyncStep
<1>1. /\ documents' = documents /\ crashed' = TRUE
      /\ \A c \in Client : pc'[c] = "idle"
      /\ DOMAIN thread' = DOMAIN thread /\ \A t \in DOMAIN thread : thread'[t].state = "done"
  BY DEF Crash, tables, TypeInv, TypeOK
<1>2. ASSUME NEW id PROVE ~BeingSynced(id)'
  BY <1>1 DEF BeingSynced, Active
<1> QED
  BY <1>1, <1>2 DEF SyncStep, SyncInv, RunningIsBeingSynced, AbandonedIsNotHeld, AbandonedStays,
     Abandoned

LEMMA SyncKept == TypeInv /\ SyncInv /\ [Next]_vars => SyncInv' /\ (AbandonedStays \/ UNCHANGED vars)
<1> SUFFICES ASSUME TypeInv, SyncInv, [Next]_vars
             PROVE  SyncInv' /\ (AbandonedStays \/ UNCHANGED vars)
  OBVIOUS
<1>1. ASSUME NEW c \in Client, RequestGoesOn(c) PROVE SyncStep
  BY <1>1, LooseSync, InsertSync, ReadSync, MarkSync, VainSync, ThreadSync DEF RequestGoesOn
<1>2. Next => SyncStep
  BY <1>1, LooseSync, EmbedSync, ResultSync, LossSync, CrashSync DEF Next
<1>3. ASSUME UNCHANGED vars PROVE SyncInv'
  BY <1>3 DEF vars, tables, SyncInv, RunningIsBeingSynced, AbandonedIsNotHeld, BeingSynced, Active
<1> QED
  BY <1>2, <1>3 DEF SyncStep

-----------------------------------------------------------------------------
(* Theorems *)

(* Types, what requests hold, and the link between status and threads, under  *)
(* any overlap of requests, deletions during a sync, failures and a crash.    *)
THEOREM Inductive == Spec => []IInv
<1>1. Init => IInv
  BY InitTypes, InitSync DEF IInv
<1>2. IInv /\ [Next]_vars => IInv'
  BY TypesKept, SyncKept DEF IInv
<1> QED
  BY <1>1, <1>2, PTL DEF Spec

(* Rows, counters and threads stay well typed, and ids stay unique although    *)
(* requests and threads merge rows they read long ago.                         *)
THEOREM TypeCorrect == Spec => []TypeOK
<1>1. IInv => TypeOK
  BY DEF IInv, TypeInv
<1> QED
  BY <1>1, Inductive, PTL

(* A document that says RUNNING has a thread that will store another status, or *)
(* is about to get one, unless the process died, or that write, or the look at  *)
(* the row after it was marked, raised.                                         *)
THEOREM RunningAlwaysSynced == Spec => []RunningIsBeingSynced
<1>1. IInv => RunningIsBeingSynced
  BY DEF IInv, SyncInv
<1> QED
  BY <1>1, Inductive, PTL

(* What sync_knowledge_document refuses after a crash or a failed write it      *)
(* refuses for good: no request or thread ever touches a document left RUNNING  *)
(* except to delete it.                                                         *)
THEOREM AbandonedAlwaysStays == Spec => AbandonedStaysRunning
<1>1. IInv /\ [Next]_vars => AbandonedStays \/ UNCHANGED vars
  BY SyncKept DEF IInv
<1> QED
  BY <1>1, Inductive, PTL DEF Spec, AbandonedStaysRunning, AbandonedStays
=============================================================================
