# Formal models of DB-GPT

TLA+ models of the parts of DB-GPT in which several actors change shared state:
the model controller and its workers, the knowledge service with its embedding
threads, the rounds of chat dialogues, and the way of a question from the chat
page through the endpoints to the worker's threads. TLC checks them on small
instances; TLAPS proves every invariant and action property that a passing run
checks, and that the registry implements its abstract specification, for every
instance. Liveness is model-checked only. `PROJECT.json` lists
the runs, the map from definitions to source lines, the findings and hazards.

    tlc -workers 2 -config RegistrySafety.cfg MCModelRegistry     # one run
    tlapm ModelRegistryProofs.tla                                 # the proofs

## 1. Inventory

All paths are below `src/pilot/`.

| component | state | operations | hard behaviour | what makes it correct |
|---|---|---|---|---|
| Model registry (`model/controller/registry.py`, `controller.py`) | `defaultdict` of lists of instances, each with `healthy` and `last_heartbeat`; a checker thread | register, deregister, heartbeat, queries; the scan | handlers run on the event loop while the thread iterates over the same dict and lists without a lock; verdicts are stale; memory only | one entry per address; silence noticed in time; only silent instances withdrawn |
| Local worker manager (`model/worker/manager.py`, `default_worker.py`) | worker, `stop_event`, semaphore, heartbeat tasks | start, stop, update parameters, generate, embed | coroutines of one event loop overlap at each await; blocking load; tasks outlive a stop | a registered worker goes on sending heartbeats |
| Registry client (`registry.py`, `utils/api_utils.py`) | none | HTTP calls to the controller | calls fail, time out, arrive late | a dead worker disappears, a live one returns |
| Remote worker manager (`manager.py`, `remote_worker.py`) | none (asks the registry) | query, apply, proxied generation | acts on instances that were healthy when asked | requests reach a serving worker |
| Knowledge service (`server/knowledge/`) | tables of spaces, documents, chunks; a thread per sync | create, sync, delete, save arguments, query | endpoints run in a thread pool; rows are read in one transaction and merged in another; threads outlive requests; crashes | unique names; a status that tells the truth; nothing left of what was deleted |
| Vector stores (`vector_store/`) | collections of vectors | load, search, delete by id, drop | loads and deletions fail half-way; id formats differ | vectors and tables agree |
| Embedding engine (`embedding_engine/`) | none | read and split a source, load it | raises at any point | see knowledge service |
| Chat rounds (`scene/base_chat.py`, `openapi/api_v1/api_v1.py`) | the round being answered, a copy of the history | prepare, complete, stream, delete | awaits the model between copying the history and appending; broken streams; disconnects | rounds are numbered in order, stored once |
| History store (`memory/chat_history/duckdb_history.py`) | one row of JSON per dialogue | append, update, delete | read-modify-write of the whole row | no round is lost |
| Editors (`openapi/api_v1/editor/`) | none | submit SQL, submit chart | find a round by its number | they edit the round that was shown |
| Excel chat (`scene/chat_data/chat_excel/`) | table reader | prepare, complete | decides on an old copy of the history | the table is learnt first and once |
| Web chat client (`server/static/_next/static/chunks/app/`) | messages on the page, the button's flag, history request, streams | ask, switch, leave, reload, delete | nothing aborts a stream; its callbacks change whatever page is there; histories arrive late or fail | answers below their questions; the button is freed; the page shows what is stored |
| Chat scenes, prompts (`scene/`, `prompts/`) | prompt registry | register, look up | fallbacks by language and model | the right prompt is found |
| Connections, summaries (`connections/`, `summary/`) | configuration table, summary collections | add, edit, delete, summarise | summaries are built beside requests; unawaited coroutine | a listed database can be connected to |
| Tokens (`authenticaton/`, `connections/redis.py`) | Redis keys with expiry | create, refresh, validate | retries, silent failure to store | a token given out is valid until it expires |
| Moderation, search (`moderation/`, `elasticsearch/`) | an access token, a word list | check | external services | - |
| Parsers, JSON repair (`out_parser/`, `json_utils/`) | none | parse | malformed model output | balanced output |
| Inference, adapters, loading (`model/llm_out/`, `inference.py`, `adapter.py`, `loader.py`) | model, tokenizer | generate, load | stop strings across chunks | streams end at a stop string |
| Bounded containers, caches (`common/custom_data_structure.py`, `model/cache/`) | ordered map or list | put, get | eviction at the limit | never more than `max_size` |
| Commands, plugins, configuration, templates, datasets, speech, other web pages, deployment | tables filled at start-up | - | - | - |

How they interact: a worker process calls the controller by HTTP (register,
heartbeat); the server asks the controller for instances and sends them
generation and apply requests; chat scenes call the worker manager, append to
the history store, and search the vector stores that the knowledge service
fills; the editors rewrite the rows the chats append to. The chat page posts a
question and listens to the stream of its answer; when the connection is cut,
the server cancels the endpoint's generator and with it the request at the
worker, whose thread cannot be cancelled.

## 2. Modules

| module | models | extends / instantiates |
|---|---|---|
| `LeaseDirectory` | abstract: what a registry of heartbeating services promises | - |
| `ModelRegistry` | `EmbeddedModelRegistry`, its routes, its thread, a controller restart | instantiates `LeaseDirectory` |
| `MCModelRegistry` | names for its runs | extends `ModelRegistry` |
| `ModelRegistryProofs` | theorems; the registry implements `LeaseDirectory` | extends `ModelRegistry`, `TLAPS` |
| `WorkerManager` | worker processes: requests, senders, crash, boot | - |
| `ModelCluster` | workers, controller and the calls between them | extends `WorkerManager`, instantiates `ModelRegistry` |
| `ModelClusterProofs` | theorems | extends `ModelCluster`, instantiates `ModelRegistryProofs` |
| `KnowledgeService` | the knowledge endpoints, tables, vector store, embedding threads | - |
| `MCKnowledgeService` | the id lists of sync requests | extends `KnowledgeService` |
| `KnowledgeProofs` | theorems, whatever requests overlap | extends `KnowledgeService`, `TLAPS` |
| `KnowledgeSerialProofs` | theorems for requests that do not overlap | extends `KnowledgeProofs` |
| `ChatHistory` | chats, history store, editors, deletion | - |
| `ChatHistoryProofs` | theorems | extends `ChatHistory`, `TLAPS` |
| `WorkerRequests` | generation behind the semaphore, on threads | - |
| `WorkerRequestsProofs` | theorem | extends `WorkerRequests`, `TLAPS` |
| `WebChat` | the chat page of the browser | - |
| `WebChatProofs` | the page's invariant, action by action | extends `WebChat`, `TLAPS` |
| `ChatSystem` | page, endpoints and worker, joined by the streams | extends `WebChat`, `WorkerRequests`, instantiates `ChatHistory` |
| `MCChatSystem` | two dialogues, two questions | extends `ChatSystem` |
| `ChatSystemProofs` | theorems | extends `ChatSystem`, `WebChatProofs`, `WorkerRequestsProofs`, instantiates `ChatHistoryProofs` |

Each module ends with its properties. Definitions marked `Mutant:` are variants
of the definition below them with a plausible bug; each property is violated by
one of them.

### ModelRegistry

`registry[n]` is the list under a name, `keys` the keys of the defaultdict: a
read of an unknown name creates a key. Instances carry `age`, the ticks since
`last_heartbeat`, instead of a date; weight, template and `enabled` are left
out. Handlers never await, so each is one action. The checker (`checker.pc`) is
cut where the thread can lose the interpreter lock: making the dict iterator
(`CheckerWakes`), advancing it (`NextList`, which raises when the dict has a new
size), advancing the list iterator and comparing (`Inspect`), writing
`healthy = False` (`MarkUnhealthy`). `Strip` and `StripAddr` are `str.strip` on
names and on hosts: register and deregister strip both for their look-up,
heartbeats and queries neither. A new instance is filed under the stripped name
but with its host as it came (registry.py:151), so a padded host is never found
again: every registration files it anew, no deregistration reaches it, and its
heartbeats refresh the first of its entries. `MaxCopies` bounds how often one
padded host is filed. The comment "One exist instance at most" (registry.py:141)
is therefore true for hosts without blanks only, and so are
`OneInstancePerAddress`, beside any padded entries, and the services of the
refinement. `Tick` waits until a due scan is done: scans take milliseconds.

`ImplementsLease` refines to `LeaseDirectory`: `known`, `monitored`, `up` and
`silence` are read off the lists, `doubt` is the entry between comparison and
write, `watching` is whether the thread lives. Keys, positions and iterators
are invisible there, and so are the entries of padded hosts. `StopWatching` in
the abstract module is the price of the unlocked iteration.

### WorkerManager and ModelCluster

One worker per process, as `_start_local_worker` makes it. `registering` counts
the `_start_worker` coroutines that await their registration, `sender` holds
the heartbeat tasks, `apply` the next await of an update request. A worker's own
host has no blanks here. A start that raises leaves the event as it was. A failed
registration ends the request; no sender is made. `stop` sets the event and waits for nothing: `_heartbeat_future`
is never assigned and no `deregister_func` is passed. `enlisted` is a history
variable: a registration came back and nobody stopped the worker since.
In `ModelCluster` a call is answered (the handler and the return of the await in
one step, since nothing in between can be observed by the worker), or fails; a
failed call's request is dropped or joins `late` and may be handled at any later
time, even after its sender died.

### KnowledgeService

A request is a program counter `pc[c]` with what it holds in `arg[c]`; each
method of a data access object is one transaction and one step. The rows a
request holds are detached copies, as `session.close()` leaves them; `Merge` is
`session.merge` and inserts a row that is gone. The chunks and vectors of one
sync are one element each. `Embed` is the batch load: it succeeds, raises, or
breaks off with vectors nobody knows; `StoreResult` writes the row the thread
holds. `Crash` ends requests and threads and keeps the tables.

With `TableErrors` every transaction may raise. Most then commit nothing and end
their request (`TableRaises`); two leave a trace. The write of the result stands
outside the `try` (service.py:331): when it raises, the thread ends and the row
stays RUNNING (`LoseResult`). The mark is committed before the row is read again
for its id: when that raises, no thread is started (`MarkInVain`). Both put the
document into the history variable `lost`. Chunks that cannot be stored
(service.py:240; `meta_info` is `String(500)`, `varchar(200)` in the schema) end the
request when its thread is running, and the document gets FINISHED without chunks.

`IsNextId` is the id of a new row. The default SQLite has no AUTOINCREMENT here
(document_db.py:16) and gives the successor of the greatest id in the table, so
that of a deleted newest row returns (`ReusesIds`); MySQL counts on. With
`ReusesIds` a thread may write the row of a document that was created after its
own was deleted. That `thread.start()` itself raises is not modelled.

### ChatHistory

A chat copies the history and numbers its round in one step (`Begin`: there is
no await between `BaseChat.__init__` and `__call_base` that changes either; the
number is computed from the copy), awaits the model, and ends as `Answered`,
`StreamBreaks` or `Lost`. `append` reads and writes the row without an await.
`views` counts the answers of a round: after a broken stream the same round is
stored twice, and the second time it has both the answer `stream_call` added
(base_chat.py:149) and the one `stream_generator` adds (api_v1.py:355).
`Calm` dialogues belong to users who wait for each answer and whose streams do
not break. `histroy_window` (the code's spelling) is which rounds of the copy go
into the prompt when `chat_retention_rounds` is `n`; the default is 0 beside a
comment "keep two rounds" (base_chat.py:28), with which only the first round is
ever sent.

### WorkerRequests

`request[k]` is the line a call stands at: before or in `async with semaphore`,
in `iterate_in_threadpool` (`streaming`) or in `run_in_executor` (`generating`;
`embeddings` is the same). A cancelled stream keeps its permit until the step
its thread is in has returned (`closing`); a cancelled generate returns its
permit at once and leaves an `orphan` thread. These two are facts of anyio and
asyncio and are modelled from how the code uses them. Which waiting call gets
the next permit is left open.

### WebChat

The repository holds the client only as built bundles, in which each file is
one line; the map names the bundle and what the function is. The browser runs a
callback at a time, so each callback is an action. `page` is the address,
`shown` the reducer's history, `busy` the state behind the button, `fetch` the
`useRequest` of the history, `stream[k]` the `fetchEventSource` of a question:
`before` is the list `s` that its callbacks close over and prepend to every
chunk. The page survives a change of `?id`, and the streams survive the page:
`Leave` makes them `unheard`, only `Reload` closes them. An `initMessage` is
asked on mounting and taken out of the address with `replaceState`, of which
`useSearchParams` (`page.message`) knows nothing; `HistoryArrives` has what the
effect does when it then runs again. `page.path` is "/chat" for links of the
client and "/chat/" after a reload, to which the static mount (dbgpt_server.py:82,
`html=True`) redirects. It matters when the open dialogue is deleted: the client
leaves the page only at "/chat"; at "/chat/" it stays, with its messages
(`LoseDialogue`, `page.deleted`).

### ChatSystem

An action of one component and what it makes the others do is one step:
`Arrives` enters the round and the queue, `Finishes` stores the round and
releases the permit, `Disconnects` cancels both. `wire[k]` is what was sent on
the connection; a stream that ends without a chunk is stored with a text that
was sent to nobody. `Messages` is what `get_hist_messages` makes of a history: all
answers of each round, so a stream that broke shows one below the other.
`DeleteDialogue` deletes the dialogue that is shown, and leaves its page or stays
on it, or another one. The conjunction keeps every guard of the components, so the
whole implements `WorkerSpec` and `Server!Spec` with their variables as they are
(theorems `WorkerImplemented`, `ServerImplemented`). `user` is chosen once: a
patient user waits for answers and histories before doing anything, a hasty one
does anything at any time.

## 3. Runs

| run | module / cfg | instance | shows |
|---|---|---|---|
| registry_safety | `MCModelRegistry` / `RegistrySafety` | a name, a host, and a padded spelling of each, filed up to twice; timeout 2, interval 1 (the code's 120 s and 60 s) | `TypeOK`, `OneInstancePerAddress`, `DetectionBound`, `EntriesStay`, `SuspicionNeedsSilence`, `ImplementsLease` |
| registry_checker_dies | `MCModelRegistry` / `RegistryCheckerDies` | same | violates `DetectedInTime` |
| cluster | `ModelCluster` / `Cluster` | 1 worker, 2 sender slots, everything may fail | `TypeOK`, `EnlistedWorkersBeat`, `OnlyRegistrationEnlists`, `SuspicionHeals`, `DownWorkersFade` |
| cluster_timely | `ModelCluster` / `ClusterTimely` | ticks of 20 s: heartbeat 1, timeout 6, scan 3 | `SuspectedBriefly` |
| heartbeat_default | `ModelCluster` / `HeartbeatDefault` | heartbeat 90 ticks = 1800 s | violates `SuspectedBriefly` |
| knowledge_serial | `MCKnowledgeService` / `KnowledgeSerial` | 1 client, 1 space name, 2 document names, batches, 2 insertions per table, ids return, 3 syncs | `OneDocumentPerName`, `OneSpacePerName`, `OneThreadPerDocument`, `FinishedIsComplete`, `NothingOrphaned` |
| knowledge_races | `MCKnowledgeService` / `KnowledgeRaces` | 2 clients that overlap, deletions during a sync, failing store and tables, a crash; 1 insertion per table, 2 syncs | `TypeOK`, `RunningIsBeingSynced`, `AbandonedStaysRunning`, `SyncSettles` |
| knowledge_resurrection | `MCKnowledgeService` / `KnowledgeResurrection` | 1 client who deletes while a thread runs; ids do not return | violates `OneDocumentPerName` |
| chroma_keeps_vectors | `MCKnowledgeService` / `ChromaKeepsVectors` | 1 client, ids are not split | violates `NothingOrphaned` |
| chat_history | `ChatHistory` / `ChatHistory` | 3 chats, a calm and a busy dialogue | `TypeOK`, `CalmRoundsAreNumbered`, `CalmRoundsFollow`, `CalmLearnsFirst`, `WindowIsFirstAndRecent`, `RoundsSurvive` |
| chat_system | `MCChatSystem` / `ChatSystem` | 2 dialogues, 2 questions, limit 1, a cut connection, patient and hasty users | `TypeOK`, `PermitsBalance`, `AnswersFollowQuestions`, `LockHolds`, `AskedOnce`, `ShownIsStored`, `PatientRoundsAreNumbered`, `OverloadIsAbandoned`, `SpinnerStops` |
| stream_breaks | `ChatHistory` / `StreamBreaks` | 1 chat | violates `SequenceAdvances` |

`CHECK_DEADLOCK FALSE` only for `ChatHistory` and `ChatSystem`, whose questions
are finitely many.

**Findings.** (1) A query for an unknown model during a scan kills the checker
thread; no timeout is noticed afterwards. (2) The default heartbeat interval is
1800 s in the code and 20 s in the documentation; with the former, healthy
workers are withdrawn most of the time. (3) Deleting a document while it is
embedded lets the thread insert it again, beside a new one of its name where ids
do not return (MySQL); in SQLite the new one may have its id and is overwritten. (4) With Chroma, the default store,
deleting a document leaves its vectors. (5) A broken stream is stored twice, the
second time with two answers.

Seen while modelling the page, and no finding since nothing in the repository
says otherwise: after "Ask anything" on the home page the history of the new,
still empty dialogue may arrive after the first chunks. It wipes them until the
next chunk comes, and the effect that runs again frees the button while the
answer streams. `LockHolds` therefore demands the lock only of pages mounted
without a message (`page.direct`), and `ShownIsStored` the whole history only
there. On a page that stayed when its dialogue was deleted `ShownIsStored` demands
that the messages end with what was stored since; the deleted ones stay above.
`AnswersFollowQuestions` allows an answer below an answer for streams that ended
without the whole answer (`CutShort`), whose history has two, and for no others.

**What is assumed in a passing run.** `knowledge_serial` has requests that do
not overlap and users who let a sync finish before deleting: overlapping
look-ups of a name or a status are not excluded by the code, so those properties hold no further. Its tables do not fail either: with
`TableErrors` a finished document may lack its chunks, and a deletion that raises
half-way leaves them. Its ids may return. `knowledge_races` has overlap, deletions
during a sync, failing stores and tables and crashes together; its
properties say what is still true then, and name the exceptions: a crash, and a
write that raised (`lost`). `OneInstancePerAddress` and `ImplementsLease` are about
hosts without blanks.
`cluster_timely` has reliable calls and loads shorter than a tick; the theorems
of section 4 say which of the assumptions each property needs.

**Bounds.** Registry: two names suffice for a stripped and an unstripped
spelling of one model, and two spellings of a host, filed up to twice, give the
checker lists of three entries, so that it may overrule one while standing at
another; ages are capped at `AgeCap`, above every comparison.
Cluster: workers only share the registry, and the invariants are proved for any
number of them; two senders are the first number that differs from one
(`RoomForSender`). `late` is a set: two equal late requests act like one handled
twice, and the second changes nothing but the age the first one reset. Knowledge:
two insertions into a table are needed for a name to be used twice and for an id
to return, three syncs for a document to be synced after a failed one beside
another; the race run has one document, since its properties are about single
documents, and so no id returns in it: its cfg also passes with two documents and
one client, or two documents and one sync (28,000 and 221,000 states). `NoSyncLeft` makes a
request end, as if the source could not be read, when threads are used up. Chat:
three chats give an overlap and a round before or after it; a round is edited at
most twice. Chat system: two dialogues are needed for a stream to meet another
dialogue's page, two questions for one to overtake, block or overwrite the other;
the limit is 1, so that two threads are an overload; one connection fails
(`MaxCuts`; a reload closes any number), and only patient users delete dialogues
(`Deleters`); the properties proved in section 4 have neither bound. The longest
runs are `chat_system` (948,000 distinct states, three minutes), `knowledge_races`
(478,000) and `registry_safety` (110,000), two minutes each.

**Fairness.** `ModelCluster`: weak fairness of the checker, the requests and the
senders of live processes (event loop and threads run what is ready) and of the
end of a call (`httpx` times out after five seconds); strong fairness of the
clock, which operators' requests interrupt again and again, and of the answer to
a heartbeat, which says that not every heartbeat of a sender is lost. No
fairness for operators, crashes, boots or late arrivals. `KnowledgeService`: weak
fairness of requests and threads in progress. `ChatSystem`: weak fairness of
what server, worker and browser do with what has arrived: a posted question
reaches the server while its connection stands, a free permit is taken, the
model answers, threads return, and what was sent is heard. None for users, failures,
cuts or histories, so `SpinnerStops` holds whether or not anything goes wrong;
its point is that cancelled requests of the past never cost the permit a
question waits for. `DownWorkersFade` is stated for
runs in which the checker thread stays alive, because of finding 1.

## 4. Proofs

`ModelRegistryProofs` proves for all sets of names and addresses, any idempotent
`Strip` and `StripAddr`, any number of copies, and any positive timeout and interval
(`RegistryAssumption`):
`TypeOK`, `OneInstancePerAddress`, `DetectionBound` as invariants
(`TypeCorrect`, `OneInstanceAlways`, `DetectionBoundAlways`) and the action
properties `EntriesStay` and `SuspicionNeedsSilence` (`EntriesStayAlways`,
`SuspicionNeedsSilenceAlways`).

The argument is one inductive invariant

    IInv == TypeOK /\ OneInstancePerAddress /\ DetectionBound /\ ScanProgress /\ MarkTarget

`DetectionBound` speaks of a sleeping checker; to carry it across a scan that is
interleaved with handlers one has to know what the scan has achieved so far.
`ScanProgress` says it: monitored healthy entries behind the iterators are within
the timeout, those ahead at most one interval late. `MarkTarget` says that the
entry about to be marked is still there (handlers never shorten a list) and is
overdue or has just been heard from; it gives the two action properties. All
handlers are subsumed under `HandlerEffect` (entries keep their place and
address, and are fresh, withdrawn or unchanged), so the invariant is shown once
for all of them (`HandlerKeepsIInv`), then for each step of the checker, the
clock and the restart.

The second part of the module proves `RegistryImplementsLease` from the same
invariant.
One entry per address makes each pair of a name and an address without blanks a
service with one
`healthy` and one `age` (without it, `Entry` would be the first of several).
Initial states map to initial states; a handler is the `Join`, `Leave` or `Heartbeat` of the stripped or unstripped name
and host, or a stutter when it finds nothing or files or refreshes a padded host; `Inspect` of an overdue entry is a doubt, `MarkUnhealthy` its verdict,
the end of the thread `StopWatching`; the other steps of the checker stutter.
`DetectionBound` supplies the guard under which the abstract clock may tick.

`ModelClusterProofs` first shows that what happens to the controller in a
cluster are registry operations (`RegistryImplemented`), so the theorems about
the registry hold there without a new proof (`ListsKept`). For the workers the
inductive invariant is

    WorkerInv == WorkerTypeOK /\ StartedIsLoaded /\ EnlistedWorkersBeat

A worker is enlisted when its registration returns and the event is not set;
that the model is then loaded needs `StartedIsLoaded`: an awaited registration
that no stop has overtaken is that of a loaded model. Starts, updates, stops and
registrations may overlap in any order and number; `Task` only has to be finite.
`EnlistedAlwaysBeat` and `ClusterTypes` follow. `OnlyRegistrationsEnlist` shows
that refreshing, withdrawing, ageing and forgetting never put an address list (`HandleKeepsUnknown`, `OthersKeepUnknown`). None of this depends on the
assumptions about losses, crashes or load times.

`SuspectedBrieflyAlways` does: it assumes that calls do not fail (`~Lossy`), that
the clock does not tick while a worker loads (`~SlowLoads`), and that the
heartbeat interval is within the timeout, and assumes nothing about crashes
(`Faulty`) or what operators do (`Applies`). The property speaks of the age of
an entry, the code only of what senders sleep; `SendersAreHeard` joins them: a
task that has slept part of an interval has been heard from that part ago at
most, so an entry of its worker is no older. Any sender will do, also one left
over from before a stop, which is why `EnlistedWorkersBeat` is enough to finish.
How often the checker scans does not matter. Without the third hypothesis the
claim is finding (2); run `cluster_timely` has it with room to spare.

`KnowledgeProofs` proves `TypeOK`, `RunningIsBeingSynced` and
`AbandonedStaysRunning` (`TypeCorrect`, `RunningAlwaysSynced`,
`AbandonedAlwaysStays`) for any finite set of clients, any names, lists of ids and
bounds, with requests that overlap, stores and tables that fail, ids that return or
do not, and crashes. The invariant is

    TypeInv == TypeOK /\ Held /\ Numbered /\ Room /\ Outcomes
    SyncInv == RunningIsBeingSynced /\ AbandonedIsNotHeld

`Held` says what a request holds at each of its steps, `Numbered` that no id of a row or thread exceeds the number of rows ever inserted, `Room` that a bound also counts the
requests about to use a number, `Outcomes` that a thread about to store has a
final status. A RUNNING document is being synced, or the process has crashed, or it
is `lost`. `RunningIsBeingSynced` survives `StoreResult`, which may overwrite
the row of a thread that started later, since the status written is final;
`AbandonedStaysRunning` needs that no request holds an older copy of an abandoned
row (`AbandonedIsNotHeld`), which the check of the status at the start of a sync
and the end of all requests in a crash give. After an exception an overlapping
request may still hold such a copy; `Abandoned` counts a document only once none
does. The steps fall into those that leave
syncs alone (`QuietKeeps`), the mark, the thread's start, its load, its result, written or lost, and the crash (`MarkSync`, `ThreadSync`, `EmbedSync`, `ResultSync`, `CrashSync`).

`KnowledgeSerialProofs` proves the properties of `knowledge_serial` for any
clients, names, ids and bounds, each with the hypotheses it needs and no others:

| theorem | assumes | invariant |
|---|---|---|
| `SpacesUnique` | `~Overlap` | `Serial`, `SpaceInv`: a look-up still holds when its row is inserted |
| `ThreadsUnique` | `~Overlap`, `~DeletesSyncing` or `~ReusesIds` | and `ThreadInv`: a document under a thread says RUNNING, so no request takes it up; `SyncNumbers`: which sync a row's vectors are of |
| `DocumentsUnique` | `~Overlap`, `~DeletesSyncing` | and `DocInv`: what a request read is still so, and the row a thread will store again is still there under its name |
| `FinishedComplete` | also `~StoreErrors`, `~TableErrors`, `~Crashes` | and `CompleteInv`: chunks and vectors of every document that no request is taking apart |
| `NoneOrphaned` | `~Overlap`, `~DeletesSyncing`, `SplitsIds`, `~TableErrors`, `~Crashes` | and `OrphanInv`: what a deletion has yet to take away |

`Serial` says that at most one request is under way; threads still run beside
it, so look-ups and writes of requests do interleave with theirs. Two overlapping
look-ups break the first three. A deletion during a sync is finding (3); where ids
return as well, the next document may get the id of one that is still embedded,
and a second thread. A store or a table that
fails in a deletion, or a crash, leaves a FINISHED document that a deletion has
begun to take apart; a store that fails ends the request before the table is touched, so `NoneOrphaned`
survives it, but not a crash or a failing table between two of its steps,
nor a store that does not split its list of ids, finding (4). A load that breaks
off leaves vectors whose ids nobody knows, which no property covers (see the
hazards).

`ChatHistoryProofs` proves for all sets of dialogues and chats and any
`Calm \subseteq Conv` (`ChatAssumption`) `TypeOK`, `CalmRoundsAreNumbered`,
`CalmRoundsFollow` and `CalmLearnsFirst` as invariants and the action property
`RoundsSurvive` (`TypeCorrect`, `CalmNumbers`, `CalmFollows`, `CalmLearns`,
`Survival`), and `WindowIsFirstAndRecent` (`WindowShown`) for histories of any
length, from what `histroy_window` is for few and for many rounds (`WindowShort`,
`WindowLong`). Its inductive invariant is

    IInv == TypeOK /\ OneAtATime /\ CopyIsCurrent /\ WaitingIsNumbered
            /\ RoundsHaveEnded /\ CalmRoundsAreNumbered /\ CalmRoundsFollow
            /\ CalmLearnsFirst

The properties speak of stored rounds, but a round's number and the history it
answers to are fixed when the chat begins. `OneAtATime` and `CopyIsCurrent`
bridge the await: the only waiting chat of a calm dialogue still holds the
history as it is, so what it appends fits. `RoundsHaveEnded` says that a chat
which is yet to begin or to end is in no history, so its changes touch no stored
round; `WaitingIsNumbered` gives the stored round its type. The actions fall into
four lemmas: a chat begins (`BeginKeepsIInv`), is lost (`LostKeepsIInv`), appends
(`AppendKeepsIInv`, for one round or two), and others rewrite without changing
chats or numbers, or delete while nobody waits (`RewriteKeepsIInv`).

`WorkerRequestsProofs` proves `PermitsBalance` for any finite set of calls and
any limit (`PermitsAlwaysBalance`), by counting the holders across each step.

`ChatSystemProofs` composes. Each step of the system is shown to be a step or a
stutter of the worker and of the chat rounds (`WorkerImplemented`,
`ServerImplemented`), which makes the theorems above hold of the whole without
a new proof (`PermitsBalanceHere`). For the page, `WebChatProofs` shows that every
action of the browser keeps

    WebInv(B) == WebTypeOK /\ WebPaired(B) /\ WebLock /\ WebPosts /\ WebFetch

where `WebPaired(B)` extends `AnswersFollowQuestions` to the lists that open
streams will put back and to histories under way, with a second answer only to
questions of `B`, and `WebPosts` says that a
question is posted in the step in which it is asked. `SystemInv` takes `CutShort` for `B` and adds what ties the parts together: a request
whose thread was abandoned belongs to a connection that was closed or failed
(`Abandoned`); chats, requests and streams are at the same point, a stream that
ended having its round stored (`Link`); and rounds are stored with the dialogue of
their question, two answers only for a stream that was cut short (`Homed`). Once
a stream is cut short it stays so, which lets `WebInv` go from step to step. That
`Homed` makes every history one of answers below questions (`HistoryPaired`) is an
induction over the rounds of a list, done by taking the least number of rounds for
which it fails. From it follow `TypeOK`,
`AnswersFollowQuestions`, `LockHolds`, `AskedOnce` and `OverloadIsAbandoned`
(`SystemTypes`, `AnswersAlwaysFollow`, `LockAlwaysHolds`, `AskedOnceAlways`,
`OverloadAlwaysAbandoned`), for any dialogues, questions, limit and number of cuts.

`PatientRoundsAreNumbered` needs more, since a stored round's number was fixed
when its chat began. `PatientInv` says that a patient user listens to one stream at most (`OneHeard`) and that the numbers of undisturbed dialogues, the waiting chat's
included, are consecutive (`PatientNumbers`). `PatientKeeps` and
`PatientNumbered` follow: the page, not the server, is what orders the rounds of
a dialogue.

`ShownIsStored` compares what is on the page with what is in the table, two
lists that are changed by different actors: streams, histories that arrive, and
the server that stores. `ShownInv` follows everything that may yet be put on the
page of an undisturbed dialogue: the list a stream will put back, with its answer,
is the end of what will be stored (`BeforeFits`); a history under way is the
present one, unless it is that of a new dialogue, still empty (`FetchFits`), and only then
may it be under way beside an answer (`InTime`); so what is shown fits when all has come in (`ShownFits`). `Fits` is: all of it, the
end of it on a page mounted with a message, and ending with all of it on a page
that stayed when its dialogue was deleted. `Homed` makes a new dialogue empty, `HeardHere` keeps a patient user on the
page of the question. The steps fall into those of the user (`UserPage`), of a
history (`HistoryPage`), of the stream that is heard (`HearingPage`), the storing
of a round (`StoringPage`) and the rest, which the page does not notice unless it
disturbs the dialogue (`OtherPage`). `ShownAlwaysStored` follows from it and
`PatientInv`.

Only model-checked: the liveness properties (`SuspicionHeals`, `DownWorkersFade`,
`SyncSettles`, `SpinnerStops`), which are out of the prover's reach together with
`ENABLED`, and with it fairness. The violated properties have no theorems, of course.

## 5. Plan

In this order; each step names its modules, abstract specification, runs and
theorems.

1. Core (done): registry, cluster, knowledge service, chat rounds; the
   invariants and action properties of registry and chat rounds proved.
2. Chat system (done): `WorkerRequests`, `WebChat` and their composition with
   `ChatHistory`; refinement, invariants and numbering proved.
3. `DbConnections`: configuration table, `add_db` with its summary, start-up
   summaries beside requests. Run: 2 databases, 2 requests.
4. `TokenStore`: access and refresh tokens, expiry, retries. Run: 2 clients, 3 ticks.
5. Pure algorithms against reference definitions, in one module and run: brace
   balancing, stop strings, eviction of `FixedSizeDict`, look-up of prompts (the
   history window is done).
6. Proofs (done for what is modelled): the refinement of `LeaseDirectory`; the
   cluster for any number of workers and senders, `SuspectedBriefly` from an
   assumption on the durations; the knowledge service for any number of clients,
   and its names and statuses for requests that do not overlap; the window of the
   history; `ShownIsStored` for patient users. Left: abstract specifications of the
   knowledge service (a sync is TODO, RUNNING, then FINISHED or FAILED) and of the
   page (a dialogue is a list of questions and answers), and the modules of
   steps 3 to 5.

## 6. Not modelled

Tensor computation, drivers of external services, prompt texts and output
formats: they keep no state that interacts, or none that can be read from this
repository. Uploads, paged queries and searches change nothing the properties
speak of. Managers that hold several workers and the deletion of a model under a
running generation (`worker.stop`) are left out of `WorkerRequests`.

The JavaScript in the repository is the output of a bundler. Most of its 49
files are third-party libraries (React, Next.js, Ant Design, MUI, highlighting,
polyfills), and each bundle of the client's own code is one line. Modelled are the
chat page, the list of dialogues, the home page, the event-stream reader and the
request hook; the pages for databases and knowledge spaces are forms over
endpoints that `KnowledgeService` models from the server's side. A share of
JavaScript lines therefore says little about this project: the code the
modules translate is the Python under `pilot/`, of which the map names about
1,800 lines.

Of the page: a POST answered with an HTTP error ends the stream like one that
breaks and is not an action of its own; the stream of one page is not heard by
another tab; the SQL and chart editors are modelled with the chat rounds only.
The remaining components wait for the plan's later steps; `PROJECT.json` gives
the reason for each.
