------------------------------ MODULE ChatSystem ------------------------------
(***************************************************************************)
(* Chatting end to end: the page of one user, the chat endpoints with the  *)
(* table of dialogues, and the worker that generates the answers in the    *)
(* same process.  A stream of an answer joins all three: the browser hears *)
(* what the endpoint sends, the endpoint what the worker generates, and a  *)
(* connection that is cut cancels both.                                    *)
(***************************************************************************)
EXTENDS WebChat, WorkerRequests, SequencesExt

CONSTANTS
  Streams,   \* dialogues of a scene whose answers are streamed
  Deleters,  \* users who delete dialogues (a bound)
  MaxCuts    \* how many connections fail (a bound)

ASSUME SystemAssumption ==
  /\ Request = Chat /\ Streams \subseteq Conv
  /\ Deleters \subseteq {"patient", "hasty"} /\ MaxCuts \in Nat

VARIABLES
  history, chat, prompt,   \* see ChatHistory
  wire,   \* the answer that was sent on the connection of each question
  user    \* "patient": waits for answers and histories; "hasty": does not

serverVars == <<history, chat, prompt>>
vars == <<webVars, workerVars, serverVars, wire, user>>

Server == INSTANCE ChatHistory WITH Calm <- {}

TypeOK ==
  /\ WebTypeOK /\ WorkerTypeOK /\ Server!TypeOK
  /\ wire \in [Chat -> {"none", "part", "all"}]
  /\ user \in {"patient", "hasty"}

Init ==
  /\ WebInit /\ WorkerInit /\ Server!Init
  /\ \A k \in Chat :
       chat[k].kind = IF chat[k].conv \in Streams THEN "stream" ELSE "nostream"
  /\ wire = [k \in Chat |-> "none"]
  /\ user \in {"patient", "hasty"}
-----------------------------------------------------------------------------
(* The user *)

MayAct == user = "patient" => Heard = {} /\ fetch.state \notin {"asked", "answered"}

\* As new as a dialogue the server has just given an id.
Unused(c) == \A k \in Chat : chat[k].conv = c => stream[k].state = "new"

User ==
  /\ MayAct
  /\ \/ Leave \/ Reload
     \/ \E c \in Conv, path \in ChatPath : Open(c, path) \/ Switch(c, path)
     \/ \E k \in Chat :
          \/ Unused(chat[k].conv) /\ OpenWithMessage(chat[k].conv, k)
          \/ chat[k].conv = page.conv /\ handleChatSubmit(k)
  /\ UNCHANGED <<serverVars, workerVars, wire, user>>

\* Only dialogues with rounds are listed, and a dialog covers the page until the
\* request is through.  The page of a deleted dialogue is left, but only if its
\* path is the one that links have.
DeleteDialogue(c) ==
  /\ user \in Deleters /\ MayAct
  /\ Server!dialogue_delete(c)
  /\ \/ page.conv = c /\ page.path = "/chat" /\ Leave
     \/ page.conv = c /\ page.path # "/chat" /\ LoseDialogue
     \/ page.conv # c /\ UNCHANGED webVars
  /\ UNCHANGED <<workerVars, wire, user>>
-----------------------------------------------------------------------------
(* The server *)

Spoken(round) ==
  <<Human(round.chat)>> \o [v \in 1..round.views |-> View(round.chat, "all")]

\* get_hist_messages, of which the page shows the questions and the views: all of
\* each round's.  The text of a view is "all" of what is stored, an error too.
Messages(rounds) == FlattenSeq([i \in DOMAIN rounds |-> Spoken(rounds[i])])

\* chat_completions; the request may outlive its connection on the way.
Arrives(k) ==
  /\ stream[k].state # "new"
  /\ Server!Complete(k)
  /\ Enqueue(k)
  /\ UNCHANGED <<webVars, wire, user>>

Starts(k) ==
  /\ Acquire(k, IF chat[k].kind = "stream" THEN "streaming" ELSE "generating")
  /\ UNCHANGED <<webVars, serverVars, wire, user>>

Yields(k, text) ==
  /\ request[k] = "streaming"
  /\ wire[k] # "all" /\ wire[k] # text
  /\ wire' = [wire EXCEPT ![k] = text]
  /\ UNCHANGED <<webVars, workerVars, serverVars, user>>

\* A stream stores what it has sent, or a text nobody was sent if there was no
\* chunk; a call without streaming sends what it has stored.
Finishes(k) ==
  /\ request[k] = "streaming" => wire[k] # "part"
  /\ Release(k)
  /\ Server!Answered(k)
  /\ wire' = [wire EXCEPT ![k] = IF request[k] = "streaming" THEN @ ELSE "all"]
  /\ UNCHANGED <<webVars, user>>

\* No worker, or the model raised: the stream is stored twice and ends.
Breaks(k) ==
  /\ wire[k] # "all"
  /\ Server!StreamBreaks(k)
  /\ Withdraw(k) \/ Release(k)
  /\ UNCHANGED <<webVars, wire, user>>

\* The bound on cuts; a connection that is cut may also raise at the server.
MayFail(k) ==
  Cardinality({j \in Chat \ {k} : stream[j].state \in {"closed", "failed"}}) < MaxCuts

\* The prompt cannot be built or a chunk not be parsed: the exception leaves
\* the generator and the connection is cut.
RaisesOut(k) ==
  /\ MayFail(k)
  /\ request[k] # "generating"
  /\ Withdraw(k) \/ Release(k)
  /\ Server!Lost(k)
  /\ \/ StreamFails(k) \/ UnheardFails(k)
     \/ stream[k].state \in {"closed", "failed"} /\ UNCHANGED webVars
  /\ UNCHANGED <<wire, user>>

\* listen_for_disconnect cancels the generators.
Disconnects(k) ==
  /\ stream[k].state \in {"closed", "failed"}
  /\ Cancel(k)
  /\ Server!Lost(k)
  /\ wire' = [wire EXCEPT ![k] = "none"]
  /\ UNCHANGED <<webVars, user>>

\* Threads nobody waits for.
ThreadReturns(k) ==
  /\ StepEnds(k) \/ ThreadEnds(k)
  /\ UNCHANGED <<webVars, serverVars, wire, user>>
-----------------------------------------------------------------------------
(* The network *)

Histories ==
  /\ HistoryAnswered(Messages(history[page.conv])) \/ HistoryArrives \/ HistoryFails
  /\ UNCHANGED <<serverVars, workerVars, wire, user>>

\* Mutant: the page takes the last chunk for the end of the stream.
HearsLastChunk(k) ==
  /\ \/ wire[k] # stream[k].text /\ Chunk(k, wire[k])
     \/ wire[k] = stream[k].text /\ (wire[k] = "all" \/ chat[k].state = "stored")
        /\ StreamEnds(k)
  /\ UNCHANGED <<serverVars, workerVars, wire, user>>

Hears(k) ==
  /\ \/ wire[k] # stream[k].text /\ Chunk(k, wire[k])
     \/ wire[k] = stream[k].text /\ chat[k].state = "stored" /\ StreamEnds(k)
  /\ UNCHANGED <<serverVars, workerVars, wire, user>>

ConnectionFails(k) ==
  /\ MayFail(k)
  /\ StreamFails(k) \/ UnheardFails(k)
  /\ UNCHANGED <<serverVars, workerVars, wire, user>>

Next ==
  \/ User \/ Histories
  \/ \E c \in Conv : DeleteDialogue(c)
  \/ \E k \in Chat :
       \/ Arrives(k) \/ Starts(k) \/ Yields(k, "part") \/ Yields(k, "all")
       \/ Finishes(k) \/ Breaks(k) \/ RaisesOut(k) \/ Disconnects(k)
       \/ ThreadReturns(k) \/ Hears(k) \/ ConnectionFails(k)

Spec == Init /\ [][Next]_vars

\* The server goes on with what it can, the model answers, threads return, and
\* a connection that is not cut delivers.  Users and failures need not act.
Fairness ==
  \A k \in Chat :
    /\ WF_vars(Arrives(k) /\ stream[k].state = "open")
    /\ WF_vars(Starts(k))
    /\ WF_vars(Yields(k, "all"))
    /\ WF_vars(Finishes(k))
    /\ WF_vars(ThreadReturns(k))
    /\ WF_vars(Hears(k))

FairSpec == Spec /\ Fairness
-----------------------------------------------------------------------------
(* Properties *)

\* Streams that ended without the whole answer.
CutShort ==
  {k \in Chat : chat[k].kind = "stream" /\ chat[k].state = "stored" /\ wire[k] # "all"}

\* Wherever the page takes its messages from, and whichever dialogue it has
\* moved to meanwhile, an answer stands right below its own question, or, stored
\* for a stream that was cut short and for no other, below another answer to it.
AnswersFollowQuestions ==
  \A i \in DOMAIN shown : shown[i].role = "view" =>
    LET k == shown[i].chat IN
    /\ i > 1
    /\ \/ shown[i - 1] = Human(k)
       \/ k \in CutShort /\ shown[i - 1] = View(k, "all")

\* A page mounted without an initial message has its button disabled exactly
\* while it waits for an answer, and waits for one only; any page that disables
\* it waits for an answer that will enable it.
LockHolds ==
  /\ busy => Heard # {}
  /\ page.direct => (Heard # {} => busy) /\ Cardinality(Heard) <= 1

\* A question in the address is asked once, however often its effect runs.
AskedOnce == \A k \in Chat : stream[k].posts <= 1

\* The dialogues whose questions were all answered in full.
Whole(c) ==
  \A k \in Chat : chat[k].conv = c /\ stream[k].state # "new" =>
    stream[k].state = "ended" /\ stream[k].text = "all"

Undisturbed(c) ==
  \A k \in Chat : chat[k].conv = c /\ stream[k].state # "new" =>
    \/ stream[k].state = "ended" /\ stream[k].text = "all"
    \/ stream[k].state = "open" /\ (chat[k].state = "stored" => wire[k] = "all")

\* What a patient user sees of a dialogue, once everything has come in, is what
\* is stored of it, or the end of it where the page was mounted with a message.
\* A page that stayed when its dialogue was deleted shows all that was stored
\* since, below what it showed before.
ShownIsStored ==
  user = "patient" /\ IsOpen /\ Heard = {} /\ fetch.state = "loaded" /\ Whole(page.conv) =>
    LET stored == Messages(history[page.conv]) IN
    IF page.deleted THEN IsSuffix(stored, shown)
    ELSE IsSuffix(shown, stored) /\ (page.direct => shown = stored)

\* The page makes a patient user one for whom ChatHistory promises calm: it does
\* not report an answer before its round is stored, so no question overtakes the
\* round before it and a dialogue whose questions were all answered in full, but
\* for one on its way, is numbered without gaps.
PatientRoundsAreNumbered ==
  \A c \in Conv :
    user = "patient" /\ Undisturbed(c) =>
      /\ Cardinality(Server!Waiting(c)) <= 1
      /\ \A i \in DOMAIN history[c] : history[c][i].chat_order = i

\* More threads run the model than limit_model_concurrency allows only when one
\* of them works for a connection that was cut.
OverloadIsAbandoned ==
  Cardinality(Working) > Limit =>
    \E k \in Working : stream[k].state \in {"closed", "failed"}

\* The button is enabled again in the end, whatever breaks and however many
\* requests were cancelled before.
SpinnerStops == busy ~> ~busy
=============================================================================
