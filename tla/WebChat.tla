------------------------------- MODULE WebChat -------------------------------
(***************************************************************************)
(* The chat page of the web client: what it shows of a dialogue, the       *)
(* streams of answers it listens to and the history it fetches.            *)
(*                                                                         *)
(* The browser runs one callback at a time.  The page is mounted when the  *)
(* user comes to /chat and survives a change of ?id, so its state and its  *)
(* streams are handed on from one dialogue to the next.                    *)
(***************************************************************************)
EXTENDS Integers, Sequences

CONSTANTS
  Conv,     \* ids of dialogues
  Chat,     \* questions, each asked once
  NoConv, NoChat

ASSUME WebAssumption == NoConv \notin Conv /\ NoChat \notin Chat

VARIABLES
  page,     \* the dialogue and the path in the address, the initMessage of
            \* useSearchParams, whether the page was mounted without an initMessage,
            \* and (history) whether the dialogue was deleted while it was open
  shown,    \* history of the reducer: questions ("human") and answers ("view")
  busy,     \* the flag that disables the submit button
  fetch,    \* the request for the history of the open dialogue
  stream    \* the POST of each question, as the browser sees it

webVars == <<page, shown, busy, fetch, stream>>

Text == {"none", "part", "all", "error"}

\* Links in the application go to "/chat"; what the server delivers, StaticFiles
\* redirects to the directory "/chat/".
ChatPath == {"/chat", "/chat/"}

Page == [conv : Conv \cup {NoConv}, path : ChatPath \cup {"/"},
         message : Chat \cup {NoChat}, direct : BOOLEAN, deleted : BOOLEAN]

Message == [role : {"human", "view"}, chat : Chat, text : Text]

\* open: onmessage changes the page; unheard: the page it belongs to is gone;
\* closed: the browser has cut the connection.
Stream == [state : {"new", "open", "unheard", "closed", "ended", "failed"},
           before : Seq(Message), text : Text, posts : 0..2]

WebTypeOK ==
  /\ page \in Page
  /\ shown \in Seq(Message)
  /\ busy \in BOOLEAN
  /\ fetch \in [state : {"none", "asked", "answered", "loaded", "failed"},
                messages : Seq(Message)]
  /\ stream \in [Chat -> Stream]

Home == [conv |-> NoConv, path |-> "/", message |-> NoChat, direct |-> TRUE,
         deleted |-> FALSE]
NoFetch == [state |-> "none", messages |-> <<>>]
Asked == [state |-> "asked", messages |-> <<>>]

WebInit ==
  /\ page = Home
  /\ shown = <<>>
  /\ busy = FALSE
  /\ fetch = NoFetch
  /\ stream = [k \in Chat |-> [state |-> "new", before |-> <<>>, text |-> "none", posts |-> 0]]

Human(k) == [role |-> "human", chat |-> k, text |-> "all"]
View(k, text) == [role |-> "view", chat |-> k, text |-> text]

IsOpen == page.conv # NoConv
Heard == {k \in Chat : stream[k].state = "open"}

\* handleChatSubmit: s, which every message of the stream starts from.
Posted(k, s) == [stream EXCEPT ![k] = [state |-> "open", before |-> s, text |-> "none",
                                       posts |-> @.posts + 1]]

\* What happens to the streams when the page is unmounted or reloaded.
Dropped(states, to) ==
  [k \in Chat |-> IF stream[k].state \in states
                  THEN [stream[k] EXCEPT !.state = to, !.before = <<>>, !.text = "none"]
                  ELSE stream[k]]
-----------------------------------------------------------------------------
(* The user *)

\* From the home page (a scene starts a dialogue), the list of dialogues, or an
\* address that was open before.
Open(c, path) ==
  /\ ~IsOpen
  /\ page' = [Home EXCEPT !.conv = c, !.path = path]
  /\ fetch' = Asked
  /\ UNCHANGED <<shown, busy, stream>>

\* "Ask anything" on the home page: a new dialogue and its first question in
\* the address.  The page mounts, asks it and takes it out of the address.
OpenWithMessage(c, k) ==
  /\ ~IsOpen
  /\ stream[k].state = "new"
  /\ page' = [Home EXCEPT !.conv = c, !.path = "/chat", !.message = k, !.direct = FALSE]
  /\ fetch' = Asked
  /\ shown' = <<Human(k)>>
  /\ busy' = TRUE
  /\ stream' = Posted(k, <<Human(k)>>)

\* Mutant: the button is not disabled.
SubmitAnyway(k) ==
  /\ IsOpen
  /\ stream[k].state = "new"
  /\ shown' = Append(shown, Human(k))
  /\ busy' = TRUE
  /\ stream' = Posted(k, Append(shown, Human(k)))
  /\ UNCHANGED <<page, fetch>>

handleChatSubmit(k) ==
  /\ IsOpen
  /\ ~busy
  /\ stream[k].state = "new"
  /\ shown' = Append(shown, Human(k))
  /\ busy' = TRUE
  /\ stream' = Posted(k, Append(shown, Human(k)))
  /\ UNCHANGED <<page, fetch>>

\* Mutant: the request does not depend on ?id.
SwitchUnrefreshed(c, path) ==
  /\ IsOpen /\ c # page.conv
  /\ page' = [page EXCEPT !.conv = c, !.path = path, !.message = NoChat, !.deleted = FALSE]
  /\ UNCHANGED <<shown, busy, fetch, stream>>

\* The list of dialogues, or back and forward: the address changes and nothing
\* else; an answer to the previous fetch will be ignored.
Switch(c, path) ==
  /\ IsOpen /\ c # page.conv
  /\ page' = [page EXCEPT !.conv = c, !.path = path, !.message = NoChat, !.deleted = FALSE]
  /\ fetch' = Asked
  /\ UNCHANGED <<shown, busy, stream>>

\* The page is unmounted.  Nothing aborts its streams.
Leave ==
  /\ IsOpen
  /\ page' = Home
  /\ shown' = <<>>
  /\ busy' = FALSE
  /\ fetch' = NoFetch
  /\ stream' = Dropped({"open"}, "unheard")

\* The open dialogue was deleted and the page stays as it is.
LoseDialogue ==
  /\ IsOpen
  /\ page' = [page EXCEPT !.deleted = TRUE]
  /\ UNCHANGED <<shown, busy, fetch, stream>>

\* The browser closes its connections and mounts what the address says now.
Reload ==
  /\ page' = [Home EXCEPT !.conv = page.conv, !.path = IF IsOpen THEN "/chat/" ELSE "/"]
  /\ shown' = <<>>
  /\ busy' = FALSE
  /\ fetch' = IF IsOpen THEN Asked ELSE NoFetch
  /\ stream' = Dropped({"open", "unheard"}, "closed")
-----------------------------------------------------------------------------
(* The network *)

HistoryAnswered(messages) ==
  /\ fetch.state = "asked"
  /\ fetch' = [state |-> "answered", messages |-> messages]
  /\ UNCHANGED <<page, shown, busy, stream>>

\* The effect that asks the initMessage depends on the number of messages, and
\* runs again when an empty history replaces the question.
InitialMessageAgain == page.message # NoChat /\ shown # <<>> /\ fetch.messages = <<>>

\* Mutant: it asks what useSearchParams still says.
HistoryAsksAgain ==
  /\ fetch.state = "answered"
  /\ shown' = IF InitialMessageAgain THEN <<Human(page.message)>> ELSE fetch.messages
  /\ fetch' = [state |-> "loaded", messages |-> <<>>]
  /\ stream' = IF InitialMessageAgain THEN Posted(page.message, shown') ELSE stream
  /\ UNCHANGED <<page, busy>>

\* It finds no message in the address any more, so handleChatSubmit returns at
\* once and onSubmit's "finally" frees the button.
HistoryArrives ==
  /\ fetch.state = "answered"
  /\ shown' = fetch.messages
  /\ busy' = (busy /\ ~InitialMessageAgain)
  /\ fetch' = [state |-> "loaded", messages |-> <<>>]
  /\ UNCHANGED <<page, stream>>

\* An error or ten seconds: a toast, and data that the page takes no notice of.
HistoryFails ==
  /\ fetch.state \in {"asked", "answered"}
  /\ fetch' = [state |-> "failed", messages |-> <<>>]
  /\ UNCHANGED <<page, shown, busy, stream>>

\* Mutant: appends to the messages on the page.
ChunkAppended(k, text) ==
  /\ stream[k].state = "open"
  /\ shown' = Append(shown, View(k, text))
  /\ stream' = [stream EXCEPT ![k].text = text]
  /\ UNCHANGED <<page, busy, fetch>>

\* onmessage: a chunk is the whole answer so far.
Chunk(k, text) ==
  /\ stream[k].state = "open"
  /\ shown' = Append(stream[k].before, View(k, text))
  /\ stream' = [stream EXCEPT ![k].text = text]
  /\ UNCHANGED <<page, busy, fetch>>

StreamEnds(k) ==
  /\ stream[k].state = "open"
  /\ busy' = FALSE
  /\ stream' = [stream EXCEPT ![k].state = "ended", ![k].before = <<>>]
  /\ UNCHANGED <<page, shown, fetch>>

\* onerror throws, so there is no retry; "Sorry, We meet some error".
StreamFails(k) ==
  /\ stream[k].state = "open"
  /\ shown' = Append(stream[k].before, View(k, "error"))
  /\ busy' = FALSE
  /\ stream' = [stream EXCEPT ![k].state = "failed", ![k].before = <<>>, ![k].text = "error"]
  /\ UNCHANGED <<page, fetch>>

\* The same for a stream whose page is gone.
UnheardFails(k) ==
  /\ stream[k].state = "unheard"
  /\ stream' = [stream EXCEPT ![k].state = "closed"]
  /\ UNCHANGED <<page, shown, busy, fetch>>
=============================================================================
