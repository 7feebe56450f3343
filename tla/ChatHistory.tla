----------------------------- MODULE ChatHistory -----------------------------
(***************************************************************************)
(* The rounds of the dialogues: chat requests, the table chat_history they *)
(* append to, and the editors and endpoints that change it.                *)
(*                                                                         *)
(* Everything runs on one event loop and a DuckdbHistoryMemory method does *)
(* not await, so reading the row and writing it back is one step.  A chat  *)
(* awaits the model between its first step, where it takes a copy of the   *)
(* history, and its last, where it appends its round.                      *)
(***************************************************************************)
EXTENDS Integers, Sequences, FiniteSets

CONSTANTS
  Conv,   \* conv_uid of the dialogues
  Chat,   \* chat requests
  Calm    \* dialogues of users who wait for each answer, with streams that do not break

ASSUME ChatAssumption == Calm \subseteq Conv

VARIABLES
  history,   \* the messages column of each dialogue, <<>> when there is no row
  chat,      \* the chat requests
  prompt     \* history: the dialogue's rounds each request took a copy of

vars == <<history, chat, prompt>>

\* chat_prepare for a dialogue, or a completion with or without streaming.
Kind == {"prepare", "nostream", "stream"}

\* edits counts how often the editors rewrote the round (a bound: up to 2);
\* views, how many answers stand below its question.
Round == [chat : Chat, chat_order : Nat \ {0}, edits : 0..2, views : 1..2]

TypeOK ==
  /\ history \in [Conv -> Seq(Round)]
  /\ chat \in [Chat -> [state : {"new", "waiting", "stored", "lost"},
                        conv : Conv, kind : Kind, chat_order : Nat]]
  /\ prompt \in [Chat -> SUBSET Chat]

Init ==
  /\ history = [c \in Conv |-> <<>>]
  /\ chat \in [Chat -> {[state |-> "new", conv |-> c, kind |-> kind, chat_order |-> 0] :
                        c \in Conv, kind \in Kind}]
  /\ prompt = [k \in Chat |-> {}]

Waiting(c) == {k \in Chat : chat[k].conv = c /\ chat[k].state = "waiting"}

\* A calm user does nothing to a dialogue while an answer is outstanding.
MayDisturb(c) == c \in Calm => Waiting(c) = {}

RoundOf(k, views) ==
  [chat |-> k, chat_order |-> chat[k].chat_order, edits |-> 0, views |-> views]
-----------------------------------------------------------------------------
(* Chats *)

\* Mutant: "+ 1" is forgotten.
BeginFromZero(k) ==
  LET c == chat[k].conv IN
  /\ chat[k].state = "new" /\ MayDisturb(c)
  /\ chat' = [chat EXCEPT ![k].state = "waiting", ![k].chat_order = Len(history[c])]
  /\ prompt' = [prompt EXCEPT ![k] = {history[c][i].chat : i \in DOMAIN history[c]}]
  /\ UNCHANGED history

Begun(k) == [state |-> "waiting", conv |-> chat[k].conv, kind |-> chat[k].kind,
             chat_order |-> Len(history[chat[k].conv]) + 1]

\* Mutant: a round more, index = chat_retention_rounds.
histroy_window_long(rounds, n) ==
  IF rounds > n
  THEN <<1>> \o [i \in 1..n |-> rounds - n + i]
  ELSE [i \in 1..rounds |-> i]

\* __load_histroy_messages: the rounds of the copy that go into the prompt, when
\* chat_retention_rounds is n.  "[-0:]" would be all of them, hence the test.
histroy_window(rounds, n) ==
  IF rounds > n
  THEN <<1>> \o [i \in 1..(IF n > 1 THEN n - 1 ELSE 0) |-> rounds - (n - 1) + i]
  ELSE [i \in 1..rounds |-> i]

\* BaseChat.__init__ copies the history and __call_base numbers the round.
Begin(k) ==
  LET c == chat[k].conv IN
  /\ chat[k].state = "new" /\ MayDisturb(c)
  /\ chat' = [chat EXCEPT ![k] = Begun(k)]
  /\ prompt' = [prompt EXCEPT ![k] = {history[c][i].chat : i \in DOMAIN history[c]}]
  /\ UNCHANGED history

Complete(k) ==
  /\ chat[k].kind # "prepare"
  /\ Begin(k)

\* Mutant: the dialogue is not looked at.
PrepareAnyway(k) ==
  /\ chat[k].kind = "prepare"
  /\ Begin(k)

\* chat_prepare and ChatExcel.prepare: a round in which the model learns the
\* table, without streaming, and only for a dialogue that has no round.
Prepare(k) ==
  /\ chat[k].kind = "prepare"
  /\ history[chat[k].conv] = <<>>
  /\ Begin(k)

\* Mutants: writes the copy of __init__ back with the round; inserts in front.
append_to_copy(k, rounds) ==
  history' = [history EXCEPT ![chat[k].conv] =
    SubSeq(@, 1, chat[k].chat_order - 1) \o rounds]
append_in_front(k, rounds) ==
  history' = [history EXCEPT ![chat[k].conv] = rounds \o @]

\* Reads the row again before it writes.
append(k, rounds) ==
  history' = [history EXCEPT ![chat[k].conv] = @ \o rounds]

\* Mutant: the error path stores the round too.
AnsweredTwice(k) ==
  /\ chat[k].state = "waiting"
  /\ append(k, <<RoundOf(k, 1), RoundOf(k, 1)>>)
  /\ chat' = [chat EXCEPT ![k].state = "stored"]
  /\ UNCHANGED prompt

\* nostream_call stores its round, error or not; a stream that came to its end
\* is stored by stream_generator.
Answered(k) ==
  /\ chat[k].state = "waiting"
  /\ append(k, <<RoundOf(k, 1)>>)
  /\ chat' = [chat EXCEPT ![k].state = "stored"]
  /\ UNCHANGED prompt

\* worker_manager.generate_stream raises: stream_call adds the error to the round,
\* stores it and ends like any generator, so stream_generator adds what has been
\* sent to the same round and stores it as well.
StreamBreaks(k) ==
  /\ chat[k].state = "waiting" /\ chat[k].kind = "stream"
  /\ chat[k].conv \notin Calm
  /\ append(k, <<RoundOf(k, 1), RoundOf(k, 2)>>)
  /\ chat' = [chat EXCEPT ![k].state = "stored"]
  /\ UNCHANGED prompt

\* The client is gone (a cancellation is no Exception), or the prompt cannot be
\* built, or a chunk cannot be parsed: nothing is stored.
Lost(k) ==
  /\ chat[k].state = "waiting"
  /\ chat' = [chat EXCEPT ![k].state = "lost"]
  /\ UNCHANGED <<history, prompt>>
-----------------------------------------------------------------------------
(* Other requests *)

dialogue_delete(c) ==
  /\ MayDisturb(c)
  /\ history[c] # <<>>
  /\ history' = [history EXCEPT ![c] = <<>>]
  /\ UNCHANGED <<chat, prompt>>

Edited(round) == [round EXCEPT !.edits = @ + 1]

Edit(c, i) ==
  /\ history[c][i].edits < 2
  /\ history' = [history EXCEPT ![c] = [history[c] EXCEPT ![i] = Edited(history[c][i])]]
  /\ UNCHANGED <<chat, prompt>>

\* The first round with the number the editor shows; there may be none.
sql_editor_submit(c, conv_round) ==
  \E i \in DOMAIN history[c] :
    /\ history[c][i].chat_order = conv_round
    /\ \A j \in 1..(i - 1) : history[c][j].chat_order # conv_round
    /\ Edit(c, i)

\* The first of the rounds with the greatest number.
chart_editor_submit(c) ==
  \E i \in DOMAIN history[c] :
    /\ \A j \in DOMAIN history[c] :
         IF j < i THEN history[c][j].chat_order < history[c][i].chat_order
                  ELSE history[c][j].chat_order <= history[c][i].chat_order
    /\ Edit(c, i)

Next ==
  \/ \E k \in Chat : Complete(k) \/ Prepare(k) \/ Answered(k) \/ StreamBreaks(k) \/ Lost(k)
  \/ \E c \in Conv :
       \/ dialogue_delete(c) \/ chart_editor_submit(c)
       \/ \E n \in 1..Cardinality(Chat) : sql_editor_submit(c, n)

Spec == Init /\ [][Next]_vars
-----------------------------------------------------------------------------
(* Properties *)

\* In a calm dialogue the n-th round has the number n, through lost rounds,
\* deletions and edits, so a number names one round and the greatest number is
\* the last round's: what the editors rely on.
CalmRoundsAreNumbered ==
  \A c \in Calm : \A i \in DOMAIN history[c] : history[c][i].chat_order = i

\* No chat, editor or failure drops, reorders or overwrites a round of another
\* chat, however requests overlap: a dialogue grows at its end or is deleted.
RoundsSurvive ==
  [][\A c \in Conv : history'[c] = <<>> \/
       /\ Len(history[c]) <= Len(history'[c])
       /\ \A i \in DOMAIN history[c] :
            history'[c][i].chat = history[c][i].chat
            /\ history'[c][i].edits >= history[c][i].edits]_vars

\* A round answers to the dialogue its author saw: in a calm dialogue every
\* round was asked with all earlier rounds in view and none of a deleted one.
CalmRoundsFollow ==
  \A c \in Calm : \A i \in DOMAIN history[c] :
    prompt[history[c][i].chat] = {history[c][j].chat : j \in 1..(i - 1)}

\* A calm dialogue learns its table at most once, before anything else is said:
\* ChatExcel sends only the first round of the history along.
CalmLearnsFirst ==
  \A c \in Calm : \A i \in DOMAIN history[c] :
    chat[history[c][i].chat].kind = "prepare" => i = 1

\* The model is sent the first round and the most recent ones, n in all where n
\* is not 0, in their order and none of them twice, at whatever length the
\* dialogue crosses the limit.
WindowIsFirstAndRecent ==
  \A c \in Conv : \A n \in 0..Cardinality(Chat) :
    LET rounds == Len(history[c])
        window == histroy_window(rounds, n) IN
    /\ \A i, j \in DOMAIN window : i < j => window[i] < window[j]
    /\ {window[i] : i \in DOMAIN window} =
         {i \in 1..rounds : i = 1 \/ i > rounds - (n - 1)}

\* "Chat sequence advance" (base_chat.py:105): the number of a round is greater
\* than those of the rounds before it.
SequenceAdvances ==
  \A c \in Conv : \A i, j \in DOMAIN history[c] :
    i < j => history[c][i].chat_order < history[c][j].chat_order
=============================================================================
