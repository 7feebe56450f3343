----------------------------- MODULE WebChatProofs -----------------------------
(***************************************************************************)
(* What the chat page keeps true whatever its user does and in whatever    *)
(* order answers, histories and failures come in.                          *)
(***************************************************************************)
EXTENDS WebChat, TLAPS

\* The i-th message stands right below its question or, when it answers a question
\* of B, below another stored answer to it.
Follows(s, i, B) ==
  LET k == s[i].chat IN
  /\ i > 1
  /\ \/ s[i - 1] = Human(k)
     \/ k \in B /\ s[i - 1] = View(k, "all")

Paired(s, B) == \A i \in DOMAIN s : s[i].role = "view" => Follows(s, i, B)

\* What the page shows, has fetched, and goes back to with each chunk is paired.
\* B: the questions that the server may have stored two answers to.
WebPaired(B) ==
  /\ Paired(shown, B)
  /\ Paired(fetch.messages, B)
  /\ \A k \in Heard :
       LET s == stream[k].before IN s # <<>> /\ s[Len(s)] = Human(k) /\ Paired(s, B)

\* The button is disabled by an answer that is awaited, and without an initial
\* message by each.
WebLock ==
  /\ busy => Heard # {}
  /\ page.direct => page.message = NoChat /\ (Heard # {} => busy)
                    /\ \A j, k \in Heard : j = k
  /\ ~IsOpen => Heard = {} /\ ~busy /\ page.direct

WebPosts == \A k \in Chat : stream[k].posts = IF stream[k].state = "new" THEN 0 ELSE 1

WebFetch == fetch.state # "none" => IsOpen

WebInv(B) == WebTypeOK /\ WebPaired(B) /\ WebLock /\ WebPosts /\ WebFetch

\* The operations of the page but for the end of a stream, for histories that
\* are paired.
WebQuiet(B) ==
  \/ Leave \/ Reload \/ LoseDialogue
  \/ \E c \in Conv :
       \/ \E path \in ChatPath : Open(c, path) \/ Switch(c, path)
       \/ \E k \in Chat : OpenWithMessage(c, k)
  \/ \E s \in Seq(Message) : Paired(s, B) /\ HistoryAnswered(s)
  \/ HistoryArrives \/ HistoryFails
  \/ \E k \in Chat :
       \/ handleChatSubmit(k) \/ StreamFails(k) \/ UnheardFails(k)
       \/ \E text \in Text : Chunk(k, text)

WebStep(B) == WebQuiet(B) \/ \E k \in Chat : StreamEnds(k)
-----------------------------------------------------------------------------
(* Messages *)

(* Questions and answers are messages. *)
LEMMA MessageTypes ==
  ASSUME NEW k \in Chat
  PROVE  /\ Human(k) \in Message /\ Human(k).role # "view"
         /\ \A text \in Text : /\ View(k, text) \in Message
                               /\ View(k, text).chat = k
BY DEF Human, View, Message, Text

(* Nothing is paired wrongly where there is nothing. *)
LEMMA EmptyPaired == <<>> \in Seq(Message) /\ \A B : Paired(<<>>, B)
BY DEF Paired

(* A question may follow anything. *)
LEMMA QuestionPaired ==
  ASSUME NEW B, NEW k \in Chat, NEW s \in Seq(Message), Paired(s, B)
  PROVE  LET t == Append(s, Human(k)) IN
         /\ t \in Seq(Message) /\ t # <<>> /\ t[Len(t)] = Human(k) /\ Paired(t, B)
<1> DEFINE t == Append(s, Human(k))
<1>1. Human(k) \in Message /\ Human(k).role # "view"
  BY MessageTypes
<1>2. /\ t \in Seq(Message) /\ Len(t) = Len(s) + 1 /\ t[Len(t)] = Human(k)
      /\ \A i \in 1..Len(s) : t[i] = s[i]
  BY <1>1
<1>3. Paired(t, B)
  <2> SUFFICES ASSUME NEW i \in DOMAIN t, t[i].role = "view"
               PROVE  Follows(t, i, B)
    BY DEF Paired
  <2>1. i \in 1..(Len(s) + 1) /\ Len(s) \in Nat
    BY <1>2
  <2>2. i # Len(s) + 1
    BY <1>1, <1>2
  <2>3. i \in 1..Len(s) /\ i \in DOMAIN s
    BY <2>1, <2>2
  <2>4. t[i] = s[i]
    BY <1>2, <2>3
  <2>5. Follows(s, i, B)
    BY <2>3, <2>4 DEF Paired
  <2>6. t[i - 1] = s[i - 1]
    BY <1>2, <2>3, <2>5 DEF Follows
  <2> QED
    BY <2>4, <2>5, <2>6 DEF Follows
<1> QED
  BY <1>2, <1>3

(* An answer follows what ends with its question, or with a stored answer to  *)
(* it if that may be followed by another.                                     *)
LEMMA AnswerPaired ==
  ASSUME NEW B, NEW k \in Chat, NEW text \in Text, NEW s \in Seq(Message),
         s # <<>>, Paired(s, B),
         s[Len(s)] = Human(k) \/ (k \in B /\ s[Len(s)] = View(k, "all"))
  PROVE  Append(s, View(k, text)) \in Seq(Message) /\ Paired(Append(s, View(k, text)), B)
<1> DEFINE t == Append(s, View(k, text))
<1>1. View(k, text) \in Message /\ View(k, text).chat = k
  BY MessageTypes
<1>2. /\ t \in Seq(Message) /\ Len(t) = Len(s) + 1 /\ t[Len(s) + 1] = View(k, text)
      /\ \A i \in 1..Len(s) : t[i] = s[i]
  BY <1>1
<1>3. Len(s) \in Nat /\ Len(s) >= 1
  OBVIOUS
<1>4. Paired(t, B)
  <2> SUFFICES ASSUME NEW i \in DOMAIN t, t[i].role = "view"
               PROVE  Follows(t, i, B)
    BY DEF Paired
  <2>1. i \in 1..(Len(s) + 1)
    BY <1>2
  <2>2. CASE i = Len(s) + 1
    <3>1. t[i] = View(k, text) /\ i - 1 = Len(s) /\ i > 1
      BY <1>2, <1>3, <2>2
    <3>2. t[i - 1] = s[Len(s)]
      BY <1>2, <1>3, <3>1
    <3> QED
      BY <1>1, <3>1, <3>2 DEF Follows
  <2>3. CASE i \in 1..Len(s)
    <3>1. t[i] = s[i] /\ i \in DOMAIN s
      BY <1>2, <2>3
    <3>2. Follows(s, i, B)
      BY <3>1 DEF Paired
    <3>3. t[i - 1] = s[i - 1]
      BY <1>2, <2>3, <3>2 DEF Follows
    <3> QED
      BY <3>1, <3>2, <3>3 DEF Follows
  <2> QED
    BY <1>3, <2>1, <2>2, <2>3
<1> QED
  BY <1>2, <1>4

(* What is paired stays so when more questions may have two answers. *)
LEMMA MorePaired ==
  ASSUME NEW B, NEW C, B \subseteq C, NEW s, Paired(s, B)
  PROVE  Paired(s, C)
BY DEF Paired, Follows
-----------------------------------------------------------------------------
(* Streams *)

\* A stream as it is while its page listens to it.
Listening(k, t, B) ==
  /\ t.before \in Seq(Message) /\ t.before # <<>>
  /\ t.before[Len(t.before)] = Human(k) /\ Paired(t.before, B)

\* What is known of a stream.
StreamInv(k, t, B) ==
  /\ t \in Stream
  /\ t.state = "open" => Listening(k, t, B)
  /\ t.posts = IF t.state = "new" THEN 0 ELSE 1

(* The streams are as they should be when each of them is. *)
LEMMA StreamByStream ==
  ASSUME NEW B, stream \in [Chat -> Stream], WebPosts,
         \A k \in Heard :
           LET s == stream[k].before IN s # <<>> /\ s[Len(s)] = Human(k) /\ Paired(s, B)
  PROVE  \A k \in Chat : StreamInv(k, stream[k], B)
BY DEF WebPosts, StreamInv, Listening, Heard, Stream

(* And conversely, after a step that changes one of them. *)
LEMMA OneStream ==
  ASSUME NEW B, \A k \in Chat : StreamInv(k, stream[k], B), stream \in [Chat -> Stream],
         NEW k \in Chat, NEW t, StreamInv(k, t, B), stream' = [stream EXCEPT ![k] = t]
  PROVE  /\ stream' \in [Chat -> Stream]
         /\ \A j \in Chat : StreamInv(j, stream'[j], B)
         /\ t.state = "open" => Heard' = Heard \cup {k}
         /\ t.state # "open" => Heard' = Heard \ {k}
<1>1. stream' \in [Chat -> Stream] /\ \A j \in Chat : stream'[j] = IF j = k THEN t ELSE stream[j]
  BY DEF StreamInv
<1>2. \A j \in Chat : StreamInv(j, stream'[j], B)
  BY <1>1
<1>3. /\ t.state = "open" => Heard' = Heard \cup {k}
      /\ t.state # "open" => Heard' = Heard \ {k}
  BY <1>1 DEF Heard
<1> QED
  BY <1>1, <1>2, <1>3

(* A question is posted. *)
LEMMA Asking ==
  ASSUME NEW B, \A k \in Chat : StreamInv(k, stream[k], B), stream \in [Chat -> Stream],
         NEW k \in Chat, stream[k].state = "new", NEW s \in Seq(Message), Paired(s, B),
         stream' = Posted(k, Append(s, Human(k)))
  PROVE  /\ stream' \in [Chat -> Stream]
         /\ \A j \in Chat : StreamInv(j, stream'[j], B)
         /\ Heard' = Heard \cup {k}
<1> DEFINE q == Append(s, Human(k))
           t == [state |-> "open", before |-> q, text |-> "none", posts |-> 1]
<1>1. q \in Seq(Message) /\ q # <<>> /\ q[Len(q)] = Human(k) /\ Paired(q, B)
  BY QuestionPaired
<1>2. stream[k].posts = 0
  BY DEF StreamInv
<1>3. stream' = [stream EXCEPT ![k] = t]
  BY <1>2 DEF Posted
<1>4. t \in Stream
  BY <1>1 DEF Stream, Text
<1>5. StreamInv(k, t, B)
  BY <1>1, <1>4 DEF StreamInv, Listening
<1>6. t.state = "open"
  OBVIOUS
<1> HIDE DEF t, q
<1> QED
  BY <1>3, <1>5, <1>6, OneStream

(* A stream is over, well or not. *)
LEMMA Over ==
  ASSUME NEW B, \A k \in Chat : StreamInv(k, stream[k], B), stream \in [Chat -> Stream],
         NEW k \in Chat, stream[k].state # "new",
         NEW t \in Stream, t.state \in {"closed", "ended", "failed"},
         t.posts = stream[k].posts, stream' = [stream EXCEPT ![k] = t]
  PROVE  /\ stream' \in [Chat -> Stream]
         /\ \A j \in Chat : StreamInv(j, stream'[j], B)
         /\ Heard' = Heard \ {k}
<1>1. StreamInv(k, t, B) /\ t.state # "open"
  BY DEF StreamInv
<1> QED
  BY <1>1, OneStream

(* The page goes away: no stream is heard any more. *)
LEMMA AllDropped ==
  ASSUME NEW B, \A k \in Chat : StreamInv(k, stream[k], B), stream \in [Chat -> Stream],
         NEW states \in SUBSET {"open", "unheard"}, "open" \in states,
         NEW to \in {"unheard", "closed"}, stream' = Dropped(states, to)
  PROVE  /\ stream' \in [Chat -> Stream]
         /\ \A k \in Chat : StreamInv(k, stream'[k], B)
         /\ Heard' = {}
<1>1. ASSUME NEW k \in Chat
      PROVE  StreamInv(k, stream'[k], B) /\ stream'[k].state # "open"
  <2>1. CASE stream[k].state \in states
    <3>1. stream'[k] = [stream[k] EXCEPT !.state = to, !.before = <<>>, !.text = "none"]
      BY <2>1 DEF Dropped
    <3>2. /\ stream[k] \in Stream /\ stream[k].posts = 1
          /\ stream[k].state # "new"
      BY <2>1 DEF StreamInv
    <3>3. stream'[k] = [state |-> to, before |-> <<>>, text |-> "none", posts |-> 1]
      BY <3>1, <3>2 DEF Stream
    <3>4. <<>> \in Seq(Message) /\ "none" \in Text
          /\ to \in {"new", "open", "unheard", "closed", "ended", "failed"}
      BY DEF Text
    <3>5. stream'[k] \in Stream
      BY <3>3, <3>4 DEF Stream
    <3> QED
      BY <3>3, <3>5 DEF StreamInv
  <2>2. CASE stream[k].state \notin states
    BY <2>2 DEF Dropped, StreamInv
  <2> QED
    BY <2>1, <2>2
<1>2. stream' \in [Chat -> Stream]
  BY <1>1 DEF Dropped, StreamInv
<1> QED
  BY <1>1, <1>2 DEF Heard

(* What the invariant says of the streams after a step. *)
LEMMA WebFromStreams ==
  ASSUME NEW B, stream' \in [Chat -> Stream], \A k \in Chat : StreamInv(k, stream'[k], B)
  PROVE  /\ WebPosts'
         /\ \A k \in Heard' :
              LET s == stream'[k].before IN s # <<>> /\ s[Len(s)] = Human(k) /\ Paired(s, B)
BY DEF WebPosts, StreamInv, Listening, Heard

(* A step that leaves the streams alone. *)
LEMMA SameStreams ==
  ASSUME NEW B, WebInv(B), stream' = stream
  PROVE  /\ stream' \in [Chat -> Stream] /\ Heard' = Heard
         /\ \A k \in Chat : StreamInv(k, stream'[k], B)
<1>1. stream \in [Chat -> Stream]
  BY DEF WebInv, WebTypeOK
<1>2. \A k \in Chat : StreamInv(k, stream[k], B)
  BY <1>1, StreamByStream DEF WebInv, WebPaired
<1>3. Heard' = Heard
  BY DEF Heard
<1> QED
  BY <1>1, <1>2, <1>3

(* What is left to show of a step once its streams are right. *)
LEMMA WebInvFrom ==
  ASSUME NEW B, stream' \in [Chat -> Stream], \A k \in Chat : StreamInv(k, stream'[k], B),
         page' \in Page,
         shown' \in Seq(Message), Paired(shown', B), busy' \in BOOLEAN,
         fetch' \in [state : {"none", "asked", "answered", "loaded", "failed"},
                     messages : Seq(Message)],
         Paired(fetch'.messages, B), WebLock', WebFetch'
  PROVE  WebInv(B)'
<1>1. WebPosts' /\ WebPaired(B)'
  BY WebFromStreams DEF WebPaired
<1> QED
  BY <1>1 DEF WebInv, WebTypeOK

-----------------------------------------------------------------------------
(* The steps of the page *)

(* Every operation of the page keeps its invariant. *)
LEMMA WebStepKeeps ==
  ASSUME NEW B, WebInv(B), WebStep(B)
  PROVE  WebInv(B)'
<1> DEFINE Fetch == [state : {"none", "asked", "answered", "loaded", "failed"},
                    messages : Seq(Message)]
<1>t. /\ page \in Page /\ shown \in Seq(Message) /\ busy \in BOOLEAN /\ fetch \in Fetch
      /\ stream \in [Chat -> Stream]
  BY DEF WebInv, WebTypeOK
<1>p. Paired(shown, B) /\ Paired(fetch.messages, B) /\ WebLock /\ WebFetch
  BY DEF WebInv, WebPaired
<1>s. \A k \in Chat : StreamInv(k, stream[k], B)
  BY <1>t, StreamByStream DEF WebInv, WebPaired
<1>h. /\ Home \in Page /\ Home.conv = NoConv /\ Home.message = NoChat /\ Home.direct
      /\ NoFetch \in Fetch /\ Paired(NoFetch.messages, B) /\ NoFetch.state = "none"
      /\ Asked \in Fetch /\ Paired(Asked.messages, B)
  BY EmptyPaired DEF Home, Page, ChatPath, NoFetch, Asked
<1>1. CASE Leave
  <2>1. /\ stream' \in [Chat -> Stream] /\ Heard' = {}
        /\ \A k \in Chat : StreamInv(k, stream'[k], B)
    BY <1>1, <1>t, <1>s, AllDropped DEF Leave
  <2>2. WebLock' /\ WebFetch'
    BY <1>1, <1>h, <2>1 DEF Leave, WebLock, WebFetch, IsOpen
  <2> QED
    BY <1>1, <1>h, <2>1, <2>2, EmptyPaired, WebInvFrom DEF Leave
<1>2. CASE Reload
  <2>1. /\ stream' \in [Chat -> Stream] /\ Heard' = {}
        /\ \A k \in Chat : StreamInv(k, stream'[k], B)
    BY <1>2, <1>t, <1>s, AllDropped DEF Reload
  <2>2. /\ page' \in Page /\ page'.message = NoChat /\ page'.direct /\ IsOpen' = IsOpen
        /\ fetch' \in Fetch /\ Paired(fetch'.messages, B)
    BY <1>2, <1>t, <1>h DEF Reload, IsOpen, Home, Page, ChatPath
  <2>3. WebLock' /\ WebFetch'
    BY <1>2, <1>h, <2>1, <2>2 DEF Reload, WebLock, WebFetch, IsOpen
  <2> QED
    BY <1>2, <2>1, <2>2, <2>3, EmptyPaired, WebInvFrom DEF Reload
<1>3. ASSUME NEW c \in Conv, NEW path \in ChatPath, Open(c, path) PROVE WebInv(B)'
  <2>1. /\ stream' \in [Chat -> Stream] /\ Heard' = Heard
        /\ \A k \in Chat : StreamInv(k, stream'[k], B)
    BY <1>3, SameStreams DEF Open
  <2>2. page' \in Page /\ page'.message = NoChat /\ page'.direct /\ IsOpen'
    BY <1>3, WebAssumption DEF Open, IsOpen, Home, Page
  <2>3. WebLock' /\ WebFetch'
    BY <1>3, <1>p, <2>1, <2>2 DEF Open, WebLock, WebFetch, IsOpen
  <2> QED
    BY <1>3, <1>t, <1>p, <1>h, <2>1, <2>2, <2>3, WebInvFrom DEF Open
<1>4. ASSUME NEW c \in Conv, NEW path \in ChatPath, Switch(c, path) PROVE WebInv(B)'
  <2>1. /\ stream' \in [Chat -> Stream] /\ Heard' = Heard
        /\ \A k \in Chat : StreamInv(k, stream'[k], B)
    BY <1>4, SameStreams DEF Switch
  <2>2. /\ page' \in Page /\ page'.message = NoChat /\ page'.direct = page.direct
        /\ IsOpen' /\ IsOpen
    BY <1>4, <1>t, WebAssumption DEF Switch, IsOpen, Page
  <2>3. WebLock' /\ WebFetch'
    BY <1>4, <1>p, <2>1, <2>2 DEF Switch, WebLock, WebFetch
  <2> QED
    BY <1>4, <1>t, <1>p, <1>h, <2>1, <2>2, <2>3, WebInvFrom DEF Switch
<1>5. ASSUME NEW c \in Conv, NEW k \in Chat, OpenWithMessage(c, k) PROVE WebInv(B)'
  <2>1. Append(<<>>, Human(k)) = <<Human(k)>>
    OBVIOUS
  <2>2. /\ stream' \in [Chat -> Stream] /\ Heard' = Heard \cup {k}
        /\ \A j \in Chat : StreamInv(j, stream'[j], B)
    BY <1>5, <1>t, <1>s, <2>1, EmptyPaired, Asking DEF OpenWithMessage
  <2>3. shown' \in Seq(Message) /\ Paired(shown', B)
    BY <1>5, <2>1, EmptyPaired, QuestionPaired DEF OpenWithMessage
  <2>4. page' \in Page /\ ~page'.direct /\ IsOpen'
    BY <1>5, WebAssumption DEF OpenWithMessage, IsOpen, Home, Page, ChatPath
  <2>5. WebLock' /\ WebFetch'
    BY <1>5, <2>2, <2>4 DEF OpenWithMessage, WebLock, WebFetch
  <2> QED
    BY <1>5, <1>h, <2>2, <2>3, <2>4, <2>5, WebInvFrom DEF OpenWithMessage
<1>6. ASSUME NEW k \in Chat, handleChatSubmit(k) PROVE WebInv(B)'
  <2>1. /\ stream' \in [Chat -> Stream] /\ Heard' = Heard \cup {k}
        /\ \A j \in Chat : StreamInv(j, stream'[j], B)
    BY <1>6, <1>t, <1>p, <1>s, Asking DEF handleChatSubmit
  <2>2. shown' \in Seq(Message) /\ Paired(shown', B)
    BY <1>6, <1>t, <1>p, QuestionPaired DEF handleChatSubmit
  <2>3. page' = page /\ fetch' = fetch /\ busy' /\ ~busy /\ IsOpen /\ IsOpen'
    BY <1>6 DEF handleChatSubmit, IsOpen
  <2>4. busy' \in BOOLEAN
    BY <1>6 DEF handleChatSubmit
  <2>5. page.direct => Heard' = {k}
    BY <1>p, <2>1, <2>3 DEF WebLock
  <2>6. WebLock' /\ WebFetch'
    BY <1>p, <2>1, <2>3, <2>5 DEF WebLock, WebFetch
  <2> QED
    BY <1>t, <1>p, <2>1, <2>2, <2>3, <2>4, <2>6, WebInvFrom
<1>7. ASSUME NEW s \in Seq(Message), Paired(s, B), HistoryAnswered(s) PROVE WebInv(B)'
  <2>1. /\ stream' \in [Chat -> Stream] /\ Heard' = Heard
        /\ \A k \in Chat : StreamInv(k, stream'[k], B)
    BY <1>7, SameStreams DEF HistoryAnswered
  <2>2. page' = page /\ shown' = shown /\ busy' = busy /\ IsOpen' = IsOpen
    BY <1>7 DEF HistoryAnswered, IsOpen
  <2>3. fetch' \in Fetch /\ fetch'.messages = s /\ fetch.state # "none"
    BY <1>7 DEF HistoryAnswered
  <2>4. WebLock' /\ WebFetch'
    BY <1>p, <2>1, <2>2, <2>3 DEF WebLock, WebFetch
  <2> QED
    BY <1>7, <1>t, <1>p, <2>1, <2>2, <2>3, <2>4, WebInvFrom
<1>8. CASE HistoryArrives
  <2>1. /\ stream' \in [Chat -> Stream] /\ Heard' = Heard
        /\ \A k \in Chat : StreamInv(k, stream'[k], B)
    BY <1>8, SameStreams DEF HistoryArrives
  <2>2. page' = page /\ shown' = fetch.messages /\ IsOpen' = IsOpen
    BY <1>8 DEF HistoryArrives, IsOpen
  <2>3. fetch' \in Fetch /\ Paired(fetch'.messages, B) /\ fetch.state # "none"
    BY <1>8, EmptyPaired DEF HistoryArrives
  <2>4. /\ busy' \in BOOLEAN /\ (busy' => busy)
        /\ page.message = NoChat => busy' = busy
    BY <1>8, <1>t DEF HistoryArrives, InitialMessageAgain
  <2>5. WebLock' /\ WebFetch'
    BY <1>p, <2>1, <2>2, <2>3, <2>4 DEF WebLock, WebFetch
  <2>6. shown' \in Seq(Message) /\ Paired(shown', B)
    BY <1>t, <1>p, <2>2
  <2> QED
    BY <1>t, <2>1, <2>2, <2>3, <2>4, <2>5, <2>6, WebInvFrom
<1>9. CASE HistoryFails
  <2>1. /\ stream' \in [Chat -> Stream] /\ Heard' = Heard
        /\ \A k \in Chat : StreamInv(k, stream'[k], B)
    BY <1>9, SameStreams DEF HistoryFails
  <2>2. page' = page /\ shown' = shown /\ busy' = busy /\ IsOpen' = IsOpen
    BY <1>9 DEF HistoryFails, IsOpen
  <2>3. fetch' \in Fetch /\ Paired(fetch'.messages, B) /\ fetch.state # "none"
    BY <1>9, EmptyPaired DEF HistoryFails
  <2>4. WebLock' /\ WebFetch'
    BY <1>p, <2>1, <2>2, <2>3 DEF WebLock, WebFetch
  <2> QED
    BY <1>t, <1>p, <2>1, <2>2, <2>3, <2>4, WebInvFrom
<1>10. ASSUME NEW k \in Chat, NEW text \in Text, Chunk(k, text) PROVE WebInv(B)'
  <2> DEFINE t == [stream[k] EXCEPT !.text = text]
  <2>1. stream[k].state = "open" /\ stream[k] \in Stream /\ Listening(k, stream[k], B)
    BY <1>10, <1>t, <1>s DEF Chunk, StreamInv
  <2>2. /\ t \in Stream /\ t.state = "open" /\ t.before = stream[k].before
        /\ t.posts = stream[k].posts
    BY <2>1 DEF Stream
  <2>3. StreamInv(k, t, B)
    BY <1>s, <2>1, <2>2 DEF StreamInv, Listening
  <2>4. stream' = [stream EXCEPT ![k] = t]
    BY <1>10 DEF Chunk
  <2> HIDE DEF t
  <2>5. /\ stream' \in [Chat -> Stream] /\ Heard' = Heard \cup {k}
        /\ \A j \in Chat : StreamInv(j, stream'[j], B)
    BY <1>t, <1>s, <2>2, <2>3, <2>4, OneStream
  <2>6. Heard' = Heard
    BY <2>1, <2>5 DEF Heard
  <2>7. shown' \in Seq(Message) /\ Paired(shown', B)
    BY <1>10, <2>1, AnswerPaired DEF Chunk, Listening
  <2>8. page' = page /\ busy' = busy /\ fetch' = fetch /\ IsOpen' = IsOpen
    BY <1>10 DEF Chunk, IsOpen
  <2>9. WebLock' /\ WebFetch'
    BY <1>p, <2>6, <2>8 DEF WebLock, WebFetch
  <2> QED
    BY <1>t, <1>p, <2>5, <2>7, <2>8, <2>9, WebInvFrom
<1>11. ASSUME NEW k \in Chat, StreamEnds(k) PROVE WebInv(B)'
  <2>1. stream[k].state = "open" /\ stream[k] \in Stream /\ k \in Heard
    BY <1>11, <1>t DEF StreamEnds, Heard
  <2> DEFINE t == [stream[k] EXCEPT !.state = "ended", !.before = <<>>]
  <2>2. stream' = [stream EXCEPT ![k] = t]
    BY <1>t, <1>11 DEF StreamEnds
  <2>3. t \in Stream /\ t.state = "ended" /\ t.posts = stream[k].posts
    BY <2>1, EmptyPaired DEF Stream, Text
  <2> HIDE DEF t
  <2>4. /\ stream' \in [Chat -> Stream] /\ Heard' = Heard \ {k}
        /\ \A j \in Chat : StreamInv(j, stream'[j], B)
    BY <1>t, <1>s, <2>1, <2>2, <2>3, Over
  <2>5. page' = page /\ ~busy' /\ busy' \in BOOLEAN /\ fetch' = fetch /\ shown' = shown
        /\ IsOpen' = IsOpen
    BY <1>11 DEF StreamEnds, IsOpen
  <2>6. WebLock' /\ WebFetch'
    BY <1>p, <2>1, <2>4, <2>5 DEF WebLock, WebFetch
  <2> QED
    BY <1>t, <1>p, <2>4, <2>5, <2>6, WebInvFrom
<1>12. ASSUME NEW k \in Chat, StreamFails(k) PROVE WebInv(B)'
  <2>1. /\ stream[k].state = "open" /\ stream[k] \in Stream /\ k \in Heard
        /\ Listening(k, stream[k], B)
    BY <1>12, <1>t, <1>s DEF StreamFails, Heard, StreamInv
  <2> DEFINE t == [stream[k] EXCEPT !.state = "failed", !.before = <<>>, !.text = "error"]
  <2>2. stream' = [stream EXCEPT ![k] = t]
    BY <1>t, <1>12 DEF StreamFails
  <2>3. t \in Stream /\ t.state = "failed" /\ t.posts = stream[k].posts
    BY <2>1, EmptyPaired DEF Stream, Text
  <2> HIDE DEF t
  <2>4. /\ stream' \in [Chat -> Stream] /\ Heard' = Heard \ {k}
        /\ \A j \in Chat : StreamInv(j, stream'[j], B)
    BY <1>t, <1>s, <2>1, <2>2, <2>3, Over
  <2>5. page' = page /\ ~busy' /\ busy' \in BOOLEAN /\ fetch' = fetch /\ IsOpen' = IsOpen
    BY <1>12 DEF StreamFails, IsOpen
  <2>6. shown' \in Seq(Message) /\ Paired(shown', B)
    BY <1>12, <2>1, AnswerPaired DEF StreamFails, Listening, Text
  <2>7. WebLock' /\ WebFetch'
    BY <1>p, <2>1, <2>4, <2>5 DEF WebLock, WebFetch
  <2> QED
    BY <1>t, <1>p, <2>4, <2>5, <2>6, <2>7, WebInvFrom
<1>13. ASSUME NEW k \in Chat, UnheardFails(k) PROVE WebInv(B)'
  <2>1. stream[k].state = "unheard" /\ stream[k] \in Stream /\ k \notin Heard
    BY <1>13, <1>t DEF UnheardFails, Heard
  <2> DEFINE t == [stream[k] EXCEPT !.state = "closed"]
  <2>2. stream' = [stream EXCEPT ![k] = t]
    BY <1>t, <1>13 DEF UnheardFails
  <2>3. t \in Stream /\ t.state = "closed" /\ t.posts = stream[k].posts
    BY <2>1, EmptyPaired DEF Stream, Text
  <2> HIDE DEF t
  <2>4. /\ stream' \in [Chat -> Stream] /\ Heard' = Heard \ {k}
        /\ \A j \in Chat : StreamInv(j, stream'[j], B)
    BY <1>t, <1>s, <2>1, <2>2, <2>3, Over
  <2>5. page' = page /\ busy' = busy /\ fetch' = fetch /\ shown' = shown /\ IsOpen' = IsOpen
        /\ Heard' = Heard
    BY <1>13, <2>1, <2>4 DEF UnheardFails, IsOpen
  <2>6. WebLock' /\ WebFetch'
    BY <1>p, <2>5 DEF WebLock, WebFetch
  <2> QED
    BY <1>t, <1>p, <2>4, <2>5, <2>6, WebInvFrom
<1>14. CASE LoseDialogue
  <2>1. /\ stream' \in [Chat -> Stream] /\ Heard' = Heard
        /\ \A k \in Chat : StreamInv(k, stream'[k], B)
    BY <1>14, SameStreams DEF LoseDialogue
  <2>2. /\ page' \in Page /\ page'.message = page.message /\ page'.direct = page.direct
        /\ IsOpen' = IsOpen
    BY <1>14, <1>t DEF LoseDialogue, IsOpen, Page
  <2>3. WebLock' /\ WebFetch'
    BY <1>14, <1>p, <2>1, <2>2 DEF LoseDialogue, WebLock, WebFetch
  <2> QED
    BY <1>14, <1>t, <1>p, <2>1, <2>2, <2>3, WebInvFrom DEF LoseDialogue
<1> QED
  BY <1>1, <1>2, <1>3, <1>4, <1>5, <1>6, <1>7, <1>8, <1>9, <1>10, <1>11, <1>12, <1>13, <1>14
     DEF WebStep, WebQuiet

\* Streams are posted once, end once, and are not heard again once they are cut.
GoesOn(k) ==
  /\ stream'[k].state = "new" => stream[k].state = "new"
  /\ stream'[k].state = "open" => stream[k].state \in {"new", "open"}
  /\ stream'[k].state = "ended" =>
       stream[k].state \in {"open", "ended"} /\ stream'[k].text = stream[k].text
  /\ stream[k].state \in {"closed", "failed"} => stream'[k].state \in {"closed", "failed"}

(* No operation of the page reverses the life of a stream, and only the end   *)
(* of a stream ends it.                                                       *)
LEMMA QuietStreams ==
  ASSUME NEW B, WebTypeOK, WebQuiet(B), NEW k \in Chat
  PROVE  GoesOn(k) /\ (stream'[k].state = "ended" => stream[k].state = "ended")
<1> DEFINE Goal == GoesOn(k) /\ (stream'[k].state = "ended" => stream[k].state = "ended")
<1>1. stream \in [Chat -> Stream]
  BY DEF WebTypeOK
<1>2. CASE stream' = stream
  BY <1>2 DEF GoesOn
<1>o. ASSUME stream'[k].state = stream[k].state, stream'[k].text = stream[k].text PROVE Goal
  BY <1>o DEF GoesOn
<1>c. ASSUME stream[k].state \in {"open", "unheard"},
             stream'[k].state \in {"unheard", "closed", "failed"}
      PROVE  Goal
  BY <1>c DEF GoesOn
<1>3. CASE Leave \/ Reload
  <2>1. PICK states \in SUBSET {"open", "unheard"}, to \in {"unheard", "closed"} :
          stream' = Dropped(states, to)
    BY <1>3 DEF Leave, Reload
  <2>2. CASE stream[k].state \in states
    <3>1. stream'[k] = [stream[k] EXCEPT !.state = to, !.before = <<>>, !.text = "none"]
      BY <2>1, <2>2 DEF Dropped
    <3>2. stream'[k].state = to
      BY <1>1, <3>1 DEF Stream
    <3> QED
      BY <1>c, <2>2, <3>2
  <2>3. CASE stream[k].state \notin states
    BY <1>o, <2>1, <2>3 DEF Dropped
  <2> QED
    BY <2>2, <2>3
<1>4. ASSUME NEW j \in Chat, NEW s, stream[j].state = "new", stream' = Posted(j, s)
      PROVE  Goal
  <2>1. CASE j = k
    <3>1. stream'[k].state = "open"
      BY <1>1, <1>4, <2>1 DEF Posted
    <3> QED
      BY <1>4, <2>1, <3>1 DEF GoesOn
  <2>2. CASE j # k
    <3>1. stream'[k] = stream[k]
      BY <1>1, <1>4, <2>2 DEF Posted
    <3> QED
      BY <1>o, <3>1
  <2> QED
    BY <2>1, <2>2
<1>5. ASSUME NEW j \in Chat, StreamFails(j) \/ UnheardFails(j) PROVE Goal
  <2>1. CASE j = k
    <3>1. /\ stream[k].state \in {"open", "unheard"}
          /\ stream'[k].state \in {"unheard", "closed", "failed"}
      BY <1>1, <1>5, <2>1 DEF StreamFails, UnheardFails, Stream
    <3> QED
      BY <1>c, <3>1
  <2>2. CASE j # k
    <3>1. stream'[k] = stream[k]
      BY <1>1, <1>5, <2>2 DEF StreamFails, UnheardFails
    <3> QED
      BY <1>o, <3>1
  <2> QED
    BY <2>1, <2>2
<1>6. ASSUME NEW j \in Chat, NEW text, Chunk(j, text) PROVE Goal
  <2>1. stream[j].state = "open" /\ stream'[k].state = stream[k].state
    BY <1>1, <1>6 DEF Chunk, Stream
  <2>2. j # k => stream'[k] = stream[k]
    BY <1>1, <1>6 DEF Chunk
  <2> QED
    BY <1>o, <2>1, <2>2 DEF GoesOn
<1>7. \/ HistoryArrives \/ HistoryFails \/ (\E s \in Seq(Message) : HistoryAnswered(s))
      \/ (\E c \in Conv, path \in ChatPath : Open(c, path) \/ Switch(c, path))
      \/ LoseDialogue
      => stream' = stream
  BY DEF HistoryArrives, HistoryFails, HistoryAnswered, Open, Switch, LoseDialogue
<1>8. CASE \/ \E c \in Conv, j \in Chat : OpenWithMessage(c, j)
           \/ \E j \in Chat : handleChatSubmit(j)
  BY <1>4, <1>8 DEF OpenWithMessage, handleChatSubmit
<1> QED
  BY <1>2, <1>3, <1>5, <1>6, <1>7, <1>8 DEF WebQuiet

(* A stream that ends has said what it said, and no other is disturbed. *)
LEMMA EndingStream ==
  ASSUME WebTypeOK, NEW j \in Chat, StreamEnds(j), NEW k \in Chat
  PROVE  GoesOn(k) /\ (j # k => stream'[k] = stream[k])
<1>1. stream \in [Chat -> Stream]
  BY DEF WebTypeOK
<1>2. CASE j = k
  <2>1. /\ stream[k].state = "open" /\ stream'[k].state = "ended"
        /\ stream'[k].text = stream[k].text
    BY <1>1, <1>2 DEF StreamEnds, Stream
  <2> QED
    BY <1>2, <2>1 DEF GoesOn
<1>3. CASE j # k
  <2>1. stream'[k] = stream[k]
    BY <1>1, <1>3 DEF StreamEnds
  <2> QED
    BY <2>1 DEF GoesOn
<1> QED
  BY <1>2, <1>3
=============================================================================
