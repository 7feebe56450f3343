-------------------------- MODULE ChatHistoryProofs ---------------------------
(***************************************************************************)
(* Proofs about ChatHistory, for any dialogues, any number of chats and    *)
(* any set of calm dialogues.                                              *)
(***************************************************************************)
EXTENDS ChatHistory, TLAPS

\* A calm dialogue waits for one answer at most.
OneAtATime ==
  \A c \in Calm : \A k, l \in Waiting(c) : k = l

\* The copy a waiting chat took still is the history of its calm dialogue.
CopyIsCurrent ==
  \A c \in Calm : \A k \in Waiting(c) :
    /\ chat[k].chat_order = Len(history[c]) + 1
    /\ prompt[k] = {history[c][i].chat : i \in DOMAIN history[c]}
    /\ chat[k].kind = "prepare" => history[c] = <<>>

\* A waiting chat has the number its round will carry.
WaitingIsNumbered ==
  \A k \in Chat : chat[k].state = "waiting" => chat[k].chat_order # 0

\* Rounds are those of chats that have ended, so their prompts never change.
RoundsHaveEnded ==
  \A c \in Conv : \A i \in DOMAIN history[c] : chat[history[c][i].chat].state = "stored"

IInv ==
  /\ TypeOK
  /\ OneAtATime
  /\ CopyIsCurrent
  /\ WaitingIsNumbered
  /\ RoundsHaveEnded
  /\ CalmRoundsAreNumbered
  /\ CalmRoundsFollow
  /\ CalmLearnsFirst
-----------------------------------------------------------------------------
\* No dialogue has a round or a waiting chat at first.
LEMMA InitIInv == Init => IInv
<1> SUFFICES ASSUME Init PROVE IInv
  OBVIOUS
<1>1. TypeOK
  BY DEF Init, TypeOK
<1>2. \A c \in Conv : Waiting(c) = {} /\ history[c] = <<>>
  BY DEF Init, Waiting
<1>3. WaitingIsNumbered
  BY DEF Init, WaitingIsNumbered
<1>4. QED
  BY <1>1, <1>2, <1>3, ChatAssumption DEF IInv, OneAtATime, CopyIsCurrent, RoundsHaveEnded,
     CalmRoundsAreNumbered, CalmRoundsFollow, CalmLearnsFirst

\* What the type of the dialogues says of a round.
LEMMA RoundTyped ==
  ASSUME TypeOK, NEW c \in Conv
  PROVE  /\ history[c] \in Seq(Round)
         /\ Len(history[c]) \in Nat
         /\ DOMAIN history[c] = 1..Len(history[c])
         /\ \A i \in DOMAIN history[c] :
              /\ history[c][i] \in Round
              /\ history[c][i].chat \in Chat
              /\ history[c][i].chat_order \in Nat \ {0}
              /\ history[c][i].edits \in 0..2
<1>1. history[c] \in Seq(Round)
  BY DEF TypeOK
<1>2. Len(history[c]) \in Nat /\ DOMAIN history[c] = 1..Len(history[c])
  BY <1>1
<1>3. ASSUME NEW i \in DOMAIN history[c] PROVE history[c][i] \in Round
  BY <1>1, <1>2
<1>4. QED
  BY <1>1, <1>2, <1>3 DEF Round

\* A chat with no round may change and no round notices.
LEMMA RoundsIgnoreOthers ==
  ASSUME IInv, NEW k \in Chat, chat[k].state # "stored", history' = history,
         \A l \in Chat : l # k => chat'[l] = chat[l] /\ prompt'[l] = prompt[l]
  PROVE  /\ RoundsHaveEnded' /\ CalmRoundsAreNumbered' /\ CalmRoundsFollow'
         /\ CalmLearnsFirst'
<1>1. ASSUME NEW d \in Conv, NEW i \in DOMAIN history[d]
      PROVE  /\ chat'[history[d][i].chat] = chat[history[d][i].chat]
             /\ prompt'[history[d][i].chat] = prompt[history[d][i].chat]
             /\ chat[history[d][i].chat].state = "stored"
  <2>1. history[d][i].chat \in Chat
    BY RoundTyped DEF IInv
  <2>2. chat[history[d][i].chat].state = "stored"
    BY DEF IInv, RoundsHaveEnded
  <2>3. QED
    BY <2>1, <2>2
<1>2. RoundsHaveEnded'
  BY <1>1 DEF RoundsHaveEnded
<1>3. CalmRoundsAreNumbered'
  BY DEF IInv, CalmRoundsAreNumbered
<1>4. CalmRoundsFollow'
  <2> SUFFICES ASSUME NEW d \in Calm, NEW i \in DOMAIN history[d]
               PROVE  prompt'[history[d][i].chat] = {history[d][j].chat : j \in 1..(i - 1)}
    BY DEF CalmRoundsFollow
  <2>1. QED
    BY <1>1, ChatAssumption DEF IInv, CalmRoundsFollow
<1>5. CalmLearnsFirst'
  BY <1>1, ChatAssumption DEF IInv, CalmLearnsFirst
<1>6. QED
  BY <1>2, <1>3, <1>4, <1>5

\* A chat that begins takes a copy, and in a calm dialogue is alone.
LEMMA BeginKeepsIInv ==
  ASSUME IInv, NEW k \in Chat, Begin(k),
         chat[k].kind = "prepare" => history[chat[k].conv] = <<>>
  PROVE  IInv'
<1> DEFINE c == chat[k].conv
           n == Len(history[c]) + 1
           begun == Begun(k)
<1>1. /\ TypeOK /\ c \in Conv /\ n \in Nat \ {0} /\ history' = history
      /\ chat[k].state = "new" /\ MayDisturb(c)
      /\ prompt' = [prompt EXCEPT ![k] = {history[c][i].chat : i \in DOMAIN history[c]}]
  BY DEF IInv, TypeOK, Begin
<1>2. chat' = [chat EXCEPT ![k] = begun]
  BY DEF Begin
<1>3. /\ begun \in [state : {"new", "waiting", "stored", "lost"},
                    conv : Conv, kind : Kind, chat_order : Nat]
      /\ begun.state = "waiting" /\ begun.conv = c /\ begun.kind = chat[k].kind
      /\ begun.chat_order = n
  BY <1>1 DEF TypeOK, Begun
<1> HIDE DEF begun
<1>4. \A l \in Chat : l # k => chat'[l] = chat[l] /\ prompt'[l] = prompt[l]
  BY <1>1, <1>2 DEF TypeOK
<1>5. chat'[k] = begun /\ prompt'[k] = {history[c][i].chat : i \in DOMAIN history[c]}
  BY <1>1, <1>2 DEF TypeOK
<1>6. TypeOK'
  <2>1. {history[c][i].chat : i \in DOMAIN history[c]} \in SUBSET Chat
    BY <1>1, RoundTyped
  <2>2. QED
    BY <1>1, <1>2, <1>3, <2>1 DEF TypeOK, Round
<1>7. \A d \in Conv : Waiting(d)' = IF d = c THEN Waiting(d) \cup {k} ELSE Waiting(d)
  BY <1>1, <1>3, <1>4, <1>5 DEF Waiting
<1>8. OneAtATime'
  <2>1. c \in Calm => Waiting(c) = {}
    BY <1>1 DEF MayDisturb
  <2>2. QED
    BY <1>7, <2>1, ChatAssumption DEF IInv, OneAtATime
<1>9. CopyIsCurrent'
  <2> SUFFICES ASSUME NEW d \in Calm, NEW l \in Waiting(d)'
               PROVE  /\ chat'[l].chat_order = Len(history'[d]) + 1
                      /\ prompt'[l] = {history'[d][i].chat : i \in DOMAIN history'[d]}
                      /\ chat'[l].kind = "prepare" => history'[d] = <<>>
    BY DEF CopyIsCurrent
  <2>1. CASE l = k
    <3>1. d = c
      BY <2>1, <1>3, <1>5 DEF Waiting
    <3>2. QED
      BY <2>1, <3>1, <1>1, <1>3, <1>5
  <2>2. CASE l # k
    <3>1. l \in Waiting(d) /\ l \in Chat
      BY <2>2, <1>7, ChatAssumption DEF Waiting
    <3>2. QED
      BY <2>2, <3>1, <1>1, <1>4 DEF IInv, CopyIsCurrent
  <2>3. QED
    BY <2>1, <2>2
<1>10. /\ RoundsHaveEnded' /\ CalmRoundsAreNumbered' /\ CalmRoundsFollow'
       /\ CalmLearnsFirst'
  BY <1>1, <1>4, RoundsIgnoreOthers
<1>11. WaitingIsNumbered'
  BY <1>1, <1>3, <1>4, <1>5 DEF IInv, WaitingIsNumbered
<1>12. QED
  BY <1>6, <1>8, <1>9, <1>10, <1>11 DEF IInv

\* A lost chat leaves no trace.
LEMMA LostKeepsIInv ==
  ASSUME IInv, NEW k \in Chat, Lost(k)
  PROVE  IInv'
<1>1. /\ TypeOK /\ chat[k].state = "waiting" /\ history' = history /\ prompt' = prompt
      /\ chat' = [chat EXCEPT ![k].state = "lost"]
  BY DEF IInv, Lost
<1>2. \A l \in Chat : l # k => chat'[l] = chat[l]
  BY <1>1 DEF TypeOK
<1>3. chat'[k].state = "lost"
  BY <1>1 DEF TypeOK
<1>4. TypeOK'
  BY <1>1 DEF TypeOK
<1>5. \A d \in Conv : Waiting(d)' \subseteq Waiting(d) \ {k}
  BY <1>1, <1>2, <1>3 DEF Waiting
<1>6. OneAtATime'
  BY <1>5, ChatAssumption DEF IInv, OneAtATime
<1>7. CopyIsCurrent'
  <2> SUFFICES ASSUME NEW d \in Calm, NEW l \in Waiting(d)'
               PROVE  /\ chat'[l].chat_order = Len(history'[d]) + 1
                      /\ prompt'[l] = {history'[d][i].chat : i \in DOMAIN history'[d]}
                      /\ chat'[l].kind = "prepare" => history'[d] = <<>>
    BY DEF CopyIsCurrent
  <2>1. l \in Waiting(d) /\ chat'[l] = chat[l]
    BY <1>2, <1>5, ChatAssumption DEF Waiting
  <2>2. QED
    BY <2>1, <1>1 DEF IInv, CopyIsCurrent
<1>8. /\ RoundsHaveEnded' /\ CalmRoundsAreNumbered' /\ CalmRoundsFollow'
      /\ CalmLearnsFirst'
  BY <1>1, <1>2, RoundsIgnoreOthers
<1>9. WaitingIsNumbered'
  BY <1>2, <1>3 DEF IInv, WaitingIsNumbered
<1>10. QED
  BY <1>4, <1>6, <1>7, <1>8, <1>9 DEF IInv

\* The rounds a chat may store of itself.
Own(k) == {RoundOf(k, 1), RoundOf(k, 2)}

\* A waiting chat stores rounds of the declared type, all with its number.
LEMMA RoundOfTyped ==
  ASSUME IInv, NEW k \in Chat, chat[k].state = "waiting"
  PROVE  /\ Own(k) \subseteq Round
         /\ \A r \in Own(k) : r.chat = k /\ r.chat_order = chat[k].chat_order
<1>1. chat[k].chat_order \in Nat \ {0}
  BY DEF IInv, TypeOK, WaitingIsNumbered
<1>2. QED
  BY <1>1 DEF Own, RoundOf, Round

\* The one or two rounds a chat that ends appends.
LEMMA OnceOrTwice ==
  ASSUME NEW S, NEW r \in S, NEW q \in S, NEW s, s = <<r>> \/ s = <<r, q>>
  PROVE  /\ s \in Seq(S) /\ Len(s) \in {1, 2}
         /\ \A i \in 1..Len(s) : s[i] \in {r, q}
<1>1. CASE s = <<r>>
  BY <1>1
<1>2. CASE s = <<r, q>>
  BY <1>2
<1>3. QED
  BY <1>1, <1>2

\* Where the elements of a sequence are after s is extended by members of R.
LEMMA Extended ==
  ASSUME NEW S, NEW s \in Seq(S), NEW t \in Seq(S), NEW R, \A i \in 1..Len(t) : t[i] \in R
  PROVE  /\ s \o t \in Seq(S) /\ Len(s \o t) = Len(s) + Len(t)
         /\ DOMAIN (s \o t) = 1..(Len(s) + Len(t))
         /\ \A i \in 1..Len(s) : (s \o t)[i] = s[i]
         /\ \A i \in (Len(s) + 1)..(Len(s) + Len(t)) : (s \o t)[i] \in R
<1>1. /\ s \o t \in Seq(S) /\ Len(s \o t) = Len(s) + Len(t)
      /\ DOMAIN (s \o t) = 1..(Len(s) + Len(t))
  OBVIOUS
<1>2. \A i \in 1..Len(s) : (s \o t)[i] = s[i]
  OBVIOUS
<1>3. \A i \in (Len(s) + 1)..(Len(s) + Len(t)) : (s \o t)[i] = t[i - Len(s)]
  OBVIOUS
<1>4. \A i \in (Len(s) + 1)..(Len(s) + Len(t)) : i - Len(s) \in 1..Len(t)
  OBVIOUS
<1>5. QED
  BY <1>1, <1>2, <1>3, <1>4

\* A chat that ends appends its rounds, exactly one in a calm dialogue.
LEMMA AppendKeepsIInv ==
  ASSUME IInv, NEW k \in Chat, chat[k].state = "waiting",
         NEW rounds, rounds = <<RoundOf(k, 1)>> \/ rounds = <<RoundOf(k, 1), RoundOf(k, 2)>>,
         chat[k].conv \in Calm => rounds = <<RoundOf(k, 1)>>,
         append(k, rounds), chat' = [chat EXCEPT ![k].state = "stored"], prompt' = prompt
  PROVE  IInv'
<1> DEFINE c == chat[k].conv
           n == Len(history[c])
<1>1. /\ TypeOK /\ c \in Conv /\ n \in Nat /\ Own(k) \subseteq Round
      /\ \A r \in Own(k) : r.chat = k /\ r.chat_order = chat[k].chat_order
  BY RoundTyped, RoundOfTyped DEF IInv, TypeOK
<1>2. /\ rounds \in Seq(Round) /\ Len(rounds) \in {1, 2}
      /\ \A i \in 1..Len(rounds) : rounds[i] \in Own(k)
  BY <1>1, OnceOrTwice DEF Own
<1>3. /\ \A l \in Chat : l # k => chat'[l] = chat[l]
      /\ chat'[k].state = "stored" /\ chat'[k].kind = chat[k].kind
  BY <1>1 DEF TypeOK
<1>4. /\ history'[c] = history[c] \o rounds
      /\ \A d \in Conv : d # c => history'[d] = history[d]
  BY <1>1 DEF TypeOK, append
<1>5. /\ history'[c] \in Seq(Round) /\ Len(history'[c]) = n + Len(rounds)
      /\ DOMAIN history'[c] = 1..(n + Len(rounds))
      /\ \A i \in 1..n : history'[c][i] = history[c][i]
      /\ \A i \in (n + 1)..(n + Len(rounds)) : history'[c][i] \in Own(k)
  <2>1. history[c] \in Seq(Round)
    BY <1>1, RoundTyped
  <2> DEFINE all == history[c] \o rounds
  <2>2. /\ all \in Seq(Round) /\ Len(all) = Len(history[c]) + Len(rounds)
        /\ DOMAIN all = 1..(Len(history[c]) + Len(rounds))
        /\ \A i \in 1..Len(history[c]) : all[i] = history[c][i]
        /\ \A i \in (Len(history[c]) + 1)..(Len(history[c]) + Len(rounds)) : all[i] \in Own(k)
    BY <2>1, <1>2, Extended
  <2>3. history'[c] = all
    BY <1>4
  <2> HIDE DEF all
  <2>4. QED
    BY <2>2, <2>3
<1>6. TypeOK'
  <2>1. history' \in [Conv -> Seq(Round)]
    <3>1. /\ history \in [Conv -> Seq(Round)] /\ c \in Conv
          /\ history' = [history EXCEPT ![c] = history[c] \o rounds]
      BY <1>1 DEF TypeOK, append
    <3>2. history[c] \o rounds \in Seq(Round)
      BY <1>4, <1>5
    <3> HIDE DEF c
    <3>3. QED
      BY <3>1, <3>2
  <2>2. chat' \in [Chat -> [state : {"new", "waiting", "stored", "lost"},
                            conv : Conv, kind : Kind, chat_order : Nat]]
    BY <1>1 DEF TypeOK
  <2>3. QED
    BY <1>1, <2>1, <2>2 DEF TypeOK, Round
<1>7. \A d \in Conv : Waiting(d)' \subseteq Waiting(d) \ {k}
  BY <1>1, <1>3 DEF Waiting, TypeOK
<1>8. k \in Waiting(c)
  BY <1>1 DEF Waiting
<1>9. c \in Calm => Waiting(c)' = {}
  BY <1>1, <1>7, <1>8 DEF IInv, OneAtATime
<1>10. OneAtATime'
  BY <1>7, ChatAssumption DEF IInv, OneAtATime
<1>11. CopyIsCurrent'
  <2> SUFFICES ASSUME NEW d \in Calm, NEW l \in Waiting(d)'
               PROVE  /\ chat'[l].chat_order = Len(history'[d]) + 1
                      /\ prompt'[l] = {history'[d][i].chat : i \in DOMAIN history'[d]}
                      /\ chat'[l].kind = "prepare" => history'[d] = <<>>
    BY DEF CopyIsCurrent
  <2>1. d # c /\ d \in Conv
    BY <1>9, ChatAssumption
  <2>2. l \in Waiting(d) /\ chat'[l] = chat[l]
    BY <2>1, <1>3, <1>7 DEF Waiting
  <2>3. QED
    BY <2>1, <2>2, <1>4 DEF IInv, CopyIsCurrent
<1>12. WaitingIsNumbered'
  BY <1>3 DEF IInv, WaitingIsNumbered
\* The chats of earlier rounds have ended, so they are not k.
<1>13. ASSUME NEW d \in Conv, NEW i \in DOMAIN history[d]
       PROVE  /\ chat'[history[d][i].chat] = chat[history[d][i].chat]
              /\ chat[history[d][i].chat].state = "stored"
  <2>1. history[d][i].chat \in Chat
    BY <1>1, RoundTyped
  <2>2. chat[history[d][i].chat].state = "stored"
    BY DEF IInv, RoundsHaveEnded
  <2>3. QED
    BY <2>1, <2>2, <1>3
<1>14. n = Len(history[c]) /\ DOMAIN history[c] = 1..n
  BY <1>1, RoundTyped
<1>15. c \in Calm => /\ DOMAIN history'[c] = 1..(n + 1)
                     /\ history'[c][n + 1] \in Own(k)
                     /\ \A i \in 1..(n + 1) : i # n + 1 => i \in 1..n
  <2> SUFFICES ASSUME c \in Calm
               PROVE  /\ DOMAIN history'[c] = 1..(n + 1)
                      /\ history'[c][n + 1] \in Own(k)
                      /\ \A i \in 1..(n + 1) : i # n + 1 => i \in 1..n
    OBVIOUS
  <2>1. Len(rounds) = 1
    OBVIOUS
  <2> HIDE DEF c, n
  <2>2. QED
    BY <2>1, <1>1, <1>5
<1>16. c \in Calm => /\ chat[k].chat_order = n + 1
                     /\ prompt[k] = {history[c][i].chat : i \in 1..n}
                     /\ chat[k].kind = "prepare" => n = 0
  <2> SUFFICES ASSUME c \in Calm
               PROVE  /\ chat[k].chat_order = n + 1
                      /\ prompt[k] = {history[c][i].chat : i \in 1..n}
                      /\ chat[k].kind = "prepare" => n = 0
    OBVIOUS
  <2>1. /\ chat[k].chat_order = Len(history[c]) + 1
        /\ prompt[k] = {history[c][i].chat : i \in DOMAIN history[c]}
        /\ chat[k].kind = "prepare" => history[c] = <<>>
    BY <1>8 DEF IInv, CopyIsCurrent
  <2> HIDE DEF c, n
  <2>2. history[c] = <<>> => n = 0
    BY <1>14
  <2>3. QED
    BY <2>1, <2>2, <1>14
<1> HIDE DEF c, n
<1>17. RoundsHaveEnded'
  <2> SUFFICES ASSUME NEW d \in Conv, NEW i \in DOMAIN history'[d]
               PROVE  chat'[history'[d][i].chat].state = "stored"
    BY DEF RoundsHaveEnded
  <2>1. CASE d # c
    BY <2>1, <1>4, <1>13
  <2>2. CASE d = c /\ i \in 1..n
    BY <2>2, <1>1, <1>5, <1>13, <1>14
  <2>3. CASE d = c /\ i \notin 1..n
    <3>1. i \in (n + 1)..(n + Len(rounds))
      BY <2>3, <1>1, <1>2, <1>5
    <3>2. QED
      BY <2>3, <3>1, <1>1, <1>3, <1>5
  <2>4. QED
    BY <2>1, <2>2, <2>3
<1>18. CalmRoundsAreNumbered'
  <2> SUFFICES ASSUME NEW d \in Calm, NEW i \in DOMAIN history'[d]
               PROVE  history'[d][i].chat_order = i
    BY DEF CalmRoundsAreNumbered
  <2>1. CASE d # c
    BY <2>1, <1>4, ChatAssumption DEF IInv, CalmRoundsAreNumbered
  <2>2. CASE d = c /\ i \in 1..n
    BY <2>2, <1>5, <1>14 DEF IInv, CalmRoundsAreNumbered
  <2>3. CASE d = c /\ i = n + 1
    BY <2>3, <1>1, <1>15, <1>16
  <2>4. QED
    BY <2>1, <2>2, <2>3, <1>15
<1>19. CalmRoundsFollow'
  <2> SUFFICES ASSUME NEW d \in Calm, NEW i \in DOMAIN history'[d]
               PROVE  prompt[history'[d][i].chat] = {history'[d][j].chat : j \in 1..(i - 1)}
    BY DEF CalmRoundsFollow
  <2>1. CASE d # c
    <3>1. history'[d] = history[d]
      BY <2>1, <1>4, ChatAssumption
    <3>2. \A j \in DOMAIN history[d] :
            prompt[history[d][j].chat] = {history[d][m].chat : m \in 1..(j - 1)}
      BY DEF IInv, CalmRoundsFollow
    <3>3. QED
      BY <3>1, <3>2
  <2>2. CASE d = c /\ i \in 1..n
    <3>1. prompt[history[c][i].chat] = {history[c][j].chat : j \in 1..(i - 1)}
      BY <2>2, <1>14 DEF IInv, CalmRoundsFollow
    <3>2. \A j \in 1..(i - 1) : history'[c][j] = history[c][j]
      BY <2>2, <1>1, <1>5
    <3>3. {history'[c][j].chat : j \in 1..(i - 1)} = {history[c][j].chat : j \in 1..(i - 1)}
      BY <3>2
    <3>4. history'[c][i] = history[c][i]
      BY <2>2, <1>5
    <3>5. QED
      BY <2>2, <3>1, <3>3, <3>4
  <2>3. CASE d = c /\ i = n + 1
    <3>1. \A j \in 1..n : history'[c][j] = history[c][j]
      BY <1>5
    <3>2. history'[c][i].chat = k /\ i - 1 = n
      BY <2>3, <1>1, <1>15
    <3>3. QED
      BY <2>3, <3>1, <3>2, <1>16
  <2>4. QED
    BY <2>1, <2>2, <2>3, <1>15
<1>20. CalmLearnsFirst'
  <2> SUFFICES ASSUME NEW d \in Calm, NEW i \in DOMAIN history'[d],
                      chat'[history'[d][i].chat].kind = "prepare"
               PROVE  i = 1
    BY DEF CalmLearnsFirst
  <2>1. CASE d # c
    BY <2>1, <1>4, <1>13, ChatAssumption DEF IInv, CalmLearnsFirst
  <2>2. CASE d = c /\ i \in 1..n
    BY <2>2, <1>1, <1>5, <1>13, <1>14 DEF IInv, CalmLearnsFirst
  <2>3. CASE d = c /\ i = n + 1
    BY <2>3, <1>1, <1>3, <1>15, <1>16
  <2>4. QED
    BY <2>1, <2>2, <2>3, <1>15
<1>21. QED
  BY <1>6, <1>10, <1>11, <1>12, <1>17, <1>18, <1>19, <1>20 DEF IInv

\* An edit leaves the rounds' chats and numbers, a deletion finds nobody waiting.
LEMMA RewriteKeepsIInv ==
  ASSUME IInv, history' \in [Conv -> Seq(Round)], chat' = chat, prompt' = prompt,
         \A d \in Conv :
           \/ history'[d] = <<>> /\ MayDisturb(d)
           \/ /\ Len(history'[d]) = Len(history[d])
              /\ \A i \in DOMAIN history[d] :
                   /\ history'[d][i].chat = history[d][i].chat
                   /\ history'[d][i].chat_order = history[d][i].chat_order
  PROVE  IInv'
<1>1. TypeOK'
  BY DEF IInv, TypeOK, Round
<1>2. \A d \in Conv : Waiting(d)' = Waiting(d)
  BY DEF Waiting
<1>3. OneAtATime' /\ WaitingIsNumbered'
  BY <1>2, ChatAssumption DEF IInv, OneAtATime, WaitingIsNumbered
<1>4. ASSUME NEW d \in Conv, history'[d] # <<>>
      PROVE  /\ Len(history'[d]) = Len(history[d])
             /\ DOMAIN history'[d] = DOMAIN history[d]
             /\ DOMAIN history[d] = 1..Len(history[d])
             /\ \A i \in DOMAIN history[d] :
                  /\ history'[d][i].chat = history[d][i].chat
                  /\ history'[d][i].chat_order = history[d][i].chat_order
  <2>1. history[d] \in Seq(Round) /\ history'[d] \in Seq(Round)
    BY RoundTyped DEF IInv
  <2>2. /\ Len(history'[d]) = Len(history[d])
        /\ \A i \in DOMAIN history[d] :
             /\ history'[d][i].chat = history[d][i].chat
             /\ history'[d][i].chat_order = history[d][i].chat_order
    BY <1>4
  <2>3. QED
    BY <2>1, <2>2
<1>5. CopyIsCurrent'
  <2> SUFFICES ASSUME NEW d \in Calm, NEW l \in Waiting(d)
               PROVE  /\ chat[l].chat_order = Len(history'[d]) + 1
                      /\ prompt[l] = {history'[d][i].chat : i \in DOMAIN history'[d]}
                      /\ chat[l].kind = "prepare" => history'[d] = <<>>
    BY <1>2, ChatAssumption DEF CopyIsCurrent
  <2>1. d \in Conv /\ ~ MayDisturb(d)
    BY ChatAssumption DEF MayDisturb
  <2>2. /\ chat[l].chat_order = Len(history[d]) + 1
        /\ prompt[l] = {history[d][i].chat : i \in DOMAIN history[d]}
        /\ chat[l].kind = "prepare" => history[d] = <<>>
    BY DEF IInv, CopyIsCurrent
  <2>3. /\ Len(history'[d]) = Len(history[d])
        /\ \A i \in DOMAIN history[d] : history'[d][i].chat = history[d][i].chat
    BY <2>1
  <2>4. history[d] \in Seq(Round) /\ history'[d] \in Seq(Round)
    BY <2>1, RoundTyped DEF IInv
  <2>5. DOMAIN history'[d] = DOMAIN history[d] /\ (history[d] = <<>> => history'[d] = <<>>)
    BY <2>3, <2>4
  <2>6. QED
    BY <2>2, <2>3, <2>5
<1>6. RoundsHaveEnded'
  BY <1>4 DEF IInv, RoundsHaveEnded
<1>7. CalmRoundsAreNumbered'
  BY <1>4, ChatAssumption DEF IInv, CalmRoundsAreNumbered
<1>8. CalmRoundsFollow'
  <2> SUFFICES ASSUME NEW d \in Calm, NEW i \in DOMAIN history'[d]
               PROVE  prompt[history'[d][i].chat] = {history'[d][j].chat : j \in 1..(i - 1)}
    BY DEF CalmRoundsFollow
  <2>1. d \in Conv /\ history'[d] # <<>>
    BY ChatAssumption
  <2>2. i \in DOMAIN history[d] /\ 1..(i - 1) \subseteq DOMAIN history[d]
    BY <2>1, <1>4
  <2>3. {history'[d][j].chat : j \in 1..(i - 1)} = {history[d][j].chat : j \in 1..(i - 1)}
    BY <2>1, <2>2, <1>4
  <2>4. prompt[history[d][i].chat] = {history[d][j].chat : j \in 1..(i - 1)}
    BY <2>2 DEF IInv, CalmRoundsFollow
  <2>5. QED
    BY <2>1, <2>2, <2>3, <2>4, <1>4
<1>9. CalmLearnsFirst'
  BY <1>4, ChatAssumption DEF IInv, CalmLearnsFirst
<1>10. QED
  BY <1>1, <1>3, <1>5, <1>6, <1>7, <1>8, <1>9 DEF IInv

\* What an editor writes: the same rounds, one of them edited once more.
LEMMA EditRewrites ==
  ASSUME TypeOK, NEW c \in Conv, NEW m \in DOMAIN history[c], Edit(c, m)
  PROVE  /\ history' \in [Conv -> Seq(Round)]
         /\ \A d \in Conv :
              /\ Len(history'[d]) = Len(history[d])
              /\ \A i \in DOMAIN history[d] :
                   /\ history'[d][i].chat = history[d][i].chat
                   /\ history'[d][i].chat_order = history[d][i].chat_order
                   /\ history'[d][i].edits >= history[d][i].edits
<1> DEFINE round == history[c][m]
           rounds == [history[c] EXCEPT ![m] = Edited(round)]
<1>1. /\ history[c] \in Seq(Round) /\ round \in Round
      /\ round.edits \in {0, 1}
  <2>1. history[c] \in Seq(Round) /\ round \in Round /\ round.edits \in 0..2
    BY RoundTyped
  <2>2. round.edits < 2
    BY DEF Edit
  <2> HIDE DEF round
  <2>3. QED
    BY <2>1, <2>2
<1>2. history' = [history EXCEPT ![c] = rounds]
  BY DEF Edit
<1> HIDE DEF round
<1>3. /\ Edited(round) \in Round /\ Edited(round).chat = round.chat
      /\ Edited(round).chat_order = round.chat_order
      /\ Edited(round).edits = round.edits + 1
  <2>1. round.edits + 1 \in 0..2
    BY <1>1
  <2> QED
    BY <1>1, <2>1 DEF Edited, Round
<1>4. /\ rounds \in Seq(Round) /\ Len(rounds) = Len(history[c])
      /\ \A i \in DOMAIN history[c] :
           rounds[i] = IF i = m THEN Edited(round) ELSE history[c][i]
  BY <1>1, <1>3
<1> HIDE DEF rounds
<1>5. history' \in [Conv -> Seq(Round)] /\ history'[c] = rounds
      /\ \A d \in Conv : d # c => history'[d] = history[d]
  BY <1>2, <1>4 DEF TypeOK
<1>6. \A d \in Conv : \A i \in DOMAIN history[d] : history[d][i].edits \in Nat
  BY RoundTyped
<1>7. round = history[c][m]
  BY DEF round
<1>8. ASSUME NEW i \in DOMAIN history[c]
      PROVE  /\ rounds[i].chat = history[c][i].chat
             /\ rounds[i].chat_order = history[c][i].chat_order
             /\ rounds[i].edits >= history[c][i].edits
  <2>1. CASE i = m
    BY <2>1, <1>1, <1>3, <1>4, <1>7
  <2>2. CASE i # m
    BY <2>2, <1>4, <1>6
  <2>3. QED
    BY <2>1, <2>2
<1>9. ASSUME NEW d \in Conv
      PROVE  /\ Len(history'[d]) = Len(history[d])
             /\ \A i \in DOMAIN history[d] :
                  /\ history'[d][i].chat = history[d][i].chat
                  /\ history'[d][i].chat_order = history[d][i].chat_order
                  /\ history'[d][i].edits >= history[d][i].edits
  <2>1. CASE d = c
    BY <2>1, <1>4, <1>5, <1>8
  <2>2. CASE d # c
    BY <2>2, <1>5, <1>6
  <2>3. QED
    BY <2>1, <2>2
<1>10. QED
  BY <1>5, <1>9
-----------------------------------------------------------------------------
(* Which rounds the model is sent *)

\* The first of them and the n - 1 most recent.
Window(rounds, n) == {i \in 1..rounds : i = 1 \/ i > rounds - (n - 1)}

\* A dialogue longer than the limit: the first round, then the last n - 1.
LEMMA WindowLong ==
  ASSUME NEW rounds \in Nat, NEW n \in Nat, rounds > n
  PROVE  LET window == histroy_window(rounds, n) IN
         /\ \A i, j \in DOMAIN window : i < j => window[i] < window[j]
         /\ {window[i] : i \in DOMAIN window} = Window(rounds, n)
<1> DEFINE m == IF n > 1 THEN n - 1 ELSE 0
           recent == [i \in 1..m |-> rounds - (n - 1) + i]
           window == <<1>> \o recent
<1>1. m \in Nat /\ (m = 0 \/ m = n - 1)
  OBVIOUS
<1>2. histroy_window(rounds, n) = window
  BY DEF histroy_window
<1>3. \A i \in 1..m : rounds - (n - 1) + i \in 2..rounds
  OBVIOUS
<1> HIDE DEF m
<1>4. recent \in Seq(2..rounds) /\ Len(recent) = m
  BY <1>1, <1>3
<1>5. DOMAIN window = 1..(m + 1) /\ window[1] = 1
  BY <1>1, <1>4
<1>6. \A i \in 2..(m + 1) : window[i] = rounds - (n - 1) + (i - 1)
  <2> TAKE i \in 2..(m + 1)
  <2>1. window[i] = recent[i - 1] /\ i - 1 \in 1..m
    BY <1>1, <1>4
  <2> QED
    BY <2>1
<1> HIDE DEF recent, window
<1>7. \A i, j \in DOMAIN window : i < j => window[i] < window[j]
  <2> SUFFICES ASSUME NEW i \in 1..(m + 1), NEW j \in 1..(m + 1), i < j
               PROVE  window[i] < window[j]
    BY <1>5
  <2>1. window[j] = rounds - (n - 1) + (j - 1) /\ j \in 2..(m + 1)
    BY <1>1, <1>6
  <2>2. CASE i = 1
    BY <1>1, <1>5, <2>1, <2>2
  <2>3. CASE i # 1
    <3>1. i \in 2..(m + 1)
      BY <1>1, <2>3
    <3> QED
      BY <1>1, <1>6, <2>1, <3>1
  <2> QED
    BY <2>2, <2>3
<1>8. {window[i] : i \in DOMAIN window} = Window(rounds, n)
  <2>1. ASSUME NEW i \in DOMAIN window PROVE window[i] \in Window(rounds, n)
    <3>1. CASE i = 1
      BY <1>5, <3>1 DEF Window
    <3>2. CASE i # 1
      <4>1. i \in 2..(m + 1) /\ m = n - 1
        BY <1>1, <1>5, <3>2
      <4> QED
        BY <1>6, <4>1 DEF Window
    <3> QED
      BY <3>1, <3>2
  <2>2. ASSUME NEW r \in Window(rounds, n) PROVE \E i \in DOMAIN window : window[i] = r
    <3>1. CASE r = 1
      BY <1>1, <1>5, <3>1
    <3>2. CASE r # 1
      <4> DEFINE i == r - (rounds - (n - 1)) + 1
      <4>1. r \in 1..rounds /\ r > rounds - (n - 1)
        BY <3>2 DEF Window
      <4>2. n > 1
        BY <4>1
      <4>3. m = n - 1
        BY <4>2 DEF m
      <4>4. i \in 2..(m + 1) /\ rounds - (n - 1) + (i - 1) = r
        BY <4>1, <4>3
      <4>5. i \in DOMAIN window /\ window[i] = r
        BY <1>1, <1>5, <1>6, <4>4
      <4> QED
        BY <4>5
    <3> QED
      BY <3>1, <3>2
  <2> QED
    BY <2>1, <2>2
<1> QED
  BY <1>2, <1>7, <1>8

\* A dialogue within the limit is sent as it is.
LEMMA WindowShort ==
  ASSUME NEW rounds \in Nat, NEW n \in Nat, rounds <= n
  PROVE  LET window == histroy_window(rounds, n) IN
         /\ \A i, j \in DOMAIN window : i < j => window[i] < window[j]
         /\ {window[i] : i \in DOMAIN window} = Window(rounds, n)
<1>1. histroy_window(rounds, n) = [i \in 1..rounds |-> i]
  BY DEF histroy_window
<1>2. Window(rounds, n) = 1..rounds
  BY DEF Window
<1> QED
  BY <1>1, <1>2
-----------------------------------------------------------------------------
\* Every action keeps the invariant.
LEMMA NextKeepsIInv == IInv /\ [Next]_vars => IInv'
<1> SUFFICES ASSUME IInv, [Next]_vars PROVE IInv'
  OBVIOUS
<1>1. ASSUME NEW k \in Chat, Complete(k) PROVE IInv'
  BY <1>1, BeginKeepsIInv DEF Complete
<1>2. ASSUME NEW k \in Chat, Prepare(k) PROVE IInv'
  BY <1>2, BeginKeepsIInv DEF Prepare
<1>3. ASSUME NEW k \in Chat, Answered(k) PROVE IInv'
  BY <1>3, AppendKeepsIInv DEF Answered
<1>4. ASSUME NEW k \in Chat, StreamBreaks(k) PROVE IInv'
  BY <1>4, AppendKeepsIInv DEF StreamBreaks
<1>5. ASSUME NEW k \in Chat, Lost(k) PROVE IInv'
  BY <1>5, LostKeepsIInv
<1>6. ASSUME NEW c \in Conv, dialogue_delete(c) PROVE IInv'
  <2>1. /\ MayDisturb(c) /\ history' = [history EXCEPT ![c] = <<>>]
        /\ chat' = chat /\ prompt' = prompt /\ history \in [Conv -> Seq(Round)]
    BY <1>6 DEF dialogue_delete, IInv, TypeOK
  <2>2. history' \in [Conv -> Seq(Round)]
    BY <2>1
  <2>3. \A d \in Conv : IF d = c THEN history'[d] = <<>> ELSE history'[d] = history[d]
    BY <2>1
  <2>4. QED
    BY <2>1, <2>2, <2>3, RewriteKeepsIInv
<1>7. ASSUME NEW c \in Conv, NEW i \in DOMAIN history[c], Edit(c, i) PROVE IInv'
  <2>1. chat' = chat /\ prompt' = prompt
    BY <1>7 DEF Edit
  <2>2. QED
    BY <2>1, <1>7, EditRewrites, RewriteKeepsIInv DEF IInv
<1>8. CASE UNCHANGED vars
  <2>1. history' = history /\ chat' = chat /\ prompt' = prompt
    BY <1>8 DEF vars
  <2>2. history \in [Conv -> Seq(Round)]
    BY DEF IInv, TypeOK
  <2>3. QED
    BY <2>1, <2>2, RewriteKeepsIInv
<1>9. QED
  BY <1>1, <1>2, <1>3, <1>4, <1>5, <1>6, <1>7, <1>8
     DEF Next, chart_editor_submit, sql_editor_submit

\* The inductive invariant holds in every state.
THEOREM Inductive == Spec => []IInv
<1>1. QED
  BY InitIInv, NextKeepsIInv, PTL DEF Spec

\* Every state of the chats and dialogues is of the declared type.
THEOREM TypeCorrect == Spec => []TypeOK
<1>1. IInv => TypeOK
  BY DEF IInv
<1>2. QED
  BY <1>1, Inductive, PTL

\* In a calm dialogue a number names one round: its place.
THEOREM CalmNumbers == Spec => []CalmRoundsAreNumbered
<1>1. IInv => CalmRoundsAreNumbered
  BY DEF IInv
<1>2. QED
  BY <1>1, Inductive, PTL

\* In a calm dialogue a round was asked with exactly the earlier rounds in view.
THEOREM CalmFollows == Spec => []CalmRoundsFollow
<1>1. IInv => CalmRoundsFollow
  BY DEF IInv
<1>2. QED
  BY <1>1, Inductive, PTL

\* In a calm dialogue the table is learned in the first round or never.
THEOREM CalmLearns == Spec => []CalmLearnsFirst
<1>1. IInv => CalmLearnsFirst
  BY DEF IInv
<1>2. QED
  BY <1>1, Inductive, PTL

\* __load_histroy_messages sends the first round and the most recent ones, in
\* order and none twice, for any number of rounds to keep and dialogues of any
\* length: at the limit, one beyond it, and with limits of nothing and of one.
THEOREM WindowShown == Spec => []WindowIsFirstAndRecent
<1>1. TypeOK => WindowIsFirstAndRecent
  <2> SUFFICES ASSUME TypeOK, NEW c \in Conv, NEW n \in 0..Cardinality(Chat)
               PROVE  LET window == histroy_window(Len(history[c]), n) IN
                      /\ \A i, j \in DOMAIN window : i < j => window[i] < window[j]
                      /\ {window[i] : i \in DOMAIN window} = Window(Len(history[c]), n)
    BY DEF WindowIsFirstAndRecent, Window
  <2>1. Len(history[c]) \in Nat /\ n \in Nat
    BY RoundTyped
  <2> QED
    BY <2>1, WindowLong, WindowShort
<1>2. QED
  BY <1>1, TypeCorrect, PTL

\* Appending keeps the rounds that are there.
LEMMA AppendSurvives ==
  ASSUME IInv, NEW k \in Chat, chat[k].state = "waiting",
         NEW rounds, rounds = <<RoundOf(k, 1)>> \/ rounds = <<RoundOf(k, 1), RoundOf(k, 2)>>,
         append(k, rounds), NEW c \in Conv
  PROVE  /\ Len(history[c]) <= Len(history'[c])
         /\ \A i \in DOMAIN history[c] :
              history'[c][i].chat = history[c][i].chat
              /\ history'[c][i].edits >= history[c][i].edits
<1>1. Own(k) \subseteq Round /\ history \in [Conv -> Seq(Round)] /\ chat[k].conv \in Conv
  BY RoundOfTyped DEF IInv, TypeOK
<1>2. /\ rounds \in Seq(Round) /\ Len(rounds) \in {1, 2}
      /\ \A i \in 1..Len(rounds) : rounds[i] \in Own(k)
  BY <1>1, OnceOrTwice DEF Own
<1>3. /\ history[c] \in Seq(Round) /\ Len(history[c]) \in Nat
      /\ DOMAIN history[c] = 1..Len(history[c])
      /\ \A i \in DOMAIN history[c] : history[c][i].edits \in 0..2
  BY RoundTyped DEF IInv
<1>4. history'[c] = IF c = chat[k].conv THEN history[c] \o rounds ELSE history[c]
  BY <1>1 DEF append
<1>5. CASE c = chat[k].conv
  <2>1. /\ Len(history'[c]) = Len(history[c]) + Len(rounds)
        /\ \A i \in 1..Len(history[c]) : history'[c][i] = history[c][i]
    BY <1>2, <1>3, <1>4, <1>5, Extended
  <2>2. Len(history[c]) <= Len(history'[c])
    BY <2>1, <1>2, <1>3
  <2>3. ASSUME NEW i \in DOMAIN history[c]
        PROVE  history'[c][i] = history[c][i] /\ history[c][i].edits \in Int
    BY <2>1, <1>3
  <2>4. ASSUME NEW i \in DOMAIN history[c]
        PROVE  history'[c][i].chat = history[c][i].chat
               /\ history'[c][i].edits >= history[c][i].edits
    BY <2>3
  <2>5. QED
    BY <2>2, <2>4
<1>6. CASE c # chat[k].conv
  BY <1>3, <1>4, <1>6
<1>7. QED
  BY <1>5, <1>6

\* No step drops, reorders or reverts a round; only a deletion empties a dialogue.
THEOREM Survival == Spec => RoundsSurvive
<1> DEFINE Survives(c) ==
      history'[c] = <<>> \/
        /\ Len(history[c]) <= Len(history'[c])
        /\ \A i \in DOMAIN history[c] :
             history'[c][i].chat = history[c][i].chat
             /\ history'[c][i].edits >= history[c][i].edits
<1>1. ASSUME IInv, [Next]_vars, NEW c \in Conv PROVE Survives(c)
  <2>1. /\ TypeOK /\ Len(history[c]) \in Nat
        /\ \A i \in DOMAIN history[c] : history[c][i].edits \in 0..2
    BY <1>1, RoundTyped DEF IInv
  <2>2. history' = history => Survives(c)
    BY <2>1
  <2>3. ASSUME NEW k \in Chat, Complete(k) \/ Prepare(k) \/ Lost(k) PROVE Survives(c)
    BY <2>2, <2>3 DEF Complete, Prepare, Begin, Lost
  <2>4. ASSUME NEW k \in Chat, Answered(k) PROVE Survives(c)
    BY <2>4, <1>1, AppendSurvives DEF Answered
  <2>5. ASSUME NEW k \in Chat, StreamBreaks(k) PROVE Survives(c)
    BY <2>5, <1>1, AppendSurvives DEF StreamBreaks
  <2>6. ASSUME NEW d \in Conv, dialogue_delete(d) PROVE Survives(c)
    <3>1. history'[c] = IF c = d THEN <<>> ELSE history[c]
      BY <2>1, <2>6 DEF dialogue_delete, TypeOK
    <3>2. QED
      BY <2>1, <3>1
  <2>7. ASSUME NEW d \in Conv, NEW m \in DOMAIN history[d], Edit(d, m) PROVE Survives(c)
    BY <2>1, <2>7, EditRewrites
  <2>8. CASE UNCHANGED vars
    BY <2>2, <2>8 DEF vars
  <2>9. QED
    BY <1>1, <2>3, <2>4, <2>5, <2>6, <2>7, <2>8
       DEF Next, chart_editor_submit, sql_editor_submit
<1>2. IInv /\ [Next]_vars => [\A c \in Conv : Survives(c)]_vars
  BY <1>1
<1>3. Spec => [][\A c \in Conv : Survives(c)]_vars
  BY <1>2, Inductive, PTL DEF Spec
<1>4. QED
  BY <1>3 DEF RoundsSurvive
=============================================================================
