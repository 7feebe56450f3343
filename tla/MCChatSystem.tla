----------------------------- MODULE MCChatSystem -----------------------------
(* Two questions, the first of them for the dialogue that streams. *)
EXTENDS ChatSystem

CONSTANTS c1, c2, k1, k2

MCConv == {c1, c2}
MCChat == {k1, k2}
MCStreams == {c1}
MCDeleters == {"patient"}

MCInit == Init /\ chat[k1].conv = c1

MCSpec == MCInit /\ [][Next]_vars /\ Fairness
=============================================================================
