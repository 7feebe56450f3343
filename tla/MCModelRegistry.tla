--------------------------- MODULE MCModelRegistry ---------------------------
(* Small instances of ModelRegistry: one model under its own name and under  *)
(* a padded spelling of it, workers whose host is spelled with blanks at     *)
(* times, and the ratio of the code's 120 s timeout to its 60 s scan         *)
(* interval.                                                                 *)
EXTENDS ModelRegistry

CONSTANTS llm, padded, host, blank_host

MCName == {llm, padded}
MCStrip == [n \in MCName |-> llm]
MCAddr == {host, blank_host}
MCStripAddr == [a \in MCAddr |-> host]
=============================================================================
