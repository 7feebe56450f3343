------------------------- MODULE MCKnowledgeService --------------------------
(* Small instances of KnowledgeService: what a sync request may ask for. *)
EXTENDS KnowledgeService

MCSingles == {<<id>> : id \in 1..MaxDocs}
MCBatches == MCSingles \cup {<<1, 2>>}
=============================================================================
