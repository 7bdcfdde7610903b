------------------------ MODULE MCSuggestionPipeline ------------------------
(***************************************************************************)
(* Instances of SuggestionPipeline for TLC.                                *)
(***************************************************************************)
EXTENDS SuggestionPipeline, TLC

CONSTANTS owner, author

MCOneAuthor == [x \in Suggestion |-> author]
MCUser == {owner, author}
=============================================================================
