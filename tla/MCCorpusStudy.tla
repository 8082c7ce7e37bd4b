--------------------------- MODULE MCCorpusStudy ---------------------------
(***************************************************************************)
(* Three works, one of them of two chunks: an extraction that asks for     *)
(* more has a choice, and a narrowed selection can have as many works left *)
(* as were read before.  An input can be too long in a stage that reads    *)
(* the files and in one that reads the artifacts.                          *)
(***************************************************************************)
EXTENDS CorpusStudy

CONSTANTS w1, w2, w3

MCProposal == <<w1, w2, w3>>
MCChunks == [w \in {w1, w2, w3} |-> IF w = w1 THEN 2 ELSE 1]
MCLongInputs == {<<"golden_three", Whole(w2)>>, <<"chapter_extraction", <<w1, 2>>>>, <<"report", All>>}
=============================================================================
