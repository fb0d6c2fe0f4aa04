----------------------------- MODULE MCGapBuffer -----------------------------
(* Instances of the gap buffer for TLC.                                    *)
EXTENDS GapBuffer

MCTexts == {<<"a", "_", "b">>, <<"_", "b", "b", "_">>}
MCNoTexts == {}
=============================================================================
