----------------------------- MODULE MCHistory -----------------------------
(* Instances of the history for TLC.                                       *)
EXTENDS History

MCUnchanged(line) == {line}
=============================================================================
