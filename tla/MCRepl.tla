------------------------------- MODULE MCRepl -------------------------------
(***************************************************************************)
(* Instances of the REPL for TLC.  A source that ends in ";" is complete,  *)
(* one that begins with it fails to compile, and white space is an empty   *)
(* program.                                                                *)
(***************************************************************************)
EXTENDS Repl

MCLines == UNION {[1..n -> Chars] : n \in 0..MaxLine}
MCBlank == {<<>>}
MCUnchanged(line) == {line}
MCInitialFiles == {NoFile, <<>>, <<<<"a">>, <<"a", ";">>, <<";">>>>}

MCStatus(source) ==
  CASE \A i \in 1..Len(source) : source[i] \notin {"a", ";"} -> "SUCCESS"
    [] source # <<>> /\ source[1] = ";" -> "COMPILER_FAILURE"
    [] source # <<>> /\ source[1] # ";" /\ source[Len(source)] = ";" -> "VM_FAILURE"
    [] OTHER -> "COMPILER_UNEXPECTED_EOF"
MCErrors(source) ==
  IF MCStatus(source) \in {"COMPILER_FAILURE", "COMPILER_UNEXPECTED_EOF"}
  THEN <<source>> ELSE <<>>
=============================================================================
