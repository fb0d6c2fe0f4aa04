------------------------------- MODULE MCChunk -------------------------------
(* Instances of the chunk for TLC: a byte of three values, enough for the  *)
(* three kinds of instruction and for operands of one byte and of two.     *)
EXTENDS Chunk

MCOpcodeTable == <<"POP", "CONSTANT", "CONSTANT_2B">>
MCSimpleOps == {"POP"}

(* To exhaust the constant pool, explore beyond ShortChunk instructions only*)
(* chunks of constants with few simple instructions and changes of line.   *)
ShortChunk == 6
FewSimple == 1
FewRuns == 2
ShortOrConstants ==
  \/ InstructionCount(code.items) <= ShortChunk
  \/ /\ InstructionCount(code.items) - Count(constants) <= FewSimple
     /\ Count(lines) <= FewRuns
=============================================================================
