------------------------------ MODULE Bytecode ------------------------------
(***************************************************************************)
(* The instruction set shared by the compiler and the virtual machine      *)
(* (include/backend/chunk.h), at the granularity of whole instructions.    *)
(*                                                                         *)
(* An instruction carries its opcode, its operand (the index of a constant,*)
(* 0 for the simple opcodes) and the position of the source token whose    *)
(* line the compiler attaches to it.  `height' is auxiliary: the number of *)
(* operand-stack slots that the instruction finds when everything emitted  *)
(* before it has run.  How instructions become bytes is module Chunk.      *)
(***************************************************************************)
EXTENDS Integers, Sequences

BinaryOps == {"ADD", "SUBTRACT", "MULTIPLY", "DIVIDE", "MODULO",
              "EQUAL", "NOT_EQUAL", "LESS", "LESS_EQUAL", "GREATER",
              "GREATER_EQUAL", "CONCATENATE"}
UnaryOps == {"NEGATE", "NOT"}
InvariableOps == {"NIL", "TRUE", "FALSE"}
ConstantOps == {"CONSTANT", "CONSTANT_2B"}
DiscardOps == {"PRINT", "POP"}

(* ChunkOpCode: the 22 opcodes. *)
Opcodes == BinaryOps \cup UnaryOps \cup InvariableOps \cup ConstantOps
             \cup DiscardOps \cup {"RETURN"}

(* Operand-stack slots an opcode reads (ASSERT_MIN_VM_STACK_COUNT and the  *)
(* vm_stack_pop calls) and slots it leaves in their place.                 *)
Pops(op) == IF op \in BinaryOps THEN 2
            ELSE IF op \in UnaryOps \cup DiscardOps THEN 1
            ELSE 0
Pushes(op) == IF op \in DiscardOps \cup {"RETURN"} THEN 0 ELSE 1

Instructions == [op : Opcodes, arg : Nat, pos : Nat, height : Int]

(* Operand-stack height once all of `code' has run on an empty stack.      *)
HeightAfter(code) ==
  IF code = <<>> THEN 0
  ELSE LET last == code[Len(code)]
       IN  last.height - Pops(last.op) + Pushes(last.op)

(* emit_instruction / emit_constant_instruction at token position `pos'.   *)
Emit(code, op, arg, pos) ==
  Append(code, [op |-> op, arg |-> arg, pos |-> pos,
                height |-> HeightAfter(code)])
=============================================================================
