--------------------------- MODULE InstructionList ---------------------------
(***************************************************************************)
(* A chunk as the compiler and the virtual machine use it: a list of       *)
(* instructions, each with its operand and its source position, and a pool *)
(* of constants.  Module Chunk is how chunk.c keeps it in bytes; module    *)
(* ChunkPromise is what the users of chunk.c rely on, and Chunk is checked *)
(* to implement it.                                                        *)
(***************************************************************************)
EXTENDS Bytecode

CONSTANT ByteStates     \* values of a byte: 256

ASSUME ByteAssumption == ByteStates \in Nat \ {0}

VARIABLE chunk          \* the chunk being compiled or executed

EmptyChunk == [code |-> <<>>, constants |-> <<>>]

(* chunk_append_constant_instruction: the constant is appended before its  *)
(* index is found to exceed the pool limit.                                *)
PoolLimit == ByteStates * ByteStates
(* Mutation: the one-byte opcode one constant too long.                    *)
ConstantOpOffByOne(index) ==
  IF index > ByteStates THEN "CONSTANT_2B" ELSE "CONSTANT"

ConstantOp(index) == IF index >= ByteStates THEN "CONSTANT_2B" ELSE "CONSTANT"

(* Mutation: the index is read after the constant is appended.             *)
AppendConstantThenCount(value, pos) ==
  LET index == Len(chunk.constants) + 1
  IN  [code |-> IF index >= PoolLimit THEN chunk.code
                ELSE Emit(chunk.code, ConstantOp(index), index, pos),
       constants |-> Append(chunk.constants, value)]

AppendConstant(value, pos) ==
  LET index == Len(chunk.constants)
  IN  [code |-> IF index >= PoolLimit THEN chunk.code
                ELSE Emit(chunk.code, ConstantOp(index), index, pos),
       constants |-> Append(chunk.constants, value)]
=============================================================================
