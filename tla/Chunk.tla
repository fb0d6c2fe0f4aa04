-------------------------------- MODULE Chunk --------------------------------
(***************************************************************************)
(* The bytecode chunk of src/backend/chunk.c: instructions laid out in     *)
(* bytes, source lines run-length encoded, a pool of constants.            *)
(*                                                                         *)
(* An opcode takes one byte; CONSTANT has a one-byte operand and           *)
(* CONSTANT_2B a two-byte one, least significant byte first.  `lines' holds*)
(* one entry for each run of instructions of the same line; the line of an *)
(* instruction is found by walking the bytes to count the instructions     *)
(* before it.                                                              *)
(***************************************************************************)
EXTENDS Bytecode, DynamicArray, SequencesExt

CONSTANTS ByteStates,      \* values of a byte: 256
          OpcodeTable,     \* ChunkOpCode: the opcodes, by their byte plus one
          SimpleOps, Values, Lines,
          MaxInstructions  \* bound of the model: instructions in a chunk

(* Every opcode fits in a byte: the static_assert of chunk.h:52.  A growth *)
(* makes room for a two-byte operand only if it adds room for two bytes.   *)
ASSUME ChunkAssumption ==
  /\ ByteStates \in Nat \ {0}
  /\ OpcodeTable \in Seq(Opcodes)
  /\ Len(OpcodeTable) <= ByteStates
  /\ \A op \in SimpleOps \cup ConstantOps :
       \E i \in 1..Len(OpcodeTable) : OpcodeTable[i] = op
  /\ SimpleOps \cap ConstantOps = {}
  /\ InitialGrowthCapacity >= 2

VARIABLES code, lines, constants,  \* the dynamic arrays of a Chunk
          exited                   \* ERROR_MEMORY ended the process

chunkVars == <<code, lines, constants, exited>>

Bytes == 0..(ByteStates - 1)
OpcodeByte(op) == (CHOOSE i \in 1..Len(OpcodeTable) : OpcodeTable[i] = op) - 1

(* memory_get_byte: the least significant byte has index 0.                *)
GetByte(number, index) ==
  IF index = 0 THEN number % ByteStates ELSE (number \div ByteStates) % ByteStates

ChunkInit ==
  /\ code = EmptyArray
  /\ lines = EmptyArray
  /\ constants = EmptyArray
  /\ exited = FALSE

(* The lines of chunk_append_instruction.                                  *)
Attribute(line) ==
  IF Count(lines) = 0 \/ line # lines.items[Count(lines)].line
  THEN Push(lines, [line |-> line, count |-> 1])
  ELSE [lines EXCEPT !.items[Count(lines)].count = @ + 1]

chunk_append_instruction(op, line) ==
  /\ ~exited
  /\ code' = Push(code, OpcodeByte(op))
  /\ lines' = Attribute(line)
  /\ UNCHANGED <<constants, exited>>

(* Mutation: the array grows only when it is full, as for a single byte.   *)
AppendTwoBytesGrowingWhenFull(array, first, second) ==
  LET grown == IF Count(array) = array.capacity THEN Grow(array) ELSE array
  IN  [grown EXCEPT !.items = @ \o <<first, second>>]

(* chunk_append_multibyte_operand: one growth must make room for all.      *)
AppendTwoBytes(array, first, second) ==
  LET grown == IF Count(array) + 2 > array.capacity THEN Grow(array) ELSE array
  IN  [grown EXCEPT !.items = @ \o <<first, second>>]

(* The constant is in the pool before its index is found too large.        *)
chunk_append_constant_instruction(value, line) ==
  LET index == Count(constants)
  IN  /\ ~exited
      /\ constants' = Push(constants, value)
      /\ \/ /\ index > ByteStates * ByteStates - 1
            /\ exited' = TRUE
            /\ UNCHANGED <<code, lines>>
         \/ /\ index <= ByteStates * ByteStates - 1
            /\ index > ByteStates - 1
            /\ code' = AppendTwoBytes(Push(code, OpcodeByte("CONSTANT_2B")),
                                      GetByte(index, 0), GetByte(index, 1))
            /\ lines' = Attribute(line)
            /\ UNCHANGED exited
         \/ /\ index <= ByteStates - 1
            /\ code' = Push(Push(code, OpcodeByte("CONSTANT")), index)
            /\ lines' = Attribute(line)
            /\ UNCHANGED exited

(* chunk_destroy and the chunk_init of the next compilation.               *)
chunk_reset ==
  /\ ~exited
  /\ code' = EmptyArray
  /\ lines' = EmptyArray
  /\ constants' = EmptyArray
  /\ UNCHANGED exited

-----------------------------------------------------------------------------
(* Reading a chunk back.                                                   *)
Size(op) == CASE op = "CONSTANT" -> 2 [] op = "CONSTANT_2B" -> 3 [] OTHER -> 1
OpcodeAt(bytes, offset) == OpcodeTable[bytes[offset + 1] + 1]

(* The operands that vm_execute reads (vm.c:143-156).                      *)
OperandAt(bytes, offset) ==
  CASE OpcodeAt(bytes, offset) = "CONSTANT" -> bytes[offset + 2]
    [] OpcodeAt(bytes, offset) = "CONSTANT_2B" ->
         bytes[offset + 2] + bytes[offset + 3] * ByteStates
    [] OTHER -> 0

(* The walk of chunk_get_instruction_line over the bytes: the offset of the*)
(* instruction before which there are n others.                            *)
Walk(bytes) ==
  LET following == [offset \in Nat |-> offset + Size(OpcodeAt(bytes, offset))]
      walk[n \in Nat] == IF n = 0 THEN 0 ELSE following[walk[n - 1]]
  IN  walk

InstructionCount(bytes) ==
  CHOOSE n \in 0..Len(bytes) :
    /\ Walk(bytes)[n] >= Len(bytes)
    /\ n > 0 => Walk(bytes)[n - 1] < Len(bytes)

(* The sums of the first n numbers.                                        *)
PartialSums(numbers) ==
  LET sum[n \in Nat] ==
        IF n \notin DOMAIN numbers THEN 0 ELSE sum[n - 1] + numbers[n]
  IN  sum

(* Mutation: the run that ends just before the instruction counts as its.  *)
LineOfRunBefore(runs, index) ==
  LET counted == PartialSums([i \in DOMAIN runs |-> runs[i].count])
  IN  runs[Min({i \in DOMAIN runs : counted[i] >= index})].line

(* chunk_get_instruction_line, of the instruction before which it counts   *)
(* `index' others.                                                         *)
chunk_get_instruction_line(runs, index) ==
  LET counted == PartialSums([i \in DOMAIN runs |-> runs[i].count])
  IN  runs[Min({i \in DOMAIN runs : counted[i] > index})].line

-----------------------------------------------------------------------------
ChunkNext ==
  /\ InstructionCount(code.items) < MaxInstructions
  /\ \/ \E op \in SimpleOps, line \in Lines : chunk_append_instruction(op, line)
     \/ \E value \in Values, line \in Lines :
          chunk_append_constant_instruction(value, line)
     \/ chunk_reset

ChunkSpec == ChunkInit /\ [][ChunkNext]_chunkVars

LineCounts == [line : Lines, count : Nat \ {0}]

(* Types, and no write of the appends, of one byte or of two, goes past    *)
(* its allocation (chunk.c:68, :96, :101 and DARRAY_PUSH).                 *)
ChunkInv ==
  /\ code \in Arrays(Bytes) /\ Fits(code)
  /\ lines \in Arrays(LineCounts) /\ Fits(lines)
  /\ constants \in Arrays(Values) /\ Fits(constants)
  /\ exited \in BOOLEAN

(* The instructions read back, and the effect of each on the height of the *)
(* operand stack.                                                          *)
Effect(op) == Pushes(op) - Pops(op)
Effects(bytes) ==
  LET walk == Walk(bytes)
  IN  [n \in 1..InstructionCount(bytes) |-> Effect(OpcodeAt(bytes, walk[n - 1]))]

Decoded(bytes, runs) ==
  LET walk == Walk(bytes)
      height == PartialSums(Effects(bytes))
  IN  [n \in 1..InstructionCount(bytes) |->
         [op |-> OpcodeAt(bytes, walk[n - 1]), arg |-> OperandAt(bytes, walk[n - 1]),
          pos |-> chunk_get_instruction_line(runs, n - 1), height |-> height[n - 1]]]

List == INSTANCE ChunkPromise
          WITH chunk <- [code |-> Decoded(code.items, lines.items), constants |-> constants.items]

(* What each call does to the list, given the arguments it was called with.*)
CallsAppend ==
  /\ \A op \in SimpleOps, line \in Lines :
       chunk_append_instruction(op, line) => List!AppendInstruction(op, line)
  /\ \A value \in Values, line \in Lines :
       chunk_append_constant_instruction(value, line)
         => List!AppendConstantInstruction(value, line)
  /\ chunk_reset => List!Reset

(* The bytes read back are the instructions that were appended: the opcode,*)
(* the constant and the line that each call was given, whatever mix of     *)
(* one-byte and two-byte operands surrounds them (chunk.c:60-188).         *)
KeepsInstructions == List!PromiseSpec /\ [][CallsAppend]_chunkVars
=============================================================================
