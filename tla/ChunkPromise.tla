---------------------------- MODULE ChunkPromise ----------------------------
(***************************************************************************)
(* What the users of chunk.c rely on: instructions are appended one after  *)
(* the other and read back whole, each with the operand and the line it was*)
(* given, and a constant is found at the index its instruction carries.    *)
(* The position of an instruction (Bytecode) is its source line here.      *)
(***************************************************************************)
EXTENDS InstructionList

CONSTANTS SimpleOps,       \* opcodes without an operand
          Values, Lines

VARIABLE exited            \* ERROR_MEMORY ended the process

promiseVars == <<chunk, exited>>

PromiseInit == chunk = EmptyChunk /\ exited = FALSE

AppendInstruction(op, line) ==
  /\ ~exited
  /\ chunk' = [chunk EXCEPT !.code = Emit(@, op, 0, line)]
  /\ UNCHANGED exited

AppendConstantInstruction(value, line) ==
  /\ ~exited
  /\ chunk' = AppendConstant(value, line)
  /\ exited' = (Len(chunk.constants) >= PoolLimit)

Reset == ~exited /\ chunk' = EmptyChunk /\ UNCHANGED exited

PromiseNext ==
  \/ \E op \in SimpleOps, line \in Lines : AppendInstruction(op, line)
  \/ \E value \in Values, line \in Lines : AppendConstantInstruction(value, line)
  \/ Reset

PromiseSpec == PromiseInit /\ [][PromiseNext]_promiseVars
=============================================================================
