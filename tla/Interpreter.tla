----------------------------- MODULE Interpreter -----------------------------
(***************************************************************************)
(* The interpreter of src/interpreter.c: interpreter_interpret compiles a  *)
(* source to a chunk and, if that succeeds, executes it; the virtual       *)
(* machine (its stack, its objects, its heap blocks) persists from call to *)
(* call until interpreter_destroy.                                         *)
(*                                                                         *)
(* file_interpret makes one call and the REPL one per logical line.  Both  *)
(* own the source text and reuse or free it once a call has returned: the  *)
(* REPL clears logical_line.  String literals refer to it all the same.    *)
(***************************************************************************)
EXTENDS Compiler, VM

CONSTANT MaxCalls       \* bound of the model: calls of interpreter_interpret

VARIABLES phase,        \* where the interpreter's caller is
          result        \* InterpreterStatus of the last call

interpreterVars == <<compilerVars, vmVars, heap, phase, result>>

InterpreterInit ==
  /\ CompilerInit
  /\ heap = {}
  /\ VmInit
  /\ phase = "ready"
  /\ result = "NONE"

(* interpreter_interpret, as far as compiler_compile's loop.               *)
InterpretCall ==
  /\ phase = "ready"
  /\ sourceId < MaxCalls
  /\ CompilerStart
  /\ phase' = "compiling"
  /\ UNCHANGED <<heap, vmVars, result>>

Compile ==
  /\ phase = "compiling"
  /\ CompilerStep
  /\ UNCHANGED <<heap, vmVars, phase, result>>

(* chunk_destroy, and interpreter_interpret returns: the source is its     *)
(* caller's again.                                                         *)
Return(interpreterStatus) ==
  /\ result' = interpreterStatus
  /\ phase' = "ready"
  /\ status' = "idle"
  /\ chunk' = EmptyChunk
  /\ source' = <<>>
  /\ parser' = InitialParser
  /\ UNCHANGED <<sourceId, frames, gcObjects, heap>>

(* Mutation: interpreter_interpret has no case for an unexpected end.      *)
CompilerReturnsWithoutEofCase ==
  /\ phase = "compiling"
  /\ \/ /\ status = "success"
        /\ VmStart
        /\ phase' = "executing"
        /\ UNCHANGED <<compilerVars, heap, result>>
     \/ /\ status = "failure"
        /\ Return("COMPILER_FAILURE")
        /\ UNCHANGED vmVars

CompilerReturns ==
  /\ phase = "compiling"
  /\ \/ /\ status = "success"
        /\ VmStart
        /\ phase' = "executing"
        /\ UNCHANGED <<compilerVars, heap, result>>
     \/ /\ status = "failure"
        /\ Return("COMPILER_FAILURE")
        /\ UNCHANGED vmVars
     \/ /\ status = "unexpected_eof"
        /\ Return("COMPILER_UNEXPECTED_EOF")
        /\ UNCHANGED vmVars

Execute ==
  /\ phase = "executing"
  /\ VmStep
  /\ UNCHANGED <<source, sourceId, parser, frames, status, phase, result>>

VmReturns ==
  /\ phase = "executing"
  /\ vmStatus \in {"success", "failure"}
  /\ Return(IF vmStatus = "success" THEN "SUCCESS" ELSE "VM_FAILURE")
  /\ vmStatus' = "idle"
  /\ results' = <<>>
  /\ UNCHANGED <<stack, ip, base, output, errorPos>>

(* interpreter_destroy.                                                    *)
Destroy ==
  /\ phase = "ready"
  /\ VmDestroy
  /\ phase' = "destroyed"
  /\ UNCHANGED <<source, sourceId, parser, frames, status, chunk, result>>

InterpreterNext ==
  \/ InterpretCall \/ Compile \/ CompilerReturns \/ Execute \/ VmReturns
  \/ Destroy
InterpreterSpec == InterpreterInit /\ [][InterpreterNext]_interpreterVars
FairInterpreterSpec == InterpreterSpec /\ WF_interpreterVars(InterpreterNext)
-----------------------------------------------------------------------------
(* Properties.                                                             *)

Values == {NilValue} \cup [kind : {"bool"}, boolean : BOOLEAN] \cup NumberValues
            \cup ObjectValues(Len(gcObjects))

(* Type invariant: of the virtual machine and the caller, besides the      *)
(* compiler's own.                                                         *)
InterpreterTypeOK ==
  /\ TypeOK
  /\ stack \in Seq(Values) /\ results \in Seq(Values)
  /\ ip \in Nat /\ base \in Nat /\ errorPos \in Nat
  /\ vmStatus \in {"idle", "executing", "success", "failure", "aborted", "destroyed"}
  /\ heap \subseteq Nat
  /\ phase \in {"ready", "compiling", "executing", "destroyed"}
  /\ result \in {"NONE", "SUCCESS", "COMPILER_FAILURE",
                 "COMPILER_UNEXPECTED_EOF", "VM_FAILURE"}

(* The running chunk has a next instruction and, above whatever earlier    *)
(* calls left on the stack, all the operands it reads (the assertions of   *)
(* vm_execute and DARRAY_POP cannot tell leftovers from operands).         *)
NeverBelowBase ==
  vmStatus = "executing" =>
    /\ ip \in 1..Len(chunk.code)
    /\ Len(stack) - base >= Pops(Instruction.op)

(* A call that succeeds leaves the operand stack as high as it found it:   *)
(* only runtime errors leave values behind.                                *)
SuccessRestoresStack == vmStatus = "success" => Len(stack) = base

(* No instruction writes below the base of its chunk: what a failed call   *)
(* left on the stack stays there, unread, until vm_destroy.                *)
LeftoversUntouched ==
  [][vmStatus = "executing" =>
       /\ base <= Len(stack')
       /\ SubSeq(stack', 1, base) = SubSeq(stack, 1, base)]_interpreterVars

(* Strings refer to the source they were written in, which its owner reuses*)
(* when the call returns.  The objects stay in vm.gc_objects, some stay on *)
(* the stack, but no value the running chunk can reach refers to an earlier*)
(* source.                                                                 *)
NoDanglingString ==
  vmStatus = "executing" =>
    \A i \in base + 1..Len(stack) :
      value_is_string(stack[i]) =>
        gcObjects[stack[i].object].origin \in {0, sourceId}

(* interpreter_interpret returns or the process ends.                      *)
CallReturns == phase # "ready" ~>
  phase \in {"ready", "destroyed"} \/ status = "exit" \/ vmStatus = "aborted"
=============================================================================
