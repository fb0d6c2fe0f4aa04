-------------------------- MODULE InterpreterProofs --------------------------
(***************************************************************************)
(* Proofs about the interpreter for every set of tokens, numbers and texts,*)
(* every bound and every number of calls: the virtual machine never reads  *)
(* an operand that the running chunk did not push, nor a source text that  *)
(* its owner may have reused, and what it computes, prints and reports is  *)
(* what the tokens of the source mean.                                     *)
(***************************************************************************)
EXTENDS InterpreterMeaning, CompilerProofs

(* Between calls the chunk is the one chunk_destroy resets.                *)
ChunkReset == chunk = EmptyChunk

(* How the caller's phase, the compiler's status and the machine's status  *)
(* go together.                                                            *)
PhaseOK ==
  /\ phase = "ready" => status = "idle" /\ vmStatus = "idle" /\ ChunkReset
  /\ phase = "compiling" => status # "idle" /\ vmStatus = "idle"
  /\ phase = "executing" => status = "success"
  /\ phase = "destroyed" => vmStatus = "destroyed"
  /\ vmStatus \in {"executing", "success", "failure", "aborted"} => phase = "executing"
  /\ vmStatus \in {"idle", "destroyed"} => results = <<>>

(* The stack is as high as the compiler said it would be.                  *)
HeightOK ==
  /\ vmStatus # "destroyed" => base <= Len(stack)
  /\ vmStatus = "executing" => /\ ip \in 1..Len(chunk.code)
                               /\ Len(stack) = base + chunk.code[ip].height

InterpreterInv ==
  /\ CompilerInv
  /\ InterpreterTypeOK
  /\ PhaseOK
  /\ HeightOK
  /\ SuccessRestoresStack
  /\ NoDanglingString

(* A value the running chunk may hold: a string among its values is static,*)
(* in the heap, or in the source of this call.                             *)
Fresh(v) == value_is_string(v) => gcObjects[v.object].origin \in {0, sourceId}
FreshNext(v) == value_is_string(v) => gcObjects'[v.object].origin \in {0, sourceId'}

-----------------------------------------------------------------------------
(* What a running chunk is: code that a successful compilation emitted.    *)
LEMMA RunningCode ==
  ASSUME InterpreterInv, vmStatus = "executing"
  PROVE  /\ chunk \in ChunkSet(Len(gcObjects)) /\ chunk.code \in Seq(Instructions)
         /\ ip \in 1..Len(chunk.code) /\ Len(chunk.code) \in Nat
         /\ Instruction \in Instructions
         /\ Instruction.height >= Pops(Instruction.op)
         /\ Instruction.op = "RETURN" => Instruction.height = 0
         /\ Instruction.op # "RETURN" =>
              /\ ip + 1 \in 1..Len(chunk.code)
              /\ chunk.code[ip + 1].height
                   = Instruction.height - Pops(Instruction.op) + Pushes(Instruction.op)
         /\ Instruction.op \in ConstantOps => Instruction.arg < Len(chunk.constants)
<1>1. /\ status = "success" /\ CompilerInv /\ TypeOK
      /\ ip \in 1..Len(chunk.code)
  BY DEF InterpreterInv, PhaseOK, HeightOK, CompilerInv
<1>2. chunk \in ChunkSet(Len(gcObjects)) /\ chunk.code \in Seq(Instructions)
  BY <1>1 DEF TypeOK, ChunkSet
<1>3. Instruction \in Instructions
  BY <1>1, <1>2 DEF Instruction
<1>4. ~parser.hadError
  BY <1>1 DEF CompilerInv, ScanOK
<1>5. /\ chunk.code[Len(chunk.code)].op = "RETURN" /\ HeightAfter(chunk.code) = 0
      /\ \A i \in 1..Len(chunk.code) - 1 : chunk.code[i].op # "RETURN"
      /\ NeverUnderflows(chunk.code) /\ HeightsFollow(chunk.code) /\ OperandsFit
      /\ chunk.code # <<>>
  BY <1>1, <1>4 DEF CompilerInv, StackDiscipline
<1>6. Instruction.height >= Pops(Instruction.op)
  BY <1>1, <1>5 DEF NeverUnderflows, Instruction
<1>7. ASSUME Instruction.op = "RETURN"
      PROVE  Instruction.height = 0
  <2>1. ip = Len(chunk.code)
    BY <1>1, <1>2, <1>5, <1>7 DEF Instruction
  <2>2. Instruction.height - Pops(Instruction.op) + Pushes(Instruction.op) = 0
    BY <1>5, <2>1 DEF HeightAfter, Instruction
  <2>3. Pops("RETURN") = 0 /\ Pushes("RETURN") = 0
    BY DEF Pops, Pushes, BinaryOps, UnaryOps, DiscardOps
  <2>4. Instruction.height \in Int
    BY <1>3 DEF Instructions
  <2> QED BY <1>7, <2>2, <2>3, <2>4
<1>8. ASSUME Instruction.op # "RETURN"
      PROVE  /\ ip + 1 \in 1..Len(chunk.code)
             /\ chunk.code[ip + 1].height
                  = Instruction.height - Pops(Instruction.op) + Pushes(Instruction.op)
  <2>1. ip # Len(chunk.code)
    BY <1>5, <1>8 DEF Instruction
  <2>2. ip + 1 \in 1..Len(chunk.code) /\ ip + 1 # 1 /\ ip + 1 - 1 = ip
    BY <1>1, <1>2, <2>1
  <2>3. PICK j \in 1..Len(chunk.code) : j = ip + 1 /\ j # 1 /\ j - 1 = ip
    BY <1>1, <1>2, <2>2
  <2>4. chunk.code[j].height
          = chunk.code[j - 1].height - Pops(chunk.code[j - 1].op)
                                     + Pushes(chunk.code[j - 1].op)
    BY <1>5, <2>3 DEF HeightsFollow
  <2> QED BY <2>3, <2>4 DEF Instruction
<1>9. Instruction.op \in ConstantOps => Instruction.arg < Len(chunk.constants)
  BY <1>1, <1>5 DEF OperandsFit, OperandFits, Instruction
<1> QED BY <1>1, <1>2, <1>3, <1>6, <1>7, <1>8, <1>9

(* What an instruction finds on the stack: its operands, above the base.   *)
LEMMA Operands ==
  ASSUME InterpreterInv, vmStatus = "executing"
  PROVE  /\ stack \in Seq(Values) /\ base \in Nat /\ Len(stack) \in Nat
         /\ base <= Len(stack) - Pops(Instruction.op)
         /\ Pops(Instruction.op) \in 0..2
         /\ \A k \in 1..Pops(Instruction.op) :
              Operand(k) \in Values /\ Fresh(Operand(k))
<1>1. /\ stack \in Seq(Values) /\ base \in Nat /\ Len(stack) \in Nat
      /\ Len(stack) = base + Instruction.height
      /\ NoDanglingString
  BY DEF InterpreterInv, InterpreterTypeOK, HeightOK, Instruction
<1>2. /\ Instruction.height >= Pops(Instruction.op) /\ Instruction.height \in Int
      /\ Pops(Instruction.op) \in 0..2
  BY RunningCode DEF Instructions, Pops
<1>3. ASSUME NEW k \in 1..Pops(Instruction.op)
      PROVE  Operand(k) \in Values /\ Fresh(Operand(k))
  <2>1. Len(stack) - Pops(Instruction.op) + k \in base + 1..Len(stack)
    BY <1>1, <1>2
  <2>2. base + 1..Len(stack) \subseteq 1..Len(stack)
    BY <1>1
  <2> DEFINE i == Len(stack) - Pops(Instruction.op) + k
  <2>3. stack[i] \in Values
    BY <1>1, <2>1, <2>2
  <2>4. Fresh(stack[i])
    BY <1>1, <2>1 DEF NoDanglingString, Fresh
  <2> QED BY <2>3, <2>4 DEF Operand
<1> QED BY <1>1, <1>2, <1>3

(* Dropping values from the top and pushing one.                           *)
LEMMA BelowFacts ==
  ASSUME NEW S, stack \in Seq(S), NEW n \in Nat, n <= Len(stack)
  PROVE  /\ Below(n) \in Seq(S) /\ Len(Below(n)) = Len(stack) - n
         /\ \A i \in 1..Len(stack) - n : Below(n)[i] = stack[i]
<1>1. PICK m \in Nat : m = Len(stack) - n /\ m <= Len(stack)
  <2>1. Len(stack) \in Nat
    OBVIOUS
  <2> QED BY <2>1
<1>2. /\ SubSeq(stack, 1, m) \in Seq(S) /\ Len(SubSeq(stack, 1, m)) = m
      /\ \A i \in 1..m : SubSeq(stack, 1, m)[i] = stack[i]
  <2>1. \A i \in 1..m : stack[i] \in S
    BY <1>1
  <2> QED BY <1>1, <2>1, SubSeqProperties
<1> QED BY <1>1, <1>2 DEF Below

-----------------------------------------------------------------------------
(* What every instruction leaves alone.                                    *)
Frozen == UNCHANGED <<source, sourceId, parser, frames, status, chunk, base, phase, result>>

(* Below the base nothing is written.                                      *)
LeftoversKept == \A i \in 1..base : stack'[i] = stack[i]

(* The values of a grown list of objects include those of the list before, *)
(* and a fresh value stays fresh.                                          *)
LEMMA ValuesGrow ==
  ASSUME InterpreterInv, ObjectsGrow, UNCHANGED sourceId
  PROVE  /\ Values \subseteq Values'
         /\ \A v \in Values : Fresh(v) => FreshNext(v)
<1>1. gcObjects \in Seq(ObjectSet) /\ Len(gcObjects) \in Nat /\ Len(gcObjects') \in Nat
  BY DEF InterpreterInv, CompilerInv, TypeOK, ObjectsGrow
<1>2. ObjectValues(Len(gcObjects)) \subseteq ObjectValues(Len(gcObjects'))
  BY <1>1 DEF ObjectsGrow, ObjectValues
<1>3. ASSUME NEW v \in Values, Fresh(v), value_is_string(v)
      PROVE  gcObjects'[v.object].origin \in {0, sourceId'}
  <2>1. v.object \in 1..Len(gcObjects)
    BY <1>3 DEF Values, value_is_string, NilValue, NumberValues, ObjectValues
  <2> QED BY <1>3, <2>1 DEF Fresh, ObjectsGrow
<1> QED BY <1>2, <1>3 DEF Values, FreshNext, value_is_string

(* An instruction keeps the invariant when what it leaves on the stack     *)
(* above the base is as high as the compiler says and fresh.               *)
LEMMA VmAssemble ==
  ASSUME InterpreterInv, vmStatus = "executing", Frozen, ObjectsGrow,
         heap' \subseteq Nat, ip' \in Nat, errorPos' \in Nat,
         vmStatus' \in {"executing", "success", "failure", "aborted"},
         stack' \in Seq(Values'), results' \in Seq(Values'), base <= Len(stack'),
         vmStatus' = "success" => Len(stack') = base,
         vmStatus' = "executing" =>
           /\ ip' \in 1..Len(chunk.code)
           /\ Len(stack') = base + chunk.code[ip'].height
           /\ \A i \in base + 1..Len(stack') : FreshNext(stack'[i])
  PROVE  InterpreterInv'
<1>1. CompilerInv' /\ TypeOK'
  BY OthersInv DEF InterpreterInv, Frozen, CompilerInv
<1>2. InterpreterTypeOK'
  BY <1>1 DEF InterpreterInv, InterpreterTypeOK, Frozen
<1>3. phase = "executing" /\ status = "success"
  BY DEF InterpreterInv, PhaseOK
<1>4. PhaseOK'
  BY <1>3 DEF PhaseOK, Frozen
<1>5. HeightOK' /\ SuccessRestoresStack'
  BY DEF HeightOK, SuccessRestoresStack, Frozen
<1>6. NoDanglingString'
  BY DEF NoDanglingString, FreshNext, value_is_string, Frozen
<1> QED BY <1>1, <1>2, <1>4, <1>5, <1>6 DEF InterpreterInv

(* An instruction that replaces its operands by one value.                 *)
LEMMA YieldStep ==
  ASSUME InterpreterInv, vmStatus = "executing", Frozen, ObjectsGrow,
         heap' \subseteq Nat,
         Instruction.op # "RETURN", Pushes(Instruction.op) = 1,
         NEW v, v \in Values', FreshNext(v), Yield(v)
  PROVE  InterpreterInv' /\ LeftoversKept
<1> DEFINE pops == Pops(Instruction.op)
           kept == Below(pops)
<1>1. /\ stack \in Seq(Values) /\ base \in Nat /\ Len(stack) \in Nat
      /\ base <= Len(stack) - pops /\ pops \in 0..2
  BY Operands
<1>2. Values \subseteq Values'
  BY ValuesGrow DEF Frozen
<1>3. /\ kept \in Seq(Values) /\ Len(kept) = Len(stack) - pops
      /\ \A i \in 1..Len(stack) - pops : kept[i] = stack[i]
  <2>1. pops \in Nat /\ pops <= Len(stack)
    BY <1>1
  <2> HIDE DEF pops
  <2> QED BY <1>1, <2>1, BelowFacts
<1>4. stack' = Append(kept, v) /\ ip' = ip + 1 /\ vmStatus' = vmStatus /\ errorPos' = errorPos
  BY DEF Yield
<1>5. kept \in Seq(Values')
  <2> HIDE DEF kept
  <2> QED BY <1>2, <1>3
<1> HIDE DEF kept, pops
<1>6. /\ stack' \in Seq(Values') /\ Len(stack') = Len(stack) - pops + 1
      /\ \A i \in 1..Len(stack) - pops : stack'[i] = stack[i]
      /\ stack'[Len(stack) - pops + 1] = v
  <2>1. /\ Append(kept, v) \in Seq(Values') /\ Len(Append(kept, v)) = Len(kept) + 1
        /\ \A i \in 1..Len(kept) : Append(kept, v)[i] = kept[i]
        /\ Append(kept, v)[Len(kept) + 1] = v
    BY <1>5
  <2> QED BY <1>3, <1>4, <2>1
<1>7. /\ ip + 1 \in 1..Len(chunk.code) /\ Instruction.height \in Int
      /\ chunk.code[ip + 1].height = Instruction.height - pops + 1
      /\ Len(stack) = base + Instruction.height
  BY RunningCode DEF Instructions, InterpreterInv, HeightOK, Instruction, pops
<1>8. Len(stack') = base + chunk.code[ip'].height
  <2>1. chunk.code[ip'].height = Instruction.height - pops + 1
    BY <1>4, <1>7, Zenon
  <2>2. /\ pops \in Int /\ base \in Int /\ Instruction.height \in Int
        /\ Len(stack) = base + Instruction.height
    BY <1>1, <1>7
  <2>3. Len(stack') = Len(stack) - pops + 1
    BY <1>6
  <2>4. ASSUME NEW m, m = Len(stack) - pops + 1
        PROVE  m = base + (Instruction.height - pops + 1)
    BY <2>2, <2>4
  <2> QED BY <2>1, <2>3, <2>4, Zenon
<1>9. ASSUME NEW i \in base + 1..Len(stack')
      PROVE  FreshNext(stack'[i])
  <2>1. CASE i \in 1..Len(stack) - pops
    <3>1. i \in base + 1..Len(stack) /\ i \in 1..Len(stack)
      BY <1>1, <1>9, <2>1
    <3>2. stack[i] \in Values /\ Fresh(stack[i])
      BY <1>1, <3>1 DEF InterpreterInv, NoDanglingString, Fresh
    <3>3. FreshNext(stack[i])
      BY <3>2, ValuesGrow DEF Frozen
    <3> QED BY <1>6, <2>1, <3>3
  <2>2. CASE i = Len(stack) - pops + 1
    BY <1>6, <2>2
  <2> QED BY <1>1, <1>6, <1>9, <2>1, <2>2
<1>10. LeftoversKept
  BY <1>1, <1>6 DEF LeftoversKept
<1>11. ip' \in Nat /\ errorPos' \in Nat /\ ip' \in 1..Len(chunk.code) /\ base <= Len(stack')
  BY <1>1, <1>4, <1>6, <1>7 DEF InterpreterInv, InterpreterTypeOK
<1>12. results' \in Seq(Values')
  BY <1>2 DEF Yield, InterpreterInv, InterpreterTypeOK
<1>13. InterpreterInv'
  BY <1>4, <1>6, <1>8, <1>9, <1>11, <1>12, VmAssemble
<1> QED BY <1>10, <1>13

(* What an instruction that drops n values notes as its result.            *)
Noted(n) == results' = results \/ (n = 1 /\ results' = Append(results, Operand(1)))

(* An instruction that drops values and does not go on, or goes on.        *)
LEMMA DropStep ==
  ASSUME InterpreterInv, vmStatus = "executing", Frozen, UNCHANGED <<gcObjects, heap>>,
         NEW n \in Nat, n <= Pops(Instruction.op), stack' = Below(n),
         ip' \in {ip, ip + 1}, errorPos' \in Nat,
         Noted(n),
         \/ vmStatus' \in {"failure", "aborted"}
         \/ vmStatus' = "success" /\ Instruction.op = "RETURN" /\ n = 0
         \/ /\ vmStatus' = "executing" /\ n = Pops(Instruction.op) /\ ip' = ip + 1
            /\ Instruction.op # "RETURN" /\ Pushes(Instruction.op) = 0
  PROVE  InterpreterInv' /\ LeftoversKept
<1>1. /\ stack \in Seq(Values) /\ base \in Nat /\ Len(stack) \in Nat
      /\ base <= Len(stack) - Pops(Instruction.op) /\ Pops(Instruction.op) \in 0..2
  BY Operands
<1>2. /\ stack' \in Seq(Values) /\ Len(stack') = Len(stack) - n
      /\ \A i \in 1..Len(stack) - n : stack'[i] = stack[i]
  <2>1. n <= Len(stack)
    BY <1>1
  <2> QED BY <1>1, <2>1, BelowFacts
<1>3. ObjectsGrow
  BY DEF InterpreterInv, CompilerInv, TypeOK, ObjectsGrow
<1>4. Values' = Values
  BY DEF Values
<1>5. /\ base <= Len(stack') /\ ip \in Nat /\ heap' \subseteq Nat
  BY <1>1, <1>2 DEF InterpreterInv, InterpreterTypeOK
<1>6. LeftoversKept
  BY <1>1, <1>2 DEF LeftoversKept
<1>7. Instruction.height \in Int /\ Len(stack) = base + Instruction.height
  BY RunningCode DEF Instructions, InterpreterInv, HeightOK, Instruction
<1>8. ASSUME vmStatus' = "success"
      PROVE  Len(stack') = base
  <2>1. Instruction.op = "RETURN" /\ n = 0
    BY <1>8
  <2>2. Instruction.height = 0
    BY <2>1, RunningCode
  <2> QED BY <1>1, <1>2, <1>7, <2>1, <2>2
<1>9. ASSUME vmStatus' = "executing"
      PROVE  /\ ip' \in 1..Len(chunk.code)
             /\ Len(stack') = base + chunk.code[ip'].height
             /\ \A i \in base + 1..Len(stack') : FreshNext(stack'[i])
  <2>1. /\ n = Pops(Instruction.op) /\ ip' = ip + 1
        /\ Instruction.op # "RETURN" /\ Pushes(Instruction.op) = 0
    BY <1>9
  <2>2. /\ ip + 1 \in 1..Len(chunk.code)
        /\ chunk.code[ip + 1].height = Instruction.height - n
    <3>1. /\ ip + 1 \in 1..Len(chunk.code)
          /\ chunk.code[ip + 1].height = Instruction.height - Pops(Instruction.op)
                                           + Pushes(Instruction.op)
      BY <2>1, RunningCode
    <3> QED BY <1>1, <1>7, <2>1, <3>1
  <2>3. Len(stack') = base + chunk.code[ip'].height
    BY <1>1, <1>2, <1>7, <2>1, <2>2
  <2>4. ASSUME NEW i \in base + 1..Len(stack')
        PROVE  FreshNext(stack'[i])
    <3>1. i \in base + 1..Len(stack) /\ i \in 1..Len(stack) - n
      BY <1>1, <1>2, <2>4
    <3>2. stack'[i] = stack[i]
      BY <1>2, <3>1
    <3> QED BY <1>9, <3>1, <3>2 DEF InterpreterInv, NoDanglingString, FreshNext, Frozen
  <2> QED BY <2>1, <2>2, <2>3, <2>4
<1>10. /\ ip' \in Nat /\ vmStatus' \in {"executing", "success", "failure", "aborted"}
  BY <1>5
<1>11. results' \in Seq(Values')
  <2>1. results \in Seq(Values)
    BY DEF InterpreterInv, InterpreterTypeOK
  <2>2. ASSUME n = 1
        PROVE  Operand(1) \in Values
    BY <1>1, <2>2, Operands
  <2> QED BY <1>4, <2>1, <2>2 DEF Noted
<1>12. InterpreterInv'
  BY <1>2, <1>3, <1>4, <1>5, <1>8, <1>9, <1>10, <1>11, VmAssemble
<1> QED BY <1>6, <1>12

LEMMA ErrorStep ==
  ASSUME InterpreterInv, vmStatus = "executing", Frozen, UNCHANGED <<gcObjects, heap>>,
         Pops(Instruction.op) >= 1, vm_error_at
  PROVE  InterpreterInv' /\ LeftoversKept
<1>1. Pops(Instruction.op) \in 0..2
  BY Operands
<1>2. PICK n \in Nat : n = Pops(Instruction.op) - 1 /\ n <= Pops(Instruction.op)
  BY <1>1
<1>3. Instruction.pos \in Nat
  BY RunningCode DEF Instructions
<1>4. /\ stack' = Below(n) /\ vmStatus' \in {"failure", "aborted"}
      /\ ip' \in {ip, ip + 1} /\ errorPos' \in Nat
      /\ Noted(n)
  BY <1>2, <1>3 DEF vm_error_at, Noted
<1> QED BY <1>2, <1>4, DropStep

-----------------------------------------------------------------------------
(* The opcodes.                                                            *)
LEMMA OpFacts ==
  /\ Pops("RETURN") = 0 /\ Pushes("RETURN") = 0
  /\ \A op \in DiscardOps : Pops(op) = 1 /\ Pushes(op) = 0 /\ op # "RETURN"
  /\ \A op \in ConstantOps \cup InvariableOps :
       Pops(op) = 0 /\ Pushes(op) = 1 /\ op # "RETURN"
  /\ \A op \in {"NEGATE", "NOT"} : Pops(op) = 1 /\ Pushes(op) = 1 /\ op # "RETURN"
  /\ \A op \in ArithmeticOps \cup ComparisonOps \cup EqualityOps \cup {"CONCATENATE"} :
       Pops(op) = 2 /\ Pushes(op) = 1 /\ op # "RETURN"
BY DEF Pops, Pushes, BinaryOps, UnaryOps, DiscardOps, ConstantOps, InvariableOps,
       ArithmeticOps, ComparisonOps, EqualityOps

LEMMA ScalarFacts ==
  /\ \A b \in BOOLEAN : BoolValue(b) \in Values' /\ FreshNext(BoolValue(b))
  /\ \A n \in Number : NumberValue(n) \in Values' /\ FreshNext(NumberValue(n))
  /\ NilValue \in Values' /\ FreshNext(NilValue)
BY DEF BoolValue, NumberValue, NilValue, NumberValues, Values, FreshNext, value_is_string

LEMMA NumberFacts ==
  ASSUME NEW v \in Values, value_is_number(v)
  PROVE  v.number \in Number
BY DEF Values, value_is_number, NilValue, NumberValues, ObjectValues

LEMMA Unmade ==
  ASSUME InterpreterInv, UNCHANGED <<gcObjects, heap>>
  PROVE  ObjectsGrow /\ heap' \subseteq Nat
BY DEF InterpreterInv, InterpreterTypeOK, CompilerInv, TypeOK, ObjectsGrow

LEMMA ReturnAndPopStep ==
  ASSUME InterpreterInv, Frozen, ExecuteReturn \/ ExecutePop
  PROVE  InterpreterInv' /\ LeftoversKept
<1>1. CASE ExecuteReturn
  <2>1. /\ vmStatus = "executing" /\ Instruction.op = "RETURN" /\ vmStatus' = "success"
        /\ ip' = ip + 1 /\ UNCHANGED <<stack, errorPos, results, gcObjects, heap>>
    BY <1>1 DEF ExecuteReturn, Executing
  <2>2. stack' = Below(0)
    <3>1. stack \in Seq(Values)
      BY DEF InterpreterInv, InterpreterTypeOK
    <3>2. SubSeq(stack, 1, Len(stack) - 0) = stack
      BY <3>1
    <3> QED BY <2>1, <3>2 DEF Below
  <2>3. 0 <= Pops(Instruction.op) /\ errorPos' \in Nat
    BY <2>1, OpFacts DEF InterpreterInv, InterpreterTypeOK
  <2>4. PICK n \in Nat : n = 0
    OBVIOUS
  <2>5. /\ stack' = Below(n) /\ n <= Pops(Instruction.op) /\ ip' \in {ip, ip + 1}
        /\ Noted(n)
    BY <2>1, <2>2, <2>3, <2>4 DEF Noted
  <2> QED BY <2>1, <2>3, <2>4, <2>5, DropStep
<1>2. CASE ExecutePop
  <2>1. /\ vmStatus = "executing" /\ Instruction.op \in DiscardOps /\ vmStatus' = vmStatus
        /\ ip' = ip + 1 /\ stack' = Below(1) /\ UNCHANGED <<errorPos, gcObjects, heap>>
        /\ Noted(1)
    BY <1>2 DEF ExecutePop, Executing, Noted
  <2>2. /\ Pops(Instruction.op) = 1 /\ Pushes(Instruction.op) = 0
        /\ Instruction.op # "RETURN" /\ errorPos' \in Nat
    BY <2>1, OpFacts DEF InterpreterInv, InterpreterTypeOK
  <2> QED BY <2>1, <2>2, DropStep
<1> QED BY <1>1, <1>2

LEMMA LoadStep ==
  ASSUME InterpreterInv, Frozen, ExecuteConstant \/ ExecuteInvariable
  PROVE  InterpreterInv' /\ LeftoversKept
<1>1. CASE ExecuteConstant
  <2> DEFINE v == chunk.constants[Instruction.arg + 1]
  <2>1. /\ vmStatus = "executing" /\ Instruction.op \in ConstantOps /\ Yield(v)
        /\ UNCHANGED <<gcObjects, heap>>
    BY <1>1 DEF ExecuteConstant, Executing
  <2>2. Pushes(Instruction.op) = 1 /\ Instruction.op # "RETURN"
    BY <2>1, OpFacts
  <2>3. /\ Instruction.arg + 1 \in 1..Len(chunk.constants)
        /\ chunk.constants \in Seq(NumberValues \cup ObjectValues(Len(gcObjects)))
    BY <2>1, RunningCode DEF Instructions, ChunkSet
  <2>4. v \in NumberValues \cup ObjectValues(Len(gcObjects))
    BY <2>3
  <2>5. v \in Values /\ Fresh(v)
    BY <2>3, <2>4 DEF Values, Fresh, value_is_string, InterpreterInv, CompilerInv,
                      ConstantsOfSource
  <2> HIDE DEF v
  <2>6. v \in Values' /\ FreshNext(v)
    BY <2>1, <2>5, Unmade, ValuesGrow DEF Frozen
  <2> QED BY <2>1, <2>2, <2>6, Unmade, YieldStep
<1>2. CASE ExecuteInvariable
  <2> DEFINE v == InvariableValue(Instruction.op)
  <2>1. /\ vmStatus = "executing" /\ Instruction.op \in InvariableOps /\ Yield(v)
        /\ UNCHANGED <<gcObjects, heap>>
    BY <1>2 DEF ExecuteInvariable, Executing
  <2>2. Pushes(Instruction.op) = 1 /\ Instruction.op # "RETURN"
    BY <2>1, OpFacts
  <2>3. v \in Values' /\ FreshNext(v)
    BY ScalarFacts DEF InvariableValue
  <2> HIDE DEF v
  <2> QED BY <2>1, <2>2, <2>3, Unmade, YieldStep
<1> QED BY <1>1, <1>2

LEMMA UnaryStep ==
  ASSUME InterpreterInv, Frozen, ExecuteNegate \/ ExecuteNot
  PROVE  InterpreterInv' /\ LeftoversKept
<1>1. /\ vmStatus = "executing" /\ Instruction.op \in {"NEGATE", "NOT"}
      /\ UNCHANGED <<gcObjects, heap>>
  BY DEF ExecuteNegate, ExecuteNot, Executing
<1>2. /\ Pops(Instruction.op) = 1 /\ Pushes(Instruction.op) = 1
      /\ Instruction.op # "RETURN"
  BY <1>1, OpFacts
<1>3. Operand(1) \in Values
  BY <1>1, <1>2, Operands
<1>4. CASE vm_error_at
  BY <1>1, <1>2, <1>4, ErrorStep
<1>5. CASE value_is_number(Operand(1)) /\ Yield(NumberValue(Negated(Operand(1).number)))
  <2>1. Negated(Operand(1).number) \in Number
    BY <1>3, <1>5, NumberFacts, NumbersAssumption
  <2> DEFINE v == NumberValue(Negated(Operand(1).number))
  <2>2. v \in Values' /\ FreshNext(v) /\ Yield(v)
    BY <1>5, <2>1, ScalarFacts
  <2> HIDE DEF v
  <2> QED BY <1>1, <1>2, <2>2, Unmade, YieldStep
<1>6. CASE Yield(BoolValue(value_is_falsy(Operand(1))))
  <2> DEFINE v == BoolValue(value_is_falsy(Operand(1)))
  <2>1. v \in Values' /\ FreshNext(v) /\ Yield(v)
    BY <1>6, ScalarFacts DEF value_is_falsy
  <2> HIDE DEF v
  <2> QED BY <1>1, <1>2, <2>1, Unmade, YieldStep
<1> QED BY <1>4, <1>5, <1>6 DEF ExecuteNegate, ExecuteNot

LEMMA BinaryStep ==
  ASSUME InterpreterInv, Frozen,
         ExecuteArithmetic \/ ExecuteComparison \/ ExecuteEquality
  PROVE  InterpreterInv' /\ LeftoversKept
<1>1. /\ vmStatus = "executing" /\ UNCHANGED <<gcObjects, heap>>
      /\ Instruction.op \in ArithmeticOps \cup ComparisonOps \cup EqualityOps
  BY DEF ExecuteArithmetic, ExecuteComparison, ExecuteEquality, Executing
<1>2. /\ Pops(Instruction.op) = 2 /\ Pushes(Instruction.op) = 1
      /\ Instruction.op # "RETURN"
  BY <1>1, OpFacts
<1>3. Operand(1) \in Values /\ Operand(2) \in Values
  BY <1>1, <1>2, Operands
<1>4. CASE vm_error_at
  BY <1>1, <1>2, <1>4, ErrorStep
<1>5. ASSUME NEW v, v \in Values', FreshNext(v), Yield(v)
      PROVE  InterpreterInv' /\ LeftoversKept
  BY <1>1, <1>2, <1>5, Unmade, YieldStep
<1>6. CASE ExecuteArithmetic /\ ~vm_error_at
  <2> DEFINE v == NumberValue(Arithmetic(Instruction.op, Operand(1).number,
                                         Operand(2).number))
  <2>1. /\ value_is_number(Operand(1)) /\ value_is_number(Operand(2)) /\ Yield(v)
        /\ Instruction.op \in ArithmeticOps
    BY <1>6 DEF ExecuteArithmetic, Executing
  <2>2. Operand(1).number \in Number /\ Operand(2).number \in Number
    BY <1>3, <2>1, NumberFacts
  <2>3. v \in Values' /\ FreshNext(v)
    BY <2>1, <2>2, NumbersAssumption, ScalarFacts
  <2> HIDE DEF v
  <2> QED BY <1>5, <2>1, <2>3
<1>7. CASE ExecuteComparison /\ ~vm_error_at
  <2> DEFINE v == BoolValue(Compare(Instruction.op, Operand(1).number, Operand(2).number))
  <2>1. value_is_number(Operand(1)) /\ value_is_number(Operand(2)) /\ Yield(v)
    BY <1>7 DEF ExecuteComparison
  <2>2. Operand(1).number \in Number /\ Operand(2).number \in Number
    BY <1>3, <2>1, NumberFacts
  <2>3. Compare(Instruction.op, Operand(1).number, Operand(2).number) \in BOOLEAN
    BY <2>2, NumbersAssumption DEF Compare
  <2>4. v \in Values' /\ FreshNext(v)
    BY <2>3, ScalarFacts
  <2> HIDE DEF v
  <2> QED BY <1>5, <2>1, <2>4
<1>8. CASE ExecuteEquality
  <2> DEFINE v == BoolValue(value_equals(Operand(1), Operand(2))
                              <=> Instruction.op = "EQUAL")
  <2>1. v \in Values' /\ FreshNext(v) /\ Yield(v)
    BY <1>8, ScalarFacts DEF ExecuteEquality
  <2> HIDE DEF v
  <2> QED BY <1>5, <2>1
<1> QED BY <1>4, <1>6, <1>7, <1>8

(* Texts are sequences of atoms, and objects made from them are objects.   *)
LEMMA TextFacts ==
  ASSUME InterpreterInv, NEW v \in Values
  PROVE  /\ TextOf(v) \in Texts
         /\ v.kind \in {"nil", "bool", "number", "object"}
         /\ v.kind = "object" => v.object \in 1..Len(gcObjects)
<1>1. v.kind \in {"nil", "bool", "number", "object"}
  BY DEF Values, NilValue, NumberValues, ObjectValues
<1>2. CASE v.kind \in {"nil", "bool"}
  <2>1. <<"nil">> \in Texts /\ <<"true">> \in Texts /\ <<"false">> \in Texts
    BY AtomsAssumption DEF Texts
  <2> QED BY <1>2, <2>1 DEF TextOf
<1>3. CASE v.kind = "number"
  <2>1. v.number \in Number
    BY <1>3, NumberFacts DEF value_is_number
  <2>2. NumberText(v.number) \in Texts
    BY <2>1, NumbersAssumption
  <2> QED BY <1>3, <2>2 DEF TextOf
<1>4. CASE v.kind = "object"
  <2>1. v.object \in 1..Len(gcObjects)
    BY <1>4 DEF Values, NilValue, NumberValues, ObjectValues
  <2>2. gcObjects[v.object] \in ObjectSet
    BY <2>1 DEF InterpreterInv, CompilerInv, TypeOK
  <2> QED BY <1>4, <2>1, <2>2 DEF TextOf, ObjectSet
<1> QED BY <1>1, <1>2, <1>3, <1>4

LEMMA MadeFacts ==
  ASSUME NEW objects \in Seq(ObjectSet), NEW text \in Texts
  PROVE  LET made == NonOwningString(objects, text, 0)
         IN  /\ made \in Seq(ObjectSet) /\ Len(made) = Len(objects) + 1
             /\ \A o \in 1..Len(objects) : made[o] = objects[o]
             /\ made[Len(made)].origin = 0 /\ made[Len(made)].text = text
<1> DEFINE object == [text |-> text, owner |-> FALSE, origin |-> 0]
<1>1. object \in ObjectSet /\ object.origin = 0 /\ object.text = text
  BY DEF ObjectSet
<1> HIDE DEF object
<1>2. NonOwningString(objects, text, 0) = Append(objects, object)
  BY DEF NonOwningString, object
<1> QED BY <1>1, <1>2

LEMMA ToStringFacts ==
  ASSUME NEW objects \in Seq(ObjectSet), NEW v, TextOf(v) \in Texts
  PROVE  LET made == value_to_string_object(v, objects)
         IN  /\ made \in Seq(ObjectSet) /\ Len(objects) <= Len(made)
             /\ Len(made) \in Nat
             /\ \A o \in 1..Len(objects) : made[o] = objects[o]
<1> DEFINE grown == NonOwningString(objects, TextOf(v), 0)
<1>1. /\ grown \in Seq(ObjectSet) /\ Len(grown) = Len(objects) + 1
      /\ \A o \in 1..Len(objects) : grown[o] = objects[o]
  BY MadeFacts
<1>2. value_to_string_object(v, objects) = IF value_is_string(v) THEN objects ELSE grown
  BY DEF value_to_string_object
<1> HIDE DEF grown
<1> QED BY <1>1, <1>2

(* How a concatenation ends.                                               *)
Concatenates(first, second) ==
  \/ /\ ~value_is_string(first) /\ ~value_is_string(second)
     /\ vm_error_at /\ UNCHANGED <<gcObjects, heap>>
  \/ /\ value_is_string(first) \/ value_is_string(second)
     /\ TextOf(first) \o TextOf(second) = <<>>
     /\ vmStatus' = "aborted" /\ stack' = Below(1)
     /\ UNCHANGED <<ip, base, output, errorPos, results, gcObjects, heap>>
  \/ /\ value_is_string(first) \/ value_is_string(second)
     /\ ObjectsGrow /\ Len(gcObjects') > 0 /\ heap' \subseteq Nat
     /\ gcObjects'[Len(gcObjects')].text = TextOf(first) \o TextOf(second)
     /\ gcObjects'[Len(gcObjects')].origin = 0
     /\ Yield(ObjectValue(Len(gcObjects')))

LEMMA Concatenated ==
  ASSUME InterpreterInv, ExecuteConcatenate
  PROVE  /\ vmStatus = "executing" /\ Instruction.op = "CONCATENATE"
         /\ Pops(Instruction.op) = 2 /\ Pushes(Instruction.op) = 1
         /\ Instruction.op # "RETURN"
         /\ Operand(1) \in Values /\ Operand(2) \in Values
         /\ Concatenates(Operand(1), Operand(2))
<1> DEFINE first == Operand(1)
           second == Operand(2)
           firstMade == value_to_string_object(first, gcObjects)
           made == value_to_string_object(second, firstMade)
           text == TextOf(first) \o TextOf(second)
           objects == NonOwningString(made, text, 0)
           numberBlocks ==
             (IF value_is_number(first) THEN {Len(firstMade)} ELSE {})
               \cup (IF value_is_number(second) THEN {Len(made)} ELSE {})
<1>1. vmStatus = "executing" /\ Instruction.op = "CONCATENATE"
  BY DEF ExecuteConcatenate, Executing
<1>2. Pops(Instruction.op) = 2 /\ Pushes(Instruction.op) = 1 /\ Instruction.op # "RETURN"
  BY <1>1, OpFacts
<1>3. first \in Values /\ second \in Values
  BY <1>1, <1>2, Operands
<1>4. TextOf(first) \in Texts /\ TextOf(second) \in Texts /\ text \in Texts
  <2>1. TextOf(first) \in Texts /\ TextOf(second) \in Texts
    BY <1>3, TextFacts
  <2> QED BY <2>1 DEF Texts
<1>5. gcObjects \in Seq(ObjectSet) /\ Len(gcObjects) \in Nat
  BY DEF InterpreterInv, CompilerInv, TypeOK
<1>6. /\ firstMade \in Seq(ObjectSet) /\ Len(gcObjects) <= Len(firstMade)
      /\ Len(firstMade) \in Nat
      /\ \A o \in 1..Len(gcObjects) : firstMade[o] = gcObjects[o]
  <2> HIDE DEF first, second
  <2> QED BY <1>4, <1>5, ToStringFacts
<1> HIDE DEF firstMade
<1>7. /\ made \in Seq(ObjectSet) /\ Len(gcObjects) <= Len(made) /\ Len(made) \in Nat
      /\ \A o \in 1..Len(gcObjects) : made[o] = gcObjects[o]
  <2>1. /\ made \in Seq(ObjectSet) /\ Len(firstMade) <= Len(made) /\ Len(made) \in Nat
        /\ \A o \in 1..Len(firstMade) : made[o] = firstMade[o]
    <3> HIDE DEF first, second
    <3> QED BY <1>4, <1>6, ToStringFacts
  <2> HIDE DEF made
  <2> QED BY <1>5, <1>6, <2>1
<1> HIDE DEF made, text
<1>8. /\ objects \in Seq(ObjectSet) /\ Len(objects) = Len(made) + 1
      /\ \A o \in 1..Len(gcObjects) : objects[o] = gcObjects[o]
      /\ objects[Len(objects)].origin = 0 /\ objects[Len(objects)].text = text
  <2>1. /\ objects \in Seq(ObjectSet) /\ Len(objects) = Len(made) + 1
        /\ \A o \in 1..Len(made) : objects[o] = made[o]
        /\ objects[Len(objects)].origin = 0 /\ objects[Len(objects)].text = text
    BY <1>4, <1>7, MadeFacts
  <2> HIDE DEF objects
  <2> QED BY <1>5, <1>7, <2>1
<1>9. numberBlocks \subseteq Nat
  BY <1>6, <1>7
<1>10. \/ /\ ~value_is_string(first) /\ ~value_is_string(second)
          /\ vm_error_at /\ UNCHANGED <<gcObjects, heap>>
       \/ /\ value_is_string(first) \/ value_is_string(second)
          /\ text = <<>> /\ vmStatus' = "aborted" /\ stack' = Below(1)
          /\ UNCHANGED <<ip, base, output, errorPos, results, gcObjects, heap>>
       \/ /\ value_is_string(first) \/ value_is_string(second)
          /\ gcObjects' = objects /\ Yield(ObjectValue(Len(objects)))
          /\ heap' = heap \/ heap' = heap \cup numberBlocks \cup {Len(objects)}
  BY Zenon DEF ExecuteConcatenate, firstMade, made, text
<1> HIDE DEF objects, numberBlocks
<1>11. ASSUME gcObjects' = objects, Yield(ObjectValue(Len(objects))),
              heap' = heap \/ heap' = heap \cup numberBlocks \cup {Len(objects)}
       PROVE  /\ ObjectsGrow /\ Len(gcObjects') > 0 /\ heap' \subseteq Nat
              /\ gcObjects'[Len(gcObjects')].text = TextOf(first) \o TextOf(second)
              /\ gcObjects'[Len(gcObjects')].origin = 0
              /\ Yield(ObjectValue(Len(gcObjects')))
  <2>1. ObjectsGrow /\ Len(gcObjects') > 0
    BY <1>5, <1>7, <1>8, <1>11 DEF ObjectsGrow
  <2>2. heap' \subseteq Nat
    <3>1. Len(objects) \in Nat
      BY <1>8
    <3>2. heap \subseteq Nat
      BY DEF InterpreterInv, InterpreterTypeOK
    <3> QED BY <1>9, <1>11, <3>1, <3>2
  <2> QED BY <1>8, <1>11, <2>1, <2>2 DEF text
<1>12. Concatenates(first, second)
  <2> HIDE DEF first, second
  <2> QED BY <1>10, <1>11 DEF Concatenates, text
<1> QED BY <1>1, <1>2, <1>3, <1>12

LEMMA ConcatenateStep ==
  ASSUME InterpreterInv, Frozen, ExecuteConcatenate
  PROVE  InterpreterInv' /\ LeftoversKept
<1> DEFINE first == Operand(1)
           second == Operand(2)
<1>1. /\ vmStatus = "executing" /\ Instruction.op = "CONCATENATE"
      /\ Pops(Instruction.op) = 2 /\ Pushes(Instruction.op) = 1
      /\ Instruction.op # "RETURN" /\ Concatenates(first, second)
  BY Concatenated
<1> HIDE DEF first, second
<1>2. CASE vm_error_at /\ UNCHANGED <<gcObjects, heap>>
  BY <1>1, <1>2, ErrorStep
<1>3. CASE /\ vmStatus' = "aborted" /\ stack' = Below(1)
           /\ UNCHANGED <<ip, errorPos, results, gcObjects, heap>>
  <2>1. PICK n \in Nat : n = 1 /\ n <= Pops(Instruction.op)
    BY <1>1
  <2>2. /\ stack' = Below(n) /\ Noted(n) /\ vmStatus' \in {"failure", "aborted"}
        /\ ip' \in {ip, ip + 1} /\ errorPos' \in Nat
    BY <1>3, <2>1 DEF Noted, InterpreterInv, InterpreterTypeOK
  <2> QED BY <1>1, <1>3, <2>1, <2>2, DropStep
<1>4. CASE /\ ObjectsGrow /\ Len(gcObjects') > 0 /\ heap' \subseteq Nat
           /\ gcObjects'[Len(gcObjects')].origin = 0
           /\ Yield(ObjectValue(Len(gcObjects')))
  <2> DEFINE v == ObjectValue(Len(gcObjects'))
  <2>1. v \in ObjectValues(Len(gcObjects')) /\ v.object = Len(gcObjects')
    <3>1. Len(gcObjects') \in 1..Len(gcObjects')
      BY <1>4 DEF ObjectsGrow
    <3> QED BY <3>1 DEF ObjectValue, ObjectValues
  <2>2. Yield(v)
    BY <1>4
  <2> HIDE DEF v
  <2>3. v \in Values' /\ FreshNext(v)
    BY <1>4, <2>1 DEF Values, FreshNext
  <2> QED BY <1>1, <1>4, <2>2, <2>3, YieldStep
<1> QED BY <1>1, <1>2, <1>3, <1>4 DEF Concatenates

-----------------------------------------------------------------------------
(* The steps of the interpreter.                                           *)
LEMMA ExecuteStep ==
  ASSUME InterpreterInv, Execute
  PROVE  InterpreterInv' /\ LeftoversKept /\ UNCHANGED base
<1>1. VmStep /\ UNCHANGED <<source, sourceId, parser, frames, status, chunk, phase, result>>
  BY DEF Execute, VmStep
<1>2. UNCHANGED base
  BY <1>1 DEF VmStep, ExecuteReturn, ExecutePop, ExecuteConstant, ExecuteInvariable,
     ExecuteNegate, ExecuteNot, ExecuteArithmetic, ExecuteComparison, ExecuteEquality,
     ExecuteConcatenate, Yield, vm_error_at
<1>3. Frozen
  BY <1>1, <1>2 DEF Frozen
<1> QED BY <1>1, <1>2, <1>3, ReturnAndPopStep, LoadStep, UnaryStep, BinaryStep,
           ConcatenateStep DEF VmStep

(* Steps of the compiler: the machine is idle and its values stay values.  *)
LEMMA IdleValues ==
  ASSUME InterpreterInv, gcObjects' \in Seq(ObjectSet),
         Len(gcObjects) <= Len(gcObjects'), UNCHANGED stack
  PROVE  stack' \in Seq(Values')
<1>1. /\ stack \in Seq(Values) /\ Len(gcObjects) \in Nat /\ Len(gcObjects') \in Nat
  BY DEF InterpreterInv, InterpreterTypeOK, CompilerInv, TypeOK
<1>2. ObjectValues(Len(gcObjects)) \subseteq ObjectValues(Len(gcObjects'))
  BY <1>1 DEF ObjectValues
<1>3. Values \subseteq Values'
  BY <1>2 DEF Values
<1> QED BY <1>1, <1>3

LEMMA CallStep ==
  ASSUME InterpreterInv, InterpretCall
  PROVE  InterpreterInv'
<1>1. CompilerInv'
  BY StartStep DEF InterpretCall, InterpreterInv
<1>2. /\ phase = "ready" /\ status' = "running" /\ phase' = "compiling"
      /\ UNCHANGED <<gcObjects, heap, vmVars, result>>
  BY DEF InterpretCall, CompilerStart
<1>3. Values' = Values
  BY <1>2 DEF Values
<1>4. InterpreterTypeOK'
  BY <1>1, <1>2, <1>3 DEF InterpreterInv, InterpreterTypeOK, CompilerInv, vmVars
<1>5. vmStatus = "idle" /\ vmStatus' = "idle"
  BY <1>2 DEF InterpreterInv, PhaseOK, vmVars
<1>6. PhaseOK' /\ HeightOK' /\ SuccessRestoresStack' /\ NoDanglingString'
  BY <1>2, <1>5 DEF InterpreterInv, PhaseOK, HeightOK, SuccessRestoresStack,
                    NoDanglingString, vmVars
<1> QED BY <1>1, <1>4, <1>6 DEF InterpreterInv

(* compiler_compile only appends to the list of objects.                   *)
LEMMA CompilerGrows ==
  ASSUME CompilerInv, CompilerStep
  PROVE  /\ gcObjects' \in Seq(ObjectSet) /\ Len(gcObjects) <= Len(gcObjects')
         /\ status = "running" /\ status' # "idle"
<1>1. CompilerInv'
  BY StepInv
<1>2. gcObjects \in Seq(ObjectSet) /\ gcObjects' \in Seq(ObjectSet)
  <2>1. TypeOK /\ TypeOK'
    BY <1>1 DEF CompilerInv
  <2> QED BY <2>1 DEF TypeOK
<1>3. \/ UNCHANGED gcObjects
      \/ CompileHead
  BY DEF CompilerStep, CompileStatement, CompileEnd, CompileTail,
     CompileTailEnd, CompileOperator, CompileGroupingEnd, CompileStatementEnd
<1>4. Len(gcObjects) <= Len(gcObjects')
  <2>1. CASE UNCHANGED gcObjects
    BY <1>2, <2>1
  <2>2. CASE CompileHead /\ ~UNCHANGED gcObjects
    <3> DEFINE token == source[parser.current]
    <3>1. \/ UNCHANGED gcObjects
          \/ /\ CompileLiteral(token, parser.current)
             /\ Nud(token.type) \notin {"NULL", "compile_unary_expr", "compile_grouping_expr"}
      BY <2>2 DEF CompileHead
    <3> HIDE DEF token
    <3>2. \/ gcObjects' = gcObjects
          \/ gcObjects' = NonOwningString(gcObjects, token.literal.text, sourceId)
      <4>1. Nud(token.type) \in
              {"NULL", "compile_unary_expr", "compile_grouping_expr",
               "compile_invariable_literal", "compile_numeric_literal",
               "compile_string_literal"}
        BY DEF Nud
      <4> QED BY <3>1, <4>1 DEF CompileLiteral
    <3>3. gcObjects' = NonOwningString(gcObjects, token.literal.text, sourceId)
      BY <2>2, <3>2
    <3> DEFINE object == [text |-> token.literal.text, owner |-> FALSE, origin |-> sourceId]
    <3>4. gcObjects' = Append(gcObjects, object)
      BY <3>3 DEF NonOwningString
    <3> HIDE DEF object
    <3>5. Len(Append(gcObjects, object)) = Len(gcObjects) + 1
      BY <1>2
    <3> QED BY <1>2, <3>4, <3>5
  <2> QED BY <1>3, <2>1, <2>2
<1>5. status = "running"
  BY DEF CompilerStep, CompileStatement, CompileEnd, CompileHead, CompileTail,
     CompileTailEnd, CompileOperator, CompileGroupingEnd, CompileStatementEnd, Running
<1>6. status' # "idle"
  BY <1>5 DEF CompilerStep, CompileStatement, CompileEnd, CompileHead, CompileTail,
     CompileTailEnd, CompileOperator, CompileGroupingEnd, CompileStatementEnd,
     CompileLiteral, ConstantStatus, CompilerStatus, Nud
<1> QED BY <1>2, <1>4, <1>5, <1>6

LEMMA CompileStep ==
  ASSUME InterpreterInv, Compile
  PROVE  InterpreterInv'
<1>1. /\ phase = "compiling" /\ CompilerStep /\ UNCHANGED <<heap, vmVars, phase, result>>
      /\ CompilerInv
  BY DEF Compile, InterpreterInv
<1>2. CompilerInv'
  BY <1>1, StepInv
<1>3. /\ gcObjects' \in Seq(ObjectSet) /\ Len(gcObjects) <= Len(gcObjects')
      /\ status' # "idle"
  BY <1>1, CompilerGrows
<1>4. stack' \in Seq(Values') /\ results' = <<>>
  BY <1>1, <1>3, IdleValues DEF vmVars, InterpreterInv, PhaseOK
<1>5. InterpreterTypeOK'
  BY <1>1, <1>2, <1>4 DEF InterpreterInv, InterpreterTypeOK, CompilerInv, vmVars
<1>6. vmStatus = "idle" /\ vmStatus' = "idle"
  BY <1>1 DEF InterpreterInv, PhaseOK, vmVars
<1>7. PhaseOK' /\ HeightOK' /\ SuccessRestoresStack' /\ NoDanglingString'
  BY <1>1, <1>3, <1>6 DEF InterpreterInv, PhaseOK, HeightOK, SuccessRestoresStack,
                          NoDanglingString, vmVars
<1> QED BY <1>2, <1>5, <1>7 DEF InterpreterInv

(* Between calls the compiler has nothing but the objects it made.         *)
LEMMA ResetInv ==
  ASSUME CompilerInv, status' = "idle", ChunkReset', UNCHANGED <<sourceId, frames>>,
         gcObjects' \in Seq(ObjectSet),
         \/ source' = <<>> /\ parser' = InitialParser
         \/ UNCHANGED <<source, parser>>
  PROVE  CompilerInv'
<1>1. /\ TypeOK /\ FramesOK /\ ScanOK
  BY DEF CompilerInv
<1>2. chunk' = [code |-> <<>>, constants |-> <<>>]
  BY DEF ChunkReset, EmptyChunk
<1>3. chunk' \in ChunkSet(Len(gcObjects'))
  BY <1>2 DEF ChunkSet
<1>4. source' \in Seq(AllTokens) /\ parser' \in ParserSet(Len(source'))
  <2>1. CASE source' = <<>> /\ parser' = InitialParser
    BY <2>1 DEF InitialParser, NoReport, ParserSet
  <2>2. CASE UNCHANGED <<source, parser>>
    BY <1>1, <2>2 DEF TypeOK
  <2> QED BY <2>1, <2>2
<1>5. TypeOK'
  BY <1>1, <1>3, <1>4 DEF TypeOK
<1>6. (FramesOK /\ ScanOK /\ HeightsOK /\ ReturnOK)'
  BY <1>1 DEF FramesOK, CallChain, ScanOK, HeightsOK, ReturnOK, InitialParser
<1>7. (CodeInv /\ SuccessInv)'
  BY <1>2 DEF CodeInv, SuccessInv, CodeOK, NeverUnderflows, AscendTo, HeightsFollow,
              ConstantsOfSource
<1>8. CompilerInv' <=> (/\ TypeOK /\ FramesOK /\ ScanOK /\ HeightsOK /\ ReturnOK
                        /\ CodeInv /\ SuccessInv)'
  BY InvParts, PTL
<1> QED BY <1>5, <1>6, <1>7, <1>8

LEMMA ReturnStep ==
  ASSUME InterpreterInv,
         NEW s \in {"SUCCESS", "COMPILER_FAILURE", "COMPILER_UNEXPECTED_EOF", "VM_FAILURE"},
         Return(s), vmStatus' = "idle", vmStatus # "destroyed", results' = <<>>,
         UNCHANGED <<stack, ip, base, output, errorPos>>
  PROVE  InterpreterInv'
<1>1. /\ result' = s /\ phase' = "ready" /\ status' = "idle" /\ ChunkReset'
      /\ source' = <<>> /\ parser' = InitialParser
      /\ UNCHANGED <<sourceId, frames, gcObjects, heap>>
  BY DEF Return, ChunkReset
<1>2. CompilerInv'
  <2>1. CompilerInv /\ gcObjects' \in Seq(ObjectSet)
    BY <1>1 DEF InterpreterInv, CompilerInv, TypeOK
  <2> QED BY <1>1, <2>1, ResetInv
<1>3. Values' = Values
  BY <1>1 DEF Values
<1>4. InterpreterTypeOK'
  BY <1>1, <1>2, <1>3 DEF InterpreterInv, InterpreterTypeOK, CompilerInv
<1>5. PhaseOK' /\ HeightOK' /\ SuccessRestoresStack' /\ NoDanglingString'
  BY <1>1 DEF InterpreterInv, PhaseOK, HeightOK, SuccessRestoresStack, NoDanglingString
<1> QED BY <1>2, <1>4, <1>5 DEF InterpreterInv

(* A compiled chunk starts at its first instruction, with the stack at the *)
(* height its instructions count from.                                     *)
LEMMA StartExecution ==
  ASSUME InterpreterInv, phase = "compiling", status = "success", VmStart,
         phase' = "executing", UNCHANGED <<compilerVars, heap, result>>
  PROVE  InterpreterInv'
<1>1. /\ CompilerInv /\ ObjectsGrow
      /\ UNCHANGED <<source, sourceId, parser, frames, status, chunk, gcObjects, heap, result>>
  BY DEF InterpreterInv, CompilerInv, TypeOK, ObjectsGrow, compilerVars
<1>2. CompilerInv'
  BY <1>1, OthersInv
<1>3. /\ ip' = 1 /\ vmStatus' = "executing" /\ base' = Len(stack) /\ errorPos' = 0
      /\ stack' = stack /\ results' = <<>>
  BY DEF VmStart
<1>4. stack \in Seq(Values) /\ Len(stack) \in Nat
  BY DEF InterpreterInv, InterpreterTypeOK
<1>5. Values' = Values
  BY <1>1 DEF Values
<1>6. InterpreterTypeOK'
  BY <1>1, <1>2, <1>3, <1>4, <1>5 DEF InterpreterInv, InterpreterTypeOK, CompilerInv
<1>7. 1 \in 1..Len(chunk.code) /\ chunk.code[1].height = 0
  <2>1. chunk.code # <<>> /\ HeightsFollow(chunk.code) /\ chunk.code \in Seq(Instructions)
    BY <1>1 DEF CompilerInv, StackDiscipline, TypeOK, ChunkSet
  <2> QED BY <2>1 DEF HeightsFollow
<1>8. HeightOK'
  BY <1>1, <1>3, <1>4, <1>7 DEF HeightOK
<1>9. PhaseOK' /\ SuccessRestoresStack' /\ NoDanglingString'
  BY <1>1, <1>3, <1>4 DEF PhaseOK, SuccessRestoresStack, NoDanglingString
<1> QED BY <1>2, <1>6, <1>8, <1>9 DEF InterpreterInv

LEMMA ReturnsStep ==
  ASSUME InterpreterInv, CompilerReturns \/ VmReturns
  PROVE  InterpreterInv'
<1>1. CASE CompilerReturns
  <2>1. phase = "compiling" /\ vmStatus = "idle" /\ results = <<>>
    BY <1>1 DEF CompilerReturns, InterpreterInv, PhaseOK
  <2> QED BY <1>1, <2>1, StartExecution, ReturnStep DEF CompilerReturns, vmVars
<1>2. CASE VmReturns
  <2>1. PICK s \in {"SUCCESS", "VM_FAILURE"} : Return(s)
    BY <1>2 DEF VmReturns
  <2>2. vmStatus # "destroyed" /\ vmStatus' = "idle"
    BY <1>2 DEF VmReturns
  <2> QED BY <1>2, <2>1, <2>2, ReturnStep DEF VmReturns
<1> QED BY <1>1, <1>2

(* vm_destroy empties the stack and the list of objects.                   *)
LEMMA DestroyStep ==
  ASSUME InterpreterInv, Destroy
  PROVE  InterpreterInv'
<1>1. /\ phase = "ready" /\ phase' = "destroyed" /\ vmStatus' = "destroyed"
      /\ stack' = <<>> /\ gcObjects' = <<>> /\ heap' \subseteq heap
      /\ UNCHANGED <<source, sourceId, parser, frames, status, chunk, result, ip, base, errorPos,
                     results>>
  BY DEF Destroy, VmDestroy
<1>2. status = "idle" /\ ChunkReset /\ CompilerInv /\ results = <<>>
  BY <1>1 DEF InterpreterInv, PhaseOK
<1>3. CompilerInv'
  <2>1. ChunkReset' /\ status' = "idle" /\ gcObjects' \in Seq(ObjectSet)
    BY <1>1, <1>2 DEF ChunkReset
  <2> QED BY <1>1, <1>2, <2>1, ResetInv
<1>4. InterpreterTypeOK'
  BY <1>1, <1>2, <1>3 DEF InterpreterInv, InterpreterTypeOK, CompilerInv
<1>5. PhaseOK' /\ SuccessRestoresStack' /\ NoDanglingString'
  BY <1>1, <1>2 DEF PhaseOK, SuccessRestoresStack, NoDanglingString
<1> QED BY <1>1, <1>3, <1>4, <1>5 DEF InterpreterInv, HeightOK

LEMMA StutterStep ==
  ASSUME InterpreterInv, UNCHANGED interpreterVars
  PROVE  InterpreterInv'
<1>1. /\ UNCHANGED <<source, sourceId, parser, frames, status, chunk, gcObjects>>
      /\ UNCHANGED <<stack, ip, vmStatus, base, output, errorPos, results, heap, phase, result>>
  BY DEF interpreterVars, compilerVars, vmVars
<1>2. CompilerInv /\ ObjectsGrow
  BY <1>1 DEF InterpreterInv, CompilerInv, TypeOK, ObjectsGrow
<1>3. CompilerInv'
  BY <1>1, <1>2, OthersInv
<1>4. Values' = Values
  BY <1>1 DEF Values
<1>5. InterpreterTypeOK'
  BY <1>1, <1>3, <1>4 DEF InterpreterInv, InterpreterTypeOK, CompilerInv
<1> QED BY <1>1, <1>3, <1>5 DEF InterpreterInv, PhaseOK, ChunkReset, HeightOK,
            SuccessRestoresStack, NoDanglingString

LEMMA InterpreterInit1 ==
  ASSUME InterpreterInit
  PROVE  InterpreterInv
<1>1. CompilerInv
  BY InitInv DEF InterpreterInit
<1>2. /\ status = "idle" /\ ChunkReset /\ gcObjects = <<>> /\ heap = {}
      /\ stack = <<>> /\ ip = 0 /\ vmStatus = "idle" /\ base = 0 /\ errorPos = 0
      /\ results = <<>>
      /\ phase = "ready" /\ result = "NONE"
  BY DEF InterpreterInit, CompilerInit, VmInit, ChunkReset
<1>3. InterpreterTypeOK
  BY <1>1, <1>2 DEF InterpreterTypeOK, CompilerInv
<1> QED BY <1>1, <1>2, <1>3 DEF InterpreterInv, PhaseOK, HeightOK, SuccessRestoresStack,
            NoDanglingString

LEMMA InterpreterInvariance == InterpreterSpec => []InterpreterInv
<1>1. InterpreterInv /\ [InterpreterNext]_interpreterVars => InterpreterInv'
  BY CallStep, CompileStep, ExecuteStep, ReturnsStep, DestroyStep, StutterStep
     DEF InterpreterNext
<1> QED BY <1>1, InterpreterInit1, PTL DEF InterpreterSpec

-----------------------------------------------------------------------------
(* The machine's state has its type in every interpreter, whatever sources *)
(* interpreter_interpret is called with and however often.                 *)
THEOREM InterpreterTypeCorrect == InterpreterSpec => []InterpreterTypeOK
<1>1. InterpreterInv => InterpreterTypeOK
  BY DEF InterpreterInv
<1> QED BY <1>1, InterpreterInvariance, PTL

(* vm_execute always has a next instruction, and finds the operands it     *)
(* reads above what earlier calls left on the stack: none of its assertions*)
(* on the stack can fail and none of them passes thanks to a leftover.     *)
THEOREM VmNeverBelowBase == InterpreterSpec => []NeverBelowBase
<1>1. ASSUME InterpreterInv
      PROVE  NeverBelowBase
  <2>1. SUFFICES ASSUME vmStatus = "executing"
                 PROVE  /\ ip \in 1..Len(chunk.code)
                        /\ Len(stack) - base >= Pops(Instruction.op)
    BY DEF NeverBelowBase
  <2>2. /\ base <= Len(stack) - Pops(Instruction.op) /\ base \in Nat
        /\ Len(stack) \in Nat /\ Pops(Instruction.op) \in 0..2
    BY <1>1, <2>1, Operands
  <2>3. ip \in 1..Len(chunk.code)
    BY <1>1, <2>1, RunningCode
  <2> QED BY <2>2, <2>3
<1> QED BY <1>1, InterpreterInvariance, PTL

(* A call of interpreter_interpret that succeeds leaves vm.stack as high as*)
(* it found it.                                                            *)
THEOREM SuccessLeavesNothing == InterpreterSpec => []SuccessRestoresStack
<1>1. InterpreterInv => SuccessRestoresStack
  BY DEF InterpreterInv
<1> QED BY <1>1, InterpreterInvariance, PTL

(* No value that the running chunk can reach is a string whose content lies*)
(* in the source buffer of an earlier call, which its owner has reused.    *)
THEOREM NoReachableDanglingString == InterpreterSpec => []NoDanglingString
<1>1. InterpreterInv => NoDanglingString
  BY DEF InterpreterInv
<1> QED BY <1>1, InterpreterInvariance, PTL

(* No instruction of vm_execute writes below the base of its chunk.        *)
THEOREM LeftoversStay == InterpreterSpec => LeftoversUntouched
<1>1. ASSUME InterpreterInv, [InterpreterNext]_interpreterVars, vmStatus = "executing"
      PROVE  base <= Len(stack') /\ SubSeq(stack', 1, base) = SubSeq(stack, 1, base)
  <2>1. phase = "executing" /\ base \in Nat /\ base <= Len(stack) /\ stack \in Seq(Values)
    BY <1>1 DEF InterpreterInv, PhaseOK, HeightOK, InterpreterTypeOK
  <2>2. CASE Execute
    <3>1. InterpreterInv' /\ LeftoversKept /\ base' = base
      BY <1>1, <2>2, ExecuteStep
    <3>2. vmStatus' # "destroyed"
      <4>1. phase' = "executing"
        BY <2>1, <2>2 DEF Execute
      <4> QED BY <2>1, <2>2, <4>1, <1>1 DEF Execute, VmStep, ExecuteReturn, ExecutePop,
                 ExecuteConstant, ExecuteInvariable, ExecuteNegate, ExecuteNot,
                 ExecuteArithmetic, ExecuteComparison, ExecuteEquality,
                 ExecuteConcatenate, Yield, vm_error_at
    <3>3. base <= Len(stack') /\ stack' \in Seq(Values')
      BY <3>1, <3>2 DEF InterpreterInv, HeightOK, InterpreterTypeOK
    <3>4. /\ SubSeq(stack, 1, base) \in Seq(Values) /\ Len(SubSeq(stack, 1, base)) = base
          /\ \A i \in 1..base : SubSeq(stack, 1, base)[i] = stack[i]
      <4>1. \A i \in 1..base : stack[i] \in Values
        BY <2>1
      <4> QED BY <2>1, <4>1, SubSeqProperties
    <3>5. /\ SubSeq(stack', 1, base) \in Seq(Values') /\ Len(SubSeq(stack', 1, base)) = base
          /\ \A i \in 1..base : SubSeq(stack', 1, base)[i] = stack'[i]
      <4>1. \A i \in 1..base : stack'[i] \in Values'
        BY <2>1, <3>3
      <4> QED BY <2>1, <3>3, <4>1, SubSeqProperties
    <3> QED BY <3>1, <3>3, <3>4, <3>5, SeqEqual DEF LeftoversKept
  <2>3. CASE UNCHANGED interpreterVars
    BY <2>1, <2>3 DEF interpreterVars, vmVars
  <2> QED BY <1>1, <2>1, <2>2, <2>3 DEF InterpreterNext, InterpretCall, Compile,
             CompilerReturns, VmReturns, Destroy
<1>2. InterpreterInv /\ [InterpreterNext]_interpreterVars =>
        [vmStatus = "executing" =>
           /\ base <= Len(stack')
           /\ SubSeq(stack', 1, base) = SubSeq(stack, 1, base)]_interpreterVars
  BY <1>1
<1> QED BY <1>2, InterpreterInvariance, PTL DEF InterpreterSpec, LeftoversUntouched

-----------------------------------------------------------------------------
(* Ranks number the evaluations of a source in their order.                *)
LEMMA PrecedesTotal ==
  ASSUME NEW d \in Positions, NEW e \in Positions, NEW b \in Positions
  PROVE  /\ d = e \/ Precedes(d, e) \/ Precedes(e, d)
         /\ Precedes(d, e) /\ Precedes(e, b) => Precedes(d, b)
<1>1. /\ d.token \in Nat /\ d.after \in Nat /\ e.token \in Nat /\ e.after \in Nat
      /\ b.token \in Nat /\ b.after \in Nat
  BY DEF Positions
<1>2. d = [token |-> d.token, after |-> d.after] /\ e = [token |-> e.token, after |-> e.after]
  BY DEF Positions
<1>3. d.token = e.token /\ d.after = e.after => d = e
  BY <1>2, Zenon
<1> QED BY <1>1, <1>3 DEF Precedes

LEMMA RankOrders ==
  ASSUME NEW E, IsFiniteSet(E), E \subseteq Positions, NEW d \in E, NEW e \in E
  PROVE  /\ Cardinality(E) \in Nat
         /\ Rank(d, E) \in 1..Cardinality(E)
         /\ Rank(d, E) < Rank(e, E) <=> Precedes(d, e)
         /\ Rank(d, E) = Rank(e, E) <=> d = e
<1> DEFINE before(c) == {b \in E : Precedes(b, c)}
<1>1. Cardinality(E) \in Nat
  BY FS_CardinalityType
<1>2. ASSUME NEW c \in E
      PROVE  /\ Rank(c, E) \in 1..Cardinality(E) /\ IsFiniteSet(before(c))
             /\ Rank(c, E) = 1 + Cardinality(before(c)) /\ Cardinality(before(c)) \in Nat
  <2>1. c \notin before(c) /\ before(c) \subseteq E
    BY PrecedesOrders
  <2>2. before(c) \subseteq E \ {c} /\ IsFiniteSet(E \ {c})
        /\ Cardinality(E \ {c}) = Cardinality(E) - 1
    BY <2>1, FS_RemoveElement
  <2>3. Cardinality(before(c)) <= Cardinality(E \ {c}) /\ IsFiniteSet(before(c))
    BY <2>2, FS_Subset
  <2>4. Cardinality(before(c)) \in Nat
    BY <2>3, FS_CardinalityType
  <2>5. Rank(c, E) = 1 + Cardinality(before(c))
    BY DEF Rank
  <2> HIDE DEF before
  <2> QED BY <1>1, <2>2, <2>3, <2>4, <2>5
<1>3. ASSUME NEW b \in E, NEW c \in E, Precedes(b, c)
      PROVE  Rank(b, E) < Rank(c, E)
  <2>1. before(b) \subseteq before(c)
    BY <1>3, PrecedesTotal
  <2>2. b \in before(c) /\ b \notin before(b)
    BY <1>3, PrecedesOrders
  <2>3. IsFiniteSet(before(c)) /\ IsFiniteSet(before(b))
    BY <1>2
  <2>4. /\ Cardinality(before(b)) <= Cardinality(before(c))
        /\ Cardinality(before(c)) # Cardinality(before(b))
    BY <2>1, <2>2, <2>3, FS_Subset
  <2>5. /\ Rank(b, E) = 1 + Cardinality(before(b)) /\ Cardinality(before(b)) \in Nat
        /\ Rank(c, E) = 1 + Cardinality(before(c)) /\ Cardinality(before(c)) \in Nat
    BY <1>2
  <2> HIDE DEF before
  <2> QED BY <2>4, <2>5
<1>4. Rank(d, E) \in 1..Cardinality(E) /\ Rank(e, E) \in 1..Cardinality(E)
  BY <1>2
<1>5. d = e \/ Precedes(d, e) \/ Precedes(e, d)
  BY PrecedesTotal
<1>6. /\ Precedes(d, e) => Rank(d, E) < Rank(e, E)
      /\ Precedes(e, d) => Rank(e, E) < Rank(d, E)
  BY <1>3
<1>7. d = e => ~Precedes(d, e)
  BY PrecedesOrders
<1> QED BY <1>1, <1>4, <1>5, <1>6, <1>7

LEMMA RankOnto ==
  ASSUME NEW E, IsFiniteSet(E), E \subseteq Positions, NEW k \in 1..Cardinality(E)
  PROVE  \E e \in E : Rank(e, E) = k
<1> DEFINE rank == [e \in E |-> Rank(e, E)]
           n == Cardinality(E)
<1>1. n \in Nat
  BY FS_CardinalityType
<1>2. rank \in [E -> 1..n] /\ \A d, e \in E : rank[d] = rank[e] => d = e
  BY RankOrders
<1>3. rank \in Injection(E, 1..n)
  BY <1>2 DEF Injection, IsInjective
<1>4. IsFiniteSet(1..n) /\ Cardinality(1..n) = n
  BY <1>1, FS_Interval
<1>5. rank \in Surjection(E, 1..n)
  BY <1>3, <1>4, FS_Injection
<1>6. \A i \in 1..n : \E e \in E : rank[e] = i
  BY <1>5 DEF Surjection
<1> QED BY <1>6

(* The last of the first k evaluations is the k-th.                        *)
LEMMA LastRanked ==
  ASSUME NEW E, IsFiniteSet(E), E \subseteq Positions, NEW k \in 1..Cardinality(E)
  PROVE  LET first == {d \in E : Rank(d, E) <= k} IN
         LastOf(first) \in E /\ Rank(LastOf(first), E) = k
<1> DEFINE first == {d \in E : Rank(d, E) <= k}
           Last(d) == \A b \in first : b = d \/ Precedes(b, d)
<1>1. PICK e \in E : Rank(e, E) = k
  BY RankOnto
<1>2. e \in first
  BY <1>1
<1>3. ASSUME NEW b \in first
      PROVE  b = e \/ Precedes(b, e)
  <2>1. b \in E /\ Rank(b, E) <= Rank(e, E)
    BY <1>1
  <2>2. /\ Rank(b, E) \in 1..Cardinality(E) /\ Rank(e, E) \in 1..Cardinality(E)
        /\ Cardinality(E) \in Nat
        /\ Rank(b, E) < Rank(e, E) <=> Precedes(b, e)
        /\ Rank(b, E) = Rank(e, E) <=> b = e
    BY <2>1, RankOrders
  <2> QED BY <2>1, <2>2
<1>4. LastOf(first) = CHOOSE d \in first : Last(d)
  BY DEF LastOf
<1>5. Last(e)
  BY <1>3
<1>6. \A d \in first : Last(d) => d = e
  <2> TAKE d \in first
  <2>1. Last(d) => e = d \/ Precedes(e, d)
    BY <1>2
  <2>2. d = e \/ Precedes(d, e)
    BY <1>3
  <2>3. ~(Precedes(d, e) /\ Precedes(e, d))
    BY PrecedesOrders
  <2> QED BY <2>1, <2>2, <2>3
<1> HIDE DEF Last, first
<1>7. LastOf(first) = e
  BY <1>2, <1>4, <1>5, <1>6, Zenon
<1> QED BY <1>1, <1>7 DEF first
-----------------------------------------------------------------------------
(* Where the operands of an instruction come from.                         *)

(* What executing a successful chunk relies on: its instructions perform   *)
(* the evaluations in their order, each where its operands are.            *)
Ordered(code, tokens, E) ==
  /\ IsFiniteSet(E) /\ E \subseteq Positions /\ Cardinality(E) \in Nat
  /\ code \in Seq(Instructions) /\ Len(code) = Cardinality(E) + 1
  /\ code[1].height = 0 /\ code[Len(code)].op = "RETURN"
  /\ \A i \in 1..Cardinality(E) :
       /\ code[i].op # "RETURN"
       /\ code[i].height >= Pops(code[i].op)
       /\ code[i + 1].height = Leaves(code[i])
  /\ \A e \in E : LET i == Rank(e, E) IN
       /\ code[i].op \in Operations(tokens, e.token)
       /\ code[i].pos = e.after
       /\ FindsOperands(code, i, tokens, e.token)

LEMMA ChunkOrdered ==
  ASSUME CompilerInv, status = "success", source # <<>>, EvaluatesInOrder
  PROVE  Ordered(chunk.code, source, Evaluations(source))
<1> DEFINE code == chunk.code
           E == Evaluations(source)
           rest == SubSeq(code, 1, Len(code) - 1)
<1>1. code \in Seq(Instructions) /\ TokenSequence(source) /\ Len(source) > 0
  BY DEF CompilerInv, TypeOK, ChunkSet, TokenSequence
<1>2. /\ code # <<>> /\ code[Len(code)].op = "RETURN" /\ NeverUnderflows(code)
      /\ \A i \in 1..Len(code) - 1 : code[i].op # "RETURN"
      /\ HeightsFollow(code)
  BY DEF CompilerInv, StackDiscipline, ScanOK
<1>3. Performs(rest, source, E)
  BY DEF EvaluatesInOrder
<1>4. IsFiniteSet(E) /\ E \subseteq Positions /\ Cardinality(E) \in Nat
  BY <1>1, EvaluationsFacts, FS_CardinalityType
<1> HIDE DEF E
<1>5. /\ rest \in Seq(Instructions) /\ Len(rest) = Len(code) - 1
      /\ \A i \in 1..Len(code) - 1 : rest[i] = code[i]
  <2>1. Len(code) \in Nat /\ Len(code) > 0
    BY <1>1, <1>2
  <2>2. PICK m \in Nat : m = Len(code) - 1
    BY <2>1
  <2>3. \A i \in 1..m : code[i] \in Instructions
    BY <1>1, <2>1, <2>2
  <2> HIDE DEF code
  <2>4. /\ SubSeq(code, 1, m) \in Seq(Instructions) /\ Len(SubSeq(code, 1, m)) = m
        /\ \A i \in 1..m : SubSeq(code, 1, m)[i] = code[i]
    BY <1>1, <2>1, <2>2, <2>3, SubSeqProperties
  <2> QED BY <2>2, <2>4
<1> HIDE DEF rest, code
<1>6. Len(code) = Cardinality(E) + 1 /\ Len(rest) = Cardinality(E)
  BY <1>1, <1>3, <1>4, <1>5 DEF Performs
<1>7. code[1].height = 0
  BY <1>1, <1>2 DEF HeightsFollow
<1>8. ASSUME NEW i \in 1..Cardinality(E)
      PROVE  /\ code[i].op # "RETURN"
             /\ code[i].height >= Pops(code[i].op)
             /\ code[i + 1].height = Leaves(code[i])
  <2>1. i \in 1..Len(code) /\ i \in 1..Len(code) - 1
    BY <1>4, <1>6
  <2>2. PICK j \in 1..Len(code) : j = i + 1 /\ j # 1 /\ j - 1 = i
    BY <1>4, <1>6
  <2>3. code[j].height = code[j - 1].height - Pops(code[j - 1].op) + Pushes(code[j - 1].op)
    BY <1>2, <2>2 DEF HeightsFollow
  <2>4. code[j].height = Leaves(code[i])
    BY <2>2, <2>3 DEF Leaves
  <2> QED BY <1>2, <2>1, <2>2, <2>4 DEF NeverUnderflows
<1>9. ASSUME NEW e \in E, NEW i, i = Rank(e, E)
      PROVE  /\ code[i].op \in Operations(source, e.token)
             /\ code[i].pos = e.after
             /\ FindsOperands(code, i, source, e.token)
  <2>1. i \in 1..Len(rest) /\ i \in 1..Len(code) - 1
    <3>1. i \in 1..Cardinality(E)
      BY <1>4, <1>9, RankOrders
    <3> QED BY <1>4, <1>6, <3>1
  <2>2. /\ rest[i].op \in Operations(source, e.token) /\ rest[i].pos = e.after
        /\ FindsOperands(rest, i, source, e.token)
    BY <1>3, <1>9 DEF Performs
  <2>3. \A k \in 1..Len(rest) : code[k] = rest[k]
    BY <1>5
  <2>4. FindsOperands(code, i, source, e.token)
    BY <1>1, <1>5, <2>1, <2>2, <2>3, FindsKept
  <2> QED BY <2>1, <2>2, <2>3, <2>4
<1>10. Ordered(code, source, E)
  BY <1>1, <1>2, <1>4, <1>6, <1>7, <1>8, <1>9 DEF Ordered
<1> QED BY <1>10 DEF code, E

LEMMA OrderedFacts ==
  ASSUME NEW code, NEW tokens, NEW E, Ordered(code, tokens, E), NEW i \in 1..Cardinality(E)
  PROVE  /\ i \in 1..Len(code) /\ code[i] \in Instructions
         /\ code[i].height \in Int /\ Leaves(code[i]) \in Int
         /\ Leaves(code[i]) = code[i].height - Pops(code[i].op) + Pushes(code[i].op)
         /\ Leaves(code[i]) >= Pushes(code[i].op)
         /\ Leaves(code[i]) >= 1 => Pushes(code[i].op) = 1
         /\ \E e \in E : Rank(e, E) = i
<1>1. /\ code \in Seq(Instructions) /\ Len(code) = Cardinality(E) + 1 /\ Cardinality(E) \in Nat
      /\ IsFiniteSet(E) /\ E \subseteq Positions
      /\ code[i].op # "RETURN" /\ code[i].height >= Pops(code[i].op)
  BY DEF Ordered
<1>2. i \in 1..Len(code) /\ code[i] \in Instructions
  BY <1>1
<1>3. code[i].height \in Int /\ Leaves(code[i]) \in Int
  BY <1>2, LeavesFacts
<1>4. Pops(code[i].op) \in 0..2 /\ Pushes(code[i].op) \in 0..1
  BY DEF Pops, Pushes
<1>5. Leaves(code[i]) = code[i].height - Pops(code[i].op) + Pushes(code[i].op)
  BY DEF Leaves
<1>6. PICK e \in E : Rank(e, E) = i
  BY <1>1, RankOnto
<1>7. FindsOperands(code, i, tokens, e.token)
  BY <1>6 DEF Ordered
<1>8. ASSUME Leaves(code[i]) >= 1
      PROVE  Pushes(code[i].op) = 1
  <2>1. code[i].op \notin DiscardOps
    BY <1>7, <1>8 DEF FindsOperands
  <2> QED BY <1>1, <2>1 DEF Pushes
<1>9. Leaves(code[i]) >= Pushes(code[i].op)
  BY <1>1, <1>3, <1>4, <1>5
<1> QED BY <1>2, <1>3, <1>5, <1>6, <1>8, <1>9

(* The right operand of an operator, the only one of the others, was left  *)
(* by the instruction before.                                              *)
LEMMA RightPlaced ==
  ASSUME NEW code, NEW tokens, NEW E, Ordered(code, tokens, E), NEW e \in E,
         code[Rank(e, E)].height >= 1
  PROVE  /\ RightOperand(e, E) \in E
         /\ Rank(e, E) - 1 \in 1..Cardinality(E)
         /\ Rank(RightOperand(e, E), E) = Rank(e, E) - 1
         /\ Pushes(code[Rank(e, E) - 1].op) = 1
         /\ Leaves(code[Rank(e, E) - 1]) = code[Rank(e, E)].height
<1>1. PICK i \in 1..Cardinality(E) : i = Rank(e, E)
  BY RankOrders DEF Ordered
<1>2. /\ IsFiniteSet(E) /\ E \subseteq Positions /\ Cardinality(E) \in Nat
      /\ code[1].height = 0
  BY DEF Ordered
<1>3. i # 1
  BY <1>1, <1>2
<1>4. PICK k \in 1..Cardinality(E) : k = i - 1
  BY <1>2, <1>3
<1>5. {d \in E : Precedes(d, e)} = {d \in E : Rank(d, E) <= k}
  <2>1. ASSUME NEW d \in E
        PROVE  Precedes(d, e) <=> Rank(d, E) <= k
    <3>1. /\ Rank(d, E) < Rank(e, E) <=> Precedes(d, e)
          /\ Rank(d, E) \in 1..Cardinality(E)
      BY <1>2, RankOrders
    <3> QED BY <1>1, <1>2, <1>4, <3>1
  <2> QED BY <2>1
<1>6. RightOperand(e, E) \in E /\ Rank(RightOperand(e, E), E) = k
  BY <1>2, <1>5, LastRanked DEF RightOperand
<1>7. Leaves(code[k]) = code[i].height
  <2>1. code[k + 1].height = Leaves(code[k])
    BY DEF Ordered
  <2> QED BY <1>2, <1>4, <2>1
<1>8. Pushes(code[k].op) = 1
  BY <1>1, <1>7, OrderedFacts
<1> QED BY <1>1, <1>4, <1>6, <1>7, <1>8

(* The left operand of an infix operator is still where it was left.       *)
LEMMA LeftPlaced ==
  ASSUME NEW code, NEW tokens, NEW E, Ordered(code, tokens, E), NEW e \in E,
         IsInfixOp(tokens, e.token), e.token <= e.after,
         code[Rank(e, E)].height >= 2
  PROVE  /\ LeftOperand(e, E) \in E
         /\ Rank(LeftOperand(e, E), E) \in 1..Rank(e, E) - 1
         /\ Pushes(code[Rank(LeftOperand(e, E), E)].op) = 1
         /\ Leaves(code[Rank(LeftOperand(e, E), E)]) = code[Rank(e, E)].height - 1
         /\ \A k \in Rank(LeftOperand(e, E), E) + 1..Rank(e, E) - 1 :
              Leaves(code[k]) >= code[Rank(e, E)].height
<1>1. PICK i \in 1..Cardinality(E) : i = Rank(e, E)
  BY RankOrders DEF Ordered
<1>2. IsFiniteSet(E) /\ E \subseteq Positions /\ Cardinality(E) \in Nat
  BY DEF Ordered
<1>3. PICK left \in 1..i - 1 :
        /\ code[left].pos < e.token
        /\ Leaves(code[left]) = code[i].height - 1
        /\ \A k \in left + 1..i - 1 :
             code[k].pos >= e.token /\ Leaves(code[k]) >= code[i].height
  <2>1. FindsOperands(code, i, tokens, e.token)
    BY <1>1 DEF Ordered
  <2> QED BY <2>1 DEF FindsOperands, FindsLeftOperand
<1>4. left \in 1..Cardinality(E) /\ left < i
  BY <1>2, <1>3
<1>5. PICK c \in E : Rank(c, E) = left
  BY <1>4, OrderedFacts
<1>6. \A d \in E : /\ d.after = code[Rank(d, E)].pos /\ Rank(d, E) \in 1..Cardinality(E)
                   /\ d.after \in Nat /\ d.token \in Nat
  BY <1>2, RankOrders DEF Ordered, Positions
<1>7. {d \in E : d.after < e.token} = {d \in E : Rank(d, E) <= left}
  <2>1. ASSUME NEW d \in E, d.after < e.token
        PROVE  Rank(d, E) <= left
    <3>1. Precedes(d, e)
      BY <1>6, <2>1 DEF Precedes
    <3>2. Rank(d, E) < i
      BY <1>1, <1>2, <3>1, RankOrders
    <3>3. Rank(d, E) \notin left + 1..i - 1
      BY <1>3, <1>6, <2>1
    <3> QED BY <1>2, <1>4, <1>6, <3>2, <3>3
  <2>2. ASSUME NEW d \in E, Rank(d, E) <= left
        PROVE  d.after < e.token
    <3>1. /\ Rank(d, E) < Rank(c, E) <=> Precedes(d, c)
          /\ Rank(d, E) = Rank(c, E) <=> d = c
      BY <1>2, RankOrders
    <3>2. d = c \/ Precedes(d, c)
      BY <1>4, <1>5, <1>6, <2>2, <3>1
    <3>3. d.after <= c.after
      BY <1>6, <3>2 DEF Precedes
    <3>4. c.after < e.token
      BY <1>3, <1>5, <1>6
    <3> QED BY <1>6, <3>3, <3>4
  <2> QED BY <2>1, <2>2
<1>8. LeftOperand(e, E) \in E /\ Rank(LeftOperand(e, E), E) = left
  BY <1>2, <1>4, <1>7, LastRanked DEF LeftOperand
<1>9. Pushes(code[left].op) = 1
  <2>1. Leaves(code[left]) >= 1
    <3>1. code[i].height \in Int /\ code[i].height >= 2
      BY <1>1, OrderedFacts
    <3> QED BY <1>3, <3>1
  <2> QED BY <1>4, <2>1, OrderedFacts
<1> QED BY <1>1, <1>3, <1>8, <1>9
-----------------------------------------------------------------------------
(* What the machine has computed so far is what the tokens mean.           *)

(* The last result of every height is on the stack, above the base.        *)
ResultsOnStack ==
  \A i \in 1..Len(results) :
    /\ Pushes(chunk.code[i].op) = 1
    /\ \A k \in i + 1..Len(results) : Leaves(chunk.code[k]) > Leaves(chunk.code[i])
    => stack[base + Leaves(chunk.code[i])] = results[i]

Printed(E) == {e \in Done(E) : Prints(e)}
Evaluated(E) ==
  /\ Len(results) <= Cardinality(E)
  /\ \A e \in Done(E) : ResultOf(e, E) = MeaningAt(e, E)
  /\ output \in Seq(Texts) /\ Len(output) = Cardinality(Printed(E))
  /\ \A e \in Printed(E) : output[Rank(e, Printed(E))] = TextOfMeaning(ResultOf(e, E))

(* While the source compiles, what the compiler's theorems rest on; while  *)
(* its chunk runs, its instructions are the evaluations of the source,     *)
(* those before ip have the results they must, which are where the next    *)
(* ones expect them, and have been printed.                                *)
MeaningInv ==
  /\ phase = "compiling" => LanguageInv /\ EvaluationInv /\ OperandsInv
  /\ phase = "executing" => /\ source # <<>> /\ ConstantsInOrder /\ EvaluatesInOrder
                            /\ Evaluated(Evaluations(source))
  /\ CASE vmStatus = "executing" ->
            Len(results) = ip - 1 /\ errorPos = 0 /\ ResultsOnStack
       [] vmStatus = "success" ->
            Done(Evaluations(source)) = Evaluations(source) /\ errorPos = 0
       [] vmStatus = "failure" -> Stopped(Evaluations(source), Failure(errorPos))
       [] vmStatus = "aborted" -> Stopped(Evaluations(source), StringMeaning(<<>>))
       [] OTHER -> TRUE

(* The same, of the next state.                                            *)
MeaningNext(v) == IF value_is_string(v) THEN StringMeaning(gcObjects'[v.object].text) ELSE v
ResultNext(e, E) == MeaningNext(results'[Rank(e, E)])
MeaningAtNext(e, E) ==
  MeaningFrom(source', e, ResultNext(LeftOperand(e, E), E), ResultNext(RightOperand(e, E), E))

LEMMA NextMeanings ==
  ASSUME NEW e, NEW E
  PROVE  /\ ResultOf(e, E)' = ResultNext(e, E)
         /\ MeaningAt(e, E)' = MeaningAtNext(e, E)
<1>1. ASSUME NEW d
      PROVE  ResultOf(d, E)' = ResultNext(d, E)
  BY DEF ResultOf, ResultNext, Meaning, MeaningNext, StringMeaning, value_is_string
<1> QED BY <1>1 DEF MeaningAt, MeaningAtNext

(* The meanings of the values on the stack.                                *)
LEMMA MeaningFacts ==
  ASSUME InterpreterInv, NEW v \in Values
  PROVE  /\ v.kind = "object" => /\ Meaning(v) = StringMeaning(gcObjects[v.object].text)
                                 /\ Meaning(v).kind = "string"
         /\ v.kind # "object" => Meaning(v) = v
         /\ TextOfMeaning(Meaning(v)) = TextOf(v)
         /\ ObjectsGrow => MeaningNext(v) = Meaning(v)
<1>1. /\ v.kind \in {"nil", "bool", "number", "object"}
      /\ v.kind = "object" => v.object \in 1..Len(gcObjects)
  BY TextFacts
<1>2. v.kind = "object" => /\ Meaning(v) = StringMeaning(gcObjects[v.object].text)
                           /\ Meaning(v).kind = "string"
                           /\ Meaning(v).text = gcObjects[v.object].text
  BY DEF Meaning, value_is_string, StringMeaning
<1>3. v.kind # "object" => Meaning(v) = v
  BY DEF Meaning, value_is_string
<1>4. TextOfMeaning(Meaning(v)) = TextOf(v)
  <2>1. CASE v.kind = "object"
    BY <1>2, <2>1 DEF TextOfMeaning, TextOf
  <2>2. CASE v.kind # "object"
    BY <1>1, <1>3, <2>2 DEF TextOfMeaning, TextOf
  <2> QED BY <2>1, <2>2
<1>5. ASSUME ObjectsGrow
      PROVE  MeaningNext(v) = Meaning(v)
  <2>1. v.kind = "object" => gcObjects'[v.object] = gcObjects[v.object]
    BY <1>1, <1>5 DEF ObjectsGrow
  <2> QED BY <1>2, <1>3, <2>1 DEF MeaningNext, value_is_string
<1> QED BY <1>2, <1>3, <1>4, <1>5

(* What a token calls for, and what it needs.                              *)
LEMMA Kinds ==
  ASSUME NEW tokens, NEW p, NEW last, EvaluatedAfter(tokens, p, last),
         NEW op \in Operations(tokens, p)
  PROVE  \/ /\ tokens[p].type \in {"NUMBER", "STRING"} /\ op \in ConstantOps
            /\ ~IsInfixOp(tokens, p) /\ ~IsPrefixOp(tokens, p)
         \/ /\ tokens[p].type = "SEMICOLON"
            /\ op = IF EndsPrint(tokens, p) THEN "PRINT" ELSE "POP"
            /\ ~IsInfixOp(tokens, p) /\ ~IsPrefixOp(tokens, p)
         \/ /\ tokens[p].type \in {"NIL", "TRUE", "FALSE"} /\ op = tokens[p].type
            /\ ~IsInfixOp(tokens, p) /\ ~IsPrefixOp(tokens, p)
         \/ IsInfixOp(tokens, p) /\ op = BinaryOpOf(tokens[p].type)
            /\ tokens[p].type # "SEMICOLON" /\ ~IsPrefixOp(tokens, p)
         \/ /\ IsPrefixOp(tokens, p) /\ ~IsInfixOp(tokens, p)
            /\ op = UnaryOpOf(tokens[p].type) /\ tokens[p].type \in {"MINUS", "BANG"}
<1>1. /\ IsPrefixOp(tokens, p) \/ IsInfixOp(tokens, p) => ~Completes(tokens[p].type)
      /\ ~(IsPrefixOp(tokens, p) /\ IsInfixOp(tokens, p))
  <2>1. ~(IsPrefixOp(tokens, p) /\ IsInfixOp(tokens, p))
    BY DEF IsPrefixOp, IsInfixOp
  <2> QED BY <2>1, TypesApart
<1>2. CASE IsPrefixOp(tokens, p)
  <2>1. tokens[p].type \in {"MINUS", "BANG"}
    BY <1>2 DEF IsPrefixOp, PrefixTypes
  <2> QED BY <1>1, <1>2, <2>1 DEF Operations
<1>3. CASE IsInfixOp(tokens, p)
  BY <1>1, <1>3 DEF Operations, Completes, LiteralTypes
<1>4. CASE ~IsPrefixOp(tokens, p) /\ ~IsInfixOp(tokens, p)
  <2>1. tokens[p].type \in LiteralTypes \cup {"SEMICOLON"}
    BY <1>4 DEF EvaluatedAfter
  <2> QED BY <1>4, <2>1 DEF Operations, LiteralTypes
<1> QED BY <1>2, <1>3, <1>4

LEMMA OpsOfTokens ==
  /\ \A type : BinaryOpOf(type) \in BinaryOps /\ UnaryOpOf(type) \in UnaryOps
  /\ \A op \in BinaryOps : Pops(op) = 2 /\ Pushes(op) = 1
  /\ \A op \in UnaryOps : Pops(op) = 1 /\ Pushes(op) = 1
<1>1. \A type : BinaryOpOf(type) \in BinaryOps
  BY Zenon DEF BinaryOpOf, BinaryOps
<1>2. \A type : UnaryOpOf(type) \in UnaryOps
  BY DEF UnaryOpOf, UnaryOps
<1>3. \A op \in BinaryOps : Pops(op) = 2 /\ Pushes(op) = 1
  BY DEF Pops, Pushes, BinaryOps, DiscardOps
<1>4. \A op \in UnaryOps : Pops(op) = 1 /\ Pushes(op) = 1
  BY DEF Pops, Pushes, BinaryOps, UnaryOps, DiscardOps
<1> QED BY <1>1, <1>2, <1>3, <1>4

-----------------------------------------------------------------------------
(* The instruction that is next, and its evaluation.                       *)
Executes(e, E) ==
  /\ E = Evaluations(source) /\ e \in E /\ Rank(e, E) = ip
  /\ Ordered(chunk.code, source, E)
  /\ Len(results) = ip - 1 /\ Len(results) \in Nat /\ results \in Seq(Values)
  /\ Instruction.op \in Operations(source, e.token) /\ Instruction.pos = e.after
  /\ EvaluatedAfter(source, e.token, e.after)
  /\ e.token \in Nat /\ e.after \in Nat /\ e.token <= e.after
  /\ Instruction.height \in Int /\ Instruction.height >= Pops(Instruction.op)
  /\ Len(stack) = base + Instruction.height /\ base \in Nat

LEMMA Executed ==
  ASSUME InterpreterInv, MeaningInv, vmStatus = "executing", Instruction.op # "RETURN"
  PROVE  \E e, E : Executes(e, E)
<1>1. /\ phase = "executing" /\ status = "success" /\ CompilerInv
      /\ ip \in 1..Len(chunk.code) /\ Len(stack) = base + Instruction.height
      /\ results \in Seq(Values) /\ Len(results) \in Nat /\ base \in Nat
  BY DEF InterpreterInv, PhaseOK, HeightOK, InterpreterTypeOK, Instruction
<1>2. source # <<>> /\ EvaluatesInOrder /\ Len(results) = ip - 1
  BY <1>1 DEF MeaningInv
<1>3. PICK E : E = Evaluations(source)
  OBVIOUS
<1>4. Ordered(chunk.code, source, E)
  BY <1>1, <1>2, <1>3, ChunkOrdered
<1>5. ip \in 1..Cardinality(E)
  BY <1>1, <1>4 DEF Ordered, Instruction
<1>6. PICK e \in E : Rank(e, E) = ip
  BY <1>4, <1>5, OrderedFacts
<1>7. Instruction.op \in Operations(source, e.token) /\ Instruction.pos = e.after
  BY <1>4, <1>6 DEF Ordered, Instruction
<1>8. Instruction.height \in Int /\ Instruction.height >= Pops(Instruction.op)
  BY <1>4, <1>5, OrderedFacts DEF Ordered, Instruction
<1>9. TokenSequence(source) /\ Len(source) > 0
  BY <1>1, <1>2 DEF CompilerInv, TypeOK, TokenSequence
<1>10. /\ EvaluatedAfter(source, e.token, e.after)
       /\ e.token \in 1..Len(source) - 1 /\ e.after \in 1..Len(source) - 1
  BY <1>3, <1>6, <1>9, EvaluationsFacts
<1>11. e.token \in Nat /\ e.after \in Nat /\ e.token <= e.after
  <2>1. Len(source) \in Nat
    BY <1>9 DEF TokenSequence
  <2>2. e.token \in Nat /\ e.after \in Nat
    BY <1>10, <2>1
  <2> QED BY <1>10, <2>2 DEF EvaluatedAfter
<1>12. Executes(e, E)
  BY <1>1, <1>2, <1>3, <1>4, <1>6, <1>7, <1>8, <1>10, <1>11 DEF Executes
<1> QED BY <1>12

(* Its operands on the stack are the results of its operands in the source.*)
LEMMA OperandsAre ==
  ASSUME InterpreterInv, ResultsOnStack, NEW e, NEW E, Executes(e, E)
  PROVE  /\ Pops(Instruction.op) >= 1 =>
              /\ RightOperand(e, E) \in E
              /\ Rank(RightOperand(e, E), E) \in 1..Len(results)
              /\ results[Rank(RightOperand(e, E), E)] = stack[Len(stack)]
         /\ IsInfixOp(source, e.token) =>
              /\ LeftOperand(e, E) \in E
              /\ Rank(LeftOperand(e, E), E) \in 1..Len(results)
              /\ results[Rank(LeftOperand(e, E), E)] = stack[Len(stack) - 1]
<1> DEFINE code == chunk.code
<1>1. /\ Ordered(code, source, E) /\ e \in E /\ Rank(e, E) = ip /\ code[ip] = Instruction
      /\ Len(results) = ip - 1 /\ Len(results) \in Nat /\ base \in Nat
      /\ Instruction.height \in Int /\ Instruction.height >= Pops(Instruction.op)
      /\ Len(stack) = base + Instruction.height /\ e.token <= e.after
  BY DEF Executes, Instruction
<1>2. ip \in Int
  BY DEF InterpreterInv, InterpreterTypeOK
<1>3. \A i \in 1..Len(results) :
        /\ Pushes(code[i].op) = 1
        /\ \A k \in i + 1..Len(results) : Leaves(code[k]) > Leaves(code[i])
        => stack[base + Leaves(code[i])] = results[i]
  BY DEF ResultsOnStack
<1> HIDE DEF code
<1>4. ASSUME Pops(Instruction.op) >= 1
      PROVE  /\ RightOperand(e, E) \in E
             /\ Rank(RightOperand(e, E), E) \in 1..Len(results)
             /\ results[Rank(RightOperand(e, E), E)] = stack[Len(stack)]
  <2>1. code[Rank(e, E)].height >= 1
    <3>1. Pops(Instruction.op) \in 0..2
      BY DEF Pops
    <3> QED BY <1>1, <1>4, <3>1
  <2>2. /\ RightOperand(e, E) \in E /\ ip - 1 \in 1..Cardinality(E)
        /\ Rank(RightOperand(e, E), E) = ip - 1
        /\ Pushes(code[ip - 1].op) = 1 /\ Leaves(code[ip - 1]) = Instruction.height
    BY <1>1, <2>1, RightPlaced
  <2>3. Cardinality(E) \in Nat
    BY <1>1 DEF Ordered
  <2>4. PICK i \in 1..Len(results) : i = ip - 1
    BY <1>1, <2>2, <2>3
  <2>5. i + 1..Len(results) = {}
    BY <1>1, <2>4
  <2>6. stack[base + Leaves(code[i])] = results[i]
    BY <1>3, <2>2, <2>4, <2>5
  <2> QED BY <1>1, <2>2, <2>4, <2>6
<1>5. ASSUME IsInfixOp(source, e.token)
      PROVE  /\ LeftOperand(e, E) \in E
             /\ Rank(LeftOperand(e, E), E) \in 1..Len(results)
             /\ results[Rank(LeftOperand(e, E), E)] = stack[Len(stack) - 1]
  <2>1. Pops(Instruction.op) = 2
    <3>1. Instruction.op = BinaryOpOf(source[e.token].type)
      BY <1>5, Kinds DEF Executes
    <3> QED BY <3>1, OpsOfTokens
  <2>2. code[Rank(e, E)].height >= 2
    BY <1>1, <2>1
  <2>3. PICK left \in 1..ip - 1 : left = Rank(LeftOperand(e, E), E)
    BY <1>1, <1>5, <2>2, LeftPlaced
  <2>4. /\ LeftOperand(e, E) \in E
        /\ Pushes(code[left].op) = 1 /\ Leaves(code[left]) = Instruction.height - 1
        /\ \A k \in left + 1..ip - 1 : Leaves(code[k]) >= Instruction.height
    BY <1>1, <1>5, <2>2, <2>3, LeftPlaced
  <2>5. ASSUME NEW k \in left + 1..Len(results)
        PROVE  Leaves(code[k]) > Leaves(code[left])
    <3>1. k \in left + 1..ip - 1
      BY <1>1
    <3>2. k \in 1..Cardinality(E)
      <4>1. ip \in 1..Cardinality(E) /\ Cardinality(E) \in Nat
        BY <1>1, RankOrders DEF Ordered
      <4> QED BY <1>2, <2>3, <3>1, <4>1
    <3>3. Leaves(code[k]) \in Int
      BY <1>1, <3>2, OrderedFacts
    <3>4. Leaves(code[k]) >= Instruction.height
      BY <2>4, <3>1
    <3> QED BY <1>1, <2>4, <3>3, <3>4
  <2>6. left \in 1..Len(results)
    BY <1>1, <2>3
  <2>7. stack[base + Leaves(code[left])] = results[left]
    BY <1>3, <2>4, <2>5, <2>6
  <2>8. base + Leaves(code[left]) = Len(stack) - 1
    BY <1>1, <2>4
  <2> QED BY <2>3, <2>4, <2>6, <2>7, <2>8
<1> QED BY <1>4, <1>5

(* Operands are evaluated before what they are operands of.                *)
LEMMA OperandsBefore ==
  ASSUME NEW code, NEW tokens, NEW E, Ordered(code, tokens, E), NEW e \in E,
         EvaluatedAfter(tokens, e.token, e.after), e.token <= e.after
  PROVE  /\ IsInfixOp(tokens, e.token) =>
              Rank(LeftOperand(e, E), E) \in 1..Rank(e, E) - 1
         /\ \/ IsInfixOp(tokens, e.token) \/ IsPrefixOp(tokens, e.token)
            \/ tokens[e.token].type = "SEMICOLON"
            => Rank(RightOperand(e, E), E) \in 1..Rank(e, E) - 1
<1>1. PICK i \in 1..Cardinality(E) : i = Rank(e, E)
  BY RankOrders DEF Ordered
<1> DEFINE op == code[i].op
<1>2. op \in Operations(tokens, e.token) /\ code[i].height >= Pops(op)
  BY <1>1 DEF Ordered
<1>3. code[i].height \in Int
  BY OrderedFacts
<1>4. ASSUME IsInfixOp(tokens, e.token)
      PROVE  Pops(op) = 2
  <2>1. op = BinaryOpOf(tokens[e.token].type)
    BY <1>2, <1>4, Kinds
  <2> QED BY <2>1, OpsOfTokens
<1>5. ASSUME IsPrefixOp(tokens, e.token), ~IsInfixOp(tokens, e.token)
      PROVE  Pops(op) = 1
  <2>1. op = UnaryOpOf(tokens[e.token].type)
    BY <1>2, <1>5, Kinds
  <2> QED BY <2>1, OpsOfTokens
<1>6. ASSUME tokens[e.token].type = "SEMICOLON", ~IsInfixOp(tokens, e.token),
             ~IsPrefixOp(tokens, e.token)
      PROVE  Pops(op) = 1
  <2>1. op \in DiscardOps
    BY <1>2, <1>6, Kinds DEF DiscardOps
  <2> QED BY <2>1, OpFacts
<1> HIDE DEF op
<1>7. ASSUME code[i].height >= 1
      PROVE  Rank(RightOperand(e, E), E) \in 1..Rank(e, E) - 1
  <2>1. /\ Rank(e, E) - 1 \in 1..Cardinality(E)
        /\ Rank(RightOperand(e, E), E) = Rank(e, E) - 1
    BY <1>1, <1>7, RightPlaced
  <2> QED BY <1>1, <2>1 DEF Ordered
<1>8. ASSUME IsInfixOp(tokens, e.token), code[i].height >= 2
      PROVE  Rank(LeftOperand(e, E), E) \in 1..Rank(e, E) - 1
  BY <1>1, <1>8, LeftPlaced
<1> QED BY <1>2, <1>3, <1>4, <1>5, <1>6, <1>7, <1>8

(* Results that are kept, and the list of objects grown, keep what the     *)
(* evaluations up to the next one mean.                                    *)
ResultsGrow ==
  /\ results \in Seq(Values) /\ ObjectsGrow
  /\ \A i \in 1..Len(results) : results'[i] = results[i]

LEMMA ResultsKept ==
  ASSUME InterpreterInv, ResultsGrow, NEW d, NEW E, Rank(d, E) \in 1..Len(results)
  PROVE  ResultNext(d, E) = ResultOf(d, E)
<1>1. PICK i \in 1..Len(results) : i = Rank(d, E)
  OBVIOUS
<1>2. results[i] \in Values /\ results'[i] = results[i] /\ ObjectsGrow
  BY DEF ResultsGrow
<1>3. MeaningNext(results[i]) = Meaning(results[i])
  BY <1>2, MeaningFacts
<1> QED BY <1>1, <1>2, <1>3 DEF ResultNext, ResultOf

LEMMA MeaningsKept ==
  ASSUME InterpreterInv, ResultsGrow, UNCHANGED source, source # <<>>, NEW E,
         E = Evaluations(source), Ordered(chunk.code, source, E),
         NEW e \in E, Rank(e, E) <= Len(results) + 1
  PROVE  MeaningAtNext(e, E) = MeaningAt(e, E)
<1>1. TokenSequence(source) /\ Len(source) > 0
  BY DEF InterpreterInv, CompilerInv, TypeOK, TokenSequence
<1>2. /\ EvaluatedAfter(source, e.token, e.after)
      /\ e.token \in 1..Len(source) - 1 /\ e.after \in 1..Len(source) - 1
  BY <1>1, EvaluationsFacts
<1>3. e.token <= e.after
  <2>1. Len(source) \in Nat
    BY <1>1 DEF TokenSequence
  <2>2. e.token \in Nat /\ e.after \in Nat
    BY <1>2, <2>1
  <2> QED BY <1>2, <2>2 DEF EvaluatedAfter
<1>4. /\ IsInfixOp(source, e.token) =>
           Rank(LeftOperand(e, E), E) \in 1..Rank(e, E) - 1
      /\ \/ IsInfixOp(source, e.token) \/ IsPrefixOp(source, e.token)
         \/ source[e.token].type = "SEMICOLON"
         => Rank(RightOperand(e, E), E) \in 1..Rank(e, E) - 1
  BY <1>2, <1>3, OperandsBefore
<1>5. \A k \in 1..Rank(e, E) - 1 : k \in 1..Len(results)
  <2>1. Rank(e, E) \in 1..Cardinality(E) /\ Cardinality(E) \in Nat /\ Len(results) \in Nat
    BY RankOrders DEF Ordered, ResultsGrow
  <2> QED BY <2>1
<1>6. /\ IsInfixOp(source, e.token) =>
           ResultNext(LeftOperand(e, E), E) = ResultOf(LeftOperand(e, E), E)
      /\ \/ IsInfixOp(source, e.token) \/ IsPrefixOp(source, e.token)
         \/ source[e.token].type = "SEMICOLON"
         => ResultNext(RightOperand(e, E), E) = ResultOf(RightOperand(e, E), E)
  BY <1>4, <1>5, ResultsKept
<1> DEFINE left == ResultOf(LeftOperand(e, E), E)
           right == ResultOf(RightOperand(e, E), E)
           leftNext == ResultNext(LeftOperand(e, E), E)
           rightNext == ResultNext(RightOperand(e, E), E)
<1>7. MeaningFrom(source, e, leftNext, rightNext) = MeaningFrom(source, e, left, right)
  <2> HIDE DEF left, right, leftNext, rightNext
  <2>1. CASE IsInfixOp(source, e.token)
    <3>1. leftNext = left /\ rightNext = right
      BY <1>6, <2>1 DEF left, right, leftNext, rightNext
    <3> QED BY <3>1
  <2>2. CASE ~IsInfixOp(source, e.token) /\ (IsPrefixOp(source, e.token)
                                             \/ source[e.token].type = "SEMICOLON")
    <3>1. rightNext = right
      BY <1>6, <2>2 DEF left, right, leftNext, rightNext
    <3> QED BY <2>2, <3>1 DEF MeaningFrom
  <2>3. CASE ~IsInfixOp(source, e.token) /\ ~IsPrefixOp(source, e.token)
             /\ source[e.token].type # "SEMICOLON"
    BY <2>3 DEF MeaningFrom
  <2> QED BY <2>1, <2>2, <2>3
<1> QED BY <1>7 DEF MeaningAt, MeaningAtNext

(* One more result, of the evaluation that is next.                        *)
LEMMA ResultAdded ==
  ASSUME InterpreterInv, ObjectsGrow, UNCHANGED source, source # <<>>,
         NEW e, NEW E, Executes(e, E), Evaluated(E),
         NEW v, results' = Append(results, v), MeaningNext(v) = MeaningAt(e, E),
         Prints(e) => TextOfMeaning(MeaningNext(v)) \in Texts,
         output' = IF Prints(e) THEN Append(output, TextOfMeaning(MeaningNext(v))) ELSE output
  PROVE  Evaluated(E)'
<1>1. /\ E = Evaluations(source) /\ e \in E /\ Rank(e, E) = ip
      /\ Ordered(chunk.code, source, E)
      /\ Len(results) = ip - 1 /\ Len(results) \in Nat /\ results \in Seq(Values)
  BY DEF Executes
<1>2. /\ IsFiniteSet(E) /\ E \subseteq Positions /\ Cardinality(E) \in Nat
      /\ ip \in 1..Cardinality(E)
  BY <1>1, RankOrders DEF Ordered
<1>3. /\ Len(results') = ip /\ results'[ip] = v
      /\ \A i \in 1..Len(results) : results'[i] = results[i]
  <2>1. /\ Len(Append(results, v)) = Len(results) + 1
        /\ Append(results, v)[Len(results) + 1] = v
        /\ \A i \in 1..Len(results) : Append(results, v)[i] = results[i]
    BY <1>1
  <2>2. Len(results) + 1 = ip
    BY <1>1, <1>2
  <2> QED BY <2>1, <2>2
<1>4. ResultsGrow
  BY <1>1, <1>3 DEF ResultsGrow
<1> DEFINE done == Done(E)
           doneNext == {d \in E : Rank(d, E) <= Len(results')}
<1>5. /\ done \subseteq E /\ doneNext = done \cup {e} /\ e \notin done
      /\ \A d \in done : Rank(d, E) \in 1..Len(results) /\ Precedes(d, e)
  <2>1. \A d \in E : Rank(d, E) \in 1..Cardinality(E) /\ (Rank(d, E) = ip <=> d = e)
                     /\ (Rank(d, E) < ip <=> Precedes(d, e))
    BY <1>1, <1>2, RankOrders
  <2>2. done = {d \in E : Rank(d, E) <= Len(results)}
    BY DEF Done
  <2> QED BY <1>1, <1>2, <1>3, <2>1, <2>2
<1> HIDE DEF done, doneNext
<1>6. /\ \A d \in done : ResultNext(d, E) = ResultOf(d, E)
      /\ ResultNext(e, E) = MeaningNext(v)
  <2>1. \A d \in done : ResultNext(d, E) = ResultOf(d, E)
    BY <1>4, <1>5, ResultsKept
  <2> QED BY <1>1, <1>3, <2>1 DEF ResultNext
<1>7. \A d \in doneNext : ResultNext(d, E) = MeaningAtNext(d, E)
  <2> TAKE d \in doneNext
  <2>1. d \in E /\ Rank(d, E) <= Len(results) + 1
    <3>1. Len(results') = Len(results) + 1
      BY <1>1, <1>2, <1>3
    <3> QED BY <3>1 DEF doneNext
  <2>2. MeaningAtNext(d, E) = MeaningAt(d, E)
    BY <1>1, <1>4, <2>1, MeaningsKept
  <2>3. CASE d = e
    BY <1>6, <2>2, <2>3
  <2>4. CASE d \in done
    BY <1>6, <2>2, <2>4 DEF Evaluated, done
  <2> QED BY <1>5, <2>3, <2>4
<1> DEFINE printed == {d \in done : Prints(d)}
           printedNext == {d \in doneNext : Prints(d)}
           text == TextOfMeaning(MeaningNext(v))
<1>8. /\ output \in Seq(Texts) /\ Len(output) = Cardinality(printed)
      /\ \A d \in printed : output[Rank(d, printed)] = TextOfMeaning(ResultOf(d, E))
  BY DEF Evaluated, Printed, done
<1>9. IsFiniteSet(printed) /\ printed \subseteq done /\ printed \in SUBSET Positions
  <2>1. printed \subseteq E
    BY <1>5
  <2> QED BY <1>2, <2>1, FS_Subset
<1>10. /\ output' \in Seq(Texts) /\ Len(output') = Cardinality(printedNext)
       /\ \A d \in printedNext :
            output'[Rank(d, printedNext)] = TextOfMeaning(ResultNext(d, E))
  <2>1. CASE Prints(e)
    <3>1. printedNext = printed \cup {e} /\ e \in Positions /\ \A d \in printed : Precedes(d, e)
      BY <1>1, <1>2, <1>5, <2>1
    <3>2. output' = Append(output, text)
      BY <2>1
    <3> HIDE DEF printed, printedNext, text
    <3>3. /\ Cardinality(printed) \in Nat
          /\ Cardinality(printedNext) = Cardinality(printed) + 1
          /\ Rank(e, printedNext) = Cardinality(printed) + 1
          /\ \A d \in printed : /\ Rank(d, printedNext) = Rank(d, printed)
                                /\ Rank(d, printed) \in 1..Cardinality(printed)
      BY <1>9, <3>1, RankAdded
    <3>4. /\ Append(output, text) \in Seq(Texts) /\ Len(Append(output, text)) = Len(output) + 1
          /\ Append(output, text)[Len(output) + 1] = text
          /\ \A i \in 1..Len(output) : Append(output, text)[i] = output[i]
      <4>1. text \in Texts
        BY <2>1 DEF text
      <4> QED BY <1>8, <4>1
    <3>5. \A d \in printedNext :
            output'[Rank(d, printedNext)] = TextOfMeaning(ResultNext(d, E))
      <4> TAKE d \in printedNext
      <4>1. CASE d = e
        BY <1>6, <1>8, <3>2, <3>3, <3>4, <4>1 DEF text
      <4>2. CASE d \in printed
        <5>1. output'[Rank(d, printedNext)] = output[Rank(d, printed)]
          BY <1>8, <3>2, <3>3, <3>4, <4>2
        <5>2. ResultNext(d, E) = ResultOf(d, E)
          BY <1>6, <1>9, <4>2
        <5> QED BY <1>8, <4>2, <5>1, <5>2
      <4> QED BY <3>1, <4>1, <4>2
    <3> QED BY <1>8, <3>2, <3>3, <3>4, <3>5
  <2>2. CASE ~Prints(e)
    <3>1. printedNext = printed
      BY <1>5, <2>2
    <3>2. output' = output
      BY <2>2
    <3> HIDE DEF printed, printedNext
    <3> QED BY <1>6, <1>8, <1>9, <3>1, <3>2
  <2> QED BY <2>1, <2>2
<1>11. /\ Done(E)' = doneNext /\ Printed(E)' = printedNext
       /\ \A d : ResultOf(d, E)' = ResultNext(d, E) /\ MeaningAt(d, E)' = MeaningAtNext(d, E)
  BY NextMeanings DEF Done, Printed, Prints, doneNext
<1> HIDE DEF printed, printedNext
<1>12. Len(results') <= Cardinality(E)
  BY <1>2, <1>3
<1>13. /\ \A d \in doneNext : ResultOf(d, E)' = MeaningAt(d, E)'
       /\ \A d \in printedNext :
            output'[Rank(d, printedNext)] = TextOfMeaning(ResultOf(d, E)')
  BY <1>7, <1>10, <1>11
<1> QED BY <1>10, <1>11, <1>12, <1>13 DEF Evaluated

LEMMA StackKept ==
  ASSUME InterpreterInv, ResultsOnStack, NEW e, NEW E, Executes(e, E),
         UNCHANGED <<chunk, base>>, NEW v, results' = Append(results, v),
         Len(stack') = base + Leaves(Instruction),
         \A i \in 1..Len(stack) - Pops(Instruction.op) : stack'[i] = stack[i],
         Pushes(Instruction.op) = 1 => stack'[Len(stack')] = v
  PROVE  ResultsOnStack'
<1> DEFINE code == chunk.code
<1>1. /\ Ordered(code, source, E) /\ e \in E /\ Rank(e, E) = ip /\ code[ip] = Instruction
      /\ Len(results) = ip - 1 /\ Len(results) \in Nat /\ base \in Nat /\ results \in Seq(Values)
      /\ Instruction.height \in Int /\ Len(stack) = base + Instruction.height
  BY DEF Executes, Instruction
<1>2. Cardinality(E) \in Nat /\ ip \in 1..Cardinality(E)
  BY <1>1, RankOrders DEF Ordered
<1> HIDE DEF code
<1>3. /\ Len(results') = ip /\ results'[ip] = v
      /\ \A i \in 1..Len(results) : results'[i] = results[i]
  <2>1. /\ Len(Append(results, v)) = Len(results) + 1
        /\ Append(results, v)[Len(results) + 1] = v
        /\ \A i \in 1..Len(results) : Append(results, v)[i] = results[i]
    BY <1>1
  <2>2. Len(results) + 1 = ip
    BY <1>1, <1>2
  <2> QED BY <2>1, <2>2
<1>4. ASSUME NEW i \in 1..ip, Pushes(code[i].op) = 1,
             \A k \in i + 1..ip : Leaves(code[k]) > Leaves(code[i])
      PROVE  stack'[base + Leaves(code[i])] = results'[i]
  <2>1. CASE i = ip
    BY <1>1, <1>3, <1>4, <2>1
  <2>2. CASE i # ip
    <3>1. i \in 1..Len(results) /\ i \in 1..Cardinality(E) /\ ip \in i + 1..ip
      BY <1>1, <1>2, <2>2
    <3>2. \A k \in i + 1..Len(results) : Leaves(code[k]) > Leaves(code[i])
      <4>1. \A k \in i + 1..Len(results) : k \in i + 1..ip
        BY <1>1, <1>2
      <4> QED BY <1>4, <4>1
    <3>3. stack[base + Leaves(code[i])] = results[i]
      BY <1>4, <3>1, <3>2 DEF ResultsOnStack, code
    <3>4. Leaves(code[i]) \in Int /\ Leaves(code[i]) >= 1
      BY <1>1, <1>4, <3>1, OrderedFacts
    <3>5. Leaves(code[ip]) > Leaves(code[i])
      BY <1>4, <3>1
    <3>6. /\ Leaves(code[ip]) = Instruction.height - Pops(Instruction.op) + Pushes(Instruction.op)
          /\ Pops(Instruction.op) \in 0..2 /\ Pushes(Instruction.op) \in 0..1
      BY <1>1 DEF Leaves, Pops, Pushes
    <3>7. base + Leaves(code[i]) \in 1..Len(stack) - Pops(Instruction.op)
      BY <1>1, <3>4, <3>5, <3>6
    <3> QED BY <1>3, <3>1, <3>3, <3>7
  <2> QED BY <2>1, <2>2
<1>5. code' = code /\ base' = base
  BY DEF code
<1> QED BY <1>3, <1>4, <1>5 DEF ResultsOnStack, code

(* What a successful compilation left is not touched.                      *)
LEMMA CompiledKept ==
  ASSUME CompilerInv, ConstantsInOrder, EvaluatesInOrder, ObjectsGrow,
         UNCHANGED <<source, status, chunk>>
  PROVE  ConstantsInOrder' /\ EvaluatesInOrder'
<1>1. EvaluatesInOrder'
  BY DEF EvaluatesInOrder
<1>2. ASSUME status = "success"
      PROVE  LoadsLiterals(chunk.code, chunk.constants, gcObjects', source, Len(source))
  <2>1. LoadsLiterals(chunk.code, chunk.constants, gcObjects, source, Len(source))
    BY <1>2 DEF ConstantsInOrder
  <2>2. /\ chunk.code \in Seq(Instructions)
        /\ chunk.constants \in Seq(NumberValues \cup ObjectValues(Len(gcObjects)))
    BY DEF CompilerInv, TypeOK, ChunkSet
  <2>3. ASSUME NEW i \in Loads(chunk.code)
        PROVE  DenotedBy(chunk.constants[chunk.code[i].arg + 1],
                         source[chunk.code[i].pos], gcObjects')
    <3> DEFINE c == chunk.constants[chunk.code[i].arg + 1]
    <3>1. DenotedBy(c, source[chunk.code[i].pos], gcObjects)
      BY <2>1, <2>3 DEF LoadsLiterals
    <3>2. chunk.code[i].arg + 1 \in 1..Len(chunk.constants)
      <4>1. /\ chunk.code[i] \in Instructions /\ chunk.code[i].op \in ConstantOps
            /\ i \in 1..Len(chunk.code)
        BY <2>2, <2>3 DEF Loads
      <4>2. chunk.code[i].arg \in Nat /\ chunk.code[i].arg < Len(chunk.constants)
        BY <4>1 DEF CompilerInv, OperandsFit, OperandFits, Instructions
      <4> QED BY <2>2, <4>2
    <3>3. c \in NumberValues \cup ObjectValues(Len(gcObjects))
      BY <2>2, <3>2
    <3> HIDE DEF c
    <3>4. c.kind = "object" => gcObjects'[c.object] = gcObjects[c.object]
      BY <3>3 DEF ObjectsGrow, NumberValues, ObjectValues
    <3>5. DenotedBy(c, source[chunk.code[i].pos], gcObjects')
      BY <3>1, <3>4 DEF DenotedBy
    <3> QED BY <3>5 DEF c
  <2> QED BY <2>1, <2>3 DEF LoadsLiterals
<1> QED BY <1>1, <1>2 DEF ConstantsInOrder

-----------------------------------------------------------------------------
(* How an instruction ends.                                                *)

(* It goes on, with one more result.                                       *)
LEMMA GoesOn ==
  ASSUME InterpreterInv, MeaningInv, vmStatus = "executing", Frozen, ObjectsGrow,
         NEW e, NEW E, Executes(e, E), NEW v, results' = Append(results, v),
         vmStatus' = "executing", ip' = ip + 1, errorPos' = errorPos,
         Len(stack') = base + Leaves(Instruction),
         \A i \in 1..Len(stack) - Pops(Instruction.op) : stack'[i] = stack[i],
         Pushes(Instruction.op) = 1 => stack'[Len(stack')] = v,
         MeaningNext(v) = MeaningAt(e, E),
         Prints(e) => TextOfMeaning(MeaningNext(v)) \in Texts,
         output' = IF Prints(e) THEN Append(output, TextOfMeaning(MeaningNext(v))) ELSE output
  PROVE  MeaningInv'
<1>1. /\ phase = "executing" /\ CompilerInv
      /\ UNCHANGED <<source, sourceId, parser, frames, status, chunk, base, phase, result>>
  BY DEF InterpreterInv, PhaseOK, Frozen
<1>2. /\ source # <<>> /\ ConstantsInOrder /\ EvaluatesInOrder /\ errorPos = 0
      /\ ResultsOnStack /\ Evaluated(E)
  BY <1>1 DEF MeaningInv, Executes
<1>3. Evaluated(E)'
  BY <1>1, <1>2, ResultAdded
<1>4. ResultsOnStack'
  BY <1>1, <1>2, StackKept
<1>5. ConstantsInOrder' /\ EvaluatesInOrder'
  BY <1>1, <1>2, CompiledKept
<1>6. Len(results') = ip' - 1
  <2>1. results \in Seq(Values) /\ Len(results) = ip - 1 /\ ip \in Nat
    BY DEF Executes, InterpreterInv, InterpreterTypeOK
  <2> QED BY <2>1
<1>7. Evaluations(source') = E /\ source' # <<>> /\ phase' = "executing" /\ errorPos' = 0
  BY <1>1, <1>2 DEF Executes
<1>8. Evaluated(Evaluations(source))'
  BY <1>3, <1>7
<1> QED BY <1>4, <1>5, <1>6, <1>7, <1>8 DEF MeaningInv

LEMMA YieldMeans ==
  ASSUME InterpreterInv, MeaningInv, vmStatus = "executing", Frozen, ObjectsGrow,
         NEW e, NEW E, Executes(e, E), Pushes(Instruction.op) = 1,
         NEW v, Yield(v), MeaningNext(v) = MeaningAt(e, E)
  PROVE  MeaningInv'
<1> DEFINE pops == Pops(Instruction.op)
           kept == Below(pops)
<1>1. /\ stack \in Seq(Values) /\ base \in Nat /\ Len(stack) \in Nat
      /\ base <= Len(stack) - pops /\ pops \in 0..2
  BY Operands
<1>2. /\ kept \in Seq(Values) /\ Len(kept) = Len(stack) - pops
      /\ \A i \in 1..Len(stack) - pops : kept[i] = stack[i]
  <2>1. pops \in Nat /\ pops <= Len(stack)
    BY <1>1
  <2> HIDE DEF pops
  <2> QED BY <1>1, <2>1, BelowFacts
<1>3. /\ stack' = Append(kept, v) /\ ip' = ip + 1 /\ results' = Append(results, v)
      /\ vmStatus' = "executing" /\ UNCHANGED <<output, errorPos>>
  BY DEF Yield
<1> HIDE DEF kept, pops
<1>4. /\ Len(stack') = Len(stack) - pops + 1
      /\ \A i \in 1..Len(stack) - pops : stack'[i] = stack[i]
      /\ stack'[Len(stack')] = v
  <2>1. /\ Len(Append(kept, v)) = Len(kept) + 1 /\ Append(kept, v)[Len(kept) + 1] = v
        /\ \A i \in 1..Len(kept) : Append(kept, v)[i] = kept[i]
    BY <1>2
  <2> QED BY <1>2, <1>3, <2>1
<1>5. Len(stack') = base + Leaves(Instruction)
  <2>1. /\ Leaves(Instruction) = Instruction.height - pops + 1
        /\ Instruction.height \in Int /\ Len(stack) = base + Instruction.height
    BY DEF Leaves, Executes, pops
  <2> QED BY <1>1, <1>4, <2>1
<1>6. ~Prints(e)
  <2>1. ASSUME source[e.token].type = "SEMICOLON"
        PROVE  FALSE
    <3>1. Instruction.op \in DiscardOps
      <4>1. /\ Instruction.op \in Operations(source, e.token)
            /\ EvaluatedAfter(source, e.token, e.after)
        BY DEF Executes
      <4>2. Instruction.op = IF EndsPrint(source, e.token) THEN "PRINT" ELSE "POP"
        BY <2>1, <4>1, Kinds
      <4> QED BY <4>2 DEF DiscardOps
    <3> QED BY <3>1, OpFacts
  <2> QED BY <2>1 DEF Prints
<1> QED BY <1>3, <1>4, <1>5, <1>6, GoesOn DEF pops

(* It stops at an operation that has no meaning.                           *)
LEMMA Stops ==
  ASSUME InterpreterInv, MeaningInv, vmStatus = "executing", Frozen,
         UNCHANGED <<gcObjects, results, output>>,
         NEW e, NEW E, Executes(e, E),
         \/ vmStatus' = "failure" /\ MeaningAt(e, E) = Failure(errorPos')
         \/ vmStatus' = "aborted" /\ MeaningAt(e, E) = StringMeaning(<<>>)
  PROVE  MeaningInv'
<1>1. /\ phase = "executing" /\ CompilerInv
      /\ UNCHANGED <<source, sourceId, parser, frames, status, chunk, base, phase, result>>
  BY DEF InterpreterInv, PhaseOK, Frozen
<1>2. /\ source # <<>> /\ ConstantsInOrder /\ EvaluatesInOrder /\ Evaluated(E)
  BY <1>1 DEF MeaningInv, Executes
<1>3. ConstantsInOrder' /\ EvaluatesInOrder'
  <2>1. ObjectsGrow
    BY <1>1 DEF ObjectsGrow, CompilerInv, TypeOK
  <2> QED BY <1>1, <1>2, <2>1, CompiledKept
<1>4. \A d : ResultOf(d, E)' = ResultOf(d, E) /\ MeaningAt(d, E)' = MeaningAt(d, E)
  BY <1>1 DEF MeaningAt, ResultOf, Meaning, value_is_string
<1>5. /\ Done(E)' = Done(E) /\ Printed(E)' = Printed(E)
  BY <1>1 DEF Done, Printed, Prints
<1>6. Evaluated(E)'
  BY <1>2, <1>4, <1>5 DEF Evaluated
<1>7. Evaluations(source') = E /\ source' # <<>> /\ phase' = "executing"
  BY <1>1, <1>2 DEF Executes
<1>8. Evaluated(Evaluations(source))'
  BY <1>6, <1>7
<1>9. e \in E /\ Rank(e, E) = Len(results') + 1
  <2>1. ip \in Nat
    BY DEF InterpreterInv, InterpreterTypeOK
  <2> QED BY <2>1 DEF Executes
<1>10. \/ vmStatus' = "failure" /\ MeaningAt(e, E)' = Failure(errorPos')
       \/ vmStatus' = "aborted" /\ MeaningAt(e, E)' = StringMeaning(<<>>)
  BY <1>4
<1>11. \/ vmStatus' = "failure" /\ Stopped(E, Failure(errorPos))'
       \/ vmStatus' = "aborted" /\ Stopped(E, StringMeaning(<<>>))'
  <2>1. CASE vmStatus' = "failure" /\ MeaningAt(e, E)' = Failure(errorPos')
    BY <1>9, <2>1 DEF Stopped, Failure
  <2>2. CASE vmStatus' = "aborted" /\ MeaningAt(e, E)' = StringMeaning(<<>>)
    BY <1>9, <2>2 DEF Stopped, StringMeaning
  <2> QED BY <1>10, <2>1, <2>2
<1>12. \/ vmStatus' = "failure" /\ Stopped(Evaluations(source), Failure(errorPos))'
       \/ vmStatus' = "aborted" /\ Stopped(Evaluations(source), StringMeaning(<<>>))'
  BY <1>7, <1>11
<1> QED BY <1>3, <1>7, <1>8, <1>12 DEF MeaningInv
(* A value that is no string means itself.                                 *)
LEMMA YieldScalar ==
  ASSUME InterpreterInv, MeaningInv, vmStatus = "executing", Frozen,
         UNCHANGED <<gcObjects, heap>>, NEW e, NEW E, Executes(e, E),
         Pushes(Instruction.op) = 1, NEW v, Yield(v), v.kind # "object",
         MeaningAt(e, E) = v
  PROVE  MeaningInv'
<1>1. ObjectsGrow
  BY Unmade
<1>2. MeaningNext(v) = MeaningAt(e, E)
  BY DEF MeaningNext, value_is_string
<1> QED BY <1>1, <1>2, YieldMeans

(* vm_error_at reports where the last operand ends.                        *)
LEMMA ErrorMeans ==
  ASSUME InterpreterInv, MeaningInv, vmStatus = "executing", Frozen,
         UNCHANGED gcObjects, NEW e, NEW E, Executes(e, E), vm_error_at,
         MeaningAt(e, E) = Failure(Instruction.pos)
  PROVE  MeaningInv'
<1>1. /\ vmStatus' = "failure" /\ errorPos' = Instruction.pos
      /\ UNCHANGED <<gcObjects, results, output>>
  BY DEF vm_error_at
<1>2. MeaningAt(e, E) = Failure(errorPos')
  BY <1>1
<1> QED BY <1>1, <1>2, Stops

-----------------------------------------------------------------------------
(* What the instruction must compute, from its operands.                   *)
LEMMA OpGroups ==
  /\ \A op \in BinaryOps : op \notin UnaryOps \cup DiscardOps \cup ConstantOps \cup InvariableOps
  /\ \A op \in UnaryOps : op \notin DiscardOps \cup ConstantOps \cup InvariableOps
  /\ \A op \in DiscardOps : op \notin ConstantOps \cup InvariableOps
  /\ \A op \in ConstantOps : op \notin InvariableOps
BY DEF BinaryOps, UnaryOps, DiscardOps, ConstantOps, InvariableOps

LEMMA MeaningIs ==
  ASSUME InterpreterInv, ResultsOnStack, NEW e, NEW E, Executes(e, E)
  PROVE  /\ Instruction.op \in BinaryOps =>
              MeaningAt(e, E) = MeaningOfBinary(Instruction.op, Meaning(Operand(1)),
                                                Meaning(Operand(2)), Instruction.pos)
         /\ Instruction.op \in UnaryOps =>
              \E type \in {"MINUS", "BANG"} :
                /\ Instruction.op = UnaryOpOf(type)
                /\ MeaningAt(e, E) = MeaningOfUnary(type, Meaning(Operand(1)), Instruction.pos)
         /\ Instruction.op \in DiscardOps =>
              /\ MeaningAt(e, E) = Meaning(Operand(1))
              /\ Prints(e) <=> Instruction.op = "PRINT"
         /\ Instruction.op \in ConstantOps \cup InvariableOps =>
              /\ MeaningAt(e, E) = MeaningOfLiteral(source[Instruction.pos])
              /\ Instruction.op \in ConstantOps =>
                   source[Instruction.pos].type \in {"NUMBER", "STRING"}
              /\ Instruction.op \in InvariableOps =>
                   source[Instruction.pos].type = Instruction.op
<1> DEFINE op == Instruction.op
           token == source[e.token]
           left == ResultOf(LeftOperand(e, E), E)
           right == ResultOf(RightOperand(e, E), E)
<1>1. /\ op \in Operations(source, e.token) /\ EvaluatedAfter(source, e.token, e.after)
      /\ Instruction.pos = e.after
  BY DEF Executes
<1>2. MeaningAt(e, E) = MeaningFrom(source, e, left, right)
  BY DEF MeaningAt
<1>3. Pops(op) >= 1 => right = Meaning(stack[Len(stack)])
  BY OperandsAre DEF ResultOf
<1>4. IsInfixOp(source, e.token) => left = Meaning(stack[Len(stack) - 1])
  BY OperandsAre DEF ResultOf
<1>5. Len(stack) \in Nat
  BY DEF InterpreterInv, InterpreterTypeOK
<1>6. /\ Pops(op) = 1 => Operand(1) = stack[Len(stack)]
      /\ Pops(op) = 2 => Operand(1) = stack[Len(stack) - 1] /\ Operand(2) = stack[Len(stack)]
  <2>1. ASSUME Pops(op) = 1
        PROVE  Operand(1) = stack[Len(stack)]
    <3>1. Len(stack) - 1 + 1 = Len(stack)
      BY <1>5
    <3> QED BY <2>1, <3>1 DEF Operand
  <2>2. ASSUME Pops(op) = 2
        PROVE  Operand(1) = stack[Len(stack) - 1] /\ Operand(2) = stack[Len(stack)]
    <3>1. Len(stack) - 2 + 1 = Len(stack) - 1 /\ Len(stack) - 2 + 2 = Len(stack)
      BY <1>5
    <3> QED BY <2>2, <3>1 DEF Operand
  <2> QED BY <2>1, <2>2
<1> HIDE DEF left, right
<1>7. CASE IsInfixOp(source, e.token)
  <2>1. op = BinaryOpOf(token.type) /\ op \in BinaryOps /\ Pops(op) = 2
    <3>1. op = BinaryOpOf(token.type)
      BY <1>1, <1>7, Kinds
    <3> QED BY <3>1, OpsOfTokens
  <2>2. MeaningFrom(source, e, left, right) = MeaningOfBinary(op, left, right, e.after)
    <3>1. ~IsPrefixOp(source, e.token) /\ token.type # "SEMICOLON"
      BY <1>1, <1>7, Kinds
    <3> QED BY <1>7, <2>1, <3>1 DEF MeaningFrom
  <2>3. left = Meaning(Operand(1)) /\ right = Meaning(Operand(2))
    BY <1>3, <1>4, <1>6, <1>7, <2>1
  <2> QED BY <1>1, <1>2, <2>1, <2>2, <2>3, OpGroups
<1>8. CASE IsPrefixOp(source, e.token) /\ ~IsInfixOp(source, e.token)
  <2>1. op = UnaryOpOf(token.type) /\ token.type \in {"MINUS", "BANG"}
    BY <1>1, <1>8, Kinds
  <2>2. op \in UnaryOps /\ Pops(op) = 1
    BY <2>1, OpsOfTokens
  <2>3. MeaningFrom(source, e, left, right) = MeaningOfUnary(token.type, right, e.after)
    BY <1>8, <2>1 DEF MeaningFrom
  <2>4. right = Meaning(Operand(1))
    BY <1>3, <1>6, <2>2
  <2> QED BY <1>1, <1>2, <2>1, <2>2, <2>3, <2>4, OpGroups
<1>9. CASE token.type = "SEMICOLON" /\ ~IsPrefixOp(source, e.token) /\ ~IsInfixOp(source, e.token)
  <2>1. op = IF EndsPrint(source, e.token) THEN "PRINT" ELSE "POP"
    BY <1>1, <1>9, Kinds
  <2>2. op \in DiscardOps /\ Pops(op) = 1
    BY <2>1, OpFacts DEF DiscardOps
  <2>3. MeaningFrom(source, e, left, right) = right
    BY <1>9 DEF MeaningFrom
  <2>4. right = Meaning(Operand(1))
    BY <1>3, <1>6, <2>2
  <2>5. Prints(e) <=> op = "PRINT"
    BY <1>9, <2>1 DEF Prints
  <2> QED BY <1>2, <2>2, <2>3, <2>4, <2>5, OpGroups
<1>10. CASE ~IsPrefixOp(source, e.token) /\ ~IsInfixOp(source, e.token)
            /\ token.type # "SEMICOLON"
  <2>1. e.after = e.token
    BY <1>1, <1>10 DEF EvaluatedAfter
  <2>2. MeaningFrom(source, e, left, right) = MeaningOfLiteral(token)
    BY <1>10 DEF MeaningFrom
  <2>3. \/ token.type \in {"NUMBER", "STRING"} /\ op \in ConstantOps
        \/ token.type \in {"NIL", "TRUE", "FALSE"} /\ op = token.type /\ op \in InvariableOps
    BY <1>1, <1>10, Kinds DEF InvariableOps
  <2>4. MeaningAt(e, E) = MeaningOfLiteral(source[Instruction.pos])
    BY <1>1, <1>2, <2>1, <2>2
  <2>5. source[Instruction.pos] = token
    BY <1>1, <2>1
  <2> QED BY <2>3, <2>4, <2>5, OpGroups
<1> QED BY <1>7, <1>8, <1>9, <1>10

-----------------------------------------------------------------------------
(* The opcodes compute just that.                                          *)
LEMMA ReturnMeans ==
  ASSUME InterpreterInv, MeaningInv, Frozen, ExecuteReturn
  PROVE  MeaningInv'
<1>1. /\ vmStatus = "executing" /\ Instruction.op = "RETURN" /\ vmStatus' = "success"
      /\ UNCHANGED <<output, errorPos, results, gcObjects>>
  BY DEF ExecuteReturn, Executing
<1>2. /\ phase = "executing" /\ CompilerInv /\ status = "success" /\ ip \in 1..Len(chunk.code)
      /\ UNCHANGED <<source, sourceId, parser, frames, status, chunk, base, phase, result>>
  BY <1>1 DEF InterpreterInv, PhaseOK, HeightOK, Frozen
<1>3. PICK E : E = Evaluations(source)
  OBVIOUS
<1>4. /\ source # <<>> /\ ConstantsInOrder /\ EvaluatesInOrder /\ Evaluated(E)
      /\ Len(results) = ip - 1 /\ errorPos = 0
  BY <1>1, <1>2, <1>3 DEF MeaningInv
<1>5. Ordered(chunk.code, source, E)
  BY <1>2, <1>3, <1>4, ChunkOrdered
<1>6. Len(results) = Cardinality(E)
  <2>1. /\ Cardinality(E) \in Nat /\ Len(chunk.code) = Cardinality(E) + 1
        /\ ip \notin 1..Cardinality(E)
    BY <1>1, <1>5 DEF Ordered, Instruction
  <2> QED BY <1>2, <1>4, <2>1
<1>7. Done(E) = E
  <2>1. \A d \in E : Rank(d, E) \in 1..Cardinality(E) /\ Cardinality(E) \in Nat
    BY <1>5, RankOrders DEF Ordered
  <2> QED BY <1>6, <2>1 DEF Done
<1>8. ConstantsInOrder' /\ EvaluatesInOrder'
  <2>1. ObjectsGrow
    BY <1>1, <1>2 DEF ObjectsGrow, CompilerInv, TypeOK
  <2> QED BY <1>2, <1>4, <2>1, CompiledKept
<1>9. \A d : ResultOf(d, E)' = ResultOf(d, E) /\ MeaningAt(d, E)' = MeaningAt(d, E)
  BY <1>1, <1>2 DEF MeaningAt, ResultOf, Meaning, value_is_string
<1>10. Done(E)' = Done(E) /\ Printed(E)' = Printed(E)
  BY <1>1, <1>2 DEF Done, Printed, Prints
<1>11. Evaluated(E)'
  BY <1>1, <1>4, <1>9, <1>10 DEF Evaluated
<1>12. Evaluations(source') = E /\ source' # <<>> /\ phase' = "executing" /\ errorPos' = 0
  BY <1>1, <1>2, <1>3, <1>4
<1>13. Evaluated(Evaluations(source))' /\ Done(Evaluations(source))' = E
  BY <1>7, <1>10, <1>11, <1>12
<1> QED BY <1>1, <1>8, <1>12, <1>13 DEF MeaningInv

LEMMA PopMeans ==
  ASSUME InterpreterInv, MeaningInv, Frozen, ExecutePop
  PROVE  MeaningInv'
<1> DEFINE v == Operand(1)
<1>1. /\ vmStatus = "executing" /\ Instruction.op \in DiscardOps
      /\ stack' = Below(1) /\ results' = Append(results, v) /\ ip' = ip + 1
      /\ UNCHANGED <<vmStatus, errorPos, gcObjects, heap>>
      /\ output' = IF Instruction.op = "PRINT" THEN Append(output, TextOf(v)) ELSE output
  BY DEF ExecutePop, Executing
<1>2. Pops(Instruction.op) = 1 /\ Pushes(Instruction.op) = 0 /\ Instruction.op # "RETURN"
  BY <1>1, OpFacts
<1>3. PICK e, E : Executes(e, E)
  BY <1>1, <1>2, Executed
<1>4. ResultsOnStack
  BY <1>1 DEF MeaningInv
<1>5. ObjectsGrow
  BY <1>1, Unmade
<1>6. /\ MeaningAt(e, E) = Meaning(v) /\ (Prints(e) <=> Instruction.op = "PRINT")
  BY <1>1, <1>3, <1>4, MeaningIs
<1>7. /\ stack \in Seq(Values) /\ base \in Nat /\ Len(stack) \in Nat /\ v \in Values
      /\ base <= Len(stack) - 1
  BY <1>1, <1>2, Operands
<1> HIDE DEF v
<1>8. /\ TextOfMeaning(Meaning(v)) = TextOf(v) /\ MeaningNext(v) = Meaning(v)
      /\ TextOf(v) \in Texts
  BY <1>5, <1>7, MeaningFacts, TextFacts
<1>9. /\ Len(stack') = Len(stack) - 1
      /\ \A i \in 1..Len(stack) - Pops(Instruction.op) : stack'[i] = stack[i]
  <2>1. PICK n \in Nat : n = 1 /\ n <= Len(stack) /\ stack' = Below(n)
    BY <1>1, <1>7
  <2>2. Len(Below(n)) = Len(stack) - n /\ \A i \in 1..Len(stack) - n : Below(n)[i] = stack[i]
    BY <1>7, <2>1, BelowFacts
  <2> QED BY <1>2, <2>1, <2>2
<1>10. Len(stack') = base + Leaves(Instruction)
  <2>1. /\ Leaves(Instruction) = Instruction.height - 1 + 0
        /\ Instruction.height \in Int /\ Len(stack) = base + Instruction.height
    BY <1>2, <1>3 DEF Leaves, Executes
  <2> QED BY <1>7, <1>9, <2>1
<1>11. /\ MeaningNext(v) = MeaningAt(e, E) /\ TextOfMeaning(MeaningNext(v)) \in Texts
       /\ output' = IF Prints(e) THEN Append(output, TextOfMeaning(MeaningNext(v))) ELSE output
  BY <1>1, <1>6, <1>8
<1> QED BY <1>1, <1>2, <1>3, <1>5, <1>9, <1>10, <1>11, GoesOn

LEMMA LoadMeans ==
  ASSUME InterpreterInv, MeaningInv, Frozen, ExecuteConstant \/ ExecuteInvariable
  PROVE  MeaningInv'
<1>1. /\ vmStatus = "executing" /\ Instruction.op \in ConstantOps \cup InvariableOps
      /\ UNCHANGED <<gcObjects, heap>>
  BY DEF ExecuteConstant, ExecuteInvariable, Executing
<1>2. Pushes(Instruction.op) = 1 /\ Instruction.op # "RETURN"
  BY <1>1, OpFacts
<1>3. PICK e, E : Executes(e, E)
  BY <1>1, <1>2, Executed
<1>4. ResultsOnStack /\ phase = "executing" /\ status = "success" /\ ConstantsInOrder
  BY <1>1 DEF MeaningInv, InterpreterInv, PhaseOK
<1> DEFINE token == source[Instruction.pos]
<1>5. /\ MeaningAt(e, E) = MeaningOfLiteral(token)
      /\ Instruction.op \in ConstantOps => token.type \in {"NUMBER", "STRING"}
      /\ Instruction.op \in InvariableOps => token.type = Instruction.op
  BY <1>1, <1>3, <1>4, MeaningIs
<1>6. CASE ExecuteConstant
  <2> DEFINE v == chunk.constants[Instruction.arg + 1]
  <2>1. Instruction.op \in ConstantOps /\ Yield(v)
    BY <1>6 DEF ExecuteConstant, Executing
  <2>2. /\ Instruction.arg + 1 \in 1..Len(chunk.constants)
        /\ chunk.constants \in Seq(NumberValues \cup ObjectValues(Len(gcObjects)))
        /\ ip \in 1..Len(chunk.code)
    BY <1>1, <2>1, RunningCode DEF Instructions, ChunkSet
  <2>3. v \in NumberValues \cup ObjectValues(Len(gcObjects)) /\ v \in Values
    BY <2>2 DEF Values
  <2>4. ip \in Loads(chunk.code)
    BY <2>1, <2>2 DEF Loads, Instruction
  <2>5. DenotedBy(v, token, gcObjects)
    BY <1>4, <2>4 DEF ConstantsInOrder, LoadsLiterals, Instruction
  <2>6. token \in AllTokens
    <3>1. source \in Seq(AllTokens)
      BY DEF InterpreterInv, CompilerInv, TypeOK
    <3>2. source # <<>> /\ TokenSequence(source) /\ Len(source) > 0
      BY <1>4, <3>1 DEF MeaningInv, TokenSequence
    <3>3. e.after \in 1..Len(source) - 1
      BY <1>3, <3>2, EvaluationsFacts DEF Executes
    <3>4. e.after \in 1..Len(source)
      BY <3>1, <3>3
    <3> QED BY <1>3, <3>1, <3>4 DEF Executes
  <2>7. ObjectsGrow
    BY <1>1, Unmade
  <2> HIDE DEF v, token
  <2>8. MeaningNext(v) = Meaning(v)
    BY <2>3, <2>7, MeaningFacts
  <2>9. CASE token.type = "NUMBER"
    <3>1. v = token.literal
      BY <2>5, <2>9 DEF DenotedBy
    <3>2. token.literal \in NumberValues \cup {OutOfRange}
      BY <2>6, <2>9, TokensAssumption DEF AllTokens, EofToken, ErrorToken
    <3>3. v.kind = "number"
      BY <2>3, <3>1, <3>2 DEF OutOfRange, NumberValues, ObjectValues
    <3>4. MeaningOfLiteral(token) = v
      BY <2>9, <3>1 DEF MeaningOfLiteral
    <3> QED BY <1>1, <1>2, <1>3, <1>5, <2>1, <3>3, <3>4, YieldScalar
  <2>10. CASE token.type = "STRING"
    <3>1. v.kind = "object" /\ gcObjects[v.object].text = token.literal.text
      BY <2>5, <2>10 DEF DenotedBy
    <3>2. Meaning(v) = StringMeaning(token.literal.text)
      BY <2>3, <3>1, MeaningFacts
    <3>3. MeaningOfLiteral(token) = StringMeaning(token.literal.text)
      BY <2>10 DEF MeaningOfLiteral
    <3>4. MeaningNext(v) = MeaningAt(e, E)
      BY <1>5, <2>8, <3>2, <3>3
    <3> QED BY <1>1, <1>2, <1>3, <2>1, <2>7, <3>4, YieldMeans
  <2> QED BY <1>5, <2>1, <2>9, <2>10
<1>7. CASE ExecuteInvariable
  <2> DEFINE v == InvariableValue(Instruction.op)
  <2>1. Instruction.op \in InvariableOps /\ Yield(v)
    BY <1>7 DEF ExecuteInvariable, Executing
  <2>2. token.type = Instruction.op /\ token.type \in {"NIL", "TRUE", "FALSE"}
    BY <1>5, <2>1 DEF InvariableOps
  <2> HIDE DEF token
  <2>3. MeaningOfLiteral(token) = v /\ v.kind # "object"
    <3>1. CASE token.type = "NIL"
      BY <2>2, <3>1 DEF MeaningOfLiteral, InvariableValue, NilValue
    <3>2. CASE token.type = "TRUE"
      BY <2>2, <3>2 DEF MeaningOfLiteral, InvariableValue, BoolValue
    <3>3. CASE token.type = "FALSE"
      BY <2>2, <3>3 DEF MeaningOfLiteral, InvariableValue, BoolValue
    <3> QED BY <2>2, <3>1, <3>2, <3>3
  <2> HIDE DEF v
  <2> QED BY <1>1, <1>2, <1>3, <1>5, <2>1, <2>3, YieldScalar
<1> QED BY <1>6, <1>7

LEMMA UnaryMeans ==
  ASSUME InterpreterInv, MeaningInv, Frozen, ExecuteNegate \/ ExecuteNot
  PROVE  MeaningInv'
<1> DEFINE a == Operand(1)
<1>1. /\ vmStatus = "executing" /\ Instruction.op \in {"NEGATE", "NOT"}
      /\ UNCHANGED <<gcObjects, heap>>
  BY DEF ExecuteNegate, ExecuteNot, Executing
<1>2. /\ Pops(Instruction.op) = 1 /\ Pushes(Instruction.op) = 1
      /\ Instruction.op # "RETURN" /\ Instruction.op \in UnaryOps
  BY <1>1, OpFacts DEF UnaryOps
<1>3. PICK e, E : Executes(e, E)
  BY <1>1, <1>2, Executed
<1>4. ResultsOnStack
  BY <1>1 DEF MeaningInv
<1>5. a \in Values
  BY <1>1, <1>2, Operands
<1> HIDE DEF a
<1>6. PICK type \in {"MINUS", "BANG"} :
        /\ Instruction.op = UnaryOpOf(type)
        /\ MeaningAt(e, E) = MeaningOfUnary(type, Meaning(a), Instruction.pos)
  BY <1>2, <1>3, <1>4, MeaningIs DEF a
<1>7. type = IF Instruction.op = "NEGATE" THEN "MINUS" ELSE "BANG"
  BY <1>6 DEF UnaryOpOf
<1>8. /\ a.kind # "object" => Meaning(a) = a
      /\ a.kind = "object" => Meaning(a).kind = "string"
  BY <1>5, MeaningFacts
<1>9. CASE ExecuteNegate /\ value_is_number(a)
  <2> DEFINE v == NumberValue(Negated(a.number))
  <2>1. Yield(v) /\ type = "MINUS" /\ a.kind = "number"
    BY <1>7, <1>9 DEF ExecuteNegate, Executing, value_is_number, a
  <2>2. v.kind # "object"
    BY DEF NumberValue
  <2>3. MeaningAt(e, E) = v
    BY <1>6, <1>8, <2>1 DEF MeaningOfUnary
  <2> HIDE DEF v
  <2> QED BY <1>1, <1>2, <1>3, <2>1, <2>2, <2>3, YieldScalar
<1>10. CASE ExecuteNegate /\ ~value_is_number(a)
  <2>1. vm_error_at /\ type = "MINUS" /\ a.kind # "number"
    BY <1>7, <1>10 DEF ExecuteNegate, Executing, value_is_number, a
  <2>2. Meaning(a).kind # "number"
    BY <1>8, <2>1
  <2>3. MeaningAt(e, E) = Failure(Instruction.pos)
    BY <1>6, <2>1, <2>2 DEF MeaningOfUnary
  <2> QED BY <1>1, <1>3, <2>1, <2>3, ErrorMeans
<1>11. CASE ExecuteNot
  <2> DEFINE v == BoolValue(value_is_falsy(a))
  <2>1. Yield(v) /\ type = "BANG"
    BY <1>7, <1>11 DEF ExecuteNot, Executing, a
  <2>2. v.kind # "object"
    BY DEF BoolValue
  <2>3. value_is_falsy(a) <=> Meaning(a) = NilValue \/ Meaning(a) = BoolValue(FALSE)
    <3>1. NilValue.kind = "nil" /\ BoolValue(FALSE).kind = "bool"
      BY DEF NilValue, BoolValue
    <3> QED BY <1>8, <3>1 DEF value_is_falsy
  <2>4. CASE value_is_falsy(a)
    <3>1. v = BoolValue(TRUE)
      BY <2>4 DEF value_is_falsy, BoolValue
    <3>2. MeaningOfUnary(type, Meaning(a), Instruction.pos) = BoolValue(TRUE)
      BY <2>1, <2>3, <2>4 DEF MeaningOfUnary, BoolValue
    <3> HIDE DEF v
    <3>3. MeaningAt(e, E) = v /\ Yield(v) /\ v.kind # "object"
      BY <1>6, <2>1, <2>2, <3>1, <3>2
    <3> QED BY <1>1, <1>2, <1>3, <3>3, YieldScalar
  <2>5. CASE ~value_is_falsy(a)
    <3>1. v = BoolValue(FALSE)
      BY <2>5 DEF value_is_falsy, BoolValue
    <3>2. MeaningOfUnary(type, Meaning(a), Instruction.pos) = BoolValue(FALSE)
      <4>1. ~(Meaning(a) = NilValue \/ Meaning(a) = BoolValue(FALSE))
        BY <2>3, <2>5
      <4> QED BY <2>1, <4>1 DEF MeaningOfUnary, BoolValue
    <3> HIDE DEF v
    <3>3. MeaningAt(e, E) = v /\ Yield(v) /\ v.kind # "object"
      BY <1>6, <2>1, <2>2, <3>1, <3>2
    <3> QED BY <1>1, <1>2, <1>3, <3>3, YieldScalar
  <2> QED BY <2>4, <2>5
<1> QED BY <1>9, <1>10, <1>11
(* Values are equal when their meanings are.                               *)
LEMMA EqualValues ==
  ASSUME InterpreterInv, NEW a \in Values, NEW b \in Values
  PROVE  value_equals(a, b) <=> EqualMeanings(Meaning(a), Meaning(b))
<1>1. /\ a.kind \in {"nil", "bool", "number", "object"}
      /\ b.kind \in {"nil", "bool", "number", "object"}
  BY TextFacts
<1>2. /\ a.kind = "object" => /\ Meaning(a) = StringMeaning(gcObjects[a.object].text)
                              /\ Meaning(a).kind = "string"
      /\ b.kind = "object" => /\ Meaning(b) = StringMeaning(gcObjects[b.object].text)
                              /\ Meaning(b).kind = "string"
      /\ a.kind # "object" => Meaning(a) = a
      /\ b.kind # "object" => Meaning(b) = b
  BY MeaningFacts
<1>3. ASSUME NEW s, NEW t, StringMeaning(s) = StringMeaning(t)
      PROVE  s = t
  <2>1. StringMeaning(s).text = s /\ StringMeaning(t).text = t
    BY DEF StringMeaning
  <2> QED BY <1>3, <2>1
<1>4. CASE a.kind = "object" /\ b.kind = "object"
  <2>1. value_equals(a, b) <=> gcObjects[a.object].text = gcObjects[b.object].text
    BY <1>4 DEF value_equals
  <2>2. EqualMeanings(Meaning(a), Meaning(b)) <=> Meaning(a) = Meaning(b)
    BY <1>2, <1>4 DEF EqualMeanings
  <2> QED BY <1>2, <1>3, <1>4, <2>1, <2>2
<1>5. CASE a.kind # b.kind
  BY <1>1, <1>2, <1>5 DEF value_equals, EqualMeanings
<1>6. CASE a.kind = b.kind /\ a.kind # "object"
  BY <1>2, <1>6 DEF value_equals, EqualMeanings
<1> QED BY <1>4, <1>5, <1>6

LEMMA EqualityMeans ==
  ASSUME InterpreterInv, MeaningInv, Frozen, ExecuteEquality
  PROVE  MeaningInv'
<1> DEFINE a == Operand(1)
           b == Operand(2)
           op == Instruction.op
           v == BoolValue(value_equals(a, b) <=> op = "EQUAL")
<1>1. /\ vmStatus = "executing" /\ op \in EqualityOps /\ Yield(v)
      /\ UNCHANGED <<gcObjects, heap>>
  BY DEF ExecuteEquality, Executing
<1>2. Pops(op) = 2 /\ Pushes(op) = 1 /\ op # "RETURN" /\ op \in BinaryOps
  BY <1>1, OpFacts DEF EqualityOps, BinaryOps
<1>3. PICK e, E : Executes(e, E)
  BY <1>1, <1>2, Executed
<1>4. MeaningAt(e, E) = MeaningOfBinary(op, Meaning(a), Meaning(b), Instruction.pos)
  BY <1>1, <1>2, <1>3, MeaningIs DEF MeaningInv
<1>5. a \in Values /\ b \in Values
  BY <1>1, <1>2, Operands
<1> HIDE DEF a, b
<1> DEFINE equal == EqualMeanings(Meaning(a), Meaning(b))
<1>6. value_equals(a, b) <=> equal
  BY <1>5, EqualValues
<1>7. /\ equal \in BOOLEAN /\ value_equals(a, b) \in BOOLEAN
      /\ op = "EQUAL" => MeaningAt(e, E) = BoolValue(equal)
      /\ op = "NOT_EQUAL" => MeaningAt(e, E) = BoolValue(~equal)
  <2>1. equal \in BOOLEAN /\ value_equals(a, b) \in BOOLEAN
    BY Zenon DEF EqualMeanings, value_equals
  <2> HIDE DEF op
  <2>2. op = "EQUAL" => MeaningAt(e, E) = BoolValue(equal)
    BY <1>4 DEF MeaningOfBinary, ComparisonOps
  <2>3. op = "NOT_EQUAL" => MeaningAt(e, E) = BoolValue(~equal)
    BY <1>4 DEF MeaningOfBinary, ComparisonOps
  <2> QED BY <2>1, <2>2, <2>3
<1> HIDE DEF equal
<1>8. MeaningAt(e, E) = v
  <2>1. CASE op = "EQUAL"
    <3>1. (value_equals(a, b) <=> op = "EQUAL") = equal
      BY <1>6, <1>7, <2>1, Zenon
    <3> QED BY <1>7, <2>1, <3>1
  <2>2. CASE op = "NOT_EQUAL"
    <3>1. (value_equals(a, b) <=> op = "EQUAL") = ~equal
      BY <1>6, <1>7, <2>2, Zenon
    <3> QED BY <1>7, <2>2, <3>1
  <2> QED BY <1>1, <2>1, <2>2 DEF EqualityOps
<1>9. v.kind # "object"
  BY DEF BoolValue
<1> HIDE DEF v
<1> QED BY <1>1, <1>2, <1>3, <1>8, <1>9, YieldScalar

LEMMA NumericMeans ==
  ASSUME InterpreterInv, MeaningInv, Frozen, ExecuteArithmetic \/ ExecuteComparison
  PROVE  MeaningInv'
<1> DEFINE a == Operand(1)
           b == Operand(2)
           op == Instruction.op
<1>1. /\ vmStatus = "executing" /\ op \in ArithmeticOps \cup ComparisonOps
      /\ UNCHANGED <<gcObjects, heap>>
  BY DEF ExecuteArithmetic, ExecuteComparison, Executing
<1>2. Pops(op) = 2 /\ Pushes(op) = 1 /\ op # "RETURN" /\ op \in BinaryOps
  BY <1>1, OpFacts DEF ArithmeticOps, ComparisonOps, BinaryOps
<1>3. PICK e, E : Executes(e, E)
  BY <1>1, <1>2, Executed
<1>4. MeaningAt(e, E) = MeaningOfBinary(op, Meaning(a), Meaning(b), Instruction.pos)
  BY <1>1, <1>2, <1>3, MeaningIs DEF MeaningInv
<1>5. a \in Values /\ b \in Values
  BY <1>1, <1>2, Operands
<1>6. \/ /\ value_is_number(a) /\ value_is_number(b)
         /\ op \in {"DIVIDE", "MODULO"} => ~NumberEquals(b.number, Zero)
         /\ op \in ArithmeticOps
         /\ Yield(NumberValue(Arithmetic(op, a.number, b.number)))
      \/ /\ op \in ArithmeticOps /\ vm_error_at
         /\ ~ /\ value_is_number(a) /\ value_is_number(b)
              /\ op \in {"DIVIDE", "MODULO"} => ~NumberEquals(b.number, Zero)
      \/ /\ op \in ComparisonOps /\ value_is_number(a) /\ value_is_number(b)
         /\ Yield(BoolValue(Compare(op, a.number, b.number)))
      \/ op \in ComparisonOps /\ ~(value_is_number(a) /\ value_is_number(b)) /\ vm_error_at
  BY Zenon DEF ExecuteArithmetic, ExecuteComparison, Executing
<1> HIDE DEF a, b
<1>7. /\ value_is_number(a) /\ value_is_number(b) <=> AreNumbers(Meaning(a), Meaning(b))
      /\ value_is_number(a) => Meaning(a) = a
      /\ value_is_number(b) => Meaning(b) = b
  <2>1. /\ a.kind # "object" => Meaning(a) = a
        /\ b.kind # "object" => Meaning(b) = b
        /\ a.kind = "object" => Meaning(a).kind = "string"
        /\ b.kind = "object" => Meaning(b).kind = "string"
    BY <1>5, MeaningFacts
  <2> QED BY <2>1 DEF AreNumbers, value_is_number
<1> HIDE DEF op
<1>8. CASE /\ value_is_number(a) /\ value_is_number(b)
           /\ op \in {"DIVIDE", "MODULO"} => ~NumberEquals(b.number, Zero)
           /\ op \in ArithmeticOps
           /\ Yield(NumberValue(Arithmetic(op, a.number, b.number)))
  <2> DEFINE v == NumberValue(Arithmetic(op, a.number, b.number))
  <2>1. Meaning(a) = a /\ Meaning(b) = b /\ AreNumbers(a, b)
    BY <1>7, <1>8
  <2>2. MeaningOfBinary(op, a, b, Instruction.pos) = v
    <3>1. op \notin ComparisonOps /\ op \notin {"EQUAL", "NOT_EQUAL"}
      BY <1>8 DEF ComparisonOps, ArithmeticOps
    <3>2. CASE op \in {"ADD", "SUBTRACT", "MULTIPLY"}
      BY <2>1, <3>1, <3>2 DEF MeaningOfBinary
    <3>3. CASE op \in {"DIVIDE", "MODULO"}
      BY <1>8, <2>1, <3>1, <3>3 DEF MeaningOfBinary
    <3> QED BY <1>8, <3>2, <3>3 DEF ArithmeticOps
  <2>3. v.kind # "object"
    BY DEF NumberValue
  <2>4. Yield(v)
    BY <1>8
  <2>5. MeaningAt(e, E) = v
    BY <1>4, <2>1, <2>2
  <2> HIDE DEF v
  <2> QED BY <1>1, <1>2, <1>3, <2>3, <2>4, <2>5, YieldScalar DEF op
<1>9. CASE /\ op \in ArithmeticOps /\ vm_error_at
           /\ ~ /\ value_is_number(a) /\ value_is_number(b)
                /\ op \in {"DIVIDE", "MODULO"} => ~NumberEquals(b.number, Zero)
  <2>1. /\ op \notin ComparisonOps /\ op \notin {"EQUAL", "NOT_EQUAL", "CONCATENATE"}
        /\ op \in {"ADD", "SUBTRACT", "MULTIPLY", "DIVIDE", "MODULO"}
    BY <1>9 DEF ComparisonOps, ArithmeticOps
  <2>2. MeaningOfBinary(op, Meaning(a), Meaning(b), Instruction.pos) = Failure(Instruction.pos)
    <3>1. CASE ~AreNumbers(Meaning(a), Meaning(b))
      BY <2>1, <3>1 DEF MeaningOfBinary
    <3>2. CASE AreNumbers(Meaning(a), Meaning(b))
      <4>1. /\ op \in {"DIVIDE", "MODULO"} /\ NumberEquals(b.number, Zero)
            /\ Meaning(b) = b
        BY <1>7, <1>9, <3>2
      <4> QED BY <2>1, <4>1 DEF MeaningOfBinary
    <3> QED BY <3>1, <3>2
  <2>3. MeaningAt(e, E) = Failure(Instruction.pos)
    BY <1>4, <2>2
  <2> QED BY <1>1, <1>3, <1>9, <2>3, ErrorMeans
<1>10. CASE /\ op \in ComparisonOps /\ value_is_number(a) /\ value_is_number(b)
            /\ Yield(BoolValue(Compare(op, a.number, b.number)))
  <2> DEFINE v == BoolValue(Compare(op, a.number, b.number))
  <2>1. Meaning(a) = a /\ Meaning(b) = b /\ AreNumbers(a, b)
    BY <1>7, <1>10
  <2>2. MeaningOfBinary(op, a, b, Instruction.pos) = v
    <3>1. op \notin {"EQUAL", "NOT_EQUAL", "CONCATENATE", "ADD", "SUBTRACT", "MULTIPLY",
                     "DIVIDE", "MODULO"}
      BY <1>10 DEF ComparisonOps
    <3> QED BY <1>10, <2>1, <3>1 DEF MeaningOfBinary
  <2>3. v.kind # "object"
    BY DEF BoolValue
  <2>4. Yield(v)
    BY <1>10
  <2>5. MeaningAt(e, E) = v
    BY <1>4, <2>1, <2>2
  <2> HIDE DEF v
  <2> QED BY <1>1, <1>2, <1>3, <2>3, <2>4, <2>5, YieldScalar DEF op
<1>11. CASE /\ op \in ComparisonOps /\ ~(value_is_number(a) /\ value_is_number(b))
            /\ vm_error_at
  <2>1. op \notin {"EQUAL", "NOT_EQUAL", "CONCATENATE"}
    BY <1>11 DEF ComparisonOps
  <2>2. ~AreNumbers(Meaning(a), Meaning(b))
    BY <1>7, <1>11
  <2>3. MeaningOfBinary(op, Meaning(a), Meaning(b), Instruction.pos) = Failure(Instruction.pos)
    BY <2>1, <2>2 DEF MeaningOfBinary
  <2>4. MeaningAt(e, E) = Failure(Instruction.pos)
    BY <1>4, <2>3
  <2> QED BY <1>1, <1>3, <1>11, <2>4, ErrorMeans
<1> QED BY <1>6, <1>8, <1>9, <1>10, <1>11
LEMMA ConcatenateMeans ==
  ASSUME InterpreterInv, MeaningInv, Frozen, ExecuteConcatenate
  PROVE  MeaningInv'
<1> DEFINE a == Operand(1)
           b == Operand(2)
           text == TextOf(a) \o TextOf(b)
<1>1. /\ vmStatus = "executing" /\ Instruction.op = "CONCATENATE"
      /\ Pops(Instruction.op) = 2 /\ Pushes(Instruction.op) = 1
      /\ Instruction.op # "RETURN"
      /\ a \in Values /\ b \in Values /\ Concatenates(a, b)
  BY Concatenated
<1>2. PICK e, E : Executes(e, E)
  BY <1>1, Executed
<1>3. MeaningAt(e, E) = MeaningOfBinary("CONCATENATE", Meaning(a), Meaning(b), Instruction.pos)
  <2>1. Instruction.op \in BinaryOps
    BY <1>1 DEF BinaryOps
  <2> QED BY <1>1, <1>2, <2>1, MeaningIs DEF MeaningInv
<1> HIDE DEF a, b
<1>4. /\ TextOfMeaning(Meaning(a)) = TextOf(a) /\ TextOfMeaning(Meaning(b)) = TextOf(b)
      /\ value_is_string(a) <=> Meaning(a).kind = "string"
      /\ value_is_string(b) <=> Meaning(b).kind = "string"
  <2>1. /\ a.kind \in {"nil", "bool", "number", "object"}
        /\ b.kind \in {"nil", "bool", "number", "object"}
    BY <1>1, TextFacts
  <2>2. /\ a.kind # "object" => Meaning(a) = a
        /\ b.kind # "object" => Meaning(b) = b
        /\ a.kind = "object" => Meaning(a).kind = "string"
        /\ b.kind = "object" => Meaning(b).kind = "string"
        /\ TextOfMeaning(Meaning(a)) = TextOf(a) /\ TextOfMeaning(Meaning(b)) = TextOf(b)
    BY <1>1, MeaningFacts
  <2> QED BY <2>1, <2>2 DEF value_is_string
<1>5. /\ value_is_string(a) \/ value_is_string(b) => MeaningAt(e, E) = StringMeaning(text)
      /\ ~value_is_string(a) /\ ~value_is_string(b) =>
           MeaningAt(e, E) = Failure(Instruction.pos)
  <2>1. value_is_string(a) \/ value_is_string(b) <=>
          "string" \in {Meaning(a).kind, Meaning(b).kind}
    BY <1>4
  <2>2. MeaningOfBinary("CONCATENATE", Meaning(a), Meaning(b), Instruction.pos)
          = IF "string" \in {Meaning(a).kind, Meaning(b).kind}
            THEN StringMeaning(TextOfMeaning(Meaning(a)) \o TextOfMeaning(Meaning(b)))
            ELSE Failure(Instruction.pos)
    BY DEF MeaningOfBinary, ComparisonOps
  <2> QED BY <1>3, <1>4, <2>1, <2>2
<1> HIDE DEF text
<1>6. CASE /\ ~value_is_string(a) /\ ~value_is_string(b)
           /\ vm_error_at /\ UNCHANGED <<gcObjects, heap>>
  BY <1>1, <1>2, <1>5, <1>6, ErrorMeans
<1>7. CASE /\ value_is_string(a) \/ value_is_string(b)
           /\ text = <<>> /\ vmStatus' = "aborted"
           /\ UNCHANGED <<output, results, gcObjects>>
  <2>1. MeaningAt(e, E) = StringMeaning(<<>>)
    BY <1>5, <1>7
  <2> QED BY <1>1, <1>2, <1>7, <2>1, Stops
<1>8. CASE /\ value_is_string(a) \/ value_is_string(b)
           /\ ObjectsGrow /\ gcObjects'[Len(gcObjects')].text = text
           /\ Yield(ObjectValue(Len(gcObjects')))
  <2> DEFINE v == ObjectValue(Len(gcObjects'))
  <2>1. value_is_string(v) /\ v.object = Len(gcObjects')
    BY DEF ObjectValue, value_is_string
  <2>2. Yield(v)
    BY <1>8
  <2> HIDE DEF v
  <2>3. MeaningNext(v) = MeaningAt(e, E)
    BY <1>5, <1>8, <2>1 DEF MeaningNext
  <2> QED BY <1>1, <1>2, <1>8, <2>2, <2>3, YieldMeans
<1> QED BY <1>1, <1>6, <1>7, <1>8 DEF Concatenates, text

(* So every step of vm_execute keeps it.                                   *)
LEMMA ExecuteMeans ==
  ASSUME InterpreterInv, MeaningInv, Execute
  PROVE  MeaningInv'
<1>1. VmStep /\ UNCHANGED <<source, sourceId, parser, frames, status, chunk, phase, result>>
  BY DEF Execute, VmStep
<1>2. UNCHANGED base
  BY <1>1 DEF VmStep, ExecuteReturn, ExecutePop, ExecuteConstant, ExecuteInvariable,
     ExecuteNegate, ExecuteNot, ExecuteArithmetic, ExecuteComparison, ExecuteEquality,
     ExecuteConcatenate, Yield, vm_error_at
<1>3. Frozen
  BY <1>1, <1>2 DEF Frozen
<1> QED BY <1>1, <1>3, ReturnMeans, PopMeans, LoadMeans, UnaryMeans, NumericMeans,
           EqualityMeans, ConcatenateMeans DEF VmStep
-----------------------------------------------------------------------------
(* The other steps.                                                        *)
LEMMA Quiet ==
  ASSUME phase' \in {"ready", "destroyed"}, vmStatus' \in {"idle", "destroyed"}
  PROVE  MeaningInv'
BY DEF MeaningInv

LEMMA CallMeans ==
  ASSUME InterpreterInv, InterpretCall
  PROVE  MeaningInv'
<1>1. /\ CompilerInv /\ CompilerStart /\ phase' = "compiling"
      /\ vmStatus' = "idle"
  BY DEF InterpretCall, InterpreterInv, PhaseOK, vmVars
<1>2. LanguageInv' /\ EvaluationInv' /\ OperandsInv'
  BY <1>1, Started, StartedEvaluation, StartedOperands
<1> QED BY <1>1, <1>2 DEF MeaningInv

LEMMA CompileMeans ==
  ASSUME InterpreterInv, MeaningInv, Compile
  PROVE  MeaningInv'
<1>1. /\ phase = "compiling" /\ CompilerStep /\ phase' = "compiling" /\ vmStatus' = "idle"
  BY DEF Compile, InterpreterInv, PhaseOK, vmVars
<1>2. LanguageInv /\ EvaluationInv /\ OperandsInv
  BY <1>1 DEF MeaningInv
<1>3. LanguageInv' /\ EvaluationInv' /\ OperandsInv'
  BY <1>1, <1>2, StepLanguage, StepEvaluation, StepOperands
<1> QED BY <1>1, <1>3 DEF MeaningInv

LEMMA StartMeans ==
  ASSUME InterpreterInv, MeaningInv, phase = "compiling", status = "success", VmStart,
         phase' = "executing", UNCHANGED <<compilerVars, heap, result>>
  PROVE  MeaningInv'
<1>1. /\ CompilerInv /\ ObjectsGrow
      /\ UNCHANGED <<source, sourceId, parser, frames, status, chunk, gcObjects>>
  BY DEF InterpreterInv, CompilerInv, TypeOK, ObjectsGrow, compilerVars
<1>2. LanguageInv /\ EvaluationInv
  BY DEF MeaningInv
<1>3. source # <<>>
  BY <1>2, AtTheEnd DEF Finished
<1>4. ConstantsInOrder /\ EvaluatesInOrder
  BY <1>2, ConstantsAtTheEnd DEF EvaluationInv
<1>5. ConstantsInOrder' /\ EvaluatesInOrder'
  BY <1>1, <1>4, CompiledKept
<1>6. PICK E : E = Evaluations(source)
  OBVIOUS
<1>7. Ordered(chunk.code, source, E)
  BY <1>1, <1>3, <1>4, <1>6, ChunkOrdered
<1>8. /\ ip' = 1 /\ vmStatus' = "executing" /\ errorPos' = 0
      /\ results' = <<>> /\ output' = <<>>
  BY DEF VmStart
<1>9. Evaluated(E)'
  <2>1. IsFiniteSet(E) /\ E \subseteq Positions
    BY <1>7 DEF Ordered
  <2>2. Cardinality(E) \in Nat /\ \A e \in E : Rank(e, E) \in 1..Cardinality(E)
    BY <2>1, RankOrders, FS_CardinalityType
  <2>3. Len(results') = 0 /\ Len(output') = 0 /\ output' \in Seq(Texts)
    BY <1>8
  <2>4. Done(E)' = {}
    BY <2>2, <2>3 DEF Done
  <2>5. Printed(E)' = {} /\ Cardinality({}) = 0
    BY <2>4, FS_EmptySet DEF Printed
  <2> QED BY <2>2, <2>3, <2>4, <2>5 DEF Evaluated
<1>10. Evaluations(source') = E /\ source' # <<>>
  BY <1>1, <1>3, <1>6
<1>11. Evaluated(Evaluations(source))'
  BY <1>9, <1>10
<1>12. ResultsOnStack' /\ Len(results') = ip' - 1
  BY <1>8 DEF ResultsOnStack
<1> QED BY <1>5, <1>8, <1>10, <1>11, <1>12 DEF MeaningInv

LEMMA ReturnsMean ==
  ASSUME InterpreterInv, MeaningInv, CompilerReturns \/ VmReturns
  PROVE  MeaningInv'
<1>1. CASE CompilerReturns
  <2>1. phase = "compiling" /\ vmStatus = "idle"
    BY <1>1 DEF CompilerReturns, InterpreterInv, PhaseOK
  <2>2. \/ /\ status = "success" /\ VmStart /\ phase' = "executing"
           /\ UNCHANGED <<compilerVars, heap, result>>
        \/ phase' = "ready" /\ vmStatus' = "idle"
    BY <1>1, <2>1 DEF CompilerReturns, Return, vmVars
  <2> QED BY <2>1, <2>2, StartMeans, Quiet
<1>2. CASE VmReturns
  <2>1. phase' = "ready" /\ vmStatus' = "idle"
    BY <1>2 DEF VmReturns, Return
  <2> QED BY <2>1, Quiet
<1> QED BY <1>1, <1>2

LEMMA StutterMeans ==
  ASSUME InterpreterInv, MeaningInv, UNCHANGED interpreterVars
  PROVE  MeaningInv'
<1>1. /\ UNCHANGED <<source, sourceId, parser, frames, status, chunk, gcObjects>>
      /\ UNCHANGED <<stack, ip, vmStatus, base, output, errorPos, results, heap, phase, result>>
  BY DEF interpreterVars, compilerVars, vmVars
<1>2. phase = "compiling" => LanguageInv' /\ EvaluationInv' /\ OperandsInv'
  BY <1>1, LanguageKept, EvaluationKept, OperandsKept DEF MeaningInv
<1>3. CompilerInv /\ ObjectsGrow
  BY <1>1 DEF InterpreterInv, CompilerInv, TypeOK, ObjectsGrow
<1>4. phase = "executing" => ConstantsInOrder' /\ EvaluatesInOrder'
  BY <1>1, <1>3, CompiledKept DEF MeaningInv
<1>5. PICK E : E = Evaluations(source)
  OBVIOUS
<1>6. \A d : ResultOf(d, E)' = ResultOf(d, E) /\ MeaningAt(d, E)' = MeaningAt(d, E)
  BY <1>1 DEF MeaningAt, ResultOf, Meaning, value_is_string
<1>7. Done(E)' = Done(E) /\ Printed(E)' = Printed(E) /\ Evaluations(source') = E
  BY <1>1, <1>5 DEF Done, Printed, Prints
<1>8. phase = "executing" => Evaluated(Evaluations(source))'
  <2>1. Evaluated(E) => Evaluated(E)'
    BY <1>1, <1>6, <1>7 DEF Evaluated
  <2> QED BY <1>5, <1>7, <2>1 DEF MeaningInv
<1>9. ResultsOnStack' <=> ResultsOnStack
  BY <1>1 DEF ResultsOnStack
<1>10. \A m : Stopped(E, m)' <=> Stopped(E, m)
  BY <1>1, <1>6 DEF Stopped
<1>11. CASE vmStatus = "executing"
  BY <1>1, <1>2, <1>4, <1>8, <1>9, <1>11 DEF MeaningInv
<1>12. CASE vmStatus = "success"
  <2>1. Done(Evaluations(source))' = Evaluations(source')
    BY <1>5, <1>7, <1>12 DEF MeaningInv
  <2> QED BY <1>1, <1>2, <1>4, <1>8, <1>12, <2>1 DEF MeaningInv
<1>13. CASE vmStatus = "failure"
  <2>1. Stopped(E, Failure(errorPos))'
    BY <1>1, <1>5, <1>6, <1>13 DEF MeaningInv, Stopped, Failure
  <2>2. Stopped(Evaluations(source), Failure(errorPos))'
    BY <1>7, <2>1
  <2> QED BY <1>1, <1>2, <1>4, <1>8, <1>13, <2>2 DEF MeaningInv
<1>14. CASE vmStatus = "aborted"
  <2>1. Stopped(E, StringMeaning(<<>>))'
    BY <1>1, <1>5, <1>6, <1>14 DEF MeaningInv, Stopped, StringMeaning
  <2>2. Stopped(Evaluations(source), StringMeaning(<<>>))'
    BY <1>7, <2>1
  <2> QED BY <1>1, <1>2, <1>4, <1>8, <1>14, <2>2 DEF MeaningInv
<1>15. CASE vmStatus \in {"idle", "destroyed"}
  BY <1>1, <1>2, <1>4, <1>8, <1>15 DEF MeaningInv
<1> QED BY <1>11, <1>12, <1>13, <1>14, <1>15 DEF InterpreterInv, InterpreterTypeOK

LEMMA MeaningInit1 == InterpreterInit => MeaningInv
BY DEF InterpreterInit, VmInit, MeaningInv

LEMMA NextMeaning ==
  InterpreterInv /\ MeaningInv /\ [InterpreterNext]_interpreterVars => MeaningInv'
<1> SUFFICES ASSUME InterpreterInv, MeaningInv, [InterpreterNext]_interpreterVars
             PROVE  MeaningInv'
  OBVIOUS
<1>1. CASE Destroy
  BY <1>1, Quiet DEF Destroy, VmDestroy
<1> QED BY <1>1, CallMeans, CompileMeans, ReturnsMean, ExecuteMeans, StutterMeans
           DEF InterpreterNext

(* For every source and every number of calls: each evaluation that the    *)
(* source calls for is made in its order, of the meanings of its operands; *)
(* what PRINT prints are the meanings that the source prints, in order; and*)
(* the machine gets to the end, or stops at the first operation that has no*)
(* meaning, reporting the token where its last operand ends (vm_execute).  *)
THEOREM InterpreterComputesMeanings == InterpreterSpec => []ComputesMeanings
<1>1. ASSUME InterpreterInv, MeaningInv
      PROVE  ComputesMeanings
  <2> SUFFICES ASSUME vmStatus \in {"success", "failure", "aborted"}
               PROVE  ComputesMeanings
    BY DEF ComputesMeanings
  <2>1. Evaluated(Evaluations(source))
    BY <1>1 DEF InterpreterInv, PhaseOK, MeaningInv
  <2>2. CASE vmStatus = "success"
    BY <1>1, <2>1, <2>2 DEF ComputesMeanings, MeaningInv, Evaluated, Printed
  <2>3. CASE vmStatus = "failure"
    BY <1>1, <2>1, <2>3 DEF ComputesMeanings, MeaningInv, Evaluated, Printed
  <2>4. CASE vmStatus = "aborted"
    BY <1>1, <2>1, <2>4 DEF ComputesMeanings, MeaningInv, Evaluated, Printed
  <2> QED BY <2>2, <2>3, <2>4
<1> QED BY <1>1, InterpreterInvariance, MeaningInit1, NextMeaning, PTL DEF InterpreterSpec
=============================================================================
