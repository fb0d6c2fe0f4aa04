--------------------------------- MODULE VM ---------------------------------
(***************************************************************************)
(* The virtual machine of src/backend/vm.c, one action per group of        *)
(* opcodes that vm_execute treats alike, over the values of                *)
(* src/backend/value.c and the objects of module Objects.                  *)
(*                                                                         *)
(* Numbers are opaque: what the code asks of doubles (IEEE arithmetic, the *)
(* C comparisons, "%g") are constants.  NumberEquals is C's ==, which is   *)
(* not identity: NaN differs from itself and the two zeros are equal.      *)
(*                                                                         *)
(* The stack outlives vm_execute.  `base' is auxiliary: its height when the*)
(* running chunk started.  An instruction that finds fewer operands on the *)
(* whole stack than it reads fails an assertion: it has no action.         *)
(***************************************************************************)
EXTENDS InstructionList, Objects

CONSTANTS Zero,                     \* 0.0
          NumberEquals(_, _),       \* a == b
          NumberLess(_, _),         \* a < b
          Negated(_),               \* -a
          Arithmetic(_, _, _),      \* a op b, fmod for "MODULO"
          NumberText(_)             \* "%g"

ArithmeticOps == {"ADD", "SUBTRACT", "MULTIPLY", "DIVIDE", "MODULO"}

ASSUME NumbersAssumption ==
  /\ Zero \in Number
  /\ \A a \in Number : Negated(a) \in Number /\ NumberText(a) \in Texts
  /\ \A a, b \in Number : /\ NumberEquals(a, b) \in BOOLEAN
                          /\ NumberLess(a, b) \in BOOLEAN
                          /\ \A op \in ArithmeticOps : Arithmetic(op, a, b) \in Number
ASSUME AtomsAssumption == {"nil", "true", "false"} \subseteq Atoms

VARIABLES stack, ip, vmStatus, base,
          output,       \* auxiliary: the texts printed by the running chunk
          errorPos,     \* auxiliary: where vm_error_at said the error is
          results       \* auxiliary: the values its instructions made or discarded

vmVars == <<stack, ip, vmStatus, base, output, errorPos, results>>

-----------------------------------------------------------------------------
(* Values.                                                                 *)

ComparisonOps == {"LESS", "LESS_EQUAL", "GREATER", "GREATER_EQUAL"}
EqualityOps == {"EQUAL", "NOT_EQUAL"}

value_is_number(v) == v.kind = "number"
value_is_string(v) == v.kind = "object"
value_is_falsy(v) == v = NilValue \/ v = BoolValue(FALSE)

(* Mutation: strings are equal when they are the same object.              *)
ValueEqualsByObject(a, b) ==
  /\ a.kind = b.kind
  /\ IF a.kind = "number" THEN NumberEquals(a.number, b.number) ELSE a = b

(* value_equals and object_equals: strings are equal by content.           *)
value_equals(a, b) ==
  /\ a.kind = b.kind
  /\ CASE a.kind = "number" -> NumberEquals(a.number, b.number)
       [] a.kind = "object" -> gcObjects[a.object].text = gcObjects[b.object].text
       [] OTHER -> a = b

Compare(op, a, b) ==
  CASE op = "LESS" -> NumberLess(a, b)
    [] op = "LESS_EQUAL" -> NumberLess(a, b) \/ NumberEquals(a, b)
    [] op = "GREATER" -> NumberLess(b, a)
    [] OTHER -> NumberLess(b, a) \/ NumberEquals(a, b)

(* The text that value_print prints and value_to_string_object makes.      *)
TextOf(v) == CASE v.kind = "nil" -> <<"nil">>
               [] v.kind = "bool" -> IF v.boolean THEN <<"true">> ELSE <<"false">>
               [] v.kind = "number" -> NumberText(v.number)
               [] OTHER -> gcObjects[v.object].text

-----------------------------------------------------------------------------
VmInit ==
  /\ stack = <<>>
  /\ ip = 0
  /\ vmStatus = "idle"
  /\ base = 0
  /\ output = <<>>
  /\ errorPos = 0
  /\ results = <<>>

(* vm_execute up to its loop.                                              *)
VmStart ==
  /\ ip' = 1
  /\ vmStatus' = "executing"
  /\ base' = Len(stack)
  /\ output' = <<>>
  /\ errorPos' = 0
  /\ results' = <<>>
  /\ UNCHANGED stack

Instruction == chunk.code[ip]
Executing(ops) ==
  /\ vmStatus = "executing"
  /\ Instruction.op \in ops
  /\ Len(stack) >= Pops(Instruction.op)

Operand(k) == stack[Len(stack) - Pops(Instruction.op) + k]
Below(n) == SubSeq(stack, 1, Len(stack) - n)

(* The operands make place for one value.                                  *)
Yield(value) ==
  /\ stack' = Append(Below(Pops(Instruction.op)), value)
  /\ results' = Append(results, value)
  /\ ip' = ip + 1
  /\ UNCHANGED <<vmStatus, base, output, errorPos>>

(* vm_error_at: a binary operator has popped its second operand, and that  *)
(* is all: nothing unwinds the stack.                                      *)
vm_error_at ==
  /\ stack' = Below(Pops(Instruction.op) - 1)
  /\ vmStatus' = "failure"
  /\ errorPos' = Instruction.pos
  /\ ip' = ip + 1
  /\ UNCHANGED <<base, output, results>>

-----------------------------------------------------------------------------
ExecuteReturn ==
  /\ Executing({"RETURN"})
  /\ vmStatus' = "success"
  /\ ip' = ip + 1
  /\ UNCHANGED <<stack, base, output, errorPos, results, gcObjects, heap>>

(* Mutation: PRINT leaves the value it printed.                            *)
ExecutePrintPeeks ==
  /\ Executing(DiscardOps)
  /\ output' = IF Instruction.op = "PRINT" THEN Append(output, TextOf(Operand(1)))
                                           ELSE output
  /\ stack' = IF Instruction.op = "PRINT" THEN stack ELSE Below(1)
  /\ results' = Append(results, Operand(1))
  /\ ip' = ip + 1
  /\ UNCHANGED <<vmStatus, base, errorPos, gcObjects, heap>>
(* Mutation: a discarded value is popped twice.                            *)
ExecutePopTwice ==
  /\ Executing(DiscardOps)
  /\ output' = IF Instruction.op = "PRINT" THEN Append(output, TextOf(Operand(1)))
                                           ELSE output
  /\ stack' = Below(2)
  /\ results' = Append(results, Operand(1))
  /\ ip' = ip + 1
  /\ UNCHANGED <<vmStatus, base, errorPos, gcObjects, heap>>

ExecutePop ==
  /\ Executing(DiscardOps)
  /\ output' = IF Instruction.op = "PRINT" THEN Append(output, TextOf(Operand(1)))
                                           ELSE output
  /\ stack' = Below(1)
  /\ results' = Append(results, Operand(1))
  /\ ip' = ip + 1
  /\ UNCHANGED <<vmStatus, base, errorPos, gcObjects, heap>>

ExecuteConstant ==
  /\ Executing(ConstantOps)
  /\ Yield(chunk.constants[Instruction.arg + 1])
  /\ UNCHANGED <<gcObjects, heap>>

InvariableValue(op) == CASE op = "NIL" -> NilValue
                         [] op = "TRUE" -> BoolValue(TRUE)
                         [] OTHER -> BoolValue(FALSE)
ExecuteInvariable ==
  /\ Executing(InvariableOps)
  /\ Yield(InvariableValue(Instruction.op))
  /\ UNCHANGED <<gcObjects, heap>>

ExecuteNegate ==
  /\ Executing({"NEGATE"})
  /\ IF value_is_number(Operand(1))
     THEN Yield(NumberValue(Negated(Operand(1).number)))
     ELSE vm_error_at
  /\ UNCHANGED <<gcObjects, heap>>

ExecuteNot ==
  /\ Executing({"NOT"})
  /\ Yield(BoolValue(value_is_falsy(Operand(1))))
  /\ UNCHANGED <<gcObjects, heap>>

(* Mutation: only MODULO refuses a zero divisor.                           *)
ExecuteArithmeticDividingByZero ==
  /\ Executing(ArithmeticOps)
  /\ IF /\ value_is_number(Operand(1)) /\ value_is_number(Operand(2))
        /\ Instruction.op = "MODULO" => ~NumberEquals(Operand(2).number, Zero)
     THEN Yield(NumberValue(Arithmetic(Instruction.op, Operand(1).number,
                                       Operand(2).number)))
     ELSE vm_error_at
  /\ UNCHANGED <<gcObjects, heap>>

ExecuteArithmetic ==
  /\ Executing(ArithmeticOps)
  /\ IF /\ value_is_number(Operand(1)) /\ value_is_number(Operand(2))
        /\ Instruction.op \in {"DIVIDE", "MODULO"} =>
             ~NumberEquals(Operand(2).number, Zero)
     THEN Yield(NumberValue(Arithmetic(Instruction.op, Operand(1).number,
                                       Operand(2).number)))
     ELSE vm_error_at
  /\ UNCHANGED <<gcObjects, heap>>

ExecuteComparison ==
  /\ Executing(ComparisonOps)
  /\ IF value_is_number(Operand(1)) /\ value_is_number(Operand(2))
     THEN Yield(BoolValue(Compare(Instruction.op, Operand(1).number,
                                  Operand(2).number)))
     ELSE vm_error_at
  /\ UNCHANGED <<gcObjects, heap>>

ExecuteEquality ==
  /\ Executing(EqualityOps)
  /\ Yield(BoolValue(value_equals(Operand(1), Operand(2))
                       <=> Instruction.op = "EQUAL"))
  /\ UNCHANGED <<gcObjects, heap>>

(* value_to_string_object: a string is its own object, the others get one, *)
(* a number's text in a block of its own.                                  *)
value_to_string_object(v, objects) ==
  IF value_is_string(v) THEN objects
  ELSE NonOwningString(objects, TextOf(v), 0)

(* Concatenating two empty strings asks gc_allocate for no byte and gets   *)
(* NULL.  memcpy and then assert(content != NULL) are handed it: the       *)
(* process aborts, unless the compiler, entitled to assume that what memcpy*)
(* got is not NULL, has dropped the assertion.                             *)
ExecuteConcatenate ==
  /\ Executing({"CONCATENATE"})
  /\ LET first == Operand(1)
         second == Operand(2)
         firstMade == value_to_string_object(first, gcObjects)
         made == value_to_string_object(second, firstMade)
         text == TextOf(first) \o TextOf(second)
         objects == NonOwningString(made, text, 0)
         numberBlocks ==
           (IF value_is_number(first) THEN {Len(firstMade)} ELSE {})
             \cup (IF value_is_number(second) THEN {Len(made)} ELSE {})
     IN  CASE ~value_is_string(first) /\ ~value_is_string(second) ->
                vm_error_at /\ UNCHANGED <<gcObjects, heap>>
           [] text = <<>> /\ (value_is_string(first) \/ value_is_string(second)) ->
                \/ /\ vmStatus' = "aborted"
                   /\ stack' = Below(1)
                   /\ UNCHANGED <<ip, base, output, errorPos, results, gcObjects, heap>>
                \/ /\ gcObjects' = objects
                   /\ Yield(ObjectValue(Len(objects)))
                   /\ UNCHANGED heap
           [] OTHER ->
                /\ gcObjects' = objects
                /\ heap' = heap \cup numberBlocks \cup {Len(objects)}
                /\ Yield(ObjectValue(Len(objects)))

VmStep ==
  /\ \/ ExecuteReturn \/ ExecutePop \/ ExecuteConstant \/ ExecuteInvariable
     \/ ExecuteNegate \/ ExecuteNot \/ ExecuteArithmetic \/ ExecuteComparison
     \/ ExecuteEquality \/ ExecuteConcatenate
  /\ UNCHANGED chunk

(* Mutation: the stack outlives the objects it refers to.                  *)
VmDestroyKeepingStack ==
  /\ gcObjects' = <<>>
  /\ heap' = heap \ BlocksFreedWithObjects
  /\ vmStatus' = "destroyed"
  /\ UNCHANGED <<stack, ip, base, output, errorPos, results>>

(* vm_destroy.                                                             *)
VmDestroy ==
  /\ stack' = <<>>
  /\ gcObjects' = <<>>
  /\ heap' = heap \ BlocksFreedWithObjects
  /\ vmStatus' = "destroyed"
  /\ UNCHANGED <<ip, base, output, errorPos, results>>
=============================================================================
