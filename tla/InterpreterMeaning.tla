------------------------- MODULE InterpreterMeaning --------------------------
(***************************************************************************)
(* What the tokens of a CLA program mean, one evaluation at a time, and    *)
(* that interpreter_interpret computes just that.  The evaluations of a    *)
(* source, their order and their operands are those of module              *)
(* CompilerGrammar and are stated without a parser; a meaning is stated    *)
(* without a stack, an instruction or an object.                           *)
(***************************************************************************)
EXTENDS Interpreter, CompilerGrammar

(* Meanings: values whose strings are their texts, or the failure of an    *)
(* operation together with the last token of its last operand.             *)
Meaning(v) == IF value_is_string(v)
              THEN [kind |-> "string", text |-> gcObjects[v.object].text] ELSE v
Failure(pos) == [kind |-> "failure", pos |-> pos]
StringMeaning(text) == [kind |-> "string", text |-> text]
TextOfMeaning(m) == CASE m.kind = "string" -> m.text
                      [] m.kind = "number" -> NumberText(m.number)
                      [] m.kind = "nil" -> <<"nil">>
                      [] OTHER -> IF m.boolean THEN <<"true">> ELSE <<"false">>

AreNumbers(a, b) == a.kind = "number" /\ b.kind = "number"
EqualMeanings(a, b) ==
  /\ a.kind = b.kind
  /\ IF a.kind = "number" THEN NumberEquals(a.number, b.number) ELSE a = b

MeaningOfBinary(op, a, b, pos) ==
  CASE op = "EQUAL" -> BoolValue(EqualMeanings(a, b))
    [] op = "NOT_EQUAL" -> BoolValue(~EqualMeanings(a, b))
    [] op \in ComparisonOps /\ AreNumbers(a, b) ->
         BoolValue(Compare(op, a.number, b.number))
    [] op \in {"ADD", "SUBTRACT", "MULTIPLY"} /\ AreNumbers(a, b) ->
         NumberValue(Arithmetic(op, a.number, b.number))
    [] /\ op \in {"DIVIDE", "MODULO"} /\ AreNumbers(a, b)
       /\ ~NumberEquals(b.number, Zero) ->
         NumberValue(Arithmetic(op, a.number, b.number))
    [] op = "CONCATENATE" /\ "string" \in {a.kind, b.kind} ->
         StringMeaning(TextOfMeaning(a) \o TextOfMeaning(b))
    [] OTHER -> Failure(pos)

MeaningOfUnary(type, a, pos) ==
  CASE type = "BANG" -> BoolValue(a = NilValue \/ a = BoolValue(FALSE))
    [] type = "MINUS" /\ a.kind = "number" -> NumberValue(Negated(a.number))
    [] OTHER -> Failure(pos)

MeaningOfLiteral(token) ==
  CASE token.type = "NUMBER" -> token.literal
    [] token.type = "STRING" -> StringMeaning(token.literal.text)
    [] token.type = "NIL" -> NilValue
    [] OTHER -> BoolValue(token.type = "TRUE")

-----------------------------------------------------------------------------
(* The last of some evaluations.                                           *)
LastOf(evaluations) ==
  CHOOSE d \in evaluations : \A b \in evaluations : b = d \/ Precedes(b, d)
(* The left operand of an infix operator is what is evaluated last before  *)
(* its token, the operand of the others and the right one what is evaluated*)
(* last before them.                                                       *)
LeftOperand(e, evaluations) == LastOf({d \in evaluations : d.after < e.token})
RightOperand(e, evaluations) == LastOf({d \in evaluations : Precedes(d, e)})

(* What the running chunk made of an evaluation that it has performed.     *)
ResultOf(e, evaluations) == Meaning(results[Rank(e, evaluations)])
(* What it must make of it, given what it made of its operands.            *)
MeaningFrom(tokens, e, left, right) ==
  LET type == tokens[e.token].type IN
  CASE IsInfixOp(tokens, e.token) ->
         MeaningOfBinary(BinaryOpOf(type), left, right, e.after)
    [] IsPrefixOp(tokens, e.token) -> MeaningOfUnary(type, right, e.after)
    [] type = "SEMICOLON" -> right
    [] OTHER -> MeaningOfLiteral(tokens[e.token])
MeaningAt(e, evaluations) ==
  MeaningFrom(source, e, ResultOf(LeftOperand(e, evaluations), evaluations),
                         ResultOf(RightOperand(e, evaluations), evaluations))

(* The evaluations performed, and those of them that print.                *)
Done(evaluations) == {e \in evaluations : Rank(e, evaluations) <= Len(results)}
Prints(e) == source[e.token].type = "SEMICOLON" /\ EndsPrint(source, e.token)
Stopped(evaluations, meaning) ==
  \E e \in evaluations : /\ Rank(e, evaluations) = Len(results) + 1
                         /\ MeaningAt(e, evaluations) = meaning

(* A call evaluates what its source calls for, in order, each on the       *)
(* meanings of its operands, prints the meanings that the source prints,   *)
(* and either gets to the end or stops at the first operation that has     *)
(* none, which it reports where its last operand ends, or (object.c:45) at *)
(* a concatenation of empty texts.  What earlier calls left on the stack   *)
(* and in the objects has no part in it.                                   *)
ComputesMeanings ==
  vmStatus \in {"success", "failure", "aborted"} =>
    LET evaluations == Evaluations(source)
        printed == {e \in Done(evaluations) : Prints(e)}
    IN  /\ \A e \in Done(evaluations) :
             ResultOf(e, evaluations) = MeaningAt(e, evaluations)
        /\ Len(output) = Cardinality(printed)
        /\ \A e \in printed :
             output[Rank(e, printed)] = TextOfMeaning(ResultOf(e, evaluations))
        /\ CASE vmStatus = "success" -> Done(evaluations) = evaluations /\ errorPos = 0
             [] vmStatus = "failure" -> Stopped(evaluations, Failure(errorPos))
             [] OTHER -> Stopped(evaluations, StringMeaning(<<>>))
=============================================================================
