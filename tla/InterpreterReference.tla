------------------------ MODULE InterpreterReference ------------------------
(***************************************************************************)
(* What a CLA program means, computed recursively from its tokens, with    *)
(* neither a stack nor instructions, and compared with what                *)
(* interpreter_interpret does.                                             *)
(***************************************************************************)
EXTENDS InterpreterMeaning, CompilerReference

(* The meaning of the expression in source[from..to]; operands are         *)
(* evaluated from left to right and the first failure is the result.       *)
RECURSIVE Evaluate(_, _)
Evaluate(from, to) ==
  LET types == Types(SubSeq(source, from, to)) IN
  CASE InfixAt(types) # {} ->
         LET i == from - 1 + LastEvaluated(types)
             left == Evaluate(from, i - 1)
             right == Evaluate(i + 1, to)
         IN  CASE left.kind = "failure" -> left
               [] left.kind # "failure" /\ right.kind = "failure" -> right
               [] OTHER -> MeaningOfBinary(BinaryOpOf(source[i].type), left,
                                           right, to)
    [] InfixAt(types) = {} /\ types[1] \in PrefixTypes ->
         LET operand == Evaluate(from + 1, to)
         IN  IF operand.kind = "failure" THEN operand
             ELSE MeaningOfUnary(types[1], operand, to)
    [] InfixAt(types) = {} /\ types[1] = "OPEN_PAREN" ->
         Evaluate(from + 1, to - 1)
    [] OTHER -> MeaningOfLiteral(source[from])

(* The effect of the statements from position `from' on.                   *)
RECURSIVE Effect(_, _)
Effect(from, printed) ==
  IF source[from] = EofToken
  THEN [output |-> printed, failedAt |-> 0]
  ELSE LET end == CHOOSE i \in from..Len(source) :
                    /\ source[i].type = "SEMICOLON"
                    /\ \A k \in from..i - 1 : source[k].type # "SEMICOLON"
           printing == source[from].type = "PRINT"
           meaning == Evaluate(IF printing THEN from + 1 ELSE from, end - 1)
       IN  IF meaning.kind = "failure"
           THEN [output |-> printed, failedAt |-> meaning.pos]
           ELSE Effect(end + 1, IF printing
                                THEN Append(printed, TextOfMeaning(meaning))
                                ELSE printed)

(* What a program prints, whether it fails, and where the error is said to *)
(* be, are those of its meaning, whatever the calls before it left behind. *)
(* A process that is aborted (object.c:45, for two empty strings) has      *)
(* printed what its program prints before.                                 *)
InterpretsTheLanguage ==
  LET effect == Effect(1, <<>>)
  IN  /\ vmStatus \in {"success", "failure"} =>
           [output |-> output, failedAt |-> errorPos] = effect
      /\ vmStatus = "aborted" => IsPrefix(output, effect.output)
=============================================================================
