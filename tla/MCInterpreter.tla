---------------------------- MODULE MCInterpreter ----------------------------
(***************************************************************************)
(* Instances of the interpreter for TLC.  Numbers are a toy format with the*)
(* awkward members of IEEE 754: two zeros, two infinities and a NaN around *)
(* the magnitude 1, whose doubling overflows.                              *)
(***************************************************************************)
EXTENDS InterpreterReference

MCNumber == {"nan", "-inf", "-1", "-0", "0", "1", "inf"}
MCNumberText(n) == <<n>>
MCAtoms == {"a", "b", "nil", "true", "false"} \cup MCNumber

Magnitude(n) == CASE n \in {"0", "-0"} -> 0 [] n \in {"1", "-1"} -> 1 [] OTHER -> 2
IsNegative(n) == n \in {"-inf", "-1", "-0"}
Signed(negative, magnitude) ==
  CASE magnitude = 0 -> IF negative THEN "-0" ELSE "0"
    [] magnitude = 1 -> IF negative THEN "-1" ELSE "1"
    [] OTHER -> IF negative THEN "-inf" ELSE "inf"
Order(n) == IF IsNegative(n) THEN 0 - Magnitude(n) ELSE Magnitude(n)

MCNumberEquals(a, b) == a # "nan" /\ b # "nan" /\ Order(a) = Order(b)
MCNumberLess(a, b) == a # "nan" /\ b # "nan" /\ Order(a) < Order(b)
MCNegated(a) == IF a = "nan" THEN a ELSE Signed(~IsNegative(a), Magnitude(a))

Sum(a, b) ==
  LET order == Order(a) + Order(b)
  IN  CASE {a, b} = {"inf", "-inf"} -> "nan"
        [] 2 \in {Magnitude(a), Magnitude(b)} /\ {a, b} # {"inf", "-inf"} ->
             IF Magnitude(a) = 2 THEN a ELSE b
        [] OTHER -> IF order = 0
                    THEN IF IsNegative(a) /\ IsNegative(b) THEN "-0" ELSE "0"
                    ELSE Signed(order < 0, IF order \in {-1, 1} THEN 1 ELSE 2)
Product(a, b) ==
  LET negative == IsNegative(a) # IsNegative(b)
      magnitudes == {Magnitude(a), Magnitude(b)}
  IN  CASE magnitudes = {0, 2} -> "nan"
        [] magnitudes # {0, 2} /\ 0 \in magnitudes -> Signed(negative, 0)
        [] OTHER -> Signed(negative, Magnitude(a) * Magnitude(b))
Quotient(a, b) ==
  LET negative == IsNegative(a) # IsNegative(b)
  IN  CASE Magnitude(a) = 2 /\ Magnitude(b) = 2 -> "nan"
        [] Magnitude(a) # 2 /\ Magnitude(b) = 2 -> Signed(negative, 0)
        [] OTHER -> Signed(negative, Magnitude(a))
Remainder(a, b) ==
  CASE Magnitude(a) = 2 -> "nan"
    [] Magnitude(a) # 2 /\ Magnitude(b) = 2 -> a
    [] OTHER -> Signed(IsNegative(a), 0)
MCArithmetic(op, a, b) ==
  IF "nan" \in {a, b} THEN "nan"
  ELSE CASE op = "ADD" -> Sum(a, b)
         [] op = "SUBTRACT" -> Sum(a, MCNegated(b))
         [] op = "MULTIPLY" -> Product(a, b)
         [] op = "DIVIDE" -> Quotient(a, b)
         [] OTHER -> Remainder(a, b)

Plain(types) == {[type |-> t, literal |-> NoLiteral] : t \in types}
One == [type |-> "NUMBER", literal |-> NumberValue("1")]
ZeroToken == [type |-> "NUMBER", literal |-> NumberValue("0")]
Text(atoms) == [type |-> "STRING", literal |-> [kind |-> "text", text |-> atoms]]

(* For sequences of calls: strings, numbers, what can fail at run time and *)
(* what can fail at compile time.                                          *)
CallTokens ==
  {One, Text(<<"a">>)} \cup Plain({"MINUS", "DOT_DOT", "PRINT", "SEMICOLON"})
(* Correct programs: every operator on every kind of literal, and longer   *)
(* programs.                                                               *)
ProgramTokens ==
  {One, ZeroToken, Text(<<>>), Text(<<"a">>)}
    \cup Plain(InfixTypes \cup PrefixTypes \cup InvariableOps
                 \cup {"OPEN_PAREN", "CLOSE_PAREN", "PRINT", "SEMICOLON"})
LongProgramTokens ==
  {One, ZeroToken, Text(<<"a">>)}
    \cup Plain({"MINUS", "SLASH", "DOT_DOT", "EQUAL_EQUAL", "LESS",
                "OPEN_PAREN", "CLOSE_PAREN", "PRINT", "SEMICOLON"})

(* Programs that print what an operator makes of every two of the awkward  *)
(* numbers; the infinities and the NaN have no literals.                   *)
Plainly(types) == [i \in DOMAIN types |-> [type |-> types[i], literal |-> NoLiteral]]
Grouped(a, type, b) == Plainly(<<"OPEN_PAREN">>) \o a \o Plainly(<<type>>) \o b
                         \o Plainly(<<"CLOSE_PAREN">>)
Infinity == Grouped(<<One>>, "PLUS", <<One>>)
MCNumberSources ==
  {<<One>>, <<ZeroToken>>, Plainly(<<"MINUS">>) \o <<ZeroToken>>, Infinity,
   Plainly(<<"MINUS">>) \o Infinity, Grouped(<<ZeroToken>>, "STAR", Infinity)}
NumberPrograms ==
  {Plainly(<<"PRINT">>) \o a \o Plainly(<<type>>) \o b \o Plainly(<<"SEMICOLON">>)
     \o <<EofToken>> : a, b \in MCNumberSources, type \in InfixTypes}
NumberProgramPrefixes ==
  UNION {{SubSeq(program, 1, n) : n \in 1..Len(program)} : program \in NumberPrograms}

SourceOf(tokens, length) ==
  /\ \A i \in 1..Len(source) : source[i] \in tokens \cup {EofToken}
  /\ Len(source) <= IF AtEof THEN length + 1 ELSE length
CorrectSoFar ==
  /\ ~parser.hadError
  /\ \/ SourceOf(ProgramTokens, 5)
     \/ SourceOf(LongProgramTokens, 7)
     \/ source \in NumberProgramPrefixes
=============================================================================
