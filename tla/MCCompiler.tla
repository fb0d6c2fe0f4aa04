----------------------------- MODULE MCCompiler -----------------------------
(***************************************************************************)
(* Instances of the compiler for TLC.                                      *)
(***************************************************************************)
EXTENDS CompilerReference

MCNumber == 0..2
MCAtoms == {"a", "b"}

Plain(types) == {[type |-> t, literal |-> NoLiteral] : t \in types}
One == [type |-> "NUMBER", literal |-> NumberValue(1)]
Two == [type |-> "NUMBER", literal |-> NumberValue(2)]
Huge == [type |-> "NUMBER", literal |-> OutOfRange]
Text(atoms) == [type |-> "STRING", literal |-> [kind |-> "text", text |-> atoms]]

(* One token of each class the parser tells apart, and an identifier, which*)
(* no rule handles.                                                        *)
ErrorTokens ==
  {One} \cup Plain({"MINUS", "BANG", "DOT_DOT", "OPEN_PAREN", "CLOSE_PAREN",
                    "SEMICOLON", "PRINT", "IDENTIFIER"})

(* Correct sources: of every operator token, longer ones of an operator per*)
(* precedence level, and even longer ones that fill the constant pool.     *)
AllOperatorTokens ==
  {One} \cup Plain(InfixTypes \cup PrefixTypes
                    \cup {"NIL", "OPEN_PAREN", "CLOSE_PAREN", "SEMICOLON"})
LevelTokens ==
  {One} \cup Plain({"MINUS", "STAR", "DOT_DOT", "EQUAL_EQUAL", "LESS",
                    "OPEN_PAREN", "CLOSE_PAREN", "SEMICOLON"})
PoolTokens ==
  {One, Two, Huge, Text(<<>>), Text(<<"a">>)} \cup Plain({"PLUS", "SEMICOLON"})
CorrectTokens == AllOperatorTokens \cup LevelTokens \cup PoolTokens

SourceOf(tokens, length) ==
  /\ \A i \in 1..Len(source) : source[i] \in tokens \cup {EofToken}
  /\ Len(source) <= IF AtEof THEN length + 1 ELSE length
CorrectSoFar ==
  /\ ~parser.hadError
  /\ \/ SourceOf(AllOperatorTokens, 6)
     \/ SourceOf(LevelTokens, 8)
     \/ SourceOf(PoolTokens, 10)
=============================================================================
