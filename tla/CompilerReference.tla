-------------------------- MODULE CompilerReference --------------------------
(***************************************************************************)
(* The code that the language of src/frontend/compiler.c calls for, stated *)
(* without a parser and compared with what the compiler emits.             *)
(*                                                                         *)
(* The operators of an expression are evaluated from the tightest to the   *)
(* loosest level.  Equivalently, and that is what Postfix says, the loosest*)
(* operator outside parentheses is the last one evaluated: of those on its *)
(* level the rightmost one, or the leftmost one if the level is            *)
(* right-associative.                                                      *)
(***************************************************************************)
EXTENDS CompilerGrammar, SequencesExt

(* The code of an expression in reverse Polish order.                      *)

Depth(types, i) ==
  Len(SelectSeq(SubSeq(types, 1, i), LAMBDA t : t = "OPEN_PAREN"))
    - Len(SelectSeq(SubSeq(types, 1, i), LAMBDA t : t = "CLOSE_PAREN"))

(* An operator symbol is infix when an operand ends right before it.       *)
InfixAt(types) ==
  {i \in 2..Len(types) : /\ types[i] \in InfixTypes
                         /\ types[i - 1] \in LiteralTypes \cup {"CLOSE_PAREN"}
                         /\ Depth(types, i) = 0}

LastEvaluated(types) ==
  LET level == CHOOSE l \in 1..Len(Levels) :
                 /\ \E i \in InfixAt(types) : types[i] \in Levels[l]
                 /\ \A k \in 1..l - 1 :
                      \A i \in InfixAt(types) : types[i] \notin Levels[k]
      peers == {i \in InfixAt(types) : types[i] \in Levels[level]}
  IN  IF Levels[level] \subseteq RightAssociative
      THEN CHOOSE i \in peers : \A k \in peers : i <= k
      ELSE CHOOSE i \in peers : \A k \in peers : i >= k

LiteralOp(type) == IF type \in {"NUMBER", "STRING"} THEN "CONSTANT" ELSE type

RECURSIVE Postfix(_)
Postfix(types) ==
  CASE InfixAt(types) # {} ->
         LET i == LastEvaluated(types)
         IN  Postfix(SubSeq(types, 1, i - 1))
               \o Postfix(SubSeq(types, i + 1, Len(types)))
               \o <<BinaryOpOf(types[i])>>
    [] InfixAt(types) = {} /\ types[1] \in PrefixTypes ->
         Postfix(SubSeq(types, 2, Len(types))) \o <<UnaryOpOf(types[1])>>
    [] InfixAt(types) = {} /\ types[1] = "OPEN_PAREN" ->
         Postfix(SubSeq(types, 2, Len(types) - 1))
    [] OTHER -> <<LiteralOp(types[1])>>

RECURSIVE ReferenceOps(_)
ReferenceOps(types) ==
  IF types = <<>> THEN <<"RETURN">>
  ELSE LET end == CHOOSE i \in 1..Len(types) :
                    /\ types[i] = "SEMICOLON"
                    /\ \A k \in 1..i - 1 : types[k] # "SEMICOLON"
           rest == ReferenceOps(SubSeq(types, end + 1, Len(types)))
       IN  IF types[1] = "PRINT"
           THEN Postfix(SubSeq(types, 2, end - 1)) \o <<"PRINT">> \o rest
           ELSE Postfix(SubSeq(types, 1, end - 1)) \o <<"POP">> \o rest

OpClass(op) == IF op \in ConstantOps THEN "CONSTANT" ELSE op

(* compiler_compile succeeds on the programs of the grammar and only on    *)
(* those, and the code it emits then is the program in reverse Polish      *)
(* order: precedence, associativity, prefix operators and grouping.        *)
CompilesTheLanguage ==
  /\ AcceptsThePrograms
  /\ status = "success" =>
       ReferenceOps(Program)
         = [i \in 1..Len(chunk.code) |-> OpClass(chunk.code[i].op)]
=============================================================================
