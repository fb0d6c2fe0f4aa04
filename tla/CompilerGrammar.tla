--------------------------- MODULE CompilerGrammar ---------------------------
(***************************************************************************)
(* Which token sequences are programs, stated without a parser, and what   *)
(* src/frontend/compiler.c makes of the others.                            *)
(*                                                                         *)
(* program   = statement* EOF                                              *)
(* statement = ["print"] expression ";"                                    *)
(*                                                                         *)
(* An expression alternates operands and binary operators; an operand is a *)
(* literal, a prefix operator before an operand, or an expression in       *)
(* parentheses.                                                            *)
(***************************************************************************)
EXTENDS Compiler, FiniteSets

LiteralTypes == {"NIL", "TRUE", "FALSE", "NUMBER", "STRING"}
PrefixTypes == {"MINUS", "BANG"}
(* Binary operators, loosest level first.                                  *)
Levels == << {"EQUAL_EQUAL", "BANG_EQUAL"},
             {"LESS", "LESS_EQUAL", "GREATER", "GREATER_EQUAL"},
             {"DOT_DOT"}, {"PLUS", "MINUS"}, {"STAR", "SLASH", "PERCENT"} >>
RightAssociative == {"DOT_DOT"}
InfixTypes == UNION {Levels[l] : l \in 1..Len(Levels)}

Types(tokens) == [i \in 1..Len(tokens) |-> tokens[i].type]

-----------------------------------------------------------------------------
(* Viable prefixes: what may come next after a sequence of token types.    *)

Dead == [need |-> "dead", depth |-> 0]
Need(what, depth) == [need |-> what, depth |-> depth]

AfterOperand(depth, type) ==
  CASE type \in LiteralTypes -> Need("operator", depth)
    [] type \in PrefixTypes -> Need("operand", depth)
    [] type = "OPEN_PAREN" -> Need("operand", depth + 1)
    [] OTHER -> Dead

After(state, type) ==
  CASE state.need = "statement" ->
         IF type = "PRINT" THEN Need("operand", 0) ELSE AfterOperand(0, type)
    [] state.need = "operand" -> AfterOperand(state.depth, type)
    [] state.need = "operator" ->
         CASE type \in InfixTypes -> Need("operand", state.depth)
           [] type = "CLOSE_PAREN" /\ state.depth > 0 ->
                Need("operator", state.depth - 1)
           [] type = "SEMICOLON" /\ state.depth = 0 -> Need("statement", 0)
           [] OTHER -> Dead
    [] OTHER -> Dead

(* The outlook after each of the prefixes, and after all of them.          *)
Outlooks(types) ==
  LET outlook[n \in Nat] == IF n = 0 THEN Need("statement", 0)
                            ELSE After(outlook[n - 1], types[n])
  IN  outlook
Outlook(types) == Outlooks(types)[Len(types)]
IsProgram(types) == Outlook(types).need = "statement"
Viable(types) == Outlook(types).need # "dead"

(* Every way to finish a viable prefix needs at most an operand, closing   *)
(* parentheses and a semicolon.                                            *)
Ending(operand, depth) ==
  operand \o [i \in 1..depth |-> "CLOSE_PAREN"] \o <<"SEMICOLON">>
Completions(types) ==
  {Ending(operand, depth) : operand \in {<<>>, <<"NIL">>}, depth \in 0..Len(types)}
Completable(types) ==
  \E suffix \in Completions(types) : IsProgram(types \o suffix)

-----------------------------------------------------------------------------
(* The scanned tokens without the final EOF.                               *)
Program == IF source # <<>> /\ source[Len(source)] = EofToken
           THEN Types(SubSeq(source, 1, Len(source) - 1)) ELSE Types(source)
HasLexicalError == \E i \in 1..Len(source) : source[i] = ErrorToken

(* compiler_compile succeeds on the programs of the grammar and on nothing *)
(* else.                                                                   *)
AcceptsThePrograms ==
  Finished => (status = "success" <=> ~HasLexicalError /\ IsProgram(Program))

(* COMPILER_UNEXPECTED_EOF is returned exactly for the sources that more   *)
(* input could still turn into a program.  The REPL relies on it to ask for*)
(* a continuation line instead of reporting an error.                      *)
UnexpectedEofIffCompletable ==
  Finished =>
    (status = "unexpected_eof"
       <=> /\ ~HasLexicalError
           /\ ~IsProgram(Program)
           /\ Completable(Program))

(* The one error that is printed is the first one: a syntax error names the*)
(* first token no program continues with, and a lexical error the first    *)
(* malformed lexeme, whose lookahead may hide an error in the token before *)
(* it but in none further back.                                            *)
ReportsFirstOffender ==
  status = "failure" =>
    LET pos == parser.report.pos IN
    CASE parser.report.kind = "SYNTAX" ->
           /\ Viable(SubSeq(Program, 1, pos - 1))
           /\ ~Viable(SubSeq(Program, 1, pos))
      [] parser.report.kind = "LEXICAL" ->
           /\ source[pos] = ErrorToken
           /\ \A i \in 1..pos - 1 : source[i] # ErrorToken
           /\ Viable(SubSeq(Program, 1, pos - 2))
      [] OTHER -> FALSE

(* The literals of a successful source are its constants, in their order:  *)
(* each is loaded by one instruction, attributed to it, from the place in  *)
(* the constant pool that counts the literals before it.                   *)
Literals(tokens, upTo) ==
  {p \in 1..upTo : tokens[p].type \in {"NUMBER", "STRING"}}
Loads(code) == {i \in 1..Len(code) : code[i].op \in ConstantOps}
DenotedBy(constant, token, objects) ==
  IF token.type = "NUMBER" THEN constant = token.literal
  ELSE /\ constant.kind = "object"
       /\ objects[constant.object].text = token.literal.text
LoadsLiterals(code, constants, objects, tokens, upTo) ==
  /\ Len(constants) = Cardinality(Literals(tokens, upTo))
  /\ {code[i].pos : i \in Loads(code)} = Literals(tokens, upTo)
  /\ \A i, k \in Loads(code) : i < k => code[i].pos < code[k].pos
  /\ \A i \in Loads(code) :
       /\ code[i].arg = Cardinality(Literals(tokens, code[i].pos - 1))
       /\ DenotedBy(constants[code[i].arg + 1], tokens[code[i].pos], objects)
ConstantsInOrder ==
  status = "success" =>
    LoadsLiterals(chunk.code, chunk.constants, gcObjects, source, Len(source))

-----------------------------------------------------------------------------
(* The order of evaluation, stated without a parser.  An operator is       *)
(* applied right after the last token of its operand, of its right one if  *)
(* it is infix.  What ends an operand is the next infix operator in the    *)
(* same parentheses that binds no tighter, the closing parenthesis around  *)
(* it, or the semicolon.                                                   *)

OutlookOf(tokens, n) == Outlooks(Types(tokens))[n]

IsPrefixOp(tokens, p) ==
  /\ tokens[p].type \in PrefixTypes
  /\ OutlookOf(tokens, p - 1).need \in {"statement", "operand"}
IsInfixOp(tokens, p) ==
  tokens[p].type \in InfixTypes /\ OutlookOf(tokens, p - 1).need = "operator"

(* `type' takes the right operand of `operator' for its left one.          *)
BindsTighter(type, operator) ==
  \E l, m \in 1..Len(Levels) :
    /\ type \in Levels[l] /\ operator \in Levels[m]
    /\ l > m \/ (l = m /\ operator \in RightAssociative)

EndsOperandOf(tokens, p, k) ==
  /\ OutlookOf(tokens, k - 1) = Need("operator", OutlookOf(tokens, p - 1).depth)
  /\ ~(IsInfixOp(tokens, p) /\ BindsTighter(tokens[k].type, tokens[p].type))

EvaluatedAfter(tokens, p, last) ==
  \/ last = p /\ tokens[p].type \in LiteralTypes \cup {"SEMICOLON"}
  \/ /\ last >= p
     /\ IsPrefixOp(tokens, p) \/ IsInfixOp(tokens, p)
     /\ EndsOperandOf(tokens, p, last + 1)
     /\ \A k \in p + 1..last : ~EndsOperandOf(tokens, p, k)

(* What is evaluated before the last token, and in which order: of what a  *)
(* token completes, the innermost first.                                   *)
Evaluations(tokens) ==
  {e \in [token : 1..Len(tokens) - 1, after : 1..Len(tokens) - 1] :
     EvaluatedAfter(tokens, e.token, e.after)}
Precedes(d, e) == d.after < e.after \/ (d.after = e.after /\ d.token > e.token)
Rank(e, evaluations) == 1 + Cardinality({d \in evaluations : Precedes(d, e)})

(* A semicolon ends the last statement begun.                              *)
EndsPrint(tokens, n) ==
  \E p \in 1..n - 1 : /\ tokens[p].type = "PRINT"
                      /\ \A k \in p..n - 1 : tokens[k].type # "SEMICOLON"
Operations(tokens, p) ==
  LET type == tokens[p].type IN
  CASE type \in {"NUMBER", "STRING"} -> ConstantOps
    [] type = "SEMICOLON" -> {IF EndsPrint(tokens, p) THEN "PRINT" ELSE "POP"}
    [] IsInfixOp(tokens, p) -> {BinaryOpOf(type)}
    [] IsPrefixOp(tokens, p) -> {UnaryOpOf(type)}
    [] OTHER -> {type}

(* Where an instruction finds its operands.  The right operand of an infix *)
(* operator, and the only one of the others, is what the instruction before*)
(* left.  Its left operand is what the last instruction of a token before  *)
(* the operator left: everything since then stays above it on the stack. A *)
(* statement that ends leaves nothing.                                     *)
Leaves(instruction) ==
  instruction.height - Pops(instruction.op) + Pushes(instruction.op)
FindsLeftOperand(code, i, p) ==
  \E left \in 1..i - 1 :
    /\ code[left].pos < p
    /\ Leaves(code[left]) = code[i].height - 1
    /\ \A k \in left + 1..i - 1 :
         code[k].pos >= p /\ Leaves(code[k]) >= code[i].height
FindsOperands(code, i, tokens, p) ==
  /\ IsInfixOp(tokens, p) => FindsLeftOperand(code, i, p)
  /\ code[i].op \in DiscardOps => Leaves(code[i]) = 0

Performs(code, tokens, evaluations) ==
  /\ Len(code) = Cardinality(evaluations)
  /\ \A e \in evaluations :
       LET i == Rank(e, evaluations) IN
       /\ code[i].op \in Operations(tokens, e.token)
       /\ code[i].pos = e.after
       /\ FindsOperands(code, i, tokens, e.token)

(* A successful chunk does what the tokens of its source call for, each    *)
(* once, where its operands are complete and in their places, and returns: *)
(* precedence, associativity and grouping, for prefix operators too.       *)
EvaluatesInOrder ==
  status = "success" =>
    LET last == Len(chunk.code) IN
    /\ \A p \in 1..Len(source) :
         IsPrefixOp(source, p) \/ IsInfixOp(source, p) =>
           \E e \in Evaluations(source) : e.token = p
    /\ Performs(SubSeq(chunk.code, 1, last - 1), source, Evaluations(source))
    /\ chunk.code[last].op = "RETURN"
=============================================================================
