------------------------------ MODULE Compiler ------------------------------
(***************************************************************************)
(* The single-pass compiler of src/frontend/compiler.c: a Pratt parser that*)
(* pulls tokens from the lexer and emits instructions as it recognises     *)
(* them.                                                                   *)
(*                                                                         *)
(* The C code is a set of mutually recursive functions.  Here `frames' is  *)
(* their call stack: the top frame says where the running function resumes.*)
(* One action is one uninterrupted stretch of one function, from a call or *)
(* a return to the next.  The source text is whatever the lexer delivers:  *)
(* `source' holds the tokens scanned so far and each scan chooses the next.*)
(* A token is named by its position in `source'; lines and columns are     *)
(* functions of that position.                                             *)
(***************************************************************************)
EXTENDS InstructionList, Objects

CONSTANTS Tokens,       \* the tokens the lexer may deliver, EOF and ERROR apart
          MaxTokens,    \* bound of the model: tokens of a source before EOF
          MaxErrors     \* bound of the model: ERROR tokens in a row

VARIABLES source, parser, frames, status,
          sourceId      \* which call of interpreter_interpret this is

compilerVars == <<source, sourceId, parser, frames, status, chunk, gcObjects>>

-----------------------------------------------------------------------------
(* Tokens.                                                                 *)

Keywords == {"TRUE", "FALSE", "VAR", "NIL", "AND", "OR", "FUN", "RETURN", "IF",
             "ELSE", "WHILE", "FOR", "CLASS", "SUPER", "THIS", "PRINT"}
TokenTypes ==
  {"STRING", "NUMBER", "IDENTIFIER",
   "PLUS", "MINUS", "STAR", "SLASH", "PERCENT", "BANG", "LESS", "EQUAL",
   "GREATER", "DOT", "COMMA", "COLON", "SEMICOLON", "QUESTION", "OPEN_PAREN",
   "CLOSE_PAREN", "OPEN_CURLY_BRACE", "CLOSE_CURLY_BRACE",
   "DOT_DOT", "EQUAL_EQUAL", "BANG_EQUAL", "LESS_EQUAL", "GREATER_EQUAL"}
    \cup Keywords

(* A token: its type and, for a literal, what it denotes; a numeric literal*)
(* that strtod finds out of range denotes OutOfRange.                      *)
NoLiteral == [kind |-> "none"]
OutOfRange == [kind |-> "erange"]
EofToken == [type |-> "EOF", literal |-> NoLiteral]
ErrorToken == [type |-> "ERROR", literal |-> NoLiteral]
AllTokens == Tokens \cup {EofToken, ErrorToken}

ASSUME TokensAssumption ==
  \A t \in Tokens :
    /\ t \in [type : TokenTypes, literal : {t.literal}]
    /\ t.type = "NUMBER" => t.literal \in NumberValues \cup {OutOfRange}
    /\ t.type = "STRING" => t.literal.text \in Texts
ASSUME BoundsAssumption == MaxTokens \in Nat /\ MaxErrors \in Nat

-----------------------------------------------------------------------------
(* parse_rules.                                                            *)

PRECEDENCE_NONE == 0
PRECEDENCE_ASSIGNMENT == 1
PRECEDENCE_EQUALITY == 4
PRECEDENCE_COMPARISON == 5
PRECEDENCE_CONCATENATION == 6
PRECEDENCE_TERM == 7
PRECEDENCE_FACTOR == 8
PRECEDENCE_UNARY == 9
Precedences == 0..11

Nud(type) ==
  CASE type \in {"NIL", "TRUE", "FALSE"} -> "compile_invariable_literal"
    [] type = "NUMBER" -> "compile_numeric_literal"
    [] type = "STRING" -> "compile_string_literal"
    [] type \in {"MINUS", "BANG"} -> "compile_unary_expr"
    [] type = "OPEN_PAREN" -> "compile_grouping_expr"
    [] OTHER -> "NULL"

PrecedenceOf(type) ==
  CASE type \in {"PLUS", "MINUS"} -> PRECEDENCE_TERM
    [] type \in {"STAR", "SLASH", "PERCENT"} -> PRECEDENCE_FACTOR
    [] type = "DOT_DOT" -> PRECEDENCE_CONCATENATION
    [] type \in {"EQUAL_EQUAL", "BANG_EQUAL"} -> PRECEDENCE_EQUALITY
    [] type \in {"LESS", "LESS_EQUAL", "GREATER", "GREATER_EQUAL"}
         -> PRECEDENCE_COMPARISON
    [] OTHER -> PRECEDENCE_NONE

(* Mutation: every operator is left-associative.                           *)
LeftAssociative(type) == PrecedenceOf(type) + 1

(* The precedence a led handler asks of its right operand: a level more for*)
(* a left-associative operator, the same level for a right-associative one.*)
RightOperandPrecedence(type) ==
  IF type = "DOT_DOT" THEN PrecedenceOf(type) ELSE PrecedenceOf(type) + 1

BinaryOpOf(type) ==
  CASE type = "PLUS" -> "ADD"            [] type = "MINUS" -> "SUBTRACT"
    [] type = "STAR" -> "MULTIPLY"       [] type = "SLASH" -> "DIVIDE"
    [] type = "PERCENT" -> "MODULO"      [] type = "DOT_DOT" -> "CONCATENATE"
    [] type = "EQUAL_EQUAL" -> "EQUAL"   [] type = "BANG_EQUAL" -> "NOT_EQUAL"
    [] type = "LESS" -> "LESS"           [] type = "LESS_EQUAL" -> "LESS_EQUAL"
    [] type = "GREATER" -> "GREATER"     [] OTHER -> "GREATER_EQUAL"

UnaryOpOf(type) == IF type = "MINUS" THEN "NEGATE" ELSE "NOT"

-----------------------------------------------------------------------------
(* The parser.  `report' is auxiliary: the error printed, if any.          *)

NoReport == [kind |-> "none", pos |-> 0]
InitialParser == [previous |-> 0, current |-> 0, state |-> "OK",
                  hadError |-> FALSE, report |-> NoReport]

(* Mutation: later errors replace the first one.                           *)
ReportEveryError(p, kind, pos, type) ==
  [p EXCEPT !.state = IF type = "EOF" THEN "UNEXPECTED_EOF" ELSE "PANIC",
            !.hadError = TRUE,
            !.report = [kind |-> kind, pos |-> pos]]

(* compiler_error_at: only the first error is recorded and printed.        *)
CompilerErrorAt(p, kind, pos, type) ==
  IF p.state # "OK" THEN p
  ELSE [p EXCEPT !.state = IF type = "EOF" THEN "UNEXPECTED_EOF" ELSE "PANIC",
                 !.hadError = TRUE,
                 !.report = [kind |-> kind, pos |-> pos]]

CurrentType == source[parser.current].type
AtEof == parser.current > 0 /\ CurrentType = "EOF"

(* What the next compiler_advance may scan: ERROR tokens, then another one.*)
(* A lexer that reached the end of its source only repeats its EOF token.  *)
Scan(n, t) == [i \in 1..n |-> ErrorToken] \o <<t>>
Scans ==
  IF AtEof THEN {<<>>}
  ELSE UNION {{Scan(n, t) : t \in Tokens \cup {EofToken}} : n \in 0..MaxErrors}

WithinBounds(scan) ==
  Len(source) + Len(scan) <= IF AtEof \/ scan[Len(scan)] = EofToken
                             THEN MaxTokens + 1 ELSE MaxTokens

(* Mutation: a parser in panic no longer consumes tokens.                  *)
AdvanceUnlessPanicking(p, scan) ==
  IF p.state = "PANIC" THEN p
  ELSE [p EXCEPT !.previous = p.current, !.current = Len(source) + Len(scan)]

(* compiler_advance: previous takes current; ERROR tokens are reported and *)
(* skipped.                                                                *)
CompilerAdvance(p, scan) ==
  LET q == IF Len(scan) > 1
           THEN CompilerErrorAt(p, "LEXICAL", Len(source) + 1, "ERROR")
           ELSE p
  IN  [q EXCEPT !.previous = p.current, !.current = Len(source) + Len(scan)]

(* compiler_consume: advances whether or not the token was the right one.  *)
CompilerConsume(p, type, scan) ==
  CompilerAdvance(IF CurrentType # type
                  THEN CompilerErrorAt(p, "SYNTAX", p.current, CurrentType)
                  ELSE p, scan)

-----------------------------------------------------------------------------
(* Frames.  `height' and `token' are auxiliary: the operand-stack height at*)
(* which the expression that the frame belongs to starts, and where in the *)
(* source the operator of the frame is.                                    *)

Frame(fn, precedence, operator, height, token) ==
  [fn |-> fn, precedence |-> precedence, operator |-> operator,
   height |-> height, token |-> token]

CompileFrame == Frame("compile", 0, "EOF", 0, 0)
StatementFrame(type) == Frame("stmt", 0, type, 0, 0)
HeadFrame(precedence, height) == Frame("head", precedence, "EOF", height, 0)
TailFrame(precedence, height) == Frame("tail", precedence, "EOF", height, 0)
UnaryFrame(type, height, token) == Frame("unary", 0, type, height, token)
BinaryFrame(type, height, token) == Frame("binary", 0, type, height, token)
GroupingFrame(height) == Frame("grouping", 0, "EOF", height, 0)

Top == frames[Len(frames)]
Callers == SubSeq(frames, 1, Len(frames) - 1)
Running(fn) == status = "running" /\ Top.fn = fn

-----------------------------------------------------------------------------
CompilerInit ==
  /\ source = <<>>
  /\ sourceId = 0
  /\ parser = InitialParser
  /\ frames = <<>>
  /\ status = "idle"
  /\ chunk = EmptyChunk
  /\ gcObjects = <<>>

(* compiler_compile up to its loop, on the chunk interpreter_interpret     *)
(* initialised.                                                            *)
CompilerStart ==
  /\ status = "idle"
  /\ \E n \in 0..MaxErrors, t \in Tokens \cup {EofToken} :
       LET scan == Scan(n, t)
       IN  /\ Len(scan) <= IF t = EofToken THEN MaxTokens + 1 ELSE MaxTokens
           /\ source' = scan
           /\ parser' = [InitialParser EXCEPT
                           !.current = Len(scan),
                           !.state = IF n > 0 THEN "PANIC" ELSE "OK",
                           !.hadError = n > 0,
                           !.report = IF n > 0
                                      THEN [kind |-> "LEXICAL", pos |-> 1]
                                      ELSE NoReport]
  /\ sourceId' = sourceId + 1
  /\ frames' = <<CompileFrame>>
  /\ status' = "running"
  /\ chunk' = EmptyChunk
  /\ UNCHANGED gcObjects

(* while (!compiler_match(LEXER_TOKEN_EOF)) compile_stmt(): another        *)
(* statement.                                                              *)
CompileStatement ==
  /\ Running("compile")
  /\ CurrentType # "EOF"
  /\ IF CurrentType = "PRINT"
     THEN /\ \E scan \in Scans : /\ WithinBounds(scan)
                                 /\ source' = source \o scan
                                 /\ parser' = CompilerAdvance(parser, scan)
          /\ frames' = frames \o <<StatementFrame("PRINT"),
                                   HeadFrame(PRECEDENCE_ASSIGNMENT, 0)>>
     ELSE /\ frames' = frames \o <<StatementFrame("SEMICOLON"),
                                   HeadFrame(PRECEDENCE_ASSIGNMENT, 0)>>
          /\ UNCHANGED <<source, parser>>
  /\ UNCHANGED <<status, chunk, gcObjects>>

(* Mutation: only an unexpected end of the source is a failure.            *)
StatusForgettingErrors(p) ==
  IF p.state = "UNEXPECTED_EOF" THEN "unexpected_eof" ELSE "success"

CompilerStatus(p) == IF ~p.hadError THEN "success"
                     ELSE IF p.state = "UNEXPECTED_EOF" THEN "unexpected_eof"
                     ELSE "failure"

(* The loop ends: compiler_match(EOF) advances, RETURN is emitted and the  *)
(* status is returned.                                                     *)
CompileEnd ==
  /\ Running("compile")
  /\ CurrentType = "EOF"
  /\ parser' = CompilerAdvance(parser, <<>>)
  /\ chunk' = [chunk EXCEPT !.code = Emit(@, "RETURN", 0, parser'.previous)]
  /\ status' = CompilerStatus(parser')
  /\ frames' = Callers
  /\ UNCHANGED <<source, gcObjects>>

(* ERROR_MEMORY ends the process.                                          *)
ConstantStatus == IF Len(chunk.constants) >= PoolLimit THEN "exit" ELSE status

ReplaceTop(newFrames) == Callers \o newFrames

(* Mutation: string literals are interned, an equal object is reused.      *)
CompileInternedLiteral(token, pos) ==
  LET same == {o \in 1..Len(gcObjects) : gcObjects[o].text = token.literal.text}
  IN  /\ CASE token.type = "STRING" ->
                /\ gcObjects' = IF same # {} THEN gcObjects
                                ELSE NonOwningString(gcObjects, token.literal.text,
                                                     sourceId)
                /\ chunk' = AppendConstant(
                              ObjectValue(IF same # {} THEN CHOOSE o \in same : TRUE
                                          ELSE Len(gcObjects')), pos)
           [] token.type = "NUMBER" ->
                chunk' = AppendConstant(token.literal, pos) /\ UNCHANGED gcObjects
           [] OTHER -> /\ chunk' = [chunk EXCEPT !.code = Emit(@, token.type, 0, pos)]
                       /\ UNCHANGED gcObjects
      /\ status' = ConstantStatus
      /\ frames' = ReplaceTop(<<TailFrame(Top.precedence, Top.height)>>)

(* A literal's nud handler, then the tail loop of compile_precedence_expr. *)
CompileLiteral(token, pos) ==
  /\ CASE Nud(token.type) = "compile_invariable_literal" ->
            /\ chunk' = [chunk EXCEPT !.code = Emit(@, token.type, 0, pos)]
            /\ UNCHANGED <<gcObjects, status>>
       [] Nud(token.type) = "compile_numeric_literal" ->
            /\ IF token.literal = OutOfRange
               THEN status' = "exit" /\ UNCHANGED chunk
               ELSE /\ chunk' = AppendConstant(token.literal, pos)
                    /\ status' = ConstantStatus
            /\ UNCHANGED gcObjects
       [] Nud(token.type) = "compile_string_literal" ->
            /\ gcObjects' = NonOwningString(gcObjects, token.literal.text,
                                            sourceId)
            /\ chunk' = AppendConstant(ObjectValue(Len(gcObjects')), pos)
            /\ status' = ConstantStatus
  /\ frames' = ReplaceTop(<<TailFrame(Top.precedence, Top.height)>>)

(* compile_precedence_expr up to its loop: advance past the head token and *)
(* call its nud handler.  Without one, the error is reported at the token  *)
(* and the function returns.                                               *)
CompileHead ==
  /\ Running("head")
  /\ \E scan \in Scans : LET token == source[parser.current]
                             advanced == CompilerAdvance(parser, scan)
     IN  /\ WithinBounds(scan)
         /\ source' = source \o scan
         /\ CASE Nud(token.type) = "NULL" ->
                   /\ parser' = CompilerErrorAt(advanced, "SYNTAX",
                                                parser.current, token.type)
                   /\ frames' = Callers
                   /\ UNCHANGED <<status, chunk, gcObjects>>
              [] Nud(token.type) = "compile_unary_expr" ->
                   /\ parser' = advanced
                   /\ frames' = ReplaceTop(<<TailFrame(Top.precedence, Top.height),
                                             UnaryFrame(token.type, Top.height,
                                                        parser.current),
                                             HeadFrame(PRECEDENCE_UNARY, Top.height)>>)
                   /\ UNCHANGED <<status, chunk, gcObjects>>
              [] Nud(token.type) = "compile_grouping_expr" ->
                   /\ parser' = advanced
                   /\ frames' = ReplaceTop(<<TailFrame(Top.precedence, Top.height),
                                             GroupingFrame(Top.height),
                                             HeadFrame(PRECEDENCE_ASSIGNMENT, Top.height)>>)
                   /\ UNCHANGED <<status, chunk, gcObjects>>
              [] OTHER ->
                   /\ parser' = advanced
                   /\ CompileLiteral(token, parser.current)

(* The loop of compile_precedence_expr takes one more operator...          *)
CompileTail ==
  /\ Running("tail")
  /\ PrecedenceOf(CurrentType) >= Top.precedence
  /\ \E scan \in Scans : /\ WithinBounds(scan)
                         /\ source' = source \o scan
                         /\ parser' = CompilerAdvance(parser, scan)
  /\ frames' = frames \o <<BinaryFrame(CurrentType, Top.height, parser.current),
                           HeadFrame(RightOperandPrecedence(CurrentType),
                                Top.height + 1)>>
  /\ UNCHANGED <<status, chunk, gcObjects>>

(* ... or ends and the function returns.                                   *)
CompileTailEnd ==
  /\ Running("tail")
  /\ PrecedenceOf(CurrentType) < Top.precedence
  /\ frames' = Callers
  /\ UNCHANGED <<source, parser, status, chunk, gcObjects>>

(* Mutation: the operator gets the line of the lookahead.                  *)
CompileOperatorOnNextLine ==
  /\ Running("unary") \/ Running("binary")
  /\ LET op == IF Top.fn = "unary" THEN UnaryOpOf(Top.operator)
                                   ELSE BinaryOpOf(Top.operator)
     IN  chunk' = [chunk EXCEPT !.code = Emit(@, op, 0, parser.current)]
  /\ frames' = Callers
  /\ UNCHANGED <<source, parser, status, gcObjects>>

(* The operand of a unary or the right operand of a binary operator is     *)
(* compiled: emit the operator.                                            *)
CompileOperator ==
  /\ Running("unary") \/ Running("binary")
  /\ LET op == IF Top.fn = "unary" THEN UnaryOpOf(Top.operator)
                                   ELSE BinaryOpOf(Top.operator)
     IN  chunk' = [chunk EXCEPT !.code = Emit(@, op, 0, parser.previous)]
  /\ frames' = Callers
  /\ UNCHANGED <<source, parser, status, gcObjects>>

(* compile_grouping_expr after its expression.                             *)
CompileGroupingEnd ==
  /\ Running("grouping")
  /\ \E scan \in Scans :
       /\ WithinBounds(scan)
       /\ source' = source \o scan
       /\ parser' = CompilerConsume(parser, "CLOSE_PAREN", scan)
  /\ frames' = Callers
  /\ UNCHANGED <<status, chunk, gcObjects>>

(* Mutation: the value of an expression statement is not popped.           *)
CompileStatementEndWithoutPop ==
  /\ Running("stmt")
  /\ \E scan \in Scans :
       /\ WithinBounds(scan)
       /\ source' = source \o scan
       /\ parser' = CompilerConsume(parser, "SEMICOLON", scan)
  /\ chunk' = IF Top.operator # "PRINT" THEN chunk
              ELSE [chunk EXCEPT !.code = Emit(@, "PRINT", 0, parser.current)]
  /\ frames' = Callers
  /\ UNCHANGED <<status, gcObjects>>

(* compile_print_stmt and compile_expr_stmt after their expression.        *)
CompileStatementEnd ==
  /\ Running("stmt")
  /\ \E scan \in Scans :
       /\ WithinBounds(scan)
       /\ source' = source \o scan
       /\ parser' = CompilerConsume(parser, "SEMICOLON", scan)
  /\ chunk' = [chunk EXCEPT
                 !.code = Emit(@, IF Top.operator = "PRINT" THEN "PRINT"
                                                            ELSE "POP",
                               0, parser.current)]
  /\ frames' = Callers
  /\ UNCHANGED <<status, gcObjects>>

CompilerStep ==
  /\ \/ CompileStatement \/ CompileEnd \/ CompileHead \/ CompileTail
     \/ CompileTailEnd \/ CompileOperator \/ CompileGroupingEnd
     \/ CompileStatementEnd
  /\ UNCHANGED sourceId

-----------------------------------------------------------------------------
(* A compilation on its own: one source, the heap untouched.               *)
Init == CompilerInit /\ heap = {}
Next == (CompilerStart \/ CompilerStep) /\ UNCHANGED heap
vars == <<compilerVars, heap>>
Spec == Init /\ [][Next]_vars
FairSpec == Spec /\ WF_vars(Next)
-----------------------------------------------------------------------------
(* Properties.                                                             *)

Finished == status \in {"success", "failure", "unexpected_eof"}

(* Type invariant: the parser's positions lie in the scanned source, the   *)
(* frames are those of the functions of compiler.c, the emitted code is a  *)
(* sequence of instructions and the chunk's constants are literals or      *)
(* string objects.                                                         *)
ParserSet(n) == [previous : 0..n, current : 0..n,
                 state : {"OK", "PANIC", "UNEXPECTED_EOF"}, hadError : BOOLEAN,
                 report : [kind : {"none", "LEXICAL", "SYNTAX"}, pos : Nat]]
FrameSet == [fn : {"compile", "stmt", "head", "tail", "unary", "binary", "grouping"},
             precedence : Precedences, operator : TokenTypes \cup {"EOF", "ERROR"},
             height : Nat, token : Nat]
ChunkSet(objects) == [code : Seq(Instructions),
                      constants : Seq(NumberValues \cup ObjectValues(objects))]
TypeOK ==
  /\ source \in Seq(AllTokens)
  /\ sourceId \in Nat
  /\ parser \in ParserSet(Len(source))
  /\ frames \in Seq(FrameSet)
  /\ status \in {"idle", "running", "success", "failure", "unexpected_eof", "exit"}
  /\ chunk \in ChunkSet(Len(gcObjects))
  /\ gcObjects \in Seq(ObjectSet)

(* Code compiled without an error never pops an empty operand stack, and a *)
(* chunk that compiles successfully ends in its only RETURN with the       *)
(* operand stack as high as it found it.  The virtual machine relies on it:*)
(* its assertions only notice when the whole stack, with what earlier      *)
(* chunks left on it, is exhausted.                                        *)
NeverUnderflows(code) ==
  \A i \in 1..Len(code) : code[i].height >= Pops(code[i].op)
StackDiscipline ==
  /\ ~parser.hadError => NeverUnderflows(chunk.code)
  /\ status = "success" =>
       /\ chunk.code # <<>>
       /\ chunk.code[Len(chunk.code)].op = "RETURN"
       /\ HeightAfter(chunk.code) = 0
       /\ \A i \in 1..Len(chunk.code) - 1 : chunk.code[i].op # "RETURN"

(* The operand of every constant instruction, of a failed compilation too, *)
(* fits the bytes its opcode encodes it in and indexes the constant pool.  *)
OperandFits(op, arg, poolSize) ==
  op \in ConstantOps =>
    /\ arg < poolSize
    /\ arg < IF op = "CONSTANT" THEN ByteStates ELSE PoolLimit
OperandsFit ==
  \A i \in 1..Len(chunk.code) :
    OperandFits(chunk.code[i].op, chunk.code[i].arg, Len(chunk.constants))

(* Instructions are attributed to source positions that never go back, so  *)
(* that the run-length encoding of their lines has one entry per line.     *)
AscendTo(code, pos) ==
  \A i \in 1..Len(code) :
    /\ code[i].pos <= pos
    /\ i > 1 => code[i - 1].pos <= code[i].pos
PositionsAscend == AscendTo(chunk.code, parser.previous)

-----------------------------------------------------------------------------
(* The inductive invariant behind StackDiscipline, OperandsFit and         *)
(* PositionsAscend: how the frames stack up, and how high the operand stack*)
(* is when the top frame resumes.                                          *)

Calls(f, g) ==
  /\ g.fn \in CASE f.fn = "compile" -> {"stmt"}
                [] f.fn = "head" -> {}
                [] f.fn = "tail" -> {"unary", "grouping", "binary"}
                [] OTHER -> {"head", "tail"}
  /\ g.height = IF f.fn = "binary" THEN f.height + 1 ELSE f.height

HeightOnResume(f) ==
  CASE f.fn \in {"compile", "head"} -> f.height
    [] f.fn = "binary" -> f.height + 2
    [] OTHER -> f.height + 1

CallChain(fs) ==
  /\ fs # <<>> => fs[1] = CompileFrame
  /\ \A i \in 1..Len(fs) - 1 : Calls(fs[i], fs[i + 1])
FramesOK == CallChain(frames)

ScanOK ==
  /\ parser.previous <= parser.current
  /\ parser.hadError <=> parser.state # "OK"
  /\ status = "success" => ~parser.hadError
  /\ status = "running" =>
       frames # <<>> /\ parser.current = Len(source) /\ parser.current > 0

HeightsOK ==
  ~parser.hadError /\ status = "running" =>
    HeightAfter(chunk.code) = HeightOnResume(Top)

ReturnOK == status = "running" =>
  \A i \in 1..Len(chunk.code) : chunk.code[i].op # "RETURN"

(* Each instruction finds the operand stack as its predecessor left it.    *)
HeightsFollow(code) ==
  \A i \in 1..Len(code) :
    code[i].height = IF i = 1 THEN 0
                     ELSE code[i - 1].height - Pops(code[i - 1].op)
                                             + Pushes(code[i - 1].op)

(* The string constants of a chunk refer to the source it is compiled from.*)
ConstantsOfSource ==
  \A i \in 1..Len(chunk.constants) :
    chunk.constants[i].kind = "object" =>
      gcObjects[chunk.constants[i].object].origin = sourceId

CompilerInv ==
  /\ TypeOK /\ FramesOK /\ ScanOK /\ HeightsOK /\ ReturnOK
  /\ HeightsFollow(chunk.code) /\ ConstantsOfSource
  /\ StackDiscipline /\ OperandsFit /\ PositionsAscend

(* Every compilation ends, whatever the source: each iteration of the main *)
(* loop consumes a token, in a panic too, and the lexer ends in EOF.       *)
Termination == status = "running" ~> status # "running"
=============================================================================
