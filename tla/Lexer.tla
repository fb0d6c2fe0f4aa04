------------------------------- MODULE Lexer -------------------------------
(***************************************************************************)
(* The scanner of src/frontend/lexer.c, a character at a time.  `cursor' is*)
(* lexer.char_cursor as an index: source[cursor] is the character under it,*)
(* and at Len(source) + 1 it is on the terminating NUL.  `pc' is the loop  *)
(* in which lexer_scan is.                                                 *)
(***************************************************************************)
EXTENDS Integers, Sequences, FiniteSets

CONSTANTS Sources,         \* the source texts
          Digits,          \* '0' to '9'
          Letters,         \* letters of either case and '_'
          Spaces,          \* ' ', '\f', '\t', '\v', '\r'
          Others           \* characters that begin no token

VARIABLES source, cursor, lexeme, line, column, lexemeStartColumn, pc,
          token,           \* what lexer_scan last returned
          scanned          \* auxiliary: every token returned but EOF

lexerVars == <<source, cursor, lexeme, line, column, lexemeStartColumn, pc,
               token, scanned>>
positionVars == <<line, column>>

NUL == "NUL"
Newline == "LF"
Quote == "QUOTE"

(* Single-character tokens, and those that a second character extends.     *)
SingleChars == {"+", "-", "*", "/", "%", "(", ")", "{", "}", ",", "?", ":", ";"}
PairChars == {".", "=", "!", ">", "<"}
SingleType(c) ==
  CASE c = "+" -> "PLUS"        [] c = "-" -> "MINUS"      [] c = "*" -> "STAR"
    [] c = "/" -> "SLASH"       [] c = "%" -> "PERCENT"    [] c = "," -> "COMMA"
    [] c = "(" -> "OPEN_PAREN"  [] c = ")" -> "CLOSE_PAREN"
    [] c = "{" -> "OPEN_CURLY_BRACE"  [] c = "}" -> "CLOSE_CURLY_BRACE"
    [] c = "?" -> "QUESTION"    [] c = ":" -> "COLON"      [] c = ";" -> "SEMICOLON"
    [] c = "." -> "DOT"         [] c = "=" -> "EQUAL"      [] c = "!" -> "BANG"
    [] c = ">" -> "GREATER"     [] OTHER -> "LESS"
PairType(c) ==
  CASE c = "." -> "DOT_DOT"        [] c = "=" -> "EQUAL_EQUAL"
    [] c = "!" -> "BANG_EQUAL"     [] c = ">" -> "GREATER_EQUAL"
    [] OTHER -> "LESS_EQUAL"
SecondChar(c) == IF c = "." THEN "." ELSE "="

Chars == Digits \cup Letters \cup Spaces \cup Others \cup SingleChars \cup PairChars
           \cup {Newline, Quote, "#"}

(* The classes are told apart and no text holds a NUL.                     *)
ASSUME CharsAssumption ==
  /\ Sources \subseteq Seq(Chars)
  /\ NUL \notin Chars
  /\ \A class \in {Digits, Letters, Spaces, Others} :
       class \cap (SingleChars \cup PairChars \cup {Newline, Quote, "#"}) = {}
  /\ Digits \cap (Letters \cup Spaces \cup Others) = {}
  /\ Letters \cap (Spaces \cup Others) = {} /\ Spaces \cap Others = {}

Peek(i) == IF i <= Len(source) THEN source[i] ELSE NUL
(* Mutation: the character under the cursor is taken for the last one read.*)
ReachedEndOneEarly == Peek(cursor + 1) = NUL
lexer_reached_end == Peek(cursor) = NUL
PeekNext == IF lexer_reached_end THEN NUL ELSE Peek(cursor + 1)
can_constitute_identifier_literal(c) == c \in Letters \cup Digits

Token(type, first, next, l, c) ==
  [type |-> type, first |-> first, next |-> next, line |-> l, column |-> c]
NoToken == Token("NONE", 1, 1, 1, 1)

-----------------------------------------------------------------------------
(* lexer_tokenize_identifier_literal: a trie of one or two letters, then   *)
(* the rest of the only keyword that is left.                              *)
Leaf(begin, rest, type) == [begin |-> begin, rest |-> rest, type |-> type]
NoLeaf == Leaf(0, <<>>, "IDENTIFIER")
Trie(word) ==
  CASE word[1] = "a" -> Leaf(1, <<"n", "d">>, "AND")
    [] word[1] = "c" -> Leaf(1, <<"l", "a", "s", "s">>, "CLASS")
    [] word[1] = "e" -> Leaf(1, <<"l", "s", "e">>, "ELSE")
    [] word[1] = "f" /\ Len(word) > 1 ->
         (CASE word[2] = "a" -> Leaf(2, <<"l", "s", "e">>, "FALSE")
            [] word[2] = "o" -> Leaf(2, <<"r">>, "FOR")
            [] word[2] = "u" -> Leaf(2, <<"n">>, "FUN")
            [] OTHER -> NoLeaf)
    [] word[1] = "i" -> Leaf(1, <<"f">>, "IF")
    [] word[1] = "n" -> Leaf(1, <<"i", "l">>, "NIL")
    [] word[1] = "o" -> Leaf(1, <<"r">>, "OR")
    [] word[1] = "p" -> Leaf(1, <<"r", "i", "n", "t">>, "PRINT")
    [] word[1] = "r" -> Leaf(1, <<"e", "t", "u", "r", "n">>, "RETURN")
    [] word[1] = "s" -> Leaf(1, <<"u", "p", "e", "r">>, "SUPER")
    [] word[1] = "t" /\ Len(word) > 1 ->
         (CASE word[2] = "h" -> Leaf(2, <<"i", "s">>, "THIS")
            [] word[2] = "r" -> Leaf(2, <<"u", "e">>, "TRUE")
            [] OTHER -> NoLeaf)
    [] word[1] = "v" -> Leaf(1, <<"a", "r">>, "VAR")
    [] word[1] = "w" -> Leaf(1, <<"h", "i", "l", "e">>, "WHILE")
    [] OTHER -> NoLeaf

IdentifierType(word) ==
  LET leaf == Trie(word)
  IN  IF /\ Len(word) = leaf.begin + Len(leaf.rest)
         /\ SubSeq(word, leaf.begin + 1, Len(word)) = leaf.rest
      THEN leaf.type ELSE "IDENTIFIER"

-----------------------------------------------------------------------------
LexerInit ==
  /\ source \in Sources
  /\ cursor = 1 /\ lexeme = 1 /\ line = 1 /\ column = 1 /\ lexemeStartColumn = 1
  /\ pc = "idle" /\ token = NoToken /\ scanned = <<>>

Scan ==
  /\ pc = "idle"
  /\ pc' = "skip"
  /\ UNCHANGED <<source, cursor, lexeme, positionVars, lexemeStartColumn, token, scanned>>

(* lexer_advance, and on to the loop `next'.                               *)
AdvanceTo(next) ==
  /\ cursor' = cursor + 1
  /\ column' = column + 1
  /\ pc' = next
  /\ UNCHANGED <<source, lexeme, lexemeStartColumn, token, scanned>>

(* lexer_make_token and its variants: lexer_scan returns a token of the    *)
(* characters from `first' up to the cursor.                               *)
Return(type, first, next, startColumn) ==
  /\ pc' = "idle"
  /\ token' = Token(type, first, next, line, startColumn)
  /\ scanned' = IF type = "EOF" THEN scanned ELSE Append(scanned, token')
  /\ UNCHANGED <<source, line>>

Make(type) ==
  /\ Return(type, lexeme, cursor, lexemeStartColumn)
  /\ UNCHANGED <<cursor, lexeme, column, lexemeStartColumn>>

-----------------------------------------------------------------------------
(* lexer_skip_whitespace.                                                  *)
SkipSpace ==
  /\ pc = "skip" /\ Peek(cursor) \in Spaces
  /\ AdvanceTo("skip")
  /\ UNCHANGED line

(* Mutation: the column is not reset.                                      *)
SkipNewlineKeepingColumn ==
  /\ pc = "skip" /\ Peek(cursor) = Newline
  /\ AdvanceTo("skip")
  /\ line' = line + 1

SkipNewline ==
  /\ pc = "skip" /\ Peek(cursor) = Newline
  /\ cursor' = cursor + 1
  /\ column' = 1
  /\ line' = line + 1
  /\ UNCHANGED <<source, lexeme, lexemeStartColumn, pc, token, scanned>>

BeginComment ==
  /\ pc = "skip" /\ Peek(cursor) = "#"
  /\ AdvanceTo("comment")
  /\ UNCHANGED line

(* Mutation: a comment ends only at a newline.                             *)
SkipCommentPastEnd ==
  /\ pc = "comment"
  /\ IF Peek(cursor) # Newline
     THEN AdvanceTo("comment") /\ UNCHANGED line
     ELSE pc' = "skip" /\ UNCHANGED <<source, cursor, lexeme, positionVars,
                                      lexemeStartColumn, token, scanned>>

(* Mutation: at the end of the source a comment waits for its newline.     *)
SkipCommentAwaitingNewline ==
  /\ pc = "comment" /\ ~lexer_reached_end
  /\ IF Peek(cursor) # Newline
     THEN AdvanceTo("comment") /\ UNCHANGED line
     ELSE pc' = "skip" /\ UNCHANGED <<source, cursor, lexeme, positionVars,
                                      lexemeStartColumn, token, scanned>>

SkipComment ==
  /\ pc = "comment"
  /\ IF Peek(cursor) # Newline /\ ~lexer_reached_end
     THEN AdvanceTo("comment") /\ UNCHANGED line
     ELSE pc' = "skip" /\ UNCHANGED <<source, cursor, lexeme, positionVars,
                                      lexemeStartColumn, token, scanned>>

-----------------------------------------------------------------------------
(* lexer_scan, once the white space is skipped: the lexeme begins here.    *)
BeginLexeme == lexeme' = cursor /\ lexemeStartColumn' = column

ReturnEof ==
  /\ pc = "skip" /\ lexer_reached_end
  /\ BeginLexeme
  /\ Return("EOF", cursor, cursor, column)
  /\ UNCHANGED <<cursor, column>>

LiteralLoop(c) ==
  CASE c = Quote -> "string" [] c \in Digits -> "integer" [] OTHER -> "identifier"

BeginLiteral ==
  /\ pc = "skip" /\ Peek(cursor) \in {Quote} \cup Digits \cup Letters
  /\ BeginLexeme
  /\ pc' = LiteralLoop(Peek(cursor))
  /\ cursor' = cursor + 1 /\ column' = column + 1
  /\ UNCHANGED <<source, line, token, scanned>>

(* Operators and punctuation (lexer_match), and unexpected characters.     *)
ReturnSymbol ==
  /\ pc = "skip" /\ Peek(cursor) \in SingleChars \cup PairChars \cup Others
  /\ LET c == Peek(cursor)
         isPair == c \in PairChars /\ Peek(cursor + 1) = SecondChar(c)
     IN  /\ cursor' = cursor + (IF isPair THEN 2 ELSE 1)
         /\ column' = column + (IF isPair THEN 2 ELSE 1)
         /\ Return(CASE c \in Others -> "ERROR" [] isPair -> PairType(c)
                     [] OTHER -> SingleType(c),
                   cursor, cursor', column)
  /\ BeginLexeme

(* lexer_tokenize_string_literal.                                          *)
StringLiteral ==
  /\ pc = "string"
  /\ \/ /\ Peek(cursor) = Quote
        /\ cursor' = cursor + 1 /\ column' = column + 1
        /\ Return("STRING", lexeme, cursor', lexemeStartColumn)
        /\ UNCHANGED <<lexeme, lexemeStartColumn>>
     \/ lexer_reached_end /\ Make("ERROR")
     \/ /\ Peek(cursor) # Quote /\ ~lexer_reached_end
        /\ AdvanceTo("string")
        /\ line' = IF Peek(cursor) = Newline THEN line + 1 ELSE line

(* Mutation: a decimal point needs no digit behind it.                     *)
NumericLiteralWithBarePoint ==
  \/ /\ pc = "integer"
     /\ CASE Peek(cursor) \in Digits -> AdvanceTo("integer") /\ UNCHANGED line
          [] Peek(cursor) = "." -> AdvanceTo("fraction") /\ UNCHANGED line
          [] OTHER -> Make("NUMBER")
  \/ /\ pc = "fraction"
     /\ IF Peek(cursor) \in Digits THEN AdvanceTo("fraction") /\ UNCHANGED line
        ELSE Make("NUMBER")

(* lexer_tokenize_numeric_literal: the integer part, and the fractional one*)
(* if a digit follows the point.                                           *)
NumericLiteral ==
  \/ /\ pc = "integer"
     /\ CASE Peek(cursor) \in Digits -> AdvanceTo("integer") /\ UNCHANGED line
          [] Peek(cursor) = "." /\ PeekNext \in Digits ->
               AdvanceTo("fraction") /\ UNCHANGED line
          [] OTHER -> Make("NUMBER")
  \/ /\ pc = "fraction"
     /\ IF Peek(cursor) \in Digits THEN AdvanceTo("fraction") /\ UNCHANGED line
        ELSE Make("NUMBER")

IdentifierLiteral ==
  /\ pc = "identifier"
  /\ IF can_constitute_identifier_literal(Peek(cursor))
     THEN AdvanceTo("identifier") /\ UNCHANGED line
     ELSE Make(IdentifierType(SubSeq(source, lexeme, cursor - 1)))

LexerNext ==
  \/ Scan \/ SkipSpace \/ SkipNewline \/ BeginComment \/ SkipComment
  \/ ReturnEof \/ BeginLiteral \/ ReturnSymbol
  \/ StringLiteral \/ NumericLiteral \/ IdentifierLiteral

LexerSpec == LexerInit /\ [][LexerNext]_lexerVars
FairLexerSpec == LexerSpec /\ WF_lexerVars(LexerNext)

-----------------------------------------------------------------------------
(* Properties.                                                             *)

(* Type invariant.  The lexer never looks past the NUL: every loop stops at*)
(* it, comments and unterminated strings included.                         *)
LexerTypeOK ==
  /\ source \in Sources
  /\ cursor \in 1..Len(source) + 1
  /\ lexeme \in 1..cursor
  /\ line \in 1..cursor
  /\ column \in 1..cursor /\ lexemeStartColumn \in 1..lexeme
  /\ pc \in {"idle", "skip", "comment", "string", "integer", "fraction", "identifier"}

(* Tokens are reported where they are: on the line on which they end, and  *)
(* in the column where they begin, counted from the last newline that no   *)
(* string literal contains (a literal over several lines does not reset the*)
(* column, lexer.c:134, so what follows it on its last line is reported as *)
(* if the literal were on one line).                                       *)
NewlinesBefore(i) == {k \in 1..i - 1 : source[k] = Newline}
InString(k) == \E n \in 1..Len(scanned) :
  scanned[n].type = "STRING" /\ k \in scanned[n].first..scanned[n].next - 1
LineBegins(i) == {1} \cup {k + 1 : k \in {k \in NewlinesBefore(i) : ~InString(k)}}
PositionsAreThoseOfTheSource ==
  \A n \in 1..Len(scanned) : LET t == scanned[n] IN
    /\ t.line = 1 + Cardinality(NewlinesBefore(t.next))
    /\ t.first - t.column + 1 \in LineBegins(t.first)
    /\ \A k \in LineBegins(t.first) : k <= t.first - t.column + 1

(* A lexer at the end of its source stays there: the compiler's loop, which*)
(* advances past EOF and looks at the token again, relies on it.           *)
EofIsForEver == [][token.type = "EOF" => token'.type = "EOF"]_lexerVars

(* Every scan returns, and scanning again and again reaches the end of the *)
(* source: the compiler's loop terminates because of it.                   *)
ReachesEof == <>(token.type = "EOF")
=============================================================================
