----------------------------- MODULE LexerProofs -----------------------------
(***************************************************************************)
(* For every source text: the lexer never reads behind the terminating NUL;*)
(* once it has returned EOF it returns nothing else; the tokens it returns *)
(* are those of the lexical grammar, with nothing but white space and      *)
(* comments between them; and each is reported where it is.                *)
(***************************************************************************)
EXTENDS LexerReference, TLAPS, SequenceTheorems, FiniteSetTheorems

(* Under the cursor is a NUL exactly at the end of the source.             *)
LEMMA NulEndsSource ==
  ASSUME LexerTypeOK
  PROVE  /\ source \in Seq(Chars) /\ Len(source) \in Nat
         /\ Peek(cursor) = NUL <=> cursor = Len(source) + 1
         /\ Peek(cursor) # NUL => Peek(cursor) \in Chars
<1>1. source \in Seq(Chars) /\ Len(source) \in Nat
  BY CharsAssumption DEF LexerTypeOK
<1>2. \A i \in 1..Len(source) : source[i] \in Chars /\ source[i] # NUL
  BY <1>1, CharsAssumption
<1> QED BY <1>1, <1>2 DEF LexerTypeOK, Peek

(* A character that is not NUL may be passed.                              *)
LEMMA AdvanceKeepsType ==
  ASSUME LexerTypeOK, Peek(cursor) # NUL,
         NEW next \in {"skip", "comment", "string", "integer", "fraction", "identifier"},
         AdvanceTo(next), line' \in {line, line + 1}
  PROVE  LexerTypeOK'
<1>1. cursor <= Len(source)
  BY NulEndsSource DEF LexerTypeOK
<1> QED BY <1>1, NulEndsSource DEF LexerTypeOK, AdvanceTo

LEMMA MakeKeepsType ==
  ASSUME LexerTypeOK, NEW type, Make(type)
  PROVE  LexerTypeOK'
BY DEF LexerTypeOK, Make, Return

(* White space and comments.                                               *)
LEMMA SkippingKeepsType ==
  ASSUME LexerTypeOK, SkipSpace \/ SkipNewline \/ BeginComment \/ SkipComment
  PROVE  LexerTypeOK'
<1> USE DEF LexerTypeOK
<1>1. NUL \notin Spaces \cup {Newline, "#"} 
  BY CharsAssumption DEF Chars
<1>2. CASE SkipSpace
  BY <1>1, <1>2, AdvanceKeepsType DEF SkipSpace
<1>3. CASE SkipNewline
  <2>1. cursor <= Len(source)
    BY <1>1, <1>3, NulEndsSource DEF SkipNewline
  <2> QED BY <1>3, <2>1, NulEndsSource DEF SkipNewline
<1>4. CASE BeginComment
  BY <1>1, <1>4, AdvanceKeepsType DEF BeginComment
<1>5. CASE SkipComment
  <2>1. CASE Peek(cursor) # Newline /\ ~lexer_reached_end
    BY <1>5, <2>1, AdvanceKeepsType DEF SkipComment, lexer_reached_end
  <2>2. CASE ~(Peek(cursor) # Newline /\ ~lexer_reached_end)
    BY <1>5, <2>2 DEF SkipComment, positionVars
  <2> QED BY <2>1, <2>2
<1> QED BY <1>2, <1>3, <1>4, <1>5

(* Tokens that end where the white space ends, or a character or two later.*)
LEMMA BeginningKeepsType ==
  ASSUME LexerTypeOK, ReturnEof \/ BeginLiteral \/ ReturnSymbol
  PROVE  LexerTypeOK'
<1>1. NUL \notin {Quote} \cup Digits \cup Letters \cup SingleChars \cup PairChars \cup Others
  BY CharsAssumption DEF Chars
<1>2. CASE ReturnEof
  BY <1>2 DEF LexerTypeOK, ReturnEof, BeginLexeme, Return
<1>3. CASE BeginLiteral
  <2>1. cursor <= Len(source) /\ Len(source) \in Nat
    BY <1>1, <1>3, NulEndsSource DEF BeginLiteral, LexerTypeOK
  <2>2. LiteralLoop(Peek(cursor)) \in {"string", "integer", "identifier"}
    BY DEF LiteralLoop
  <2> QED BY <1>3, <2>1, <2>2 DEF LexerTypeOK, BeginLiteral, BeginLexeme
<1>4. CASE ReturnSymbol
  <2> DEFINE isPair == Peek(cursor) \in PairChars /\ Peek(cursor + 1) = SecondChar(Peek(cursor))
  <2>1. cursor <= Len(source) /\ Len(source) \in Nat
    BY <1>1, <1>4, NulEndsSource DEF ReturnSymbol, LexerTypeOK
  <2>2. isPair => cursor + 1 <= Len(source)
    BY <2>1 DEF Peek, SecondChar, NUL, LexerTypeOK
  <2>3. cursor' = cursor + (IF isPair THEN 2 ELSE 1) /\ column' = column + (IF isPair THEN 2 ELSE 1)
    BY <1>4 DEF ReturnSymbol
  <2>4. pc' = "idle" /\ source' = source /\ line' = line /\ lexeme' = cursor
          /\ lexemeStartColumn' = column
    BY <1>4 DEF ReturnSymbol, Return, BeginLexeme
  <2>5. cursor' \in 1..Len(source) + 1 /\ cursor <= cursor' /\ column' \in 1..cursor'
    BY <2>1, <2>2, <2>3 DEF LexerTypeOK
  <2> HIDE DEF isPair
  <2> QED BY <2>4, <2>5 DEF LexerTypeOK
<1> QED BY <1>2, <1>3, <1>4

(* The loops over the characters of a literal.                             *)
LEMMA LiteralKeepsType ==
  ASSUME LexerTypeOK, StringLiteral \/ NumericLiteral \/ IdentifierLiteral
  PROVE  LexerTypeOK'
<1>1. NUL \notin Digits \cup Letters \cup {Quote, "."}
  BY CharsAssumption DEF Chars, PairChars
<1>2. CASE StringLiteral
  <2>1. CASE Peek(cursor) = Quote
    <3>1. cursor <= Len(source) /\ Len(source) \in Nat
      BY <1>1, <2>1, NulEndsSource DEF LexerTypeOK
    <3>2. /\ cursor' = cursor + 1 /\ column' = column + 1 /\ pc' = "idle"
          /\ UNCHANGED <<source, line, lexeme, lexemeStartColumn>>
      BY <1>1, <1>2, <2>1 DEF StringLiteral, Return, lexer_reached_end
    <3> QED BY <3>1, <3>2 DEF LexerTypeOK
  <2>2. CASE Peek(cursor) # Quote /\ lexer_reached_end
    BY <1>2, <2>2, MakeKeepsType DEF StringLiteral
  <2>3. CASE Peek(cursor) # Quote /\ ~lexer_reached_end
    <3>1. AdvanceTo("string") /\ line' \in {line, line + 1}
      BY <1>2, <2>3 DEF StringLiteral
    <3> QED BY <2>3, <3>1, AdvanceKeepsType DEF lexer_reached_end
  <2> QED BY <2>1, <2>2, <2>3
<1>3. CASE NumericLiteral
  <2>1. \/ \E type : Make(type)
        \/ /\ Peek(cursor) \in Digits \cup {"."}
           /\ \E next \in {"integer", "fraction"} : AdvanceTo(next)
           /\ line' = line
    BY <1>3 DEF NumericLiteral
  <2> QED BY <1>1, <2>1, AdvanceKeepsType, MakeKeepsType
<1>4. CASE IdentifierLiteral
  <2>1. \/ \E type : Make(type)
        \/ Peek(cursor) \in Digits \cup Letters /\ AdvanceTo("identifier") /\ line' = line
    BY <1>4 DEF IdentifierLiteral, can_constitute_identifier_literal
  <2> QED BY <1>1, <2>1, AdvanceKeepsType, MakeKeepsType
<1> QED BY <1>2, <1>3, <1>4

LEMMA StepKeepsType ==
  ASSUME LexerTypeOK, [LexerNext]_lexerVars
  PROVE  LexerTypeOK'
<1>1. CASE Scan
  BY <1>1 DEF Scan, LexerTypeOK, positionVars
<1>2. CASE UNCHANGED lexerVars
  BY <1>2 DEF lexerVars, LexerTypeOK
<1> QED BY <1>1, <1>2, SkippingKeepsType, BeginningKeepsType, LiteralKeepsType DEF LexerNext

LEMMA InitialLexer == LexerInit => LexerTypeOK
<1> SUFFICES ASSUME LexerInit PROVE LexerTypeOK
  OBVIOUS
<1>1. source \in Seq(Chars)
  BY CharsAssumption DEF LexerInit
<1>2. Len(source) \in Nat
  BY <1>1
<1> QED BY <1>2 DEF LexerInit, LexerTypeOK

(* The cursor never passes the NUL, in comments and unterminated strings   *)
(* neither (lexer.c 128-156, 222-248).                                     *)
THEOREM LexerStaysInSource == LexerSpec => []LexerTypeOK
<1>1. LexerTypeOK /\ [LexerNext]_lexerVars => LexerTypeOK'
  BY StepKeepsType
<1> QED BY InitialLexer, <1>1, PTL DEF LexerSpec

-----------------------------------------------------------------------------
(* What makes EOF last: it is returned on the NUL, and from there no step  *)
(* leads into a literal or a comment.                                      *)
AtEof == token.type = "EOF" => cursor = Len(source) + 1 /\ pc \in {"idle", "skip"}

LEMMA EofStep ==
  ASSUME LexerTypeOK, AtEof, [LexerNext]_lexerVars, token.type = "EOF"
  PROVE  token'.type = "EOF" /\ AtEof'
<1>1. Peek(cursor) = NUL /\ pc \in {"idle", "skip"}
  BY NulEndsSource DEF AtEof
<1>2. NUL \notin Spaces \cup {Newline, "#", Quote} \cup Digits \cup Letters
                  \cup SingleChars \cup PairChars \cup Others
  BY CharsAssumption DEF Chars
<1>3. Scan \/ ReturnEof \/ UNCHANGED lexerVars
  BY <1>1, <1>2 DEF LexerNext, SkipSpace, SkipNewline, BeginComment, SkipComment, BeginLiteral,
     ReturnSymbol, StringLiteral, NumericLiteral, IdentifierLiteral
<1>4. CASE Scan
  BY <1>4 DEF Scan, AtEof
<1>5. CASE ReturnEof
  BY <1>5 DEF ReturnEof, Return, Token, AtEof
<1>6. CASE UNCHANGED lexerVars
  BY <1>6 DEF lexerVars, AtEof
<1> QED BY <1>3, <1>4, <1>5, <1>6

(* A token that is not EOF is returned elsewhere.                          *)
LEMMA OtherStep ==
  ASSUME LexerTypeOK, token.type # "EOF", [LexerNext]_lexerVars
  PROVE  AtEof'
<1>1. CASE ReturnEof
  <2>1. cursor = Len(source) + 1
    BY <1>1, NulEndsSource DEF ReturnEof, lexer_reached_end
  <2> QED BY <1>1, <2>1 DEF ReturnEof, Return, AtEof
<1>2. CASE token' = token
  BY <1>2 DEF AtEof
<1>3. ASSUME NEW type, type # "EOF", NEW first, NEW next, NEW startColumn,
             Return(type, first, next, startColumn)
      PROVE  AtEof'
  BY <1>3 DEF Return, Token, AtEof
<1>4. ASSUME NEW type, type # "EOF", Make(type)
      PROVE  AtEof'
  BY <1>3, <1>4 DEF Make
<1>5. CASE Scan \/ SkipSpace \/ SkipNewline \/ BeginComment \/ SkipComment \/ BeginLiteral
  BY <1>2, <1>5 DEF Scan, SkipSpace, SkipNewline, BeginComment, SkipComment, BeginLiteral, AdvanceTo
<1>6. CASE ReturnSymbol
  <2>1. PICK type : Return(type, cursor, cursor', column)
                      /\ type \in {"ERROR"} \cup {PairType(c) : c \in PairChars}
                                   \cup {SingleType(c) : c \in SingleChars \cup PairChars}
    BY <1>6 DEF ReturnSymbol
  <2>2. type # "EOF"
    BY <2>1 DEF PairType, SingleType
  <2> QED BY <1>3, <2>1, <2>2
<1>7. CASE StringLiteral
  BY <1>2, <1>3, <1>4, <1>7 DEF StringLiteral, AdvanceTo
<1>8. CASE NumericLiteral
  BY <1>2, <1>4, <1>8 DEF NumericLiteral, AdvanceTo
<1>9. CASE IdentifierLiteral
  <2>1. IdentifierType(SubSeq(source, lexeme, cursor - 1)) # "EOF"
    <3> DEFINE word == SubSeq(source, lexeme, cursor - 1)
    <3>1. Trie(word).type # "EOF"
      BY DEF Trie, Leaf, NoLeaf
    <3> QED BY <3>1 DEF IdentifierType
  <2> QED BY <1>2, <1>4, <1>9, <2>1 DEF IdentifierLiteral, AdvanceTo
<1>10. CASE UNCHANGED lexerVars
  BY <1>2, <1>10 DEF lexerVars
<1> QED BY <1>1, <1>5, <1>6, <1>7, <1>8, <1>9, <1>10 DEF LexerNext

(* Once EOF has been returned it is returned for ever (lexer.c 274-276):   *)
(* the compiler, which may scan again, sees no other token.                *)
THEOREM EofLasts == LexerSpec => EofIsForEver
<1>1. LexerInit => LexerTypeOK /\ AtEof
  BY InitialLexer DEF LexerInit, AtEof, NoToken, Token
<1>2. LexerTypeOK /\ AtEof /\ [LexerNext]_lexerVars => LexerTypeOK' /\ AtEof'
  BY StepKeepsType, EofStep, OtherStep
<1>3. LexerTypeOK /\ AtEof /\ [LexerNext]_lexerVars
        => [token.type = "EOF" => token'.type = "EOF"]_lexerVars
  BY EofStep
<1> QED BY <1>1, <1>2, <1>3, PTL DEF LexerSpec, EofIsForEver

-----------------------------------------------------------------------------
(* A word of the source, character by character.                           *)
LEMMA WordOfSource ==
  ASSUME source \in Seq(Chars), NEW first \in 1..Len(source),
         NEW next \in first + 1..Len(source) + 1
  PROVE  /\ Word(first, next) \in Seq(Chars)
         /\ Len(Word(first, next)) = next - first
         /\ \A i \in 1..next - first : Word(first, next)[i] = source[first + i - 1]
         /\ \A i \in first..next - 1 : source[i] = Word(first, next)[i - first + 1]
<1>1. Len(source) \in Nat
  OBVIOUS
<1>2. Word(first, next) \in Seq(Chars)
  BY <1>1, SubSeqProperties DEF Word
<1>3. Len(Word(first, next)) = next - first
  BY <1>1, SubSeqProperties DEF Word
<1>4. \A i \in 1..next - first : Word(first, next)[i] = source[first + i - 1]
  BY <1>1, <1>3, SubSeqProperties DEF Word
<1>5. ASSUME NEW i \in first..next - 1
      PROVE  source[i] = Word(first, next)[i - first + 1]
  <2>1. i - first + 1 \in 1..next - first /\ first + (i - first + 1) - 1 = i
    BY <1>1
  <2> QED BY <1>4, <2>1
<1> QED BY <1>2, <1>3, <1>4, <1>5

(* What the words are, told by the source alone.                           *)
StringAt(first, next) ==
  /\ first + 2 <= next /\ source[first] = Quote /\ source[next - 1] = Quote
  /\ \A i \in first + 1..next - 2 : source[i] # Quote
NumberAt(first, next) ==
  \/ \A i \in first..next - 1 : source[i] \in Digits
  \/ \E point \in first + 1..next - 2 :
       source[point] = "." /\ \A i \in first..next - 1 : i # point => source[i] \in Digits
IdentifierAt(first, next) ==
  source[first] \in Letters /\ \A i \in first..next - 1 : source[i] \in Letters \cup Digits

LEMMA StringWords ==
  ASSUME source \in Seq(Chars), NEW first \in 1..Len(source),
         NEW next \in first + 1..Len(source) + 1
  PROVE  IsString(Word(first, next)) <=> StringAt(first, next)
<1> DEFINE word == Word(first, next)
<1>1. /\ Len(word) = next - first /\ Len(source) \in Nat
      /\ \A i \in 1..next - first : word[i] = source[first + i - 1]
      /\ \A i \in first..next - 1 : source[i] = word[i - first + 1]
  BY WordOfSource
<1> HIDE DEF word
<1>2. ASSUME IsString(word) PROVE StringAt(first, next)
  <2>1. next - first >= 2 /\ word[1] = Quote /\ word[next - first] = Quote
          /\ \A i \in 2..next - first - 1 : word[i] # Quote
    BY <1>1, <1>2 DEF IsString
  <2>2. source[first] = word[1] /\ source[next - 1] = word[next - first]
    BY <1>1, <2>1
  <2>3. \A i \in first + 1..next - 2 : i - first + 1 \in 2..next - first - 1 /\ source[i] = word[i - first + 1]
    BY <1>1, <2>1
  <2>4. \A i \in first + 1..next - 2 : source[i] # Quote
    BY <2>1, <2>3
  <2>5. first + 2 <= next
    BY <1>1, <2>1
  <2> QED BY <2>1, <2>2, <2>4, <2>5 DEF StringAt
<1>3. ASSUME StringAt(first, next) PROVE IsString(word)
  <2>1. next - first >= 2
    BY <1>3 DEF StringAt
  <2>2. word[1] = Quote /\ word[next - first] = Quote
    BY <1>1, <1>3, <2>1 DEF StringAt
  <2>3. \A i \in 2..next - first - 1 : first + i - 1 \in first + 1..next - 2 /\ word[i] = source[first + i - 1]
    BY <1>1, <2>1
  <2> QED BY <1>1, <1>3, <2>1, <2>2, <2>3 DEF IsString, StringAt
<1> QED BY <1>2, <1>3 DEF word

LEMMA NumberWords ==
  ASSUME source \in Seq(Chars), NEW first \in 1..Len(source),
         NEW next \in first + 1..Len(source) + 1
  PROVE  IsNumber(Word(first, next)) <=> NumberAt(first, next)
<1> DEFINE word == Word(first, next)
<1>1. /\ Len(word) = next - first /\ Len(source) \in Nat
      /\ \A i \in 1..next - first : word[i] = source[first + i - 1]
      /\ \A i \in first..next - 1 : source[i] = word[i - first + 1]
  BY WordOfSource
<1>a. /\ \A i \in 1..next - first : first + i - 1 \in first..next - 1
      /\ \A i \in first..next - 1 : i - first + 1 \in 1..next - first
  BY <1>1
<1> HIDE DEF word
<1>2. AllIn(word, Digits) <=> \A i \in first..next - 1 : source[i] \in Digits
  BY <1>1, <1>a DEF AllIn
<1>3. ASSUME NEW point \in 2..Len(word) - 1, word[point] = ".",
             \A i \in 1..Len(word) : i # point => word[i] \in Digits
      PROVE  NumberAt(first, next)
  <2> DEFINE p == first + point - 1
  <2>1. p \in first + 1..next - 2 /\ source[p] = "."
    BY <1>1, <1>3
  <2>2. \A i \in first..next - 1 : i # p => i - first + 1 # point
    BY <1>1, <1>3
  <2>3. \A i \in first..next - 1 : i # p => source[i] \in Digits
    BY <1>1, <1>a, <1>3, <2>2
  <2> QED BY <2>1, <2>3 DEF NumberAt
<1>4. ASSUME NEW p \in first + 1..next - 2, source[p] = ".",
             \A i \in first..next - 1 : i # p => source[i] \in Digits
      PROVE  IsNumber(word)
  <2> DEFINE point == p - first + 1
  <2>1. point \in 2..Len(word) - 1 /\ word[point] = "."
    BY <1>1, <1>4
  <2>2. \A i \in 1..next - first : i # point => first + i - 1 # p
    BY <1>1, <1>4
  <2>3. \A i \in 1..next - first : i # point => word[i] \in Digits
    BY <1>1, <1>a, <1>4, <2>2
  <2> QED BY <1>1, <2>1, <2>3 DEF IsNumber
<1>5. Len(word) >= 1
  BY <1>1
<1>6. IsNumber(word) => NumberAt(first, next)
  BY <1>2, <1>3 DEF IsNumber, NumberAt
<1>7. NumberAt(first, next) => IsNumber(word)
  BY <1>2, <1>4, <1>5 DEF IsNumber, NumberAt
<1> QED BY <1>6, <1>7 DEF word

LEMMA IdentifierWords ==
  ASSUME source \in Seq(Chars), NEW first \in 1..Len(source),
         NEW next \in first + 1..Len(source) + 1
  PROVE  IsIdentifier(Word(first, next)) <=> IdentifierAt(first, next)
<1> DEFINE word == Word(first, next)
<1>1. /\ Len(word) = next - first /\ Len(source) \in Nat
      /\ \A i \in 1..next - first : word[i] = source[first + i - 1]
      /\ \A i \in first..next - 1 : source[i] = word[i - first + 1]
  BY WordOfSource
<1>2. /\ \A i \in 1..next - first : first + i - 1 \in first..next - 1
      /\ \A i \in first..next - 1 : i - first + 1 \in 1..next - first
  BY <1>1
<1> HIDE DEF word
<1>3. AllIn(word, Letters \cup Digits) <=> \A i \in first..next - 1 : source[i] \in Letters \cup Digits
  BY <1>1, <1>2 DEF AllIn
<1>4. Len(word) >= 1 /\ word[1] = source[first]
  BY <1>1
<1> HIDE DEF AllIn
<1>5. IsIdentifier(word) <=> IdentifierAt(first, next)
  BY <1>3, <1>4 DEF IsIdentifier, IdentifierAt
<1> QED BY <1>5 DEF word

(* What a leaf of the trie matches: its stem, which led to it, and its rest.*)
Begins(word, stem) == Len(word) >= Len(stem) /\ \A i \in 1..Len(stem) : word[i] = stem[i]
Continues(word, n, rest) ==
  Len(word) = n + Len(rest) /\ \A i \in 1..Len(rest) : word[n + i] = rest[i]

LEMMA LeafWords ==
  ASSUME NEW S, NEW word \in Seq(S), NEW stem \in Seq(S), NEW rest \in Seq(S), NEW k,
         k # "IDENTIFIER",
         Trie(word).type = k => Begins(word, stem),
         Begins(word, stem) => Trie(word) = Leaf(Len(stem), rest, k)
  PROVE  IdentifierType(word) = k <=> Begins(word, stem) /\ Continues(word, Len(stem), rest)
<1> DEFINE leaf == Trie(word)
           matched == /\ Len(word) = leaf.begin + Len(leaf.rest)
                      /\ SubSeq(word, leaf.begin + 1, Len(word)) = leaf.rest
<1>1. IdentifierType(word) = IF matched THEN leaf.type ELSE "IDENTIFIER"
  BY DEF IdentifierType
<1>2. Len(word) \in Nat /\ Len(stem) \in Nat /\ Len(rest) \in Nat
  OBVIOUS
<1>3. CASE Begins(word, stem)
  <2>1. leaf.begin = Len(stem) /\ leaf.rest = rest /\ leaf.type = k
    BY <1>3 DEF Leaf
  <2>2. CASE Len(word) = Len(stem) + Len(rest)
    <3> DEFINE end == SubSeq(word, Len(stem) + 1, Len(word))
    <3>1. end \in Seq(S) /\ Len(end) = Len(rest)
      BY <1>2, <2>2, SubSeqProperties
    <3>2. \A i \in 1..Len(rest) : end[i] = word[Len(stem) + i]
      BY <1>2, <2>2, <3>1, SubSeqProperties
    <3> HIDE DEF end
    <3>3. end = rest => Continues(word, Len(stem), rest)
      BY <2>2, <3>2 DEF Continues
    <3>4. Continues(word, Len(stem), rest) => end = rest
      BY <1>2, <3>1, <3>2, SeqEqual DEF Continues
    <3>5. matched <=> end = rest
      BY <2>1, <2>2 DEF end
    <3> QED BY <1>1, <1>3, <2>1, <3>3, <3>4, <3>5
  <2>3. CASE Len(word) # Len(stem) + Len(rest)
    BY <1>1, <2>1, <2>3 DEF Continues
  <2> QED BY <2>2, <2>3
<1>4. CASE ~Begins(word, stem)
  BY <1>1, <1>4
<1> QED BY <1>3, <1>4

Alphabet == {"a", "c", "d", "e", "f", "h", "i", "l", "n", "o", "p", "r", "s", "t", "u", "v", "w"}

(* The trie knows the keywords: a word is taken for a keyword exactly when *)
(* it is spelled like it.                                                  *)
LEMMA TrieWords ==
  ASSUME NEW S, NEW word \in Seq(S), Len(word) >= 1, NEW k \in Keywords
  PROVE  IdentifierType(word) = k <=> Spelling(k) = word
<1> DEFINE T == S \cup Alphabet
<1>0. word \in Seq(T) /\ Len(word) \in Nat
  BY SeqMonotonic
<1>a. Alphabet \subseteq T
  OBVIOUS
<1> HIDE DEF T
<1>1. CASE k = "AND"
  <2> DEFINE stem == <<"a">>
             rest == <<"n", "d">>
  <2>1. stem \in Seq(T) /\ rest \in Seq(T)
    <3>1. "a" \in T /\ "d" \in T /\ "n" \in T
      BY <1>a DEF Alphabet
    <3> QED BY <3>1
  <2>2. Begins(word, stem) <=> word[1] = "a"
    BY <1>0 DEF Begins
  <2>3. Trie(word).type = k => Begins(word, stem)
    BY <1>1, <2>2 DEF Trie, Leaf, NoLeaf
  <2>4. Begins(word, stem) => Trie(word) = Leaf(Len(stem), rest, k)
    BY <1>1, <2>2 DEF Trie
  <2>5. IdentifierType(word) = k <=> Begins(word, stem) /\ Continues(word, Len(stem), rest)
    BY <1>0, <1>1, <2>1, <2>3, <2>4, LeafWords
  <2>6. IdentifierType(word) = k
          <=> Len(word) = 3 /\ word[1] = "a" /\ word[2] = "n" /\ word[3] = "d"
    BY <1>0, <2>2, <2>5 DEF Continues
  <2> QED BY <1>0, <1>1, <2>6 DEF Spelling
<1>2. CASE k = "CLASS"
  <2> DEFINE stem == <<"c">>
             rest == <<"l", "a", "s", "s">>
  <2>1. stem \in Seq(T) /\ rest \in Seq(T)
    <3>1. "a" \in T /\ "c" \in T /\ "l" \in T /\ "s" \in T
      BY <1>a DEF Alphabet
    <3> QED BY <3>1
  <2>2. Begins(word, stem) <=> word[1] = "c"
    BY <1>0 DEF Begins
  <2>3. Trie(word).type = k => Begins(word, stem)
    BY <1>2, <2>2 DEF Trie, Leaf, NoLeaf
  <2>4. Begins(word, stem) => Trie(word) = Leaf(Len(stem), rest, k)
    BY <1>2, <2>2 DEF Trie
  <2>5. IdentifierType(word) = k <=> Begins(word, stem) /\ Continues(word, Len(stem), rest)
    BY <1>0, <1>2, <2>1, <2>3, <2>4, LeafWords
  <2>6. IdentifierType(word) = k
          <=> Len(word) = 5 /\ word[1] = "c" /\ word[2] = "l"
            /\ word[3] = "a" /\ word[4] = "s" /\ word[5] = "s"
    BY <1>0, <2>2, <2>5 DEF Continues
  <2> QED BY <1>0, <1>2, <2>6 DEF Spelling
<1>3. CASE k = "ELSE"
  <2> DEFINE stem == <<"e">>
             rest == <<"l", "s", "e">>
  <2>1. stem \in Seq(T) /\ rest \in Seq(T)
    <3>1. "e" \in T /\ "l" \in T /\ "s" \in T
      BY <1>a DEF Alphabet
    <3> QED BY <3>1
  <2>2. Begins(word, stem) <=> word[1] = "e"
    BY <1>0 DEF Begins
  <2>3. Trie(word).type = k => Begins(word, stem)
    BY <1>3, <2>2 DEF Trie, Leaf, NoLeaf
  <2>4. Begins(word, stem) => Trie(word) = Leaf(Len(stem), rest, k)
    BY <1>3, <2>2 DEF Trie
  <2>5. IdentifierType(word) = k <=> Begins(word, stem) /\ Continues(word, Len(stem), rest)
    BY <1>0, <1>3, <2>1, <2>3, <2>4, LeafWords
  <2>6. IdentifierType(word) = k
          <=> Len(word) = 4 /\ word[1] = "e" /\ word[2] = "l" /\ word[3] = "s" /\ word[4] = "e"
    BY <1>0, <2>2, <2>5 DEF Continues
  <2> QED BY <1>0, <1>3, <2>6 DEF Spelling
<1>4. CASE k = "FALSE"
  <2> DEFINE stem == <<"f", "a">>
             rest == <<"l", "s", "e">>
  <2>1. stem \in Seq(T) /\ rest \in Seq(T)
    <3>1. "a" \in T /\ "e" \in T /\ "f" \in T /\ "l" \in T /\ "s" \in T
      BY <1>a DEF Alphabet
    <3> QED BY <3>1
  <2>2. Begins(word, stem) <=> Len(word) > 1 /\ word[1] = "f" /\ word[2] = "a"
    BY <1>0 DEF Begins
  <2>3. Trie(word).type = k => Begins(word, stem)
    BY <1>4, <2>2 DEF Trie, Leaf, NoLeaf
  <2>4. Begins(word, stem) => Trie(word) = Leaf(Len(stem), rest, k)
    BY <1>4, <2>2 DEF Trie
  <2>5. IdentifierType(word) = k <=> Begins(word, stem) /\ Continues(word, Len(stem), rest)
    BY <1>0, <1>4, <2>1, <2>3, <2>4, LeafWords
  <2>6. IdentifierType(word) = k
          <=> Len(word) = 5 /\ word[1] = "f" /\ word[2] = "a"
            /\ word[3] = "l" /\ word[4] = "s" /\ word[5] = "e"
    BY <1>0, <2>2, <2>5 DEF Continues
  <2> QED BY <1>0, <1>4, <2>6 DEF Spelling
<1>5. CASE k = "FOR"
  <2> DEFINE stem == <<"f", "o">>
             rest == <<"r">>
  <2>1. stem \in Seq(T) /\ rest \in Seq(T)
    <3>1. "f" \in T /\ "o" \in T /\ "r" \in T
      BY <1>a DEF Alphabet
    <3> QED BY <3>1
  <2>2. Begins(word, stem) <=> Len(word) > 1 /\ word[1] = "f" /\ word[2] = "o"
    BY <1>0 DEF Begins
  <2>3. Trie(word).type = k => Begins(word, stem)
    BY <1>5, <2>2 DEF Trie, Leaf, NoLeaf
  <2>4. Begins(word, stem) => Trie(word) = Leaf(Len(stem), rest, k)
    BY <1>5, <2>2 DEF Trie
  <2>5. IdentifierType(word) = k <=> Begins(word, stem) /\ Continues(word, Len(stem), rest)
    BY <1>0, <1>5, <2>1, <2>3, <2>4, LeafWords
  <2>6. IdentifierType(word) = k
          <=> Len(word) = 3 /\ word[1] = "f" /\ word[2] = "o" /\ word[3] = "r"
    BY <1>0, <2>2, <2>5 DEF Continues
  <2> QED BY <1>0, <1>5, <2>6 DEF Spelling
<1>6. CASE k = "FUN"
  <2> DEFINE stem == <<"f", "u">>
             rest == <<"n">>
  <2>1. stem \in Seq(T) /\ rest \in Seq(T)
    <3>1. "f" \in T /\ "n" \in T /\ "u" \in T
      BY <1>a DEF Alphabet
    <3> QED BY <3>1
  <2>2. Begins(word, stem) <=> Len(word) > 1 /\ word[1] = "f" /\ word[2] = "u"
    BY <1>0 DEF Begins
  <2>3. Trie(word).type = k => Begins(word, stem)
    BY <1>6, <2>2 DEF Trie, Leaf, NoLeaf
  <2>4. Begins(word, stem) => Trie(word) = Leaf(Len(stem), rest, k)
    BY <1>6, <2>2 DEF Trie
  <2>5. IdentifierType(word) = k <=> Begins(word, stem) /\ Continues(word, Len(stem), rest)
    BY <1>0, <1>6, <2>1, <2>3, <2>4, LeafWords
  <2>6. IdentifierType(word) = k
          <=> Len(word) = 3 /\ word[1] = "f" /\ word[2] = "u" /\ word[3] = "n"
    BY <1>0, <2>2, <2>5 DEF Continues
  <2> QED BY <1>0, <1>6, <2>6 DEF Spelling
<1>7. CASE k = "IF"
  <2> DEFINE stem == <<"i">>
             rest == <<"f">>
  <2>1. stem \in Seq(T) /\ rest \in Seq(T)
    <3>1. "f" \in T /\ "i" \in T
      BY <1>a DEF Alphabet
    <3> QED BY <3>1
  <2>2. Begins(word, stem) <=> word[1] = "i"
    BY <1>0 DEF Begins
  <2>3. Trie(word).type = k => Begins(word, stem)
    BY <1>7, <2>2 DEF Trie, Leaf, NoLeaf
  <2>4. Begins(word, stem) => Trie(word) = Leaf(Len(stem), rest, k)
    BY <1>7, <2>2 DEF Trie
  <2>5. IdentifierType(word) = k <=> Begins(word, stem) /\ Continues(word, Len(stem), rest)
    BY <1>0, <1>7, <2>1, <2>3, <2>4, LeafWords
  <2>6. IdentifierType(word) = k
          <=> Len(word) = 2 /\ word[1] = "i" /\ word[2] = "f"
    BY <1>0, <2>2, <2>5 DEF Continues
  <2> QED BY <1>0, <1>7, <2>6 DEF Spelling
<1>8. CASE k = "NIL"
  <2> DEFINE stem == <<"n">>
             rest == <<"i", "l">>
  <2>1. stem \in Seq(T) /\ rest \in Seq(T)
    <3>1. "i" \in T /\ "l" \in T /\ "n" \in T
      BY <1>a DEF Alphabet
    <3> QED BY <3>1
  <2>2. Begins(word, stem) <=> word[1] = "n"
    BY <1>0 DEF Begins
  <2>3. Trie(word).type = k => Begins(word, stem)
    BY <1>8, <2>2 DEF Trie, Leaf, NoLeaf
  <2>4. Begins(word, stem) => Trie(word) = Leaf(Len(stem), rest, k)
    BY <1>8, <2>2 DEF Trie
  <2>5. IdentifierType(word) = k <=> Begins(word, stem) /\ Continues(word, Len(stem), rest)
    BY <1>0, <1>8, <2>1, <2>3, <2>4, LeafWords
  <2>6. IdentifierType(word) = k
          <=> Len(word) = 3 /\ word[1] = "n" /\ word[2] = "i" /\ word[3] = "l"
    BY <1>0, <2>2, <2>5 DEF Continues
  <2> QED BY <1>0, <1>8, <2>6 DEF Spelling
<1>9. CASE k = "OR"
  <2> DEFINE stem == <<"o">>
             rest == <<"r">>
  <2>1. stem \in Seq(T) /\ rest \in Seq(T)
    <3>1. "o" \in T /\ "r" \in T
      BY <1>a DEF Alphabet
    <3> QED BY <3>1
  <2>2. Begins(word, stem) <=> word[1] = "o"
    BY <1>0 DEF Begins
  <2>3. Trie(word).type = k => Begins(word, stem)
    BY <1>9, <2>2 DEF Trie, Leaf, NoLeaf
  <2>4. Begins(word, stem) => Trie(word) = Leaf(Len(stem), rest, k)
    BY <1>9, <2>2 DEF Trie
  <2>5. IdentifierType(word) = k <=> Begins(word, stem) /\ Continues(word, Len(stem), rest)
    BY <1>0, <1>9, <2>1, <2>3, <2>4, LeafWords
  <2>6. IdentifierType(word) = k
          <=> Len(word) = 2 /\ word[1] = "o" /\ word[2] = "r"
    BY <1>0, <2>2, <2>5 DEF Continues
  <2> QED BY <1>0, <1>9, <2>6 DEF Spelling
<1>10. CASE k = "PRINT"
  <2> DEFINE stem == <<"p">>
             rest == <<"r", "i", "n", "t">>
  <2>1. stem \in Seq(T) /\ rest \in Seq(T)
    <3>1. "i" \in T /\ "n" \in T /\ "p" \in T /\ "r" \in T /\ "t" \in T
      BY <1>a DEF Alphabet
    <3> QED BY <3>1
  <2>2. Begins(word, stem) <=> word[1] = "p"
    BY <1>0 DEF Begins
  <2>3. Trie(word).type = k => Begins(word, stem)
    BY <1>10, <2>2 DEF Trie, Leaf, NoLeaf
  <2>4. Begins(word, stem) => Trie(word) = Leaf(Len(stem), rest, k)
    BY <1>10, <2>2 DEF Trie
  <2>5. IdentifierType(word) = k <=> Begins(word, stem) /\ Continues(word, Len(stem), rest)
    BY <1>0, <1>10, <2>1, <2>3, <2>4, LeafWords
  <2>6. IdentifierType(word) = k
          <=> Len(word) = 5 /\ word[1] = "p" /\ word[2] = "r"
            /\ word[3] = "i" /\ word[4] = "n" /\ word[5] = "t"
    BY <1>0, <2>2, <2>5 DEF Continues
  <2> QED BY <1>0, <1>10, <2>6 DEF Spelling
<1>11. CASE k = "RETURN"
  <2> DEFINE stem == <<"r">>
             rest == <<"e", "t", "u", "r", "n">>
  <2>1. stem \in Seq(T) /\ rest \in Seq(T)
    <3>1. "e" \in T /\ "n" \in T /\ "r" \in T /\ "t" \in T /\ "u" \in T
      BY <1>a DEF Alphabet
    <3> QED BY <3>1
  <2>2. Begins(word, stem) <=> word[1] = "r"
    BY <1>0 DEF Begins
  <2>3. Trie(word).type = k => Begins(word, stem)
    BY <1>11, <2>2 DEF Trie, Leaf, NoLeaf
  <2>4. Begins(word, stem) => Trie(word) = Leaf(Len(stem), rest, k)
    BY <1>11, <2>2 DEF Trie
  <2>5. IdentifierType(word) = k <=> Begins(word, stem) /\ Continues(word, Len(stem), rest)
    BY <1>0, <1>11, <2>1, <2>3, <2>4, LeafWords
  <2>6. IdentifierType(word) = k
          <=> Len(word) = 6 /\ word[1] = "r" /\ word[2] = "e"
            /\ word[3] = "t" /\ word[4] = "u" /\ word[5] = "r" /\ word[6] = "n"
    BY <1>0, <2>2, <2>5 DEF Continues
  <2> QED BY <1>0, <1>11, <2>6 DEF Spelling
<1>12. CASE k = "SUPER"
  <2> DEFINE stem == <<"s">>
             rest == <<"u", "p", "e", "r">>
  <2>1. stem \in Seq(T) /\ rest \in Seq(T)
    <3>1. "e" \in T /\ "p" \in T /\ "r" \in T /\ "s" \in T /\ "u" \in T
      BY <1>a DEF Alphabet
    <3> QED BY <3>1
  <2>2. Begins(word, stem) <=> word[1] = "s"
    BY <1>0 DEF Begins
  <2>3. Trie(word).type = k => Begins(word, stem)
    BY <1>12, <2>2 DEF Trie, Leaf, NoLeaf
  <2>4. Begins(word, stem) => Trie(word) = Leaf(Len(stem), rest, k)
    BY <1>12, <2>2 DEF Trie
  <2>5. IdentifierType(word) = k <=> Begins(word, stem) /\ Continues(word, Len(stem), rest)
    BY <1>0, <1>12, <2>1, <2>3, <2>4, LeafWords
  <2>6. IdentifierType(word) = k
          <=> Len(word) = 5 /\ word[1] = "s" /\ word[2] = "u"
            /\ word[3] = "p" /\ word[4] = "e" /\ word[5] = "r"
    BY <1>0, <2>2, <2>5 DEF Continues
  <2> QED BY <1>0, <1>12, <2>6 DEF Spelling
<1>13. CASE k = "THIS"
  <2> DEFINE stem == <<"t", "h">>
             rest == <<"i", "s">>
  <2>1. stem \in Seq(T) /\ rest \in Seq(T)
    <3>1. "h" \in T /\ "i" \in T /\ "s" \in T /\ "t" \in T
      BY <1>a DEF Alphabet
    <3> QED BY <3>1
  <2>2. Begins(word, stem) <=> Len(word) > 1 /\ word[1] = "t" /\ word[2] = "h"
    BY <1>0 DEF Begins
  <2>3. Trie(word).type = k => Begins(word, stem)
    BY <1>13, <2>2 DEF Trie, Leaf, NoLeaf
  <2>4. Begins(word, stem) => Trie(word) = Leaf(Len(stem), rest, k)
    BY <1>13, <2>2 DEF Trie
  <2>5. IdentifierType(word) = k <=> Begins(word, stem) /\ Continues(word, Len(stem), rest)
    BY <1>0, <1>13, <2>1, <2>3, <2>4, LeafWords
  <2>6. IdentifierType(word) = k
          <=> Len(word) = 4 /\ word[1] = "t" /\ word[2] = "h" /\ word[3] = "i" /\ word[4] = "s"
    BY <1>0, <2>2, <2>5 DEF Continues
  <2> QED BY <1>0, <1>13, <2>6 DEF Spelling
<1>14. CASE k = "TRUE"
  <2> DEFINE stem == <<"t", "r">>
             rest == <<"u", "e">>
  <2>1. stem \in Seq(T) /\ rest \in Seq(T)
    <3>1. "e" \in T /\ "r" \in T /\ "t" \in T /\ "u" \in T
      BY <1>a DEF Alphabet
    <3> QED BY <3>1
  <2>2. Begins(word, stem) <=> Len(word) > 1 /\ word[1] = "t" /\ word[2] = "r"
    BY <1>0 DEF Begins
  <2>3. Trie(word).type = k => Begins(word, stem)
    BY <1>14, <2>2 DEF Trie, Leaf, NoLeaf
  <2>4. Begins(word, stem) => Trie(word) = Leaf(Len(stem), rest, k)
    BY <1>14, <2>2 DEF Trie
  <2>5. IdentifierType(word) = k <=> Begins(word, stem) /\ Continues(word, Len(stem), rest)
    BY <1>0, <1>14, <2>1, <2>3, <2>4, LeafWords
  <2>6. IdentifierType(word) = k
          <=> Len(word) = 4 /\ word[1] = "t" /\ word[2] = "r" /\ word[3] = "u" /\ word[4] = "e"
    BY <1>0, <2>2, <2>5 DEF Continues
  <2> QED BY <1>0, <1>14, <2>6 DEF Spelling
<1>15. CASE k = "VAR"
  <2> DEFINE stem == <<"v">>
             rest == <<"a", "r">>
  <2>1. stem \in Seq(T) /\ rest \in Seq(T)
    <3>1. "a" \in T /\ "r" \in T /\ "v" \in T
      BY <1>a DEF Alphabet
    <3> QED BY <3>1
  <2>2. Begins(word, stem) <=> word[1] = "v"
    BY <1>0 DEF Begins
  <2>3. Trie(word).type = k => Begins(word, stem)
    BY <1>15, <2>2 DEF Trie, Leaf, NoLeaf
  <2>4. Begins(word, stem) => Trie(word) = Leaf(Len(stem), rest, k)
    BY <1>15, <2>2 DEF Trie
  <2>5. IdentifierType(word) = k <=> Begins(word, stem) /\ Continues(word, Len(stem), rest)
    BY <1>0, <1>15, <2>1, <2>3, <2>4, LeafWords
  <2>6. IdentifierType(word) = k
          <=> Len(word) = 3 /\ word[1] = "v" /\ word[2] = "a" /\ word[3] = "r"
    BY <1>0, <2>2, <2>5 DEF Continues
  <2> QED BY <1>0, <1>15, <2>6 DEF Spelling
<1>16. CASE k = "WHILE"
  <2> DEFINE stem == <<"w">>
             rest == <<"h", "i", "l", "e">>
  <2>1. stem \in Seq(T) /\ rest \in Seq(T)
    <3>1. "e" \in T /\ "h" \in T /\ "i" \in T /\ "l" \in T /\ "w" \in T
      BY <1>a DEF Alphabet
    <3> QED BY <3>1
  <2>2. Begins(word, stem) <=> word[1] = "w"
    BY <1>0 DEF Begins
  <2>3. Trie(word).type = k => Begins(word, stem)
    BY <1>16, <2>2 DEF Trie, Leaf, NoLeaf
  <2>4. Begins(word, stem) => Trie(word) = Leaf(Len(stem), rest, k)
    BY <1>16, <2>2 DEF Trie
  <2>5. IdentifierType(word) = k <=> Begins(word, stem) /\ Continues(word, Len(stem), rest)
    BY <1>0, <1>16, <2>1, <2>3, <2>4, LeafWords
  <2>6. IdentifierType(word) = k
          <=> Len(word) = 5 /\ word[1] = "w" /\ word[2] = "h"
            /\ word[3] = "i" /\ word[4] = "l" /\ word[5] = "e"
    BY <1>0, <2>2, <2>5 DEF Continues
  <2> QED BY <1>0, <1>16, <2>6 DEF Spelling
<1> QED BY <1>1, <1>2, <1>3, <1>4, <1>5, <1>6, <1>7, <1>8, <1>9, <1>10, <1>11, <1>12, <1>13, <1>14, <1>15, <1>16 DEF Keywords

(* The character a word begins with tells which kinds of token it can be.  *)
LEMMA WordsByFirst ==
  ASSUME source \in Seq(Chars), NEW first \in 1..Len(source),
         NEW next \in first + 1..Len(source) + 1
  PROVE  /\ source[first] = Quote =>
              TypesOf(Word(first, next)) = IF StringAt(first, next) THEN {"STRING"} ELSE {}
         /\ source[first] \in Digits =>
              TypesOf(Word(first, next)) = IF NumberAt(first, next) THEN {"NUMBER"} ELSE {}
         /\ source[first] \in Letters =>
              TypesOf(Word(first, next)) =
                IF IdentifierAt(first, next) THEN {IdentifierType(Word(first, next))} ELSE {}
         /\ source[first] \in Others => TypesOf(Word(first, next)) = {}
         /\ source[first] \in SingleChars \cup PairChars =>
              TypesOf(Word(first, next)) =
                (IF next = first + 1 THEN {SingleType(source[first])} ELSE {})
                  \cup (IF /\ next = first + 2 /\ source[first] \in PairChars
                           /\ source[first + 1] = SecondChar(source[first])
                        THEN {PairType(source[first])} ELSE {})
<1> DEFINE word == Word(first, next)
<1>1. /\ word \in Seq(Chars) /\ Len(word) = next - first /\ Len(source) \in Nat
      /\ \A i \in 1..next - first : word[i] = source[first + i - 1]
  BY WordOfSource
<1>2. Len(word) >= 1 /\ word[1] = source[first]
  BY <1>1
<1>3. Len(word) = 1 <=> next = first + 1
  BY <1>1
<1>4. Len(word) = 2 <=> next = first + 2
  BY <1>1
<1>5. Len(word) = 2 => word[2] = source[first + 1]
  <2> SUFFICES ASSUME Len(word) = 2 PROVE word[2] = source[first + 1]
    OBVIOUS
  <2>1. next - first = 2
    BY <1>1
  <2>2. first + 2 - 1 = first + 1
    OBVIOUS
  <2> HIDE DEF word
  <2> QED BY <1>1, <2>1, <2>2
<1>6. /\ IsString(word) <=> StringAt(first, next)
      /\ IsNumber(word) <=> NumberAt(first, next)
      /\ IsIdentifier(word) <=> IdentifierAt(first, next)
  BY StringWords, NumberWords, IdentifierWords
<1>7. /\ IsString(word) => word[1] = Quote
      /\ IsIdentifier(word) => word[1] \in Letters
      /\ Len(word) = 1 => (AllIn(word, SingleChars \cup PairChars) <=> word[1] \in SingleChars \cup PairChars)
  BY DEF IsString, IsIdentifier, AllIn
<1>8. IsNumber(word) => word[1] \in Digits
  BY <1>1, <1>2 DEF IsNumber, AllIn
<1>9. IF \E k \in Keywords : Spelling(k) = word
      THEN {k \in Keywords : Spelling(k) = word} = {IdentifierType(word)}
      ELSE IdentifierType(word) = "IDENTIFIER"
  <2>1. \A k \in Keywords : Spelling(k) = word <=> IdentifierType(word) = k
    BY <1>1, <1>2, TrieWords
  <2>2. IdentifierType(word) \in Keywords \cup {"IDENTIFIER"}
    <3>1. Trie(word).type \in Keywords \cup {"IDENTIFIER"}
      BY DEF Trie, Leaf, NoLeaf, Keywords
    <3> QED BY <3>1 DEF IdentifierType
  <2>3. "IDENTIFIER" \notin Keywords
    BY DEF Keywords
  <2> QED BY <2>1, <2>2, <2>3
<1> DEFINE letters == IF \E k \in Keywords : Spelling(k) = word
                      THEN {k \in Keywords : Spelling(k) = word} ELSE {"IDENTIFIER"}
<1>10. letters = {IdentifierType(word)}
  BY <1>9
<1>11. TypesOf(word) =
         (IF IsString(word) THEN {"STRING"} ELSE {})
           \cup (IF IsNumber(word) THEN {"NUMBER"} ELSE {})
           \cup (IF IsIdentifier(word) THEN letters ELSE {})
           \cup (IF Len(word) = 1 /\ AllIn(word, SingleChars \cup PairChars)
                 THEN {SingleType(word[1])} ELSE {})
           \cup (IF Len(word) = 2 /\ word[1] \in PairChars /\ word[2] = SecondChar(word[1])
                 THEN {PairType(word[1])} ELSE {})
  BY DEF TypesOf
<1>12. /\ Quote \notin Digits \cup Letters \cup Others \cup SingleChars \cup PairChars
       /\ Digits \cap (Letters \cup Others \cup SingleChars \cup PairChars) = {}
       /\ Letters \cap (Others \cup SingleChars \cup PairChars) = {}
       /\ Others \cap (SingleChars \cup PairChars) = {}
  BY CharsAssumption DEF Quote, SingleChars, PairChars
<1> HIDE DEF word, letters
<1> DEFINE f == source[first]
<1>13. CASE f = Quote
  BY <1>2, <1>3, <1>4, <1>5, <1>6, <1>7, <1>8, <1>11, <1>12, <1>13 DEF word
<1>14. CASE f \in Digits
  BY <1>2, <1>3, <1>4, <1>5, <1>6, <1>7, <1>8, <1>11, <1>12, <1>14 DEF word
<1>15. CASE f \in Letters
  BY <1>2, <1>3, <1>4, <1>5, <1>6, <1>7, <1>8, <1>10, <1>11, <1>12, <1>15 DEF word
<1>16. CASE f \in Others
  BY <1>2, <1>3, <1>4, <1>5, <1>6, <1>7, <1>8, <1>11, <1>12, <1>16 DEF word
<1>17. CASE f \in SingleChars \cup PairChars
  <2>1. ~IsString(word) /\ ~IsNumber(word) /\ ~IsIdentifier(word)
    BY <1>2, <1>7, <1>8, <1>12, <1>17
  <2>2. Len(word) = 1 /\ AllIn(word, SingleChars \cup PairChars) <=> next = first + 1
    BY <1>2, <1>3, <1>7, <1>17
  <2>3. Len(word) = 2 /\ word[1] \in PairChars /\ word[2] = SecondChar(word[1])
          <=> /\ next = first + 2 /\ f \in PairChars
              /\ source[first + 1] = SecondChar(f)
    BY <1>2, <1>4, <1>5
  <2>4. TypesOf(word) = (IF next = first + 1 THEN {SingleType(f)} ELSE {})
                  \cup (IF /\ next = first + 2 /\ f \in PairChars
                           /\ source[first + 1] = SecondChar(f)
                        THEN {PairType(f)} ELSE {})
    BY <1>2, <1>11, <2>1, <2>2, <2>3
  <2>5. f # Quote /\ f \notin Digits /\ f \notin Letters /\ f \notin Others
    BY <1>12, <1>17
  <2> QED BY <2>4, <2>5 DEF word
<1> QED BY <1>13, <1>14, <1>15, <1>16, <1>17

(* A token is the longest word, or an error where no word begins.          *)
LEMMA LongestWord ==
  ASSUME NEW t, t.next \in Ends(t.first), \A next \in Ends(t.first) : next <= t.next,
         t.type \in TypesOf(Word(t.first, t.next))
  PROVE  IsLongest(t)
<1>1. Ends(t.first) # {}
  OBVIOUS
<1> QED BY <1>1 DEF IsLongest

LEMMA StringToken ==
  ASSUME source \in Seq(Chars), NEW first \in 1..Len(source), NEW last \in first + 1..Len(source),
         source[first] = Quote, source[last] = Quote,
         \A i \in first + 1..last - 1 : source[i] # Quote,
         NEW l, NEW c
  PROVE  IsLongest(Token("STRING", first, last + 1, l, c))
<1> DEFINE t == Token("STRING", first, last + 1, l, c)
<1>1. Len(source) \in Nat
  OBVIOUS
<1>2. t.type = "STRING" /\ t.first = first /\ t.next = last + 1
  BY DEF Token
<1>3. \A next \in first + 1..Len(source) + 1 :
        TypesOf(Word(first, next)) = IF StringAt(first, next) THEN {"STRING"} ELSE {}
  BY WordsByFirst
<1>4. last + 1 \in first + 1..Len(source) + 1 /\ StringAt(first, last + 1)
  <2>1. last + 1 - 2 = last - 1 /\ last + 1 - 1 = last /\ first + 2 <= last + 1
    BY <1>1
  <2> QED BY <1>1, <2>1 DEF StringAt
<1>5. ASSUME NEW next \in Ends(first) PROVE next <= last + 1
  <2>1. next \in first + 1..Len(source) + 1 /\ StringAt(first, next)
    BY <1>3, <1>5 DEF Ends
  <2> SUFFICES ASSUME next > last + 1 PROVE FALSE
    BY <1>1, <2>1
  <2>2. last \in first + 1..next - 2
    BY <1>1, <2>1
  <2> QED BY <2>1, <2>2 DEF StringAt
<1>6. last + 1 \in Ends(first) /\ "STRING" \in TypesOf(Word(first, last + 1))
  BY <1>3, <1>4 DEF Ends
<1> HIDE DEF t
<1> QED BY <1>2, <1>5, <1>6, LongestWord DEF t

LEMMA UnterminatedToken ==
  ASSUME source \in Seq(Chars), NEW first \in 1..Len(source), source[first] = Quote,
         \A i \in first + 1..Len(source) : source[i] # Quote,
         NEW l, NEW c
  PROVE  IsLongest(Token("ERROR", first, Len(source) + 1, l, c))
<1>1. Len(source) \in Nat
  OBVIOUS
<1>2. \A next \in first + 1..Len(source) + 1 :
        TypesOf(Word(first, next)) = IF StringAt(first, next) THEN {"STRING"} ELSE {}
  BY WordsByFirst
<1>3. ASSUME NEW next \in first + 1..Len(source) + 1 PROVE ~StringAt(first, next)
  <2> SUFFICES ASSUME StringAt(first, next) PROVE FALSE
    OBVIOUS
  <2>1. next - 1 \in first + 1..Len(source)
    BY <1>1 DEF StringAt
  <2> QED BY <2>1 DEF StringAt
<1>4. Ends(first) = {}
  BY <1>2, <1>3 DEF Ends
<1> QED BY <1>4 DEF Token, IsLongest

(* The digits that follow are read, and a point with digits behind it.     *)
LEMMA NumberToken ==
  ASSUME source \in Seq(Chars), NEW first \in 1..Len(source),
         NEW next \in first + 1..Len(source) + 1,
         source[first] \in Digits, NumberAt(first, next),
         next <= Len(source) =>
           /\ source[next] \notin Digits
           /\ (\A i \in first..next - 1 : source[i] \in Digits) =>
                ~(source[next] = "." /\ next < Len(source) /\ source[next + 1] \in Digits),
         NEW l, NEW c
  PROVE  IsLongest(Token("NUMBER", first, next, l, c))
<1> DEFINE t == Token("NUMBER", first, next, l, c)
<1>1. Len(source) \in Nat
  OBVIOUS
<1>2. t.type = "NUMBER" /\ t.first = first /\ t.next = next
  BY DEF Token
<1>3. \A n \in first + 1..Len(source) + 1 :
        TypesOf(Word(first, n)) = IF NumberAt(first, n) THEN {"NUMBER"} ELSE {}
  BY WordsByFirst
<1>4. "." \notin Digits
  BY CharsAssumption DEF PairChars
<1>5. ASSUME NEW n \in Ends(first) PROVE n <= next
  <2>1. n \in first + 1..Len(source) + 1 /\ NumberAt(first, n)
    BY <1>3, <1>5 DEF Ends
  <2> SUFFICES ASSUME n > next PROVE FALSE
    BY <1>1, <2>1
  <2>2. next \in first..n - 1 /\ next <= Len(source)
    BY <1>1, <2>1
  <2>3. PICK point \in first + 1..n - 2 :
          source[point] = "." /\ \A i \in first..n - 1 : i # point => source[i] \in Digits
    BY <2>1, <2>2 DEF NumberAt
  <2>4. point = next
    BY <2>2, <2>3
  <2>5. \A i \in first..next - 1 : source[i] \in Digits
    <3>1. \A i \in first..next - 1 : i \in first..n - 1 /\ i # point
      BY <1>1, <2>1, <2>2, <2>4
    <3> QED BY <2>3, <3>1
  <2>6. next + 1 \in first..n - 1 /\ next + 1 # point /\ next < Len(source)
    BY <1>1, <2>1, <2>2, <2>3, <2>4
  <2>7. source[next] = "." /\ source[next + 1] \in Digits
    BY <2>3, <2>4, <2>6
  <2> QED BY <2>2, <2>5, <2>6, <2>7
<1>6. next \in Ends(first) /\ "NUMBER" \in TypesOf(Word(first, next))
  BY <1>3 DEF Ends
<1> HIDE DEF t
<1> QED BY <1>2, <1>5, <1>6, LongestWord DEF t

LEMMA IdentifierToken ==
  ASSUME source \in Seq(Chars), NEW first \in 1..Len(source),
         NEW next \in first + 1..Len(source) + 1,
         source[first] \in Letters, IdentifierAt(first, next),
         next <= Len(source) => source[next] \notin Letters \cup Digits,
         NEW l, NEW c
  PROVE  IsLongest(Token(IdentifierType(Word(first, next)), first, next, l, c))
<1> DEFINE type == IdentifierType(Word(first, next))
           t == Token(type, first, next, l, c)
<1>1. Len(source) \in Nat
  OBVIOUS
<1>2. t.type = type /\ t.first = first /\ t.next = next
  BY DEF Token
<1>3. \A n \in first + 1..Len(source) + 1 :
        TypesOf(Word(first, n)) =
          IF IdentifierAt(first, n) THEN {IdentifierType(Word(first, n))} ELSE {}
  BY WordsByFirst
<1>4. ASSUME NEW n \in Ends(first) PROVE n <= next
  <2>1. n \in first + 1..Len(source) + 1 /\ IdentifierAt(first, n)
    BY <1>3, <1>4 DEF Ends
  <2> SUFFICES ASSUME n > next PROVE FALSE
    BY <1>1, <2>1
  <2>2. next \in first..n - 1 /\ next <= Len(source)
    BY <1>1, <2>1
  <2> QED BY <2>1, <2>2 DEF IdentifierAt
<1>5. next \in Ends(first) /\ type \in TypesOf(Word(first, next))
  BY <1>3 DEF Ends
<1> HIDE DEF t, type
<1>6. IsLongest(t)
  BY <1>2, <1>4, <1>5, LongestWord
<1> QED BY <1>6 DEF t, type

LEMMA SymbolToken ==
  ASSUME source \in Seq(Chars), NEW first \in 1..Len(source),
         source[first] \in SingleChars \cup PairChars,
         NEW isPair \in BOOLEAN,
         isPair <=> /\ source[first] \in PairChars /\ first < Len(source)
                    /\ source[first + 1] = SecondChar(source[first]),
         NEW l, NEW c
  PROVE  IsLongest(Token(IF isPair THEN PairType(source[first]) ELSE SingleType(source[first]),
                         first, first + (IF isPair THEN 2 ELSE 1), l, c))
<1> DEFINE type == IF isPair THEN PairType(source[first]) ELSE SingleType(source[first])
           next == first + (IF isPair THEN 2 ELSE 1)
           t == Token(type, first, next, l, c)
<1>1. Len(source) \in Nat
  OBVIOUS
<1>2. t.type = type /\ t.first = first /\ t.next = next
  BY DEF Token
<1>3. \A n \in first + 1..Len(source) + 1 :
        TypesOf(Word(first, n)) =
          (IF n = first + 1 THEN {SingleType(source[first])} ELSE {})
            \cup (IF n = first + 2 /\ source[first] \in PairChars
                       /\ source[first + 1] = SecondChar(source[first])
                  THEN {PairType(source[first])} ELSE {})
  BY WordsByFirst
<1>4. first + 1 # first + 2 /\ first + 1 \in first + 1..Len(source) + 1
  BY <1>1
<1>5. CASE isPair
  <2>1. next = first + 2 /\ next \in first + 1..Len(source) + 1 /\ type = PairType(source[first])
    BY <1>1, <1>5
  <2>2. next \in Ends(first) /\ type \in TypesOf(Word(first, next))
    BY <1>3, <1>5, <2>1 DEF Ends
  <2>3. \A n \in Ends(first) : n <= next
    BY <1>1, <1>3, <2>1 DEF Ends
  <2> HIDE DEF t, type, next
  <2>4. IsLongest(t)
    BY <1>2, <2>2, <2>3, LongestWord
  <2> QED BY <2>4 DEF t, type, next
<1>6. CASE ~isPair
  <2>1. next = first + 1 /\ next \in first + 1..Len(source) + 1 /\ type = SingleType(source[first])
    BY <1>1, <1>6
  <2>2. next \in Ends(first) /\ type \in TypesOf(Word(first, next))
    BY <1>3, <2>1 DEF Ends
  <2>3. \A n \in Ends(first) : n <= next
    BY <1>1, <1>3, <1>6, <2>1 DEF Ends
  <2> HIDE DEF t, type, next
  <2>4. IsLongest(t)
    BY <1>2, <2>2, <2>3, LongestWord
  <2> QED BY <2>4 DEF t, type, next
<1> QED BY <1>5, <1>6

LEMMA UnexpectedToken ==
  ASSUME source \in Seq(Chars), NEW first \in 1..Len(source), source[first] \in Others,
         NEW l, NEW c
  PROVE  IsLongest(Token("ERROR", first, first + 1, l, c))
<1>1. Ends(first) = {}
  BY WordsByFirst DEF Ends
<1>2. source[first] # Quote
  BY CharsAssumption
<1> QED BY <1>1, <1>2 DEF Token, IsLongest

-----------------------------------------------------------------------------
(* The inductive invariant of the two theorems below.  Everything up to    *)
(* Covered is tokens and gaps.  From there to the cursor is a gap, with a  *)
(* comment open or not, while the lexer skips white space; in the loop of a*)
(* literal it is a gap up to the lexeme and then the literal so far.       *)
Covered == TokenEnd(Len(scanned))
IsSequence(s) == \E S : s \in Seq(S)
ScannedInSource ==
  /\ \A n \in 1..Len(scanned) :
       scanned[n].first \in 1..Len(source) /\ scanned[n].next \in scanned[n].first + 1..Covered
  /\ Covered \in 1..cursor
TokensAreLongest ==
  \A n \in 1..Len(scanned) :
    IsGap(TokenEnd(n - 1), scanned[n].first) /\ IsLongest(scanned[n])
Scanned == IsSequence(scanned) /\ ScannedInSource /\ TokensAreLongest

OnlyGap(next) ==
  \A i \in Covered..next - 1 : source[i] \in Spaces \cup {Newline} \/ InComment(Covered, i)
Open(begun, next) ==
  \E k \in Covered..begun - 1 : source[k] = "#" /\ \A n \in k..next - 1 : source[n] # Newline
Gap ==
  /\ pc \in {"idle", "skip"} =>
       OnlyGap(cursor) /\ (cursor <= Len(source) => ~Open(cursor, cursor + 1))
  /\ pc = "comment" => OnlyGap(cursor) /\ Open(cursor, cursor)

Loops == {"string", "integer", "fraction", "identifier"}
Rest(begin) == begin..cursor - 1
Literal ==
  /\ pc \in Loops => Covered <= lexeme /\ lexeme < cursor /\ IsGap(Covered, lexeme)
  /\ pc = "string" => source[lexeme] = Quote /\ \A i \in Rest(lexeme + 1) : source[i] # Quote
  /\ pc = "integer" => \A i \in Rest(lexeme) : source[i] \in Digits
  /\ pc = "fraction" =>
       \E point \in lexeme + 1..cursor - 1 :
         /\ source[point] = "." /\ point < Len(source) /\ source[point + 1] \in Digits
         /\ \A i \in Rest(lexeme) : i # point => source[i] \in Digits
  /\ pc = "identifier" =>
       source[lexeme] \in Letters /\ \A i \in Rest(lexeme) : source[i] \in Letters \cup Digits

Loop == Gap /\ Literal
LexInv == LexerTypeOK /\ Scanned /\ Loop

(* A step that returns no token, or EOF, leaves what was scanned.          *)
LEMMA NothingScanned ==
  ASSUME Scanned, cursor \in Nat, UNCHANGED <<source, scanned>>, cursor' \in Nat, cursor <= cursor',
         Covered \in Nat
  PROVE  Scanned' /\ Covered' = Covered
<1>1. Covered' = Covered
  BY DEF Covered, TokenEnd
<1>2. ScannedInSource'
  BY <1>1 DEF Scanned, ScannedInSource
<1>3. ASSUME NEW n \in 1..Len(scanned)
      PROVE  (IsGap(TokenEnd(n - 1), scanned[n].first) /\ IsLongest(scanned[n]))'
  <2>1. IsGap(TokenEnd(n - 1), scanned[n].first) /\ IsLongest(scanned[n])
    BY DEF Scanned, TokensAreLongest
  <2>2. IsGap(TokenEnd(n - 1), scanned[n].first)'
    BY <2>1 DEF IsGap, InComment, TokenEnd
  <2>3. IsLongest(scanned[n])'
    BY <2>1 DEF IsLongest, Ends, Word
  <2> QED BY <2>2, <2>3
<1>4. TokensAreLongest'
  BY <1>3 DEF TokensAreLongest
<1> QED BY <1>1, <1>2, <1>4 DEF Scanned

LEMMA TokenScanned ==
  ASSUME Scanned, cursor \in Nat, Covered \in Nat, cursor' \in Nat, UNCHANGED source,
         NEW t, scanned' = Append(scanned, t),
         t.first \in Covered..Len(source), t.next \in t.first + 1..cursor', Len(source) \in Nat,
         IsGap(Covered, t.first), IsLongest(t)
  PROVE  Scanned' /\ Covered' = t.next
<1>1. PICK S : scanned \in Seq(S)
  BY DEF Scanned, IsSequence
<1> DEFINE T == S \cup {t}
<1>2. scanned \in Seq(T) /\ t \in T
  BY <1>1, SeqMonotonic
<1>3. /\ scanned' \in Seq(T) /\ Len(scanned') = Len(scanned) + 1 /\ Len(scanned) \in Nat
      /\ scanned'[Len(scanned) + 1] = t /\ \A n \in 1..Len(scanned) : scanned'[n] = scanned[n]
  BY <1>2, AppendProperties
<1> HIDE DEF T
<1>4. IsSequence(scanned')
  BY <1>3 DEF IsSequence
<1>5. Covered' = t.next
  BY <1>3 DEF Covered, TokenEnd
<1>6. ASSUME NEW n \in 1..Len(scanned')
      PROVE  /\ scanned'[n].first \in 1..Len(source)
             /\ scanned'[n].next \in scanned'[n].first + 1..Covered'
  <2>1. CASE n = Len(scanned) + 1
    <3>1. Covered >= 1
      BY DEF Scanned, ScannedInSource
    <3> QED BY <1>3, <1>5, <2>1, <3>1
  <2>2. CASE n # Len(scanned) + 1
    <3>1. n \in 1..Len(scanned)
      BY <1>3, <2>2
    <3>2. scanned[n].first \in 1..Len(source) /\ scanned[n].next \in scanned[n].first + 1..Covered
      BY <3>1 DEF Scanned, ScannedInSource
    <3> QED BY <1>3, <1>5, <3>1, <3>2
  <2> QED BY <2>1, <2>2
<1>7. ScannedInSource'
  BY <1>5, <1>6 DEF ScannedInSource
<1>8. ASSUME NEW n \in 1..Len(scanned')
      PROVE  (IsGap(TokenEnd(n - 1), scanned[n].first) /\ IsLongest(scanned[n]))'
  <2>1. CASE n = Len(scanned) + 1
    <3>1. TokenEnd(n - 1)' = Covered
      <4>1. n - 1 = Len(scanned)
        BY <1>3, <2>1
      <4> QED BY <1>3, <4>1 DEF TokenEnd, Covered
    <3>2. scanned'[n] = t
      BY <1>3, <2>1
    <3> QED BY <3>1, <3>2 DEF IsGap, InComment, IsLongest, Ends, Word
  <2>2. CASE n # Len(scanned) + 1
    <3>1. n \in 1..Len(scanned) /\ (n - 1 = 0 \/ n - 1 \in 1..Len(scanned))
      BY <1>3, <2>2
    <3>2. IsGap(TokenEnd(n - 1), scanned[n].first) /\ IsLongest(scanned[n])
      BY <3>1 DEF Scanned, TokensAreLongest
    <3>3. TokenEnd(n - 1)' = TokenEnd(n - 1) /\ scanned'[n] = scanned[n]
      BY <1>3, <3>1 DEF TokenEnd
    <3>4. IsGap(TokenEnd(n - 1), scanned[n].first)'
      BY <3>2, <3>3 DEF IsGap, InComment
    <3>5. IsLongest(scanned[n])'
      BY <3>2, <3>3 DEF IsLongest, Ends, Word
    <3> QED BY <3>4, <3>5
  <2> QED BY <2>1, <2>2
<1>9. TokensAreLongest'
  BY <1>8 DEF TokensAreLongest
<1> QED BY <1>4, <1>5, <1>7, <1>9 DEF Scanned

(* What every step may rely on.                                            *)
LEMMA InSource ==
  ASSUME LexInv
  PROVE  /\ source \in Seq(Chars) /\ Len(source) \in Nat
         /\ cursor \in 1..Len(source) + 1 /\ lexeme \in 1..cursor /\ Covered \in 1..cursor
         /\ Peek(cursor) = NUL <=> cursor = Len(source) + 1
         /\ cursor <= Len(source) <=> Peek(cursor) # NUL
         /\ Peek(cursor) # NUL => Peek(cursor) = source[cursor]
<1>1. /\ source \in Seq(Chars) /\ Len(source) \in Nat
      /\ cursor \in 1..Len(source) + 1 /\ lexeme \in 1..cursor
      /\ Peek(cursor) = NUL <=> cursor = Len(source) + 1
  BY NulEndsSource DEF LexInv, LexerTypeOK
<1>2. Covered \in 1..cursor
  BY DEF LexInv, Scanned, ScannedInSource
<1>3. Peek(cursor) # NUL => Peek(cursor) = source[cursor]
  BY DEF Peek
<1> QED BY <1>1, <1>2, <1>3

(* The classes of the characters.                                          *)
LEMMA Classes ==
  /\ NUL \notin Digits \cup Letters \cup Spaces \cup Others \cup SingleChars \cup PairChars
                  \cup {Newline, Quote, "#", "."}
  /\ Newline \notin Digits \cup Letters \cup Spaces \cup Others \cup SingleChars \cup PairChars
                      \cup {Quote, "#", "."}
  /\ "#" \notin Digits \cup Letters \cup Spaces \cup Others \cup SingleChars \cup PairChars
                  \cup {Quote, "."}
  /\ Quote \notin Digits \cup Letters \cup Others \cup SingleChars \cup PairChars \cup {"."}
  /\ Digits \cap (Letters \cup Others \cup SingleChars \cup PairChars) = {}
  /\ Letters \cap (Others \cup SingleChars \cup PairChars) = {}
  /\ Others \cap (SingleChars \cup PairChars) = {}
BY CharsAssumption DEF Chars, SingleChars, PairChars, Newline, Quote

(* Where no comment is open and none begins, the gap ends.                 *)
LEMMA GapEnds ==
  ASSUME LexInv, pc = "skip", Peek(cursor) # "#"
  PROVE  IsGap(Covered, cursor)
<1>1. OnlyGap(cursor) /\ (cursor <= Len(source) => ~Open(cursor, cursor + 1))
  BY DEF LexInv, Loop, Gap
<1>2. cursor <= Len(source) => ~InComment(Covered, cursor)
  <2> SUFFICES ASSUME cursor <= Len(source), InComment(Covered, cursor) PROVE FALSE
    OBVIOUS
  <2>1. PICK k \in Covered..cursor : source[k] = "#" /\ \A n \in k..cursor : source[n] # Newline
    BY DEF InComment
  <2>2. source[cursor] # "#"
    BY InSource
  <2>3. k \in Covered..cursor - 1 /\ (cursor + 1) - 1 = cursor
    BY <2>1, <2>2, InSource
  <2> QED BY <1>1, <2>1, <2>3 DEF Open
<1> QED BY <1>1, <1>2 DEF OnlyGap, IsGap

(* A character of white space.                                             *)
LEMMA SkippingKeepsLoop ==
  ASSUME LexInv, UNCHANGED <<source, scanned>>, pc = "skip", pc' = "skip", cursor' = cursor + 1,
         Peek(cursor) \in Spaces \cup {Newline}
  PROVE  Loop'
<1>1. OnlyGap(cursor) /\ (cursor <= Len(source) => ~Open(cursor, cursor + 1))
  BY DEF LexInv, Loop, Gap
<1>2. cursor <= Len(source) /\ source[cursor] \in Spaces \cup {Newline} /\ source[cursor] # "#"
  BY InSource, Classes
<1>3. Covered' = Covered
  BY DEF Covered, TokenEnd
<1>4. \A i \in Covered..(cursor + 1) - 1 : i \in Covered..cursor - 1 \/ i = cursor
  BY InSource
<1>5. OnlyGap(cursor)'
  BY <1>1, <1>2, <1>3, <1>4 DEF OnlyGap, InComment
<1>6. ASSUME Open(cursor, cursor + 1)' PROVE FALSE
  <2>1. PICK k \in Covered..(cursor + 1) - 1 :
          source[k] = "#" /\ \A n \in k..(cursor + 1 + 1) - 1 : source[n] # Newline
    BY <1>3, <1>6 DEF Open
  <2>2. k \in Covered..cursor - 1
    BY <1>2, <1>4, <2>1
  <2>3. \A n \in k..(cursor + 1) - 1 : n \in k..(cursor + 1 + 1) - 1
    BY <2>2, InSource
  <2> QED BY <1>1, <1>2, <2>1, <2>2, <2>3 DEF Open
<1> QED BY <1>5, <1>6 DEF Loop, Gap, Literal, Loops

LEMMA BeginCommentKeepsLoop ==
  ASSUME LexInv, BeginComment
  PROVE  Loop'
<1>1. /\ UNCHANGED <<source, scanned>> /\ pc = "skip" /\ pc' = "comment" /\ cursor' = cursor + 1
      /\ Peek(cursor) = "#"
  BY DEF BeginComment, AdvanceTo
<1>2. OnlyGap(cursor)
  BY <1>1 DEF LexInv, Loop, Gap
<1>3. cursor <= Len(source) /\ source[cursor] = "#"
  BY <1>1, InSource, Classes
<1>4. Covered' = Covered
  BY <1>1 DEF Covered, TokenEnd
<1>5. \A i \in Covered..(cursor + 1) - 1 : i \in Covered..cursor - 1 \/ i = cursor
  BY InSource
<1>6. InComment(Covered, cursor)
  <2>1. cursor \in Covered..cursor /\ \A n \in cursor..cursor : n = cursor
    BY InSource
  <2>2. "#" # Newline
    BY DEF Newline
  <2> QED BY <1>3, <2>1, <2>2 DEF InComment
<1>7. OnlyGap(cursor)'
  BY <1>1, <1>2, <1>4, <1>5, <1>6 DEF OnlyGap, InComment
<1>8. Open(cursor, cursor)'
  <2>1. cursor \in Covered..(cursor + 1) - 1 /\ \A n \in cursor..(cursor + 1) - 1 : n = cursor
    BY InSource
  <2>2. "#" # Newline
    BY DEF Newline
  <2> QED BY <1>1, <1>3, <1>4, <2>1, <2>2 DEF Open
<1> QED BY <1>1, <1>7, <1>8 DEF Loop, Gap, Literal, Loops

LEMMA SkipCommentKeepsLoop ==
  ASSUME LexInv, SkipComment
  PROVE  Loop'
<1>1. UNCHANGED <<source, scanned>> /\ pc = "comment"
  BY DEF SkipComment, AdvanceTo
<1>2. OnlyGap(cursor) /\ Open(cursor, cursor)
  BY <1>1 DEF LexInv, Loop, Gap
<1>3. Covered' = Covered
  BY <1>1 DEF Covered, TokenEnd
<1>4. PICK k \in Covered..cursor - 1 :
        source[k] = "#" /\ \A n \in k..cursor - 1 : source[n] # Newline
  BY <1>2 DEF Open
<1>5. CASE Peek(cursor) # Newline /\ ~lexer_reached_end
  <2>1. pc' = "comment" /\ cursor' = cursor + 1 /\ source[cursor] # Newline
    BY <1>5, InSource DEF SkipComment, AdvanceTo, lexer_reached_end
  <2>2. /\ k \in Covered..cursor /\ k \in Covered..(cursor + 1) - 1
        /\ \A n \in k..cursor : n \in k..cursor - 1 \/ n = cursor
        /\ (cursor + 1) - 1 = cursor
    BY InSource
  <2>3. \A n \in k..cursor : source[n] # Newline
    BY <1>4, <2>1, <2>2
  <2>4. InComment(Covered, cursor)
    BY <1>4, <2>2, <2>3 DEF InComment
  <2>5. Open(cursor, cursor)'
    BY <1>1, <1>3, <1>4, <2>1, <2>2, <2>3 DEF Open
  <2>6. \A i \in Covered..(cursor + 1) - 1 : i \in Covered..cursor - 1 \/ i = cursor
    BY InSource
  <2>7. OnlyGap(cursor)'
    BY <1>1, <1>2, <1>3, <2>1, <2>4, <2>6 DEF OnlyGap, InComment
  <2> QED BY <2>1, <2>5, <2>7 DEF Loop, Gap, Literal, Loops
<1>6. CASE ~(Peek(cursor) # Newline /\ ~lexer_reached_end)
  <2>1. pc' = "skip" /\ cursor' = cursor
    BY <1>6 DEF SkipComment
  <2>2. cursor <= Len(source) => source[cursor] = Newline
    BY <1>6, InSource DEF lexer_reached_end
  <2>3. OnlyGap(cursor)'
    BY <1>1, <1>2, <1>3, <2>1 DEF OnlyGap, InComment
  <2>4. ASSUME cursor <= Len(source), NEW m \in Covered..cursor - 1
        PROVE  ~(\A n \in m..(cursor + 1) - 1 : source[n] # Newline)
    <3>1. cursor \in m..(cursor + 1) - 1
      BY InSource
    <3> QED BY <2>2, <2>4, <3>1
  <2>5. (cursor <= Len(source) => ~Open(cursor, cursor + 1))'
    BY <1>1, <1>3, <2>1, <2>4 DEF Open
  <2> QED BY <2>1, <2>3, <2>5 DEF Loop, Gap, Literal, Loops
<1> QED BY <1>5, <1>6

LEMMA ScanKeepsLoop ==
  ASSUME LexInv, Scan \/ ReturnEof
  PROVE  Loop' /\ UNCHANGED <<source, cursor, scanned>>
<1>1. /\ UNCHANGED <<source, cursor, scanned>> /\ pc \in {"idle", "skip"} /\ pc' \in {"idle", "skip"}
  BY DEF Scan, ReturnEof, Return
<1>2. OnlyGap(cursor) /\ (cursor <= Len(source) => ~Open(cursor, cursor + 1))
  BY <1>1 DEF LexInv, Loop, Gap
<1>3. Covered' = Covered
  BY <1>1 DEF Covered, TokenEnd
<1>4. OnlyGap(cursor)' /\ (cursor <= Len(source) => ~Open(cursor, cursor + 1))'
  BY <1>1, <1>2, <1>3 DEF OnlyGap, InComment, Open
<1> QED BY <1>1, <1>4 DEF Loop, Gap, Literal, Loops

LEMMA BeginLiteralKeepsLoop ==
  ASSUME LexInv, BeginLiteral
  PROVE  Loop'
<1>1. /\ UNCHANGED <<source, scanned>> /\ pc = "skip" /\ cursor' = cursor + 1 /\ lexeme' = cursor
      /\ Peek(cursor) \in {Quote} \cup Digits \cup Letters
      /\ pc' = LiteralLoop(Peek(cursor))
  BY DEF BeginLiteral, BeginLexeme
<1>2. cursor <= Len(source) /\ Peek(cursor) = source[cursor] /\ Covered \in 1..cursor
        /\ cursor \in Nat
  BY <1>1, InSource, Classes
<1>3. Covered' = Covered
  BY <1>1 DEF Covered, TokenEnd
<1>4. IsGap(Covered, cursor)
  BY <1>1, GapEnds, Classes
<1>5. IsGap(Covered, lexeme)'
  BY <1>1, <1>3, <1>4 DEF IsGap, InComment
<1>6. (Covered <= lexeme /\ lexeme < cursor)'
  BY <1>1, <1>2, <1>3
<1>7. /\ \A i \in cursor..(cursor + 1) - 1 : i = cursor
      /\ ~\E i \in cursor + 1..(cursor + 1) - 1 : TRUE
  BY <1>2
<1>8. pc' \in Loops /\ pc' # "fraction" /\ pc' \notin {"idle", "skip", "comment"}
  BY <1>1 DEF LiteralLoop, Loops
<1>9. (pc = "string" => source[lexeme] = Quote /\ \A i \in Rest(lexeme + 1) : source[i] # Quote)'
  <2>1. pc' = "string" => source[cursor] = Quote
    BY <1>1, <1>2 DEF LiteralLoop
  <2> QED BY <1>1, <1>7, <2>1 DEF Rest
<1>10. (pc = "integer" => \A i \in Rest(lexeme) : source[i] \in Digits)'
  <2>1. pc' = "integer" => source[cursor] \in Digits
    BY <1>1, <1>2 DEF LiteralLoop
  <2> QED BY <1>1, <1>7, <2>1 DEF Rest
<1>11. (pc = "identifier" =>
          source[lexeme] \in Letters /\ \A i \in Rest(lexeme) : source[i] \in Letters \cup Digits)'
  <2>1. pc' = "identifier" => source[cursor] \in Letters
    BY <1>1, <1>2 DEF LiteralLoop
  <2> QED BY <1>1, <1>7, <2>1 DEF Rest
<1> QED BY <1>5, <1>6, <1>8, <1>9, <1>10, <1>11 DEF Loop, Gap, Literal

(* Where a token has just been returned a gap may begin.                   *)
LEMMA ReturnedKeepsLoop ==
  ASSUME Covered' = cursor', pc' = "idle", cursor' \in Nat
  PROVE  Loop'
<1>1. \A n \in Nat : n..n - 1 = {}
  OBVIOUS
<1>2. OnlyGap(cursor)' /\ ~Open(cursor, cursor + 1)'
  BY <1>1 DEF OnlyGap, Open
<1> QED BY <1>2 DEF Loop, Gap, Literal, Loops

(* A token returned from a loop, or from the white space, is scanned.      *)
LEMMA ReturnKeepsLoop ==
  ASSUME LexInv, UNCHANGED source, NEW t, scanned' = Append(scanned, t), pc' = "idle",
         cursor' \in Nat, t.first \in Covered..Len(source), t.next \in t.first + 1..cursor', t.next = cursor',
         IsGap(Covered, t.first), IsLongest(t)
  PROVE  Scanned' /\ Loop'
<1>1. Scanned' /\ Covered' = t.next
  BY InSource, TokenScanned DEF LexInv
<1> QED BY <1>1, ReturnedKeepsLoop

LEMMA ReturnSymbolKeepsLoop ==
  ASSUME LexInv, ReturnSymbol
  PROVE  Scanned' /\ Loop'
<1> DEFINE c == Peek(cursor)
           isPair == c \in PairChars /\ Peek(cursor + 1) = SecondChar(c)
           type == CASE c \in Others -> "ERROR" [] isPair -> PairType(c) [] OTHER -> SingleType(c)
           t == Token(type, cursor, cursor', line, column)
<1>1. pc = "skip" /\ c \in SingleChars \cup PairChars \cup Others
        /\ cursor' = cursor + (IF isPair THEN 2 ELSE 1)
        /\ Return(type, cursor, cursor', column)
  BY DEF ReturnSymbol
<1>2. type # "EOF"
  BY <1>1 DEF PairType, SingleType
<1>3. UNCHANGED source /\ pc' = "idle" /\ scanned' = Append(scanned, t)
  BY <1>1, <1>2 DEF Return
<1>4. cursor \in 1..Len(source) /\ c = source[cursor] /\ source \in Seq(Chars) /\ Len(source) \in Nat
        /\ Covered \in 1..cursor
  BY <1>1, InSource, Classes
<1>5. t.first = cursor /\ t.next = cursor'
  BY DEF Token
<1>6. IsGap(Covered, cursor)
  BY <1>1, GapEnds, Classes
<1>7. isPair <=> /\ source[cursor] \in PairChars /\ cursor < Len(source)
                 /\ source[cursor + 1] = SecondChar(source[cursor])
  BY <1>4 DEF Peek, SecondChar, NUL
<1>8. IsLongest(t)
  <2>1. CASE c \in Others
    <3>1. type = "ERROR" /\ ~isPair
      BY <2>1, Classes
    <3>2. cursor' = cursor + 1
      BY <1>1, <3>1
    <3> HIDE DEF type
    <3> QED BY <1>4, <2>1, <3>1, <3>2, UnexpectedToken
  <2>2. CASE c \in SingleChars \cup PairChars
    <3>1. type = IF isPair THEN PairType(source[cursor]) ELSE SingleType(source[cursor])
      BY <1>4, <2>2, Classes
    <3>2. isPair \in BOOLEAN /\ source[cursor] \in SingleChars \cup PairChars
      BY <1>4, <2>2
    <3> HIDE DEF type, isPair
    <3>3. IsLongest(Token(IF isPair THEN PairType(source[cursor]) ELSE SingleType(source[cursor]),
                          cursor, cursor + (IF isPair THEN 2 ELSE 1), line, column))
      BY <1>4, <1>7, <3>2, SymbolToken
    <3> QED BY <1>1, <3>1, <3>3
  <2> QED BY <1>1, <2>1, <2>2
<1>9. cursor' \in cursor + 1..cursor' /\ cursor' \in Nat
  BY <1>1, <1>4
<1> HIDE DEF t
<1> QED BY <1>3, <1>4, <1>5, <1>6, <1>8, <1>9, ReturnKeepsLoop

(* A loop reads one more character of the literal.                         *)
LEMMA LiteralGoesOn ==
  ASSUME LexInv, pc \in Loops, NEW next \in Loops, AdvanceTo(next), cursor <= Len(source)
  PROVE  /\ UNCHANGED <<source, scanned, lexeme>> /\ pc' = next /\ cursor' = cursor + 1
         /\ (Covered <= lexeme /\ lexeme < cursor /\ IsGap(Covered, lexeme))'
         /\ lexeme \in 1..cursor - 1 /\ cursor \in 1..Len(source) /\ cursor' \in Nat
         /\ pc' \notin {"idle", "skip", "comment"}
<1>1. UNCHANGED <<source, scanned, lexeme>> /\ pc' = next /\ cursor' = cursor + 1
  BY DEF AdvanceTo
<1>2. Covered <= lexeme /\ lexeme < cursor /\ IsGap(Covered, lexeme)
  BY DEF LexInv, Loop, Literal
<1>3. Covered' = Covered
  BY <1>1 DEF Covered, TokenEnd
<1>4. IsGap(Covered, lexeme)'
  BY <1>1, <1>2, <1>3 DEF IsGap, InComment
<1>5. lexeme \in 1..cursor - 1 /\ cursor \in 1..Len(source) /\ cursor' \in Nat
  BY <1>1, <1>2, InSource
<1>6. (Covered <= lexeme /\ lexeme < cursor)'
  BY <1>1, <1>2, <1>3, <1>5, InSource
<1> QED BY <1>1, <1>4, <1>5, <1>6 DEF Loops

(* What a loop returns.                                                    *)
LEMMA LiteralReturned ==
  ASSUME LexInv, pc \in Loops, NEW type, type # "EOF", NEW next, next \in cursor..Len(source) + 1,
         Return(type, lexeme, next, lexemeStartColumn), cursor' = next,
         IsLongest(Token(type, lexeme, next, line, lexemeStartColumn))
  PROVE  Scanned' /\ Loop'
<1> DEFINE t == Token(type, lexeme, next, line, lexemeStartColumn)
<1>1. UNCHANGED source /\ pc' = "idle" /\ scanned' = Append(scanned, t)
  BY DEF Return
<1>2. t.first = lexeme /\ t.next = next
  BY DEF Token
<1>3. Covered <= lexeme /\ lexeme < cursor /\ IsGap(Covered, lexeme)
  BY DEF LexInv, Loop, Literal
<1>4. lexeme \in Covered..Len(source) /\ next \in lexeme + 1..next /\ next \in Nat
  BY <1>3, InSource
<1>5. t.first \in Covered..Len(source) /\ t.next \in t.first + 1..cursor' /\ t.next = cursor'
        /\ cursor' \in Nat /\ IsGap(Covered, t.first)
  BY <1>2, <1>3, <1>4
<1> HIDE DEF t
<1> QED BY <1>1, <1>5, ReturnKeepsLoop DEF t

LEMMA StringKeepsLoop ==
  ASSUME LexInv, StringLiteral
  PROVE  Scanned' /\ Loop'
<1>1. pc = "string" /\ pc \in Loops
  BY DEF StringLiteral, Loops
<1>2. source[lexeme] = Quote /\ \A i \in Rest(lexeme + 1) : source[i] # Quote
  BY <1>1 DEF LexInv, Loop, Literal
<1>3. lexeme \in 1..Len(source) /\ lexeme < cursor /\ source \in Seq(Chars) /\ Len(source) \in Nat
        /\ cursor \in 1..Len(source) + 1 /\ Covered \in Nat
  BY <1>1, InSource DEF LexInv, Loop, Literal
<1>4. CASE Peek(cursor) = Quote
  <2>1. cursor' = cursor + 1 /\ Return("STRING", lexeme, cursor', lexemeStartColumn)
          /\ cursor \in lexeme + 1..Len(source) /\ source[cursor] = Quote
    BY <1>3, <1>4, InSource, Classes DEF StringLiteral, lexer_reached_end
  <2>2. IsLongest(Token("STRING", lexeme, cursor + 1, line, lexemeStartColumn))
    BY <1>2, <1>3, <2>1, StringToken DEF Rest
  <2>3. cursor + 1 \in cursor..Len(source) + 1 /\ "STRING" # "EOF"
    BY <2>1
  <2> QED BY <1>1, <2>1, <2>2, <2>3, LiteralReturned
<1>5. CASE Peek(cursor) # Quote /\ lexer_reached_end
  <2>1. Make("ERROR") /\ cursor = Len(source) + 1
    BY <1>3, <1>5, InSource DEF StringLiteral, lexer_reached_end
  <2>2. Return("ERROR", lexeme, cursor, lexemeStartColumn) /\ cursor' = cursor
    BY <2>1 DEF Make
  <2>3. \A i \in lexeme + 1..Len(source) : source[i] # Quote
    BY <1>2, <1>3, <2>1 DEF Rest
  <2>4. IsLongest(Token("ERROR", lexeme, cursor, line, lexemeStartColumn))
    BY <1>2, <1>3, <2>1, <2>3, UnterminatedToken
  <2>5. cursor \in cursor..Len(source) + 1 /\ "ERROR" # "EOF"
    BY <1>3
  <2> QED BY <1>1, <2>2, <2>4, <2>5, LiteralReturned
<1>6. CASE Peek(cursor) # Quote /\ ~lexer_reached_end
  <2>1. AdvanceTo("string") /\ cursor <= Len(source) /\ source[cursor] # Quote
    BY <1>3, <1>6, InSource DEF StringLiteral, lexer_reached_end
  <2>2. /\ UNCHANGED <<source, scanned, lexeme>> /\ pc' = "string" /\ cursor' = cursor + 1
        /\ (Covered <= lexeme /\ lexeme < cursor /\ IsGap(Covered, lexeme))'
    BY <1>1, <2>1, LiteralGoesOn
  <2>3. \A i \in lexeme + 1..(cursor + 1) - 1 : i \in lexeme + 1..cursor - 1 \/ i = cursor
    BY <1>3
  <2>4. (source[lexeme] = Quote /\ \A i \in Rest(lexeme + 1) : source[i] # Quote)'
    BY <1>2, <2>1, <2>2, <2>3 DEF Rest
  <2>5. Scanned'
    BY <1>3, <2>2, NothingScanned DEF LexInv
  <2> QED BY <2>2, <2>4, <2>5 DEF Loop, Gap, Literal, Loops
<1> QED BY <1>4, <1>5, <1>6

LEMMA IdentifierKeepsLoop ==
  ASSUME LexInv, IdentifierLiteral
  PROVE  Scanned' /\ Loop'
<1>1. pc = "identifier" /\ pc \in Loops
  BY DEF IdentifierLiteral, Loops
<1>2. source[lexeme] \in Letters /\ \A i \in Rest(lexeme) : source[i] \in Letters \cup Digits
  BY <1>1 DEF LexInv, Loop, Literal
<1>3. lexeme \in 1..Len(source) /\ lexeme < cursor /\ source \in Seq(Chars) /\ Len(source) \in Nat
        /\ cursor \in lexeme + 1..Len(source) + 1 /\ Covered \in Nat
  BY <1>1, InSource DEF LexInv, Loop, Literal
<1>4. CASE can_constitute_identifier_literal(Peek(cursor))
  <2>1. AdvanceTo("identifier") /\ cursor <= Len(source) /\ source[cursor] \in Letters \cup Digits
    BY <1>4, InSource, Classes DEF IdentifierLiteral, can_constitute_identifier_literal
  <2>2. /\ UNCHANGED <<source, scanned, lexeme>> /\ pc' = "identifier" /\ cursor' = cursor + 1
        /\ (Covered <= lexeme /\ lexeme < cursor /\ IsGap(Covered, lexeme))'
    BY <1>1, <2>1, LiteralGoesOn
  <2>3. \A i \in lexeme..(cursor + 1) - 1 : i \in lexeme..cursor - 1 \/ i = cursor
    BY <1>3
  <2>4. (source[lexeme] \in Letters /\ \A i \in Rest(lexeme) : source[i] \in Letters \cup Digits)'
    BY <1>2, <2>1, <2>2, <2>3 DEF Rest
  <2>5. Scanned'
    BY <1>3, <2>2, NothingScanned DEF LexInv
  <2> QED BY <2>2, <2>4, <2>5 DEF Loop, Gap, Literal, Loops
<1>5. CASE ~can_constitute_identifier_literal(Peek(cursor))
  <2> DEFINE type == IdentifierType(Word(lexeme, cursor))
  <2>1. Make(type)
    BY <1>5 DEF IdentifierLiteral, Word
  <2>2. Return(type, lexeme, cursor, lexemeStartColumn) /\ cursor' = cursor
    BY <2>1 DEF Make
  <2>3. cursor <= Len(source) => source[cursor] \notin Letters \cup Digits
    BY <1>5, InSource DEF can_constitute_identifier_literal
  <2>4. IsLongest(Token(type, lexeme, cursor, line, lexemeStartColumn))
    BY <1>2, <1>3, <2>3, IdentifierToken DEF IdentifierAt, Rest
  <2>5. type # "EOF"
    <3>1. Trie(Word(lexeme, cursor)).type # "EOF"
      BY DEF Trie, Leaf, NoLeaf
    <3> QED BY <3>1 DEF IdentifierType
  <2>6. cursor \in cursor..Len(source) + 1
    BY <1>3
  <2> HIDE DEF type
  <2> QED BY <1>1, <2>2, <2>4, <2>5, <2>6, LiteralReturned
<1> QED BY <1>4, <1>5

(* The number is returned where no digit follows, and no fraction.         *)
LEMMA NumberReturned ==
  ASSUME LexInv, pc \in {"integer", "fraction"}, Make("NUMBER"),
         source[lexeme] \in Digits, NumberAt(lexeme, cursor),
         cursor <= Len(source) =>
           /\ source[cursor] \notin Digits
           /\ (\A i \in lexeme..cursor - 1 : source[i] \in Digits) =>
                ~(source[cursor] = "." /\ cursor < Len(source) /\ source[cursor + 1] \in Digits)
  PROVE  Scanned' /\ Loop'
<1>1. Return("NUMBER", lexeme, cursor, lexemeStartColumn) /\ cursor' = cursor
  BY DEF Make
<1>2. lexeme \in 1..Len(source) /\ source \in Seq(Chars) /\ cursor \in lexeme + 1..Len(source) + 1
        /\ cursor \in cursor..Len(source) + 1
  BY InSource DEF LexInv, Loop, Literal, Loops
<1>3. IsLongest(Token("NUMBER", lexeme, cursor, line, lexemeStartColumn))
  BY <1>2, NumberToken
<1> QED BY <1>1, <1>2, <1>3, LiteralReturned DEF Loops

LEMMA IntegerKeepsLoop ==
  ASSUME LexInv, NumericLiteral, pc = "integer"
  PROVE  Scanned' /\ Loop'
<1>1. pc \in Loops
  BY DEF Loops
<1>2. \A i \in Rest(lexeme) : source[i] \in Digits
  BY DEF LexInv, Loop, Literal
<1>3. lexeme \in 1..Len(source) /\ lexeme < cursor /\ source \in Seq(Chars) /\ Len(source) \in Nat
        /\ cursor \in lexeme + 1..Len(source) + 1 /\ Covered \in Nat /\ lexeme \in lexeme..cursor - 1
  BY <1>1, InSource DEF LexInv, Loop, Literal
<1>4. CASE Peek(cursor) \in Digits
  <2>0. Peek(cursor) # "."
    BY <1>4, Classes DEF PairChars
  <2>1. AdvanceTo("integer") /\ cursor <= Len(source) /\ source[cursor] \in Digits
    BY <1>4, <2>0, InSource, Classes DEF NumericLiteral
  <2>2. /\ UNCHANGED <<source, scanned, lexeme>> /\ pc' = "integer" /\ cursor' = cursor + 1
        /\ (Covered <= lexeme /\ lexeme < cursor /\ IsGap(Covered, lexeme))'
    BY <1>1, <2>1, LiteralGoesOn
  <2>3. \A i \in lexeme..(cursor + 1) - 1 : i \in lexeme..cursor - 1 \/ i = cursor
    BY <1>3
  <2>4. (\A i \in Rest(lexeme) : source[i] \in Digits)'
    BY <1>2, <2>1, <2>2, <2>3 DEF Rest
  <2>5. Scanned'
    BY <1>3, <2>2, NothingScanned DEF LexInv
  <2> QED BY <2>2, <2>4, <2>5 DEF Loop, Gap, Literal, Loops
<1>5. CASE Peek(cursor) \notin Digits /\ Peek(cursor) = "." /\ PeekNext \in Digits
  <2>1. AdvanceTo("fraction") /\ cursor <= Len(source) /\ source[cursor] = "."
    BY <1>5, InSource, Classes DEF NumericLiteral
  <2>2. /\ UNCHANGED <<source, scanned, lexeme>> /\ pc' = "fraction" /\ cursor' = cursor + 1
        /\ (Covered <= lexeme /\ lexeme < cursor /\ IsGap(Covered, lexeme))'
    BY <1>1, <2>1, LiteralGoesOn DEF Loops
  <2>3. cursor < Len(source) /\ source[cursor + 1] \in Digits
    BY <1>3, <1>5, <2>1, Classes DEF PeekNext, Peek
  <2>4. \A i \in lexeme..(cursor + 1) - 1 : i # cursor => i \in lexeme..cursor - 1
    BY <1>3
  <2>5. cursor \in lexeme + 1..(cursor + 1) - 1
    BY <1>3
  <2>6. (\E point \in lexeme + 1..cursor - 1 :
           /\ source[point] = "." /\ point < Len(source) /\ source[point + 1] \in Digits
           /\ \A i \in Rest(lexeme) : i # point => source[i] \in Digits)'
    BY <1>2, <2>1, <2>2, <2>3, <2>4, <2>5 DEF Rest
  <2>7. Scanned'
    BY <1>3, <2>2, NothingScanned DEF LexInv
  <2> QED BY <2>2, <2>6, <2>7 DEF Loop, Gap, Literal, Loops
<1>6. CASE Peek(cursor) \notin Digits /\ ~(Peek(cursor) = "." /\ PeekNext \in Digits)
  <2>1. Make("NUMBER")
    BY <1>6 DEF NumericLiteral
  <2>2. source[lexeme] \in Digits /\ NumberAt(lexeme, cursor)
    BY <1>2, <1>3 DEF NumberAt, Rest
  <2>3. ASSUME cursor <= Len(source)
        PROVE  /\ source[cursor] \notin Digits
               /\ ~(source[cursor] = "." /\ cursor < Len(source) /\ source[cursor + 1] \in Digits)
    <3>1. Peek(cursor) = source[cursor] /\ ~lexer_reached_end
      BY <2>3, InSource DEF lexer_reached_end
    <3>2. cursor < Len(source) => PeekNext = source[cursor + 1]
      BY <1>3, <3>1 DEF PeekNext, Peek
    <3> QED BY <1>6, <3>1, <3>2
  <2> QED BY <2>1, <2>2, <2>3, NumberReturned
<1> QED BY <1>4, <1>5, <1>6

LEMMA FractionKeepsLoop ==
  ASSUME LexInv, NumericLiteral, pc = "fraction"
  PROVE  Scanned' /\ Loop'
<1>1. pc \in Loops
  BY DEF Loops
<1>2. PICK point \in lexeme + 1..cursor - 1 :
        /\ source[point] = "." /\ point < Len(source) /\ source[point + 1] \in Digits
        /\ \A i \in Rest(lexeme) : i # point => source[i] \in Digits
  BY DEF LexInv, Loop, Literal
<1>3. lexeme \in 1..Len(source) /\ lexeme < cursor /\ source \in Seq(Chars) /\ Len(source) \in Nat
        /\ cursor \in lexeme + 1..Len(source) + 1 /\ Covered \in Nat /\ lexeme \in lexeme..cursor - 1
        /\ lexeme # point
  BY <1>1, InSource DEF LexInv, Loop, Literal
<1>4. CASE Peek(cursor) \in Digits
  <2>1. AdvanceTo("fraction") /\ cursor <= Len(source) /\ source[cursor] \in Digits
    BY <1>4, InSource, Classes DEF NumericLiteral
  <2>2. /\ UNCHANGED <<source, scanned, lexeme>> /\ pc' = "fraction" /\ cursor' = cursor + 1
        /\ (Covered <= lexeme /\ lexeme < cursor /\ IsGap(Covered, lexeme))'
    BY <1>1, <2>1, LiteralGoesOn DEF Loops
  <2>3. \A i \in lexeme..(cursor + 1) - 1 : i \in lexeme..cursor - 1 \/ i = cursor
    BY <1>3
  <2>4. point \in lexeme + 1..(cursor + 1) - 1
    BY <1>3
  <2>5. \A i \in lexeme..(cursor + 1) - 1 : i # point => source[i] \in Digits
    BY <1>2, <2>1, <2>3 DEF Rest
  <2>6. (\E p \in lexeme + 1..cursor - 1 :
           /\ source[p] = "." /\ p < Len(source) /\ source[p + 1] \in Digits
           /\ \A i \in Rest(lexeme) : i # p => source[i] \in Digits)'
    BY <1>2, <2>2, <2>4, <2>5 DEF Rest
  <2>7. Scanned'
    BY <1>3, <2>2, NothingScanned DEF LexInv
  <2> QED BY <2>2, <2>6, <2>7 DEF Loop, Gap, Literal, Loops
<1>5. CASE Peek(cursor) \notin Digits
  <2>1. Make("NUMBER")
    BY <1>5 DEF NumericLiteral
  <2>2. source[lexeme] \in Digits
    BY <1>2, <1>3 DEF Rest
  <2>3. cursor <= Len(source) => source[cursor] \notin Digits
    BY <1>5, InSource
  <2>4. point + 1 # cursor
    BY <1>2, <1>3, <2>3
  <2>5. point \in lexeme + 1..cursor - 2
    BY <1>3, <2>4
  <2>6. NumberAt(lexeme, cursor)
    BY <1>2, <2>5 DEF NumberAt, Rest
  <2>7. ~\A i \in lexeme..cursor - 1 : source[i] \in Digits
    <3>1. point \in lexeme..cursor - 1 /\ "." \notin Digits
      BY <1>3, Classes DEF PairChars
    <3> QED BY <1>2, <3>1
  <2> QED BY <2>1, <2>2, <2>3, <2>6, <2>7, NumberReturned
<1> QED BY <1>4, <1>5

(* The inductive step, an action at a time.                                *)
LEMMA StepKeepsLexInv ==
  ASSUME LexInv, [LexerNext]_lexerVars
  PROVE  LexInv'
<1>1. LexerTypeOK'
  BY StepKeepsType DEF LexInv
<1>2. cursor \in Nat /\ cursor' \in Nat /\ Covered \in Nat
  BY <1>1, InSource DEF LexerTypeOK
<1>3. ASSUME UNCHANGED <<source, scanned>>, cursor' \in {cursor, cursor + 1}
      PROVE  Scanned'
  BY <1>2, <1>3, NothingScanned DEF LexInv
<1>4. CASE Scan \/ ReturnEof
  BY <1>1, <1>3, <1>4, ScanKeepsLoop DEF LexInv
<1>5. CASE SkipSpace
  <2>1. UNCHANGED <<source, scanned>> /\ pc = "skip" /\ pc' = "skip" /\ cursor' = cursor + 1
    BY <1>5 DEF SkipSpace, AdvanceTo
  <2> QED BY <1>1, <1>3, <1>5, <2>1, SkippingKeepsLoop DEF LexInv, SkipSpace
<1>6. CASE SkipNewline
  <2>1. UNCHANGED <<source, scanned>> /\ pc = "skip" /\ pc' = "skip" /\ cursor' = cursor + 1
    BY <1>6 DEF SkipNewline
  <2> QED BY <1>1, <1>3, <1>6, <2>1, SkippingKeepsLoop DEF LexInv, SkipNewline
<1>7. CASE BeginComment
  <2>1. UNCHANGED <<source, scanned>> /\ cursor' = cursor + 1
    BY <1>7 DEF BeginComment, AdvanceTo
  <2> QED BY <1>1, <1>3, <1>7, <2>1, BeginCommentKeepsLoop DEF LexInv
<1>8. CASE SkipComment
  <2>1. UNCHANGED <<source, scanned>> /\ cursor' \in {cursor, cursor + 1}
    BY <1>8 DEF SkipComment, AdvanceTo
  <2> QED BY <1>1, <1>3, <1>8, <2>1, SkipCommentKeepsLoop DEF LexInv
<1>9. CASE BeginLiteral
  <2>1. UNCHANGED <<source, scanned>> /\ cursor' = cursor + 1
    BY <1>9 DEF BeginLiteral
  <2> QED BY <1>1, <1>3, <1>9, <2>1, BeginLiteralKeepsLoop DEF LexInv
<1>10. CASE ReturnSymbol
  BY <1>1, <1>10, ReturnSymbolKeepsLoop DEF LexInv
<1>11. CASE StringLiteral
  BY <1>1, <1>11, StringKeepsLoop DEF LexInv
<1>12. CASE NumericLiteral
  <2>1. pc = "integer" \/ pc = "fraction"
    BY <1>12 DEF NumericLiteral
  <2> QED BY <1>1, <1>12, <2>1, IntegerKeepsLoop, FractionKeepsLoop DEF LexInv
<1>13. CASE IdentifierLiteral
  BY <1>1, <1>13, IdentifierKeepsLoop DEF LexInv
<1>14. CASE UNCHANGED lexerVars
  <2>1. UNCHANGED <<source, cursor, scanned, pc, lexeme>> /\ Covered' = Covered
    BY <1>14 DEF lexerVars, Covered, TokenEnd
  <2>2. Gap'
    BY <2>1 DEF LexInv, Loop, Gap, OnlyGap, Open, InComment
  <2>3. Literal'
    BY <2>1 DEF LexInv, Loop, Literal, Rest, IsGap, InComment
  <2> QED BY <1>1, <1>3, <2>1, <2>2, <2>3 DEF LexInv, Loop
<1> QED BY <1>4, <1>5, <1>6, <1>7, <1>8, <1>9, <1>10, <1>11, <1>12, <1>13, <1>14 DEF LexerNext

LEMMA InitialLexInv == LexerInit => LexInv
<1> SUFFICES ASSUME LexerInit PROVE LexInv
  OBVIOUS
<1>1. LexerTypeOK
  BY InitialLexer
<1>2. scanned = <<>> /\ cursor = 1 /\ pc = "idle"
  BY DEF LexerInit
<1>3. scanned \in Seq({}) /\ Len(scanned) = 0
  BY <1>2
<1>4. Covered = 1
  BY <1>3 DEF Covered, TokenEnd
<1>5. Scanned
  BY <1>2, <1>3, <1>4 DEF Scanned, IsSequence, ScannedInSource, TokensAreLongest
<1>6. 1..cursor - 1 = {}
  BY <1>2
<1>7. Loop
  BY <1>2, <1>4, <1>6 DEF Loop, Gap, Literal, Loops, OnlyGap, Open
<1> QED BY <1>1, <1>5, <1>7 DEF LexInv

LEMMA TokensFollow ==
  ASSUME LexInv, AtEof
  PROVE  TokensAreThoseOfTheSource
<1>1. ASSUME token.type = "EOF" PROVE IsGap(Covered, Len(source) + 1)
  <2>1. cursor = Len(source) + 1 /\ OnlyGap(cursor)
    BY <1>1 DEF AtEof, LexInv, Loop, Gap
  <2>2. ~(Len(source) + 1 <= Len(source))
    BY InSource
  <2> QED BY <2>1, <2>2 DEF OnlyGap, IsGap
<1> QED BY <1>1 DEF LexInv, Scanned, TokensAreLongest, TokensAreThoseOfTheSource, Covered

(* The lexer splits every source into the words of the lexical grammar, the*)
(* longest one wherever two are possible, skips nothing but white space and*)
(* comments, and delivers EOF when nothing else is left (lexer.c 128-353). *)
THEOREM LexerScansTheSource == LexerSpec => []TokensAreThoseOfTheSource
<1>1. LexerInit => LexInv /\ AtEof
  BY InitialLexInv DEF LexerInit, AtEof, NoToken, Token
<1>2. LexInv /\ AtEof /\ [LexerNext]_lexerVars => LexInv' /\ AtEof'
  BY StepKeepsLexInv, EofStep, OtherStep DEF LexInv
<1>3. LexInv /\ AtEof => TokensAreThoseOfTheSource
  BY TokensFollow
<1> QED BY <1>1, <1>2, <1>3, PTL DEF LexerSpec

-----------------------------------------------------------------------------
(* Positions.  The line is that of the cursor, in a string literal too; the*)
(* column is counted from the last newline outside string literals, which  *)
(* is the last one before the lexeme while a literal is read.              *)
LineOfCursor == line = 1 + Cardinality(NewlinesBefore(cursor))
IsLastBegin(begin, i) == begin \in LineBegins(i) /\ \A k \in LineBegins(i) : k <= begin
ColumnOfCursor ==
  /\ pc \in {"idle", "skip", "comment"} /\ cursor <= Len(source) =>
       IsLastBegin(cursor - column + 1, cursor)
  /\ pc \in Loops =>
       /\ cursor - column = lexeme - lexemeStartColumn
       /\ IsLastBegin(lexeme - lexemeStartColumn + 1, lexeme)

(* The newlines are counted as the cursor passes them.                     *)
LEMMA NewlineCounted ==
  ASSUME NEW i \in Nat \ {0}
  PROVE  /\ Cardinality(NewlinesBefore(i)) \in Nat
         /\ Cardinality(NewlinesBefore(i + 1)) =
              Cardinality(NewlinesBefore(i)) + (IF source[i] = Newline THEN 1 ELSE 0)
<1>1. IsFiniteSet(NewlinesBefore(i)) /\ i \notin NewlinesBefore(i)
  <2>1. IsFiniteSet(1..i - 1)
    BY FS_Interval
  <2>2. NewlinesBefore(i) \subseteq 1..i - 1
    BY DEF NewlinesBefore
  <2> QED BY <2>1, <2>2, FS_Subset
<1>2. NewlinesBefore(i + 1) = NewlinesBefore(i) \cup (IF source[i] = Newline THEN {i} ELSE {})
  <2>1. 1..(i + 1) - 1 = (1..i - 1) \cup {i}
    OBVIOUS
  <2> QED BY <2>1 DEF NewlinesBefore
<1>3. CASE source[i] = Newline
  BY <1>1, <1>2, <1>3, FS_AddElement, FS_CardinalityType
<1>4. CASE source[i] # Newline
  BY <1>1, <1>2, <1>4, FS_CardinalityType
<1> QED BY <1>3, <1>4

LEMMA SameNewlines ==
  ASSUME source' = source, NEW i
  PROVE  NewlinesBefore(i)' = NewlinesBefore(i)
BY DEF NewlinesBefore

(* Every step counts the newlines it passes.                               *)
Passes(n) ==
  \/ n = 0 /\ line' = line
  \/ n = 1 /\ cursor <= Len(source) /\ line' = line + (IF source[cursor] = Newline THEN 1 ELSE 0)
  \/ /\ n = 2 /\ cursor + 1 <= Len(source) /\ line' = line
     /\ source[cursor] # Newline /\ source[cursor + 1] # Newline

LEMMA StepsPass ==
  ASSUME LexInv, [LexerNext]_lexerVars
  PROVE  \E n \in 0..2 : cursor' = cursor + n /\ Passes(n) /\ source' = source
<1>0. cursor \in Nat /\ cursor = cursor + 0 /\ line \in Nat /\ Len(source) \in Nat /\ cursor <= Len(source) + 1
  BY InSource DEF LexInv, LexerTypeOK
<1>1. ASSUME cursor' = cursor, line' = line, source' = source
      PROVE  cursor' = cursor + 0 /\ Passes(0) /\ source' = source
  BY <1>0, <1>1 DEF Passes
<1>2. ASSUME cursor' = cursor + 1, Peek(cursor) # NUL, Peek(cursor) # Newline, line' = line, source' = source
      PROVE  cursor' = cursor + 1 /\ Passes(1) /\ source' = source
  BY <1>0, <1>2, InSource DEF Passes
<1>3. CASE Scan \/ ReturnEof \/ UNCHANGED lexerVars
  BY <1>1, <1>3 DEF Scan, ReturnEof, Return, lexerVars, positionVars
<1>4. CASE SkipSpace
  BY <1>2, <1>4, Classes DEF SkipSpace, AdvanceTo
<1>5. CASE SkipNewline
  <2>1. Peek(cursor) # NUL /\ cursor' = cursor + 1 /\ line' = line + 1 /\ source' = source
    BY <1>5, Classes DEF SkipNewline
  <2>2. Passes(1)
    BY <1>0, <1>5, <2>1, InSource DEF Passes, SkipNewline
  <2> QED BY <2>1, <2>2
<1>6. CASE BeginComment
  BY <1>2, <1>6, Classes DEF BeginComment, AdvanceTo
<1>7. CASE SkipComment
  BY <1>1, <1>2, <1>7 DEF SkipComment, AdvanceTo, lexer_reached_end, positionVars
<1>8. CASE BeginLiteral
  <2>1. Peek(cursor) # NUL /\ Peek(cursor) # Newline
    BY <1>8, Classes DEF BeginLiteral
  <2> QED BY <1>2, <1>8, <2>1 DEF BeginLiteral
<1>9. CASE ReturnSymbol
  <2> DEFINE isPair == Peek(cursor) \in PairChars /\ Peek(cursor + 1) = SecondChar(Peek(cursor))
  <2>1. Peek(cursor) # NUL /\ Peek(cursor) # Newline
    BY <1>9, Classes DEF ReturnSymbol
  <2>2. cursor' = cursor + (IF isPair THEN 2 ELSE 1) /\ line' = line /\ source' = source
    BY <1>9 DEF ReturnSymbol, Return
  <2>3. CASE isPair
    <3>1. Peek(cursor + 1) # NUL /\ Peek(cursor + 1) # Newline
      BY <2>3 DEF SecondChar, NUL, Newline
    <3>2. cursor + 1 <= Len(source) /\ source[cursor + 1] # Newline
      BY <3>1 DEF Peek
    <3>3. source[cursor] # Newline
      BY <2>1, InSource
    <3>4. cursor' = cursor + 2 /\ Passes(2)
      BY <2>2, <2>3, <3>2, <3>3 DEF Passes
    <3> QED BY <2>2, <3>4
  <2>4. CASE ~isPair
    BY <1>2, <2>1, <2>2, <2>4
  <2> QED BY <2>3, <2>4
<1>10. CASE StringLiteral
  <2>1. CASE Peek(cursor) = Quote
    <3>1. cursor' = cursor + 1 /\ line' = line /\ source' = source
      BY <1>10, <2>1, Classes DEF StringLiteral, Return, lexer_reached_end
    <3>2. Peek(cursor) # NUL /\ Peek(cursor) # Newline
      BY <2>1, Classes
    <3> QED BY <1>2, <3>1, <3>2
  <2>2. CASE Peek(cursor) # Quote /\ lexer_reached_end
    BY <1>1, <1>10, <2>2 DEF StringLiteral, Make, Return
  <2>3. CASE Peek(cursor) # Quote /\ ~lexer_reached_end
    <3>1. cursor' = cursor + 1 /\ source' = source /\ Peek(cursor) # NUL
            /\ line' = IF Peek(cursor) = Newline THEN line + 1 ELSE line
      BY <1>10, <2>3 DEF StringLiteral, AdvanceTo, lexer_reached_end
    <3>2. Passes(1)
      BY <1>0, <3>1, InSource DEF Passes
    <3> QED BY <3>1, <3>2
  <2> QED BY <2>1, <2>2, <2>3
<1>11. CASE NumericLiteral
  <2>1. \/ Make("NUMBER")
        \/ /\ Peek(cursor) \in Digits \cup {"."} /\ line' = line
           /\ \E next \in Loops : AdvanceTo(next)
    BY <1>11 DEF NumericLiteral, Loops
  <2>2. CASE Make("NUMBER")
    BY <1>1, <2>2 DEF Make, Return
  <2>3. CASE /\ Peek(cursor) \in Digits \cup {"."} /\ line' = line
             /\ \E next \in Loops : AdvanceTo(next)
    <3>1. Peek(cursor) # NUL /\ Peek(cursor) # Newline
      BY <2>3, Classes
    <3> QED BY <1>2, <2>3, <3>1 DEF AdvanceTo
  <2> QED BY <2>1, <2>2, <2>3
<1>12. CASE IdentifierLiteral
  <2>1. \/ \E type : Make(type)
        \/ Peek(cursor) \in Digits \cup Letters /\ line' = line /\ AdvanceTo("identifier")
    BY <1>12 DEF IdentifierLiteral, can_constitute_identifier_literal
  <2>2. CASE \E type : Make(type)
    BY <1>1, <2>2 DEF Make, Return
  <2>3. CASE Peek(cursor) \in Digits \cup Letters /\ line' = line /\ AdvanceTo("identifier")
    <3>1. Peek(cursor) # NUL /\ Peek(cursor) # Newline
      BY <2>3, Classes
    <3> QED BY <1>2, <2>3, <3>1 DEF AdvanceTo
  <2> QED BY <2>1, <2>2, <2>3
<1> QED BY <1>3, <1>4, <1>5, <1>6, <1>7, <1>8, <1>9, <1>10, <1>11, <1>12 DEF LexerNext

LEMMA LineFollowsCursor ==
  ASSUME LexInv, LineOfCursor, [LexerNext]_lexerVars
  PROVE  LineOfCursor'
<1>1. PICK n \in 0..2 : cursor' = cursor + n /\ Passes(n) /\ source' = source
  BY StepsPass
<1>2. cursor \in Nat \ {0} /\ line \in Nat /\ cursor + 1 \in Nat \ {0}
  BY InSource DEF LexInv, LexerTypeOK
<1>3. \A i : NewlinesBefore(i)' = NewlinesBefore(i)
  BY <1>1 DEF NewlinesBefore
<1> DEFINE count(i) == Cardinality(NewlinesBefore(i))
<1>4. line' = 1 + count(cursor')
  <2>1. CASE n = 0
    BY <1>1, <1>2, <2>1 DEF Passes, LineOfCursor
  <2>2. CASE n = 1
    <3>1. cursor' = cursor + 1 /\ line' = line + (IF source[cursor] = Newline THEN 1 ELSE 0)
      BY <1>1, <2>2 DEF Passes
    <3>2. count(cursor + 1) = count(cursor) + (IF source[cursor] = Newline THEN 1 ELSE 0)
            /\ count(cursor) \in Nat
      BY <1>2, NewlineCounted
    <3>3. line = 1 + count(cursor)
      BY DEF LineOfCursor
    <3> HIDE DEF count
    <3> QED BY <1>2, <3>1, <3>2, <3>3
  <2>3. CASE n = 2
    <3>1. cursor' = (cursor + 1) + 1 /\ line' = line /\ source[cursor] # Newline /\ source[cursor + 1] # Newline
      BY <1>1, <1>2, <2>3 DEF Passes
    <3>2. count(cursor + 1) = count(cursor) /\ count(cursor) \in Nat
      BY <1>2, <3>1, NewlineCounted
    <3>3. count((cursor + 1) + 1) = count(cursor + 1)
      BY <1>2, <3>1, <3>2, NewlineCounted
    <3>4. line = 1 + count(cursor)
      BY DEF LineOfCursor
    <3> HIDE DEF count
    <3> QED BY <3>1, <3>2, <3>3, <3>4
  <2> QED BY <2>1, <2>2, <2>3
<1> QED BY <1>3, <1>4 DEF LineOfCursor

IsPlaced(t) ==
  /\ t.line = 1 + Cardinality(NewlinesBefore(t.next))
  /\ IsLastBegin(t.first - t.column + 1, t.first)
PosInv == LexInv /\ LineOfCursor /\ ColumnOfCursor /\ PositionsAreThoseOfTheSource

LEMMA PositionsByToken ==
  PositionsAreThoseOfTheSource <=> \A n \in 1..Len(scanned) : IsPlaced(scanned[n])
BY DEF PositionsAreThoseOfTheSource, IsPlaced, IsLastBegin

LEMMA LineBeginsType ==
  ASSUME NEW i \in Nat
  PROVE  LineBegins(i) \subseteq Int /\ (i >= 1 => \A x \in LineBegins(i) : x <= i)
<1>1. \A k \in NewlinesBefore(i) : k + 1 \in Int /\ k + 1 <= i
  BY DEF NewlinesBefore
<1> QED BY <1>1 DEF LineBegins

(* What was scanned lies before the cursor.                                *)
LEMMA ScannedBehind ==
  ASSUME LexInv, NEW k \in Int, k >= Covered
  PROVE  ~InString(k)
<1> SUFFICES ASSUME NEW n \in 1..Len(scanned), k \in scanned[n].first..scanned[n].next - 1 PROVE FALSE
  BY DEF InString
<1>1. scanned[n].first \in 1..Len(source) /\ scanned[n].next \in scanned[n].first + 1..Covered
        /\ Covered \in Nat
  BY InSource DEF LexInv, Scanned, ScannedInSource
<1> QED BY <1>1

(* Nothing is scanned: the beginnings of lines are the same.               *)
LEMMA SameBegins ==
  ASSUME UNCHANGED <<source, scanned>>, NEW i
  PROVE  LineBegins(i)' = LineBegins(i)
BY DEF LineBegins, NewlinesBefore, InString

LEMMA NoNewlineNoBegin ==
  ASSUME NEW i \in Nat \ {0}, source[i] # Newline
  PROVE  LineBegins(i + 1) = LineBegins(i)
<1>1. 1..(i + 1) - 1 = (1..i - 1) \cup {i}
  OBVIOUS
<1>2. NewlinesBefore(i + 1) = NewlinesBefore(i)
  BY <1>1 DEF NewlinesBefore
<1> QED BY <1>2 DEF LineBegins

LEMMA NewlineBegins ==
  ASSUME NEW i \in Nat \ {0}, source[i] = Newline, ~InString(i)
  PROVE  IsLastBegin(i + 1, i + 1)
<1>1. i \in NewlinesBefore(i + 1)
  BY DEF NewlinesBefore
<1>2. i + 1 \in LineBegins(i + 1)
  BY <1>1 DEF LineBegins
<1> QED BY <1>2, LineBeginsType DEF IsLastBegin

LEMMA PositionsKept ==
  ASSUME PositionsAreThoseOfTheSource, UNCHANGED <<source, scanned>>
  PROVE  PositionsAreThoseOfTheSource'
<1>1. \A i : NewlinesBefore(i)' = NewlinesBefore(i) /\ LineBegins(i)' = LineBegins(i)
  BY SameNewlines, SameBegins
<1> QED BY <1>1 DEF PositionsAreThoseOfTheSource

-----------------------------------------------------------------------------
(* A token is returned.                                                    *)
IsReturned(t) ==
  /\ source' = source /\ scanned' = Append(scanned, t) /\ pc' = "idle" /\ cursor' = t.next
  /\ t.first \in Covered..Len(source) /\ t.next \in t.first + 1..Len(source) + 1
  /\ t.line = line /\ line' = line
  /\ t.column \in Int /\ cursor' - column' = t.first - t.column
  /\ IsLastBegin(t.first - t.column + 1, t.first)
  /\ t.next <= Len(source) =>
       t.type = "STRING" \/ \A i \in t.first..t.next - 1 : source[i] # Newline

LEMMA StringsAfterReturn ==
  ASSUME LexInv, NEW t, IsReturned(t), NEW k \in Int
  PROVE  InString(k)' <=> InString(k) \/ (t.type = "STRING" /\ k \in t.first..t.next - 1)
<1>1. PICK S : scanned \in Seq(S)
  BY DEF LexInv, Scanned, IsSequence
<1> DEFINE T == S \cup {t}
<1>2. scanned \in Seq(T) /\ t \in T
  BY <1>1, SeqMonotonic
<1>3. /\ Len(scanned') = Len(scanned) + 1 /\ Len(scanned) \in Nat
      /\ scanned'[Len(scanned) + 1] = t /\ \A n \in 1..Len(scanned) : scanned'[n] = scanned[n]
  BY <1>2, AppendProperties DEF IsReturned
<1>4. /\ \A n \in 1..Len(scanned') : n \in 1..Len(scanned) \/ n = Len(scanned) + 1
      /\ \A n \in 1..Len(scanned) : n \in 1..Len(scanned')
      /\ Len(scanned) + 1 \in 1..Len(scanned')
  BY <1>3
<1>5. InString(k)' <=> \E n \in 1..Len(scanned') :
        scanned'[n].type = "STRING" /\ k \in scanned'[n].first..scanned'[n].next - 1
  BY DEF InString
<1> QED BY <1>3, <1>4, <1>5 DEF InString

LEMMA BeginsBeforeToken ==
  ASSUME LexInv, NEW t, IsReturned(t), NEW i \in Nat, i <= t.first
  PROVE  LineBegins(i)' = LineBegins(i)
<1>1. t.first \in Int
  BY InSource DEF IsReturned
<1>2. NewlinesBefore(i)' = NewlinesBefore(i)
  BY SameNewlines DEF IsReturned
<1>3. ASSUME NEW k \in NewlinesBefore(i) PROVE InString(k)' <=> InString(k)
  <2>1. k \in Int /\ k < t.first
    BY <1>1 DEF NewlinesBefore
  <2>2. k \notin t.first..t.next - 1
    BY <1>1, <2>1
  <2> QED BY <2>1, <2>2, StringsAfterReturn
<1>4. {k \in NewlinesBefore(i)' : ~InString(k)'} = {k \in NewlinesBefore(i) : ~InString(k)}
  BY <1>2, <1>3
<1>5. LineBegins(i)' = {1} \cup {k + 1 : k \in {k \in NewlinesBefore(i)' : ~InString(k)'}}
  BY DEF LineBegins
<1> QED BY <1>4, <1>5 DEF LineBegins

(* No newline of a token begins a line.                                    *)
LEMMA BeginsAfterToken ==
  ASSUME LexInv, NEW t, IsReturned(t), t.next <= Len(source)
  PROVE  LineBegins(t.next)' = LineBegins(t.first)
<1>1. t.first \in Nat /\ t.next \in Nat /\ t.first < t.next
  BY InSource DEF IsReturned
<1>2. NewlinesBefore(t.next)' = NewlinesBefore(t.next)
  BY SameNewlines DEF IsReturned
<1>3. ASSUME NEW k \in NewlinesBefore(t.next), ~InString(k)'
      PROVE  k \in NewlinesBefore(t.first) /\ ~InString(k)
  <2>1. k \in Int /\ k \in 1..t.next - 1 /\ source[k] = Newline
    BY <1>1 DEF NewlinesBefore
  <2>2. ~InString(k) /\ ~(t.type = "STRING" /\ k \in t.first..t.next - 1)
    BY <1>3, <2>1, StringsAfterReturn
  <2>3. k \notin t.first..t.next - 1
    BY <2>1, <2>2 DEF IsReturned
  <2>4. k \in 1..t.first - 1
    BY <1>1, <2>1, <2>3
  <2> QED BY <2>1, <2>2, <2>4 DEF NewlinesBefore
<1>4. ASSUME NEW k \in NewlinesBefore(t.first), ~InString(k)
      PROVE  k \in NewlinesBefore(t.next) /\ ~InString(k)'
  <2>1. k \in 1..t.first - 1 /\ source[k] = Newline
    BY <1>1 DEF NewlinesBefore
  <2>2. k \in Int /\ k \in 1..t.next - 1 /\ k \notin t.first..t.next - 1
    BY <1>1, <2>1
  <2>3. ~InString(k)'
    BY <1>4, <2>2, StringsAfterReturn
  <2> QED BY <2>1, <2>2, <2>3 DEF NewlinesBefore
<1>5. {k \in NewlinesBefore(t.next)' : ~InString(k)'} = {k \in NewlinesBefore(t.first) : ~InString(k)}
  BY <1>2, <1>3, <1>4
<1>6. LineBegins(t.next)' = {1} \cup {k + 1 : k \in {k \in NewlinesBefore(t.next)' : ~InString(k)'}}
  BY DEF LineBegins
<1> QED BY <1>5, <1>6 DEF LineBegins

LEMMA ReturnKeepsPositions ==
  ASSUME PosInv, NEW t, IsReturned(t), LineOfCursor', LexerTypeOK'
  PROVE  ColumnOfCursor' /\ PositionsAreThoseOfTheSource'
<1>0. LexInv /\ t.first \in Nat \ {0} /\ t.next \in Nat /\ t.first < t.next /\ Len(source) \in Nat
        /\ source' = source /\ cursor' = t.next
  BY InSource DEF PosInv, IsReturned
<1>1. PICK S : scanned \in Seq(S)
  BY <1>0 DEF LexInv, Scanned, IsSequence
<1> DEFINE T == S \cup {t}
<1>2. scanned \in Seq(T) /\ t \in T
  BY <1>1, SeqMonotonic
<1>3. /\ Len(scanned') = Len(scanned) + 1 /\ Len(scanned) \in Nat
      /\ scanned'[Len(scanned) + 1] = t /\ \A n \in 1..Len(scanned) : scanned'[n] = scanned[n]
  BY <1>2, AppendProperties DEF IsReturned
<1>4. \A i : NewlinesBefore(i)' = NewlinesBefore(i)
  BY <1>0, SameNewlines
<1>5. \A i \in Nat : i <= t.first => LineBegins(i)' = LineBegins(i)
  BY <1>0, BeginsBeforeToken
<1>6. (t.line = 1 + Cardinality(NewlinesBefore(t.next)')) /\ IsLastBegin(t.first - t.column + 1, t.first)'
  <2>1. t.line = 1 + Cardinality(NewlinesBefore(cursor)')
    BY DEF LineOfCursor, IsReturned
  <2>2. LineBegins(t.first)' = LineBegins(t.first)
    BY <1>0, <1>5
  <2> QED BY <1>0, <1>4, <2>1, <2>2 DEF IsLastBegin, IsReturned
<1>7. ASSUME NEW n \in 1..Len(scanned') PROVE IsPlaced(scanned[n])'
  <2>1. CASE n = Len(scanned) + 1
    BY <1>3, <1>6, <2>1 DEF IsPlaced, IsLastBegin
  <2>2. CASE n # Len(scanned) + 1
    <3>1. n \in 1..Len(scanned)
      BY <1>3, <2>2
    <3>2. IsPlaced(scanned[n]) /\ scanned'[n] = scanned[n]
      BY <1>3, <3>1, PositionsByToken DEF PosInv
    <3>3. scanned[n].first \in Nat /\ scanned[n].first <= t.first
      <4>1. scanned[n].first \in 1..Len(source) /\ scanned[n].next \in scanned[n].first + 1..Covered
              /\ Covered \in Nat
        BY <1>0, <3>1, InSource DEF LexInv, Scanned, ScannedInSource
      <4> QED BY <4>1 DEF IsReturned
    <3>4. LineBegins(scanned[n].first)' = LineBegins(scanned[n].first)
      <4>1. LineBegins(scanned[n].first)' = {1} \cup {k + 1 : k \in {k \in NewlinesBefore(scanned[n].first) : ~InString(k)'}}
        BY <1>4, <3>2 DEF LineBegins, NewlinesBefore
      <4> DEFINE i == scanned[n].first
      <4>2. ASSUME NEW k \in NewlinesBefore(i) PROVE InString(k)' <=> InString(k)
        <5>1. k \in Int /\ k < t.first
          BY <1>0, <3>3 DEF NewlinesBefore
        <5>2. k \notin t.first..t.next - 1
          BY <1>0, <5>1
        <5> QED BY <1>0, <5>1, <5>2, StringsAfterReturn
      <4> QED BY <4>1, <4>2 DEF LineBegins
    <3> QED BY <1>4, <3>2, <3>4 DEF IsPlaced, IsLastBegin, NewlinesBefore
  <2> QED BY <2>1, <2>2
<1>8. PositionsAreThoseOfTheSource'
  BY <1>7 DEF PositionsAreThoseOfTheSource, IsPlaced, IsLastBegin
<1>9. ASSUME cursor' <= Len(source') PROVE IsLastBegin(cursor - column + 1, cursor)'
  <2>1. LineBegins(t.next)' = LineBegins(t.first)
    BY <1>0, <1>9, BeginsAfterToken
  <2>2. cursor' - column' + 1 = t.first - t.column + 1
    BY DEF IsReturned
  <2>3. LineBegins(cursor)' = LineBegins(t.first)
    BY <1>0, <2>1 DEF LineBegins, NewlinesBefore
  <2> QED BY <2>2, <2>3 DEF IsLastBegin, IsReturned
<1>10. ColumnOfCursor'
  BY <1>9 DEF ColumnOfCursor, Loops, IsReturned
<1> QED BY <1>8, <1>10

(* Outside of literals.                                                    *)
LEMMA SkippingKeepsColumn ==
  ASSUME PosInv, SkipSpace \/ SkipNewline \/ BeginComment \/ SkipComment \/ Scan \/ ReturnEof
                  \/ UNCHANGED lexerVars
  PROVE  ColumnOfCursor' /\ UNCHANGED <<source, scanned>>
<1>0. LexInv /\ cursor \in Nat \ {0} /\ column \in Int /\ Len(source) \in Nat /\ Covered <= cursor
  BY InSource DEF PosInv, LexInv, LexerTypeOK
<1>1. ASSUME UNCHANGED <<source, scanned, cursor, column>>,
             pc \in {"idle", "skip", "comment"}, pc' \in {"idle", "skip", "comment"}
      PROVE  ColumnOfCursor'
  <2>1. cursor <= Len(source) => IsLastBegin(cursor - column + 1, cursor)
    BY <1>1 DEF PosInv, ColumnOfCursor
  <2>2. LineBegins(cursor)' = LineBegins(cursor)
    BY <1>1 DEF LineBegins, NewlinesBefore, InString
  <2> QED BY <1>1, <2>1, <2>2 DEF ColumnOfCursor, IsLastBegin, Loops
<1>2. ASSUME UNCHANGED <<source, scanned>>, cursor' = cursor + 1, column' = column + 1,
             Peek(cursor) # NUL, Peek(cursor) # Newline,
             pc \in {"idle", "skip", "comment"}, pc' \in {"idle", "skip", "comment"}
      PROVE  ColumnOfCursor'
  <2>1. cursor <= Len(source) /\ source[cursor] # Newline
    BY <1>0, <1>2, InSource
  <2>2. IsLastBegin(cursor - column + 1, cursor)
    BY <1>2, <2>1 DEF PosInv, ColumnOfCursor
  <2>3. LineBegins(cursor + 1) = LineBegins(cursor)
    BY <1>0, <2>1, NoNewlineNoBegin
  <2>4. LineBegins(cursor)' = LineBegins(cursor + 1)
    BY <1>2 DEF LineBegins, NewlinesBefore, InString
  <2>5. cursor' - column' + 1 = cursor - column + 1
    BY <1>0, <1>2
  <2> QED BY <1>2, <2>2, <2>3, <2>4, <2>5 DEF ColumnOfCursor, IsLastBegin, Loops
<1>3. CASE Scan \/ ReturnEof
  BY <1>1, <1>3 DEF Scan, ReturnEof, Return, positionVars
<1>4. CASE SkipSpace
  BY <1>2, <1>4, Classes DEF SkipSpace, AdvanceTo
<1>5. CASE BeginComment
  BY <1>2, <1>5, Classes DEF BeginComment, AdvanceTo
<1>6. CASE SkipComment
  BY <1>1, <1>2, <1>6 DEF SkipComment, AdvanceTo, lexer_reached_end, positionVars
<1>7. CASE SkipNewline
  <2>1. /\ UNCHANGED <<source, scanned>> /\ cursor' = cursor + 1 /\ column' = 1 /\ pc' = "skip"
        /\ Peek(cursor) = Newline
    BY <1>7 DEF SkipNewline
  <2>2. source[cursor] = Newline
    BY <1>0, <2>1, InSource, Classes
  <2>3. ~InString(cursor)
    BY <1>0, ScannedBehind
  <2>4. IsLastBegin(cursor + 1, cursor + 1)
    BY <1>0, <2>2, <2>3, NewlineBegins
  <2>5. LineBegins(cursor)' = LineBegins(cursor + 1)
    BY <2>1 DEF LineBegins, NewlinesBefore, InString
  <2>6. cursor' - column' + 1 = cursor + 1
    BY <1>0, <2>1
  <2> QED BY <2>1, <2>4, <2>5, <2>6 DEF ColumnOfCursor, IsLastBegin, Loops
<1>8. CASE UNCHANGED lexerVars
  <2>1. UNCHANGED <<source, scanned, cursor, column, lexeme, lexemeStartColumn, pc>>
    BY <1>8 DEF lexerVars
  <2>2. LineBegins(cursor)' = LineBegins(cursor) /\ LineBegins(lexeme)' = LineBegins(lexeme)
    BY <2>1 DEF LineBegins, NewlinesBefore, InString
  <2> QED BY <2>1, <2>2 DEF PosInv, ColumnOfCursor, IsLastBegin
<1>9. UNCHANGED <<source, scanned>>
  BY DEF SkipSpace, SkipNewline, BeginComment, SkipComment, Scan, ReturnEof, AdvanceTo, Return, lexerVars
<1> QED BY <1>3, <1>4, <1>5, <1>6, <1>7, <1>8, <1>9

(* Into a literal and along it.                                            *)
LEMMA BeginLiteralKeepsColumn ==
  ASSUME PosInv, BeginLiteral
  PROVE  ColumnOfCursor' /\ UNCHANGED <<source, scanned>>
<1>1. /\ UNCHANGED <<source, scanned>> /\ pc = "skip" /\ cursor' = cursor + 1 /\ column' = column + 1
      /\ lexeme' = cursor /\ lexemeStartColumn' = column /\ pc' = LiteralLoop(Peek(cursor))
      /\ Peek(cursor) # NUL
  BY Classes DEF BeginLiteral, BeginLexeme
<1>2. cursor \in Nat \ {0} /\ column \in Int /\ cursor <= Len(source)
  BY <1>1, InSource DEF PosInv, LexInv, LexerTypeOK
<1>3. IsLastBegin(cursor - column + 1, cursor)
  BY <1>1, <1>2 DEF PosInv, ColumnOfCursor
<1>4. LineBegins(lexeme)' = LineBegins(cursor)
  BY <1>1 DEF LineBegins, NewlinesBefore, InString
<1>5. (cursor - column = lexeme - lexemeStartColumn)'
  BY <1>1, <1>2
<1>6. pc' \in Loops /\ pc' \notin {"idle", "skip", "comment"}
  BY <1>1 DEF LiteralLoop, Loops
<1>7. IsLastBegin(lexeme - lexemeStartColumn + 1, lexeme)'
  BY <1>1, <1>3, <1>4 DEF IsLastBegin
<1> QED BY <1>1, <1>5, <1>6, <1>7 DEF ColumnOfCursor

LEMMA LiteralKeepsColumn ==
  ASSUME PosInv, pc \in Loops, NEW next \in Loops, AdvanceTo(next)
  PROVE  ColumnOfCursor' /\ UNCHANGED <<source, scanned>>
<1>1. /\ UNCHANGED <<source, scanned, lexeme, lexemeStartColumn>> /\ pc' = next
      /\ cursor' = cursor + 1 /\ column' = column + 1
  BY DEF AdvanceTo
<1>2. cursor \in Nat \ {0} /\ column \in Int /\ lexeme \in Int /\ lexemeStartColumn \in Int
  BY InSource DEF PosInv, LexInv, LexerTypeOK
<1>3. cursor - column = lexeme - lexemeStartColumn /\ IsLastBegin(lexeme - lexemeStartColumn + 1, lexeme)
  BY DEF PosInv, ColumnOfCursor
<1>4. LineBegins(lexeme)' = LineBegins(lexeme)
  BY <1>1 DEF LineBegins, NewlinesBefore, InString
<1>5. (cursor - column = lexeme - lexemeStartColumn)'
  BY <1>1, <1>2, <1>3
<1>6. IsLastBegin(lexeme - lexemeStartColumn + 1, lexeme)'
  BY <1>1, <1>3, <1>4 DEF IsLastBegin
<1> QED BY <1>1, <1>5, <1>6 DEF ColumnOfCursor, Loops

(* A literal's token begins where the loop was entered.                    *)
LEMMA LiteralIsReturned ==
  ASSUME PosInv, pc \in Loops, NEW type, type # "EOF", NEW next \in {cursor, cursor + 1},
         next <= Len(source) + 1, Return(type, lexeme, next, lexemeStartColumn),
         cursor' = next, column' = column + (next - cursor),
         next <= Len(source) => type = "STRING" \/ \A i \in lexeme..next - 1 : source[i] # Newline
  PROVE  IsReturned(Token(type, lexeme, next, line, lexemeStartColumn))
<1> DEFINE t == Token(type, lexeme, next, line, lexemeStartColumn)
<1>1. /\ t.type = type /\ t.first = lexeme /\ t.next = next /\ t.line = line
      /\ t.column = lexemeStartColumn
  BY DEF Token
<1>2. source' = source /\ line' = line /\ pc' = "idle" /\ scanned' = Append(scanned, t)
  BY DEF Return
<1>3. Covered <= lexeme /\ lexeme < cursor
  BY DEF PosInv, LexInv, Loop, Literal
<1>4. cursor \in 1..Len(source) + 1 /\ column \in Int /\ lexeme \in Nat /\ lexemeStartColumn \in Int
        /\ Covered \in Nat /\ Len(source) \in Nat
  BY InSource DEF PosInv, LexInv, LexerTypeOK
<1>5. cursor - column = lexeme - lexemeStartColumn /\ IsLastBegin(lexeme - lexemeStartColumn + 1, lexeme)
  BY DEF PosInv, ColumnOfCursor
<1>6. lexeme \in Covered..Len(source) /\ next \in lexeme + 1..Len(source) + 1
  BY <1>3, <1>4
<1>7. cursor' - column' = lexeme - lexemeStartColumn
  BY <1>4, <1>5
<1> HIDE DEF t
<1>8. IsReturned(t)
  BY <1>1, <1>2, <1>4, <1>5, <1>6, <1>7 DEF IsReturned
<1> QED BY <1>8 DEF t

LEMMA SymbolIsReturned ==
  ASSUME PosInv, ReturnSymbol
  PROVE  \E t : IsReturned(t)
<1> DEFINE c == Peek(cursor)
           isPair == c \in PairChars /\ Peek(cursor + 1) = SecondChar(c)
           type == CASE c \in Others -> "ERROR" [] isPair -> PairType(c) [] OTHER -> SingleType(c)
           t == Token(type, cursor, cursor', line, column)
<1>1. pc = "skip" /\ c \in SingleChars \cup PairChars \cup Others
        /\ cursor' = cursor + (IF isPair THEN 2 ELSE 1)
        /\ column' = column + (IF isPair THEN 2 ELSE 1)
        /\ Return(type, cursor, cursor', column)
  BY DEF ReturnSymbol
<1>2. type # "EOF"
  BY <1>1 DEF PairType, SingleType
<1>3. source' = source /\ line' = line /\ pc' = "idle" /\ scanned' = Append(scanned, t)
  BY <1>1, <1>2 DEF Return
<1>4. cursor \in Covered..Len(source) /\ c = source[cursor] /\ cursor \in Nat /\ column \in Int
        /\ Covered \in Nat /\ Len(source) \in Nat
  BY <1>1, InSource, Classes DEF PosInv, LexInv, LexerTypeOK
<1>5. t.first = cursor /\ t.next = cursor' /\ t.line = line /\ t.column = column
  BY DEF Token
<1>6. IsLastBegin(cursor - column + 1, cursor)
  BY <1>1, <1>4 DEF PosInv, ColumnOfCursor
<1>7. cursor' \in cursor + 1..Len(source) + 1 /\ \A i \in cursor..cursor' - 1 : source[i] # Newline
  <2>1. source[cursor] # Newline
    BY <1>1, <1>4, Classes
  <2>2. CASE isPair
    <3>1. Peek(cursor + 1) # NUL /\ Peek(cursor + 1) # Newline
      BY <2>2 DEF SecondChar, NUL, Newline
    <3>2. cursor + 1 <= Len(source) /\ source[cursor + 1] # Newline
      BY <3>1 DEF Peek
    <3>3. cursor' = cursor + 2
      BY <1>1, <2>2
    <3>4. \A i \in cursor..cursor' - 1 : i = cursor \/ i = cursor + 1
      BY <1>4, <3>3
    <3> QED BY <1>4, <2>1, <3>2, <3>3, <3>4
  <2>3. CASE ~isPair
    <3>1. cursor' = cursor + 1
      BY <1>1, <2>3
    <3>2. \A i \in cursor..cursor' - 1 : i = cursor
      BY <1>4, <3>1
    <3> QED BY <1>4, <2>1, <3>1, <3>2
  <2> QED BY <2>2, <2>3
<1>8. cursor' - column' = cursor - column
  <2>1. \A n \in {1, 2} : (cursor + n) - (column + n) = cursor - column
    BY <1>4
  <2>2. \E n \in {1, 2} : cursor' = cursor + n /\ column' = column + n
    BY <1>1
  <2> QED BY <2>1, <2>2
<1> HIDE DEF t
<1>9. IsReturned(t)
  BY <1>3, <1>4, <1>5, <1>6, <1>7, <1>8 DEF IsReturned
<1> QED BY <1>9

LEMMA StringKeepsColumn ==
  ASSUME PosInv, StringLiteral
  PROVE  (ColumnOfCursor' /\ UNCHANGED <<source, scanned>>) \/ \E t : IsReturned(t)
<1>1. pc = "string" /\ pc \in Loops
  BY DEF StringLiteral, Loops
<1>2. cursor \in 1..Len(source) + 1 /\ Len(source) \in Nat /\ column \in Int
        /\ (Peek(cursor) = NUL <=> cursor = Len(source) + 1)
  BY InSource DEF PosInv, LexInv, LexerTypeOK
<1>3. CASE Peek(cursor) = Quote
  <2>1. cursor' = cursor + 1 /\ column' = column + 1 /\ Return("STRING", lexeme, cursor + 1, lexemeStartColumn)
    BY <1>3, Classes DEF StringLiteral, lexer_reached_end
  <2>2. cursor + 1 <= Len(source) + 1 /\ cursor + 1 \in {cursor, cursor + 1} /\ (cursor + 1) - cursor = 1
    BY <1>2, <1>3, Classes
  <2>3. column' = column + ((cursor + 1) - cursor) /\ "STRING" # "EOF"
    BY <2>1, <2>2
  <2> QED BY <1>1, <2>1, <2>2, <2>3, LiteralIsReturned
<1>4. CASE Peek(cursor) # Quote /\ lexer_reached_end
  <2>1. Return("ERROR", lexeme, cursor, lexemeStartColumn) /\ cursor' = cursor /\ column' = column
    BY <1>4 DEF StringLiteral, Make
  <2>2. cursor = Len(source) + 1 /\ cursor \in {cursor, cursor + 1} /\ cursor <= Len(source) + 1
          /\ ~(cursor <= Len(source)) /\ column' = column + (cursor - cursor) /\ "ERROR" # "EOF"
    BY <1>2, <1>4, <2>1 DEF lexer_reached_end
  <2> QED BY <1>1, <2>1, <2>2, LiteralIsReturned
<1>5. CASE Peek(cursor) # Quote /\ ~lexer_reached_end
  <2>1. AdvanceTo("string")
    BY <1>5 DEF StringLiteral
  <2> QED BY <1>1, <2>1, LiteralKeepsColumn
<1> QED BY <1>3, <1>4, <1>5

LEMMA MadeIsReturned ==
  ASSUME PosInv, pc \in {"integer", "fraction", "identifier"}, NEW type, type # "EOF", Make(type)
  PROVE  \E t : IsReturned(t)
<1>1. pc \in Loops /\ Return(type, lexeme, cursor, lexemeStartColumn) /\ cursor' = cursor /\ column' = column
  BY DEF Loops, Make
<1>2. cursor \in 1..Len(source) + 1 /\ Len(source) \in Nat /\ column \in Int /\ LexInv
  BY InSource DEF PosInv, LexInv, LexerTypeOK
<1>3. \A i \in lexeme..cursor - 1 : source[i] # Newline
  <2>1. CASE pc = "integer"
    BY <1>2, <2>1, Classes DEF LexInv, Loop, Literal, Rest
  <2>2. CASE pc = "fraction"
    BY <1>2, <2>2, Classes DEF LexInv, Loop, Literal, Rest
  <2>3. CASE pc = "identifier"
    BY <1>2, <2>3, Classes DEF LexInv, Loop, Literal, Rest
  <2> QED BY <2>1, <2>2, <2>3
<1>4. cursor \in {cursor, cursor + 1} /\ cursor <= Len(source) + 1 /\ column' = column + (cursor - cursor)
  BY <1>1, <1>2
<1> QED BY <1>1, <1>3, <1>4, LiteralIsReturned

LEMMA StepKeepsPosInv ==
  ASSUME PosInv, [LexerNext]_lexerVars
  PROVE  PosInv'
<1>1. LexInv' /\ LineOfCursor' /\ LexerTypeOK'
  BY StepKeepsLexInv, LineFollowsCursor DEF PosInv, LexInv
<1>2. ASSUME NEW t, IsReturned(t) PROVE PosInv'
  BY <1>1, <1>2, ReturnKeepsPositions DEF PosInv
<1>3. ASSUME ColumnOfCursor', UNCHANGED <<source, scanned>> PROVE PosInv'
  BY <1>1, <1>3, PositionsKept DEF PosInv
<1>4. CASE SkipSpace \/ SkipNewline \/ BeginComment \/ SkipComment \/ Scan \/ ReturnEof
             \/ UNCHANGED lexerVars
  BY <1>3, <1>4, SkippingKeepsColumn
<1>5. CASE BeginLiteral
  BY <1>3, <1>5, BeginLiteralKeepsColumn
<1>6. CASE ReturnSymbol
  BY <1>2, <1>6, SymbolIsReturned
<1>7. CASE StringLiteral
  BY <1>2, <1>3, <1>7, StringKeepsColumn
<1>8. CASE NumericLiteral
  <2>1. pc \in {"integer", "fraction"} /\ (Make("NUMBER") \/ \E next \in Loops : AdvanceTo(next))
    BY <1>8 DEF NumericLiteral, Loops
  <2>2. "NUMBER" # "EOF" /\ pc \in Loops
    BY <2>1 DEF Loops
  <2> QED BY <1>2, <1>3, <2>1, <2>2, MadeIsReturned, LiteralKeepsColumn
<1>9. CASE IdentifierLiteral
  <2> DEFINE type == IdentifierType(SubSeq(source, lexeme, cursor - 1))
  <2>1. pc = "identifier" /\ (Make(type) \/ AdvanceTo("identifier"))
    BY <1>9 DEF IdentifierLiteral
  <2>2. type # "EOF"
    <3>1. Trie(SubSeq(source, lexeme, cursor - 1)).type # "EOF"
      BY DEF Trie, Leaf, NoLeaf
    <3> QED BY <3>1 DEF IdentifierType
  <2> HIDE DEF type
  <2> QED BY <1>2, <1>3, <2>1, <2>2, MadeIsReturned, LiteralKeepsColumn DEF Loops
<1> QED BY <1>4, <1>5, <1>6, <1>7, <1>8, <1>9 DEF LexerNext

LEMMA InitialPosInv == LexerInit => PosInv
<1> SUFFICES ASSUME LexerInit PROVE PosInv
  OBVIOUS
<1>1. LexInv
  BY InitialLexInv
<1>2. scanned = <<>> /\ cursor = 1 /\ pc = "idle" /\ line = 1 /\ column = 1
  BY DEF LexerInit
<1>3. NewlinesBefore(1) = {}
  BY DEF NewlinesBefore
<1>4. LineOfCursor
  BY <1>2, <1>3, FS_EmptySet DEF LineOfCursor
<1>5. LineBegins(1) = {1}
  BY <1>3 DEF LineBegins
<1>6. ColumnOfCursor
  BY <1>2, <1>5 DEF ColumnOfCursor, IsLastBegin, Loops
<1>7. Len(scanned) = 0
  BY <1>2
<1>8. PositionsAreThoseOfTheSource
  BY <1>7 DEF PositionsAreThoseOfTheSource
<1> QED BY <1>1, <1>4, <1>6, <1>8 DEF PosInv

(* Every token carries the line and the column where it is (lexer.c 41-66, *)
(* 128-156): what the compiler and the machine report to the user.         *)
THEOREM LexerReportsPositions == LexerSpec => []PositionsAreThoseOfTheSource
<1>1. PosInv /\ [LexerNext]_lexerVars => PosInv'
  BY StepKeepsPosInv
<1>2. PosInv => PositionsAreThoseOfTheSource
  BY DEF PosInv
<1> QED BY InitialPosInv, <1>1, <1>2, PTL DEF LexerSpec
=============================================================================
