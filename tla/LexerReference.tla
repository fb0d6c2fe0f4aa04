--------------------------- MODULE LexerReference ---------------------------
(***************************************************************************)
(* The lexical grammar of the language, stated without a cursor: what each *)
(* kind of token looks like, what may stand between tokens, and that the   *)
(* longest token wins.                                                     *)
(***************************************************************************)
EXTENDS Lexer

AllIn(word, class) == \A i \in 1..Len(word) : word[i] \in class

IsString(word) ==
  /\ Len(word) >= 2 /\ word[1] = Quote /\ word[Len(word)] = Quote
  /\ \A i \in 2..Len(word) - 1 : word[i] # Quote
IsNumber(word) ==
  \/ Len(word) >= 1 /\ AllIn(word, Digits)
  \/ \E point \in 2..Len(word) - 1 :
       /\ word[point] = "."
       /\ \A i \in 1..Len(word) : i # point => word[i] \in Digits
IsIdentifier(word) ==
  Len(word) >= 1 /\ word[1] \in Letters /\ AllIn(word, Letters \cup Digits)

Spelling(keyword) ==
  CASE keyword = "TRUE" -> <<"t", "r", "u", "e">>
    [] keyword = "FALSE" -> <<"f", "a", "l", "s", "e">>
    [] keyword = "VAR" -> <<"v", "a", "r">>
    [] keyword = "NIL" -> <<"n", "i", "l">>
    [] keyword = "AND" -> <<"a", "n", "d">>
    [] keyword = "OR" -> <<"o", "r">>
    [] keyword = "FUN" -> <<"f", "u", "n">>
    [] keyword = "RETURN" -> <<"r", "e", "t", "u", "r", "n">>
    [] keyword = "IF" -> <<"i", "f">>
    [] keyword = "ELSE" -> <<"e", "l", "s", "e">>
    [] keyword = "WHILE" -> <<"w", "h", "i", "l", "e">>
    [] keyword = "FOR" -> <<"f", "o", "r">>
    [] keyword = "CLASS" -> <<"c", "l", "a", "s", "s">>
    [] keyword = "SUPER" -> <<"s", "u", "p", "e", "r">>
    [] keyword = "THIS" -> <<"t", "h", "i", "s">>
    [] OTHER -> <<"p", "r", "i", "n", "t">>
Keywords == {"TRUE", "FALSE", "VAR", "NIL", "AND", "OR", "FUN", "RETURN", "IF",
             "ELSE", "WHILE", "FOR", "CLASS", "SUPER", "THIS", "PRINT"}

(* The types of token a word can be: one, or none.                         *)
TypesOf(word) ==
  (IF IsString(word) THEN {"STRING"} ELSE {})
    \cup (IF IsNumber(word) THEN {"NUMBER"} ELSE {})
    \cup (IF IsIdentifier(word)
          THEN IF \E k \in Keywords : Spelling(k) = word
               THEN {k \in Keywords : Spelling(k) = word} ELSE {"IDENTIFIER"}
          ELSE {})
    \cup (IF Len(word) = 1 /\ AllIn(word, SingleChars \cup PairChars)
          THEN {SingleType(word[1])} ELSE {})
    \cup (IF Len(word) = 2 /\ word[1] \in PairChars /\ word[2] = SecondChar(word[1])
          THEN {PairType(word[1])} ELSE {})

Word(first, next) == SubSeq(source, first, next - 1)
Ends(first) == {next \in first + 1..Len(source) + 1 : TypesOf(Word(first, next)) # {}}

(* The longest word wins; where no word begins there is an error, of one   *)
(* character or of an unterminated string up to the end of the source.     *)
IsLongest(t) ==
  IF Ends(t.first) = {}
  THEN /\ t.type = "ERROR"
       /\ t.next = IF source[t.first] = Quote THEN Len(source) + 1 ELSE t.first + 1
  ELSE /\ t.next \in Ends(t.first) /\ \A next \in Ends(t.first) : next <= t.next
       /\ t.type \in TypesOf(Word(t.first, t.next))

(* White space and comments, a comment up to the end of its line.          *)
InComment(begin, i) ==
  \E k \in begin..i : source[k] = "#" /\ \A n \in k..i : source[n] # Newline
IsGap(begin, next) ==
  /\ \A i \in begin..next - 1 :
       source[i] \in Spaces \cup {Newline} \/ InComment(begin, i)
  /\ next <= Len(source) => ~InComment(begin, next)

TokenEnd(n) == IF n = 0 THEN 1 ELSE scanned[n].next

(* The tokens and the gaps between them make up the source, every token is *)
(* as long as it can be and has the type of its spelling, and EOF is       *)
(* delivered when nothing but a gap is left.                               *)
TokensAreThoseOfTheSource ==
  /\ \A n \in 1..Len(scanned) :
       /\ IsGap(TokenEnd(n - 1), scanned[n].first)
       /\ IsLongest(scanned[n])
  /\ token.type = "EOF" => IsGap(TokenEnd(Len(scanned)), Len(source) + 1)
=============================================================================
