------------------------------ MODULE MCLexer ------------------------------
(***************************************************************************)
(* Instances of the lexer for TLC: short texts of one character of every   *)
(* class, longer ones of the characters that a literal, a comment or a     *)
(* position depends on, and words that are, begin, extend or nearly are    *)
(* keywords.                                                               *)
(***************************************************************************)
EXTENDS LexerReference, SequencesExt

MCDigits == {"1"}
MCSpaces == {" "}
MCOthers == {"@"}
MCLetters == {"_"} \cup UNION {{Spelling(k)[i] : i \in 1..Len(Spelling(k))} : k \in Keywords}

Classes == {"1", ".", "=", "@", " ", "#", Quote, Newline, "e"}
TextsOf(chars, length) == UNION {[1..n -> chars] : n \in 0..length}

KeywordSpellings == {Spelling(k) : k \in Keywords}
Variants(word) ==
  {SubSeq(word, 1, n) : n \in 1..Len(word)}
    \cup {word \o <<c>> : c \in {"e", "1", "="}}
    \cup {[word EXCEPT ![i] = c] : i \in 1..Len(word), c \in {"a", "o", "r", "s"}}

MCSources ==
  TextsOf(Classes, 4)
    \cup TextsOf({"_", "<", "=", ";", "!", ">"}, 3)
    \cup TextsOf({"1", ".", "e"}, 6)
    \cup TextsOf({Quote, Newline, "#", "1"}, 6)
    \cup {<<c>> : c \in SingleChars}
    \cup UNION {Variants(word) : word \in KeywordSpellings}
=============================================================================
