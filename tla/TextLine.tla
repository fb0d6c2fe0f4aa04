------------------------------ MODULE TextLine ------------------------------
(***************************************************************************)
(* What a line editor promises: a text, and a cursor between the text      *)
(* before it and the text after it.  A word is a run of word characters; an*)
(* operation on a word also takes the other characters between the cursor  *)
(* and that word.                                                          *)
(***************************************************************************)
EXTENDS Integers, SequencesExt

CONSTANTS Chars, WordChars,  \* characters, and those a word is made of
          Texts              \* what may be loaded

VARIABLES before, after,     \* the text on each side of the cursor
          returned           \* what the last deletion returned

lineVars == <<before, after, returned>>

LineInit == before = <<>> /\ after = <<>> /\ returned = FALSE

(* Where the last word of a text begins, and where its first word ends:    *)
(* characters to keep to the left, characters to pass to the right.        *)
LastWordBegin(text) ==
  Max({0} \cup {i \in 1..(Len(text) - 1) :
                  text[i] \notin WordChars /\ text[i + 1] \in WordChars})
FirstWordEnd(text) ==
  Min({Len(text)} \cup {i \in 1..(Len(text) - 1) :
                          text[i] \in WordChars /\ text[i + 1] \notin WordChars})

Insert(c) == before' = Append(before, c) /\ UNCHANGED <<after, returned>>

(* A deletion tells whether there was anything to delete.                  *)
KeepBefore(n) ==
  /\ before' = SubSeq(before, 1, n)
  /\ returned' = (n < Len(before))
  /\ UNCHANGED after

DropAfter(n) ==
  /\ after' = SubSeq(after, n + 1, Len(after))
  /\ returned' = (n > 0)
  /\ UNCHANGED before

DeleteCharLeft == KeepBefore(Max({0, Len(before) - 1}))
DeleteWordLeft == KeepBefore(LastWordBegin(before))
DeleteContentLeft == KeepBefore(0)
DeleteCharRight == DropAfter(Min({1, Len(after)}))
DeleteWordRight == DropAfter(FirstWordEnd(after))
DeleteContentRight == DropAfter(Len(after))

Delete ==
  \/ DeleteCharLeft \/ DeleteWordLeft \/ DeleteContentLeft
  \/ DeleteCharRight \/ DeleteWordRight \/ DeleteContentRight

Load(text) == before' = text /\ after' = <<>> /\ UNCHANGED returned

(* The cursor moves and the text stays.                                    *)
MoveTo(n) ==
  LET text == before \o after
  IN  /\ before' = SubSeq(text, 1, n)
      /\ after' = SubSeq(text, n + 1, Len(text))
      /\ UNCHANGED returned

MoveLeftByChar == MoveTo(Max({0, Len(before) - 1}))
MoveLeftByWord == MoveTo(LastWordBegin(before))
MoveToStart == MoveTo(0)
MoveRightByChar == MoveTo(Len(before) + Min({1, Len(after)}))
MoveRightByWord == MoveTo(Len(before) + FirstWordEnd(after))
MoveToEnd == MoveTo(Len(before) + Len(after))
(* What gap_buffer.c makes of a movement to the right by a word in general.*)
MoveRight == \E n \in 0..Len(after) : MoveTo(Len(before) + n)

Move ==
  \/ MoveLeftByChar \/ MoveLeftByWord \/ MoveToStart
  \/ MoveRightByChar \/ MoveRight \/ MoveToEnd

LineNext ==
  \/ \E c \in Chars : Insert(c)
  \/ Delete
  \/ \E text \in Texts \cup {<<>>} : Load(text)
  \/ Move

LineSpec == LineInit /\ [][LineNext]_lineVars
=============================================================================
