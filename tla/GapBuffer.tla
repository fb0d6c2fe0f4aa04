------------------------------ MODULE GapBuffer ------------------------------
(***************************************************************************)
(* The gap buffer of src/cli/gap_buffer.c, which holds the physical line   *)
(* the REPL is editing: the text before the cursor at the start of the     *)
(* buffer, the text after it at the end, and the gap in between.           *)
(*                                                                         *)
(* `buffer' is the allocation, indexed from 0; a cell that was never       *)
(* written holds some character, chosen when it is allocated.  The capacity*)
(* is 0 while the buffer is uninitialized.                                 *)
(***************************************************************************)
EXTENDS Integers, SequencesExt

CONSTANTS Chars, WordChars,
          Texts,             \* lines of the history that may be loaded
          InitialCapacity,   \* INPUT_LINE_INITIAL_GROWTH_CAPACITY: 128
          MaxLength          \* bound of the model: characters typed in a line

ASSUME GapBufferAssumption ==
  /\ InitialCapacity \in Nat \ {0}
  /\ WordChars \subseteq Chars
  /\ Texts \subseteq Seq(Chars)

VARIABLES buffer, capacity, gapStart, gapEnd, returned

gapVars == <<buffer, capacity, gapStart, gapEnd, returned>>

Boundary == Chars \ WordChars
Cells(n) == [0..(n - 1) -> Chars]
ContentLength == gapStart + (capacity - gapEnd)

GapBufferInit ==
  /\ buffer = <<>> /\ capacity = 0 /\ gapStart = 0 /\ gapEnd = 0
  /\ returned = FALSE

gap_buffer_init ==
  /\ capacity = 0
  /\ buffer' \in Cells(InitialCapacity)
  /\ capacity' = InitialCapacity
  /\ gapStart' = 0
  /\ gapEnd' = InitialCapacity
  /\ UNCHANGED returned

gap_buffer_destroy ==
  /\ capacity > 0
  /\ buffer' = <<>> /\ capacity' = 0 /\ gapStart' = 0 /\ gapEnd' = 0
  /\ UNCHANGED returned

(* memmove, within one allocation                                          *)
Moved(cells, destination, origin, count) ==
  [i \in DOMAIN cells |->
     IF i \in destination..(destination + count - 1)
     THEN cells[origin + (i - destination)] ELSE cells[i]]

(* realloc: cells that are kept, and new ones.                             *)
Reallocated(n, fresh) ==
  [i \in 0..(n - 1) |-> IF i \in DOMAIN buffer THEN buffer[i] ELSE fresh]

(* gap_buffer_resize.  The new gap end is computed from the old capacity,  *)
(* so it is the old gap end, and the capacity is not updated: what it      *)
(* leaves is in the allocation alone.                                      *)
Resized(n, fresh) ==
  LET postGapLength == capacity - gapEnd
      newGapEnd == capacity - postGapLength
  IN  Moved(Reallocated(n, fresh), newGapEnd, gapEnd, postGapLength)

gap_buffer_insert_char(c) ==
  /\ capacity > 0
  /\ ContentLength < MaxLength
  /\ \E fresh \in Chars :
       LET cells == IF gapStart = gapEnd THEN Resized(capacity * 2, fresh) ELSE buffer
       IN  buffer' = [cells EXCEPT ![gapStart] = c]
  /\ gapStart' = gapStart + 1
  /\ UNCHANGED <<capacity, gapEnd, returned>>

-----------------------------------------------------------------------------
(* Deletions move an end of the gap and leave the cells as they are.       *)
OpenLeft(start) ==
  /\ capacity > 0
  /\ gapStart' = start
  /\ returned' = (start # gapStart)
  /\ UNCHANGED <<buffer, capacity, gapEnd>>

OpenRight(end) ==
  /\ capacity > 0
  /\ gapEnd' = end
  /\ returned' = (end # gapEnd)
  /\ UNCHANGED <<buffer, capacity, gapStart>>

(* The loops over characters of one class.                                 *)
SkipLeft(index, Class) ==
  CHOOSE i \in 0..index :
    /\ \A k \in i..(index - 1) : buffer[k] \in Class
    /\ i > 0 => buffer[i - 1] \notin Class

SkipRight(index, end, Class) ==
  CHOOSE i \in index..end :
    /\ \A k \in index..(i - 1) : buffer[k] \in Class
    /\ i < end => buffer[i] \notin Class

gap_buffer_delete_char_left == OpenLeft(IF gapStart = 0 THEN 0 ELSE gapStart - 1)

(* Mutation: no check that there is a character to delete.                 *)
DeleteCharRightUnchecked == OpenRight(gapEnd + 1)

gap_buffer_delete_char_right ==
  OpenRight(IF gapEnd = capacity THEN capacity ELSE gapEnd + 1)

(* Mutation: the second loop does not look at the characters.              *)
DeleteWordLeftUnchecked == OpenLeft(SkipLeft(SkipLeft(gapStart, Boundary), Chars))

gap_buffer_delete_word_left ==
  OpenLeft(SkipLeft(SkipLeft(gapStart, Boundary), WordChars))
gap_buffer_delete_word_right ==
  OpenRight(SkipRight(SkipRight(gapEnd, capacity, Boundary), capacity, WordChars))
gap_buffer_delete_content_left == OpenLeft(0)
gap_buffer_delete_content_right == OpenRight(capacity)

gap_buffer_clear_content ==
  /\ capacity > 0
  /\ gapStart' = 0
  /\ gapEnd' = capacity
  /\ UNCHANGED <<buffer, capacity, returned>>

(* gap_buffer_load_content: the smallest of capacity, 2 * capacity, ... that*)
(* holds the text.                                                         *)
CapacityFor(length) ==
  IF length <= capacity THEN capacity
  ELSE capacity * 2 ^ Min({k \in 1..length : capacity * 2 ^ k >= length})

gap_buffer_load_content(text) ==
  /\ capacity > 0
  /\ \E fresh \in Chars :
       LET cells == Resized(CapacityFor(Len(text)), fresh)
       IN  buffer' = [i \in DOMAIN cells |->
                        IF i < Len(text) THEN text[i + 1] ELSE cells[i]]
  /\ gapStart' = Len(text)
  /\ gapEnd' = capacity
  /\ UNCHANGED <<capacity, returned>>

-----------------------------------------------------------------------------
(* Cursor movements move text across the gap.                              *)
gap_buffer_move_cursor_to_index(index) ==
  /\ capacity > 0
  /\ \/ index = gapStart /\ UNCHANGED <<buffer, gapStart, gapEnd>>
     \/ LET count == gapStart - index
        IN  /\ count > 0
            /\ buffer' = Moved(buffer, gapEnd - count, index, count)
            /\ gapStart' = index
            /\ gapEnd' = gapEnd - count
     \/ LET count == index - gapStart
        IN  /\ count > 0
            /\ buffer' = Moved(buffer, gapStart, gapEnd, count)
            /\ gapStart' = index
            /\ gapEnd' = gapEnd + count
  /\ UNCHANGED <<capacity, returned>>

gap_buffer_move_cursor_left_by_char ==
  /\ capacity > 0
  /\ gapStart > 0
  /\ buffer' = [buffer EXCEPT ![gapEnd - 1] = buffer[gapStart - 1]]
  /\ gapStart' = gapStart - 1
  /\ gapEnd' = gapEnd - 1
  /\ UNCHANGED <<capacity, returned>>

gap_buffer_move_cursor_right_by_char ==
  /\ capacity > 0
  /\ gapEnd # capacity
  /\ buffer' = [buffer EXCEPT ![gapStart] = buffer[gapEnd]]
  /\ gapStart' = gapStart + 1
  /\ gapEnd' = gapEnd + 1
  /\ UNCHANGED <<capacity, returned>>

gap_buffer_move_cursor_left_by_word ==
  gap_buffer_move_cursor_to_index(SkipLeft(SkipLeft(gapStart, Boundary), WordChars))

(* The characters after the cursor are looked for at the cursor index,     *)
(* where the gap is.                                                       *)
gap_buffer_move_cursor_right_by_word ==
  gap_buffer_move_cursor_to_index(
    SkipRight(SkipRight(gapStart, ContentLength, Boundary), ContentLength, WordChars))

gap_buffer_move_cursor_to_start == gap_buffer_move_cursor_to_index(0)
gap_buffer_move_cursor_to_end == gap_buffer_move_cursor_to_index(ContentLength)

-----------------------------------------------------------------------------
GapBufferNext ==
  \/ gap_buffer_init
  \/ gap_buffer_destroy
  \/ \E c \in Chars : gap_buffer_insert_char(c)
  \/ gap_buffer_delete_char_left
  \/ gap_buffer_delete_char_right
  \/ gap_buffer_delete_word_left
  \/ gap_buffer_delete_word_right
  \/ gap_buffer_delete_content_left
  \/ gap_buffer_delete_content_right
  \/ gap_buffer_clear_content
  \/ \E text \in Texts : gap_buffer_load_content(text)
  \/ gap_buffer_move_cursor_left_by_char
  \/ gap_buffer_move_cursor_left_by_word
  \/ gap_buffer_move_cursor_right_by_char
  \/ gap_buffer_move_cursor_right_by_word
  \/ gap_buffer_move_cursor_to_start
  \/ gap_buffer_move_cursor_to_end

GapBufferSpec == GapBufferInit /\ [][GapBufferNext]_gapVars

(* The content, as gap_buffer_get_content copies it.                       *)
Content(cells, from, to) == [i \in 1..(to - from) |-> cells[from + i - 1]]

(* As long as a line fits in the initial capacity, the gap lies within the *)
(* buffer, so no operation reads or writes outside it (the cursor index,   *)
(* gap_end and the counts of gap_buffer.c are all unsigned: a gap that ends*)
(* before it starts would wrap them).                                      *)
GapWithinBuffer ==
  /\ capacity \in {0, InitialCapacity}
  /\ buffer \in Cells(capacity)
  /\ gapStart \in 0..gapEnd
  /\ gapEnd \in 0..capacity
  /\ returned \in BOOLEAN

Line == INSTANCE TextLine
          WITH before <- Content(buffer, 0, gapStart),
               after <- Content(buffer, gapEnd, capacity)

(* What each operation does to the line.  Moving right by a word takes an  *)
(* index of the content for one of the buffer (gap_buffer.c:331): it gets  *)
(* to the end of the next word only when the gap is empty, and otherwise no*)
(* more is certain than that it moves to the right.                        *)
InsertsOrLoads ==
  /\ \A c \in Chars : gap_buffer_insert_char(c) => Line!Insert(c)
  /\ \A text \in Texts : gap_buffer_load_content(text) => Line!Load(text)
  /\ gap_buffer_init => UNCHANGED Line!lineVars
  /\ gap_buffer_clear_content \/ gap_buffer_destroy => Line!Load(<<>>)
Deletes ==
  /\ gap_buffer_delete_char_left => Line!DeleteCharLeft
  /\ gap_buffer_delete_word_left => Line!DeleteWordLeft
  /\ gap_buffer_delete_content_left => Line!DeleteContentLeft
  /\ gap_buffer_delete_char_right => Line!DeleteCharRight
  /\ gap_buffer_delete_word_right => Line!DeleteWordRight
  /\ gap_buffer_delete_content_right => Line!DeleteContentRight
Moves ==
  /\ gap_buffer_move_cursor_left_by_char => Line!MoveLeftByChar
  /\ gap_buffer_move_cursor_left_by_word => Line!MoveLeftByWord
  /\ gap_buffer_move_cursor_to_start => Line!MoveToStart
  /\ gap_buffer_move_cursor_right_by_char => Line!MoveRightByChar
  /\ gap_buffer_move_cursor_right_by_word =>
       /\ Line!MoveRight
       /\ gapStart = gapEnd => Line!MoveRightByWord
  /\ gap_buffer_move_cursor_to_end => Line!MoveToEnd

(* A buffer whose line fits in the initial capacity is a line editor: a    *)
(* character is inserted where the cursor is, every deletion deletes the   *)
(* character, the word or the side that it names and reports whether it    *)
(* did, and every cursor movement leaves the text and gets where it says,  *)
(* the one to the right by a word only without a gap (gap_buffer.c:98-353).*)
EditsLine == Line!LineSpec /\ [][InsertsOrLoads /\ Deletes /\ Moves]_gapVars

(* A character typed at the cursor goes between the text before it and the *)
(* text after it (gap_buffer.c:118).                                       *)
InsertsAtCursor ==
  [][\A c \in Chars : gap_buffer_insert_char(c) => Line!Insert(c)]_gapVars
=============================================================================
