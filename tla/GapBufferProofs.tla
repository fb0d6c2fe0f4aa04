--------------------------- MODULE GapBufferProofs ---------------------------
(***************************************************************************)
(* Proofs about the gap buffer for every alphabet and every initial        *)
(* capacity, as long as no line is longer than that capacity.              *)
(***************************************************************************)
EXTENDS GapBuffer, WellFoundedInduction, TLAPS

ShortLines ==
  /\ MaxLength \in Nat /\ MaxLength <= InitialCapacity
  /\ \A text \in Texts : Len(text) <= InitialCapacity

(* A nonempty set of naturals has a least element.                         *)
LEMMA Least ==
  ASSUME NEW T, T \subseteq Nat, T # {}
  PROVE  \E x \in T : \A y \in T : x <= y
<1>1. PICK x \in T : \A y \in T : ~(<<y, x>> \in OpToRel(<, Nat))
  BY WFMin, NatLessThanWellFounded
<1>2. \A y \in T : ~(y < x)
  BY <1>1 DEF OpToRel
<1> QED BY <1>2

(* The loops stop within the bounds they test.                             *)
LEMMA SkipLeftFacts ==
  ASSUME NEW index \in Nat, NEW Class
  PROVE  /\ SkipLeft(index, Class) \in 0..index
         /\ \A k \in SkipLeft(index, Class)..(index - 1) : buffer[k] \in Class
         /\ SkipLeft(index, Class) > 0 => buffer[SkipLeft(index, Class) - 1] \notin Class
<1> DEFINE P(i) == /\ \A k \in i..(index - 1) : buffer[k] \in Class
                   /\ i > 0 => buffer[i - 1] \notin Class
           T == {i \in 0..index : \A k \in i..(index - 1) : buffer[k] \in Class}
<1>1. T \subseteq Nat /\ index \in T
  OBVIOUS
<1>2. PICK i \in T : \A j \in T : i <= j
  BY <1>1, Least
<1>3. ASSUME i > 0, buffer[i - 1] \in Class PROVE FALSE
  <2>1. i - 1 \in 0..index
    BY <1>3
  <2>2. \A k \in (i - 1)..(index - 1) : k = i - 1 \/ k \in i..(index - 1)
    OBVIOUS
  <2>3. i - 1 \in T
    BY <1>3, <2>1, <2>2
  <2> QED BY <1>2, <2>3
<1>4. i \in 0..index /\ P(i)
  BY <1>3
<1> QED BY <1>4 DEF SkipLeft

LEMMA SkipRightFacts ==
  ASSUME NEW index \in Nat, NEW end \in Nat, index <= end, NEW Class
  PROVE  /\ SkipRight(index, end, Class) \in index..end
         /\ \A k \in index..(SkipRight(index, end, Class) - 1) : buffer[k] \in Class
         /\ SkipRight(index, end, Class) < end =>
              buffer[SkipRight(index, end, Class)] \notin Class
<1> DEFINE P(i) == /\ \A k \in index..(i - 1) : buffer[k] \in Class
                   /\ i < end => buffer[i] \notin Class
           T == {i \in index..end : i < end => buffer[i] \notin Class}
<1>1. T \subseteq Nat /\ end \in T
  OBVIOUS
<1>2. PICK i \in T : \A j \in T : i <= j
  BY <1>1, Least
<1>3. ASSUME NEW k \in index..(i - 1) PROVE buffer[k] \in Class
  <2>1. k \notin T
    BY <1>2
  <2> QED BY <2>1
<1>4. i \in index..end /\ P(i)
  BY <1>3
<1> QED BY <1>4 DEF SkipRight

(* memmove within an allocation keeps its size.                            *)
LEMMA MovedType ==
  ASSUME NEW n \in Nat, NEW cells \in Cells(n), NEW destination \in Nat,
         NEW origin \in Nat, NEW count \in Nat, origin + count <= n
  PROVE  Moved(cells, destination, origin, count) \in Cells(n)
<1>1. ASSUME NEW i \in 0..(n - 1),
             i \in destination..(destination + count - 1)
      PROVE  cells[origin + (i - destination)] \in Chars
  <2>1. origin + (i - destination) \in 0..(n - 1)
    BY <1>1
  <2> QED BY <2>1 DEF Cells
<1>2. \A i \in 0..(n - 1) : cells[i] \in Chars
  BY DEF Cells
<1>3. DOMAIN cells = 0..(n - 1)
  BY DEF Cells
<1> QED BY <1>1, <1>2, <1>3 DEF Moved, Cells

(* What GapWithinBuffer says once the buffer is initialized.               *)
LEMMA LiveTypes ==
  ASSUME GapWithinBuffer
  PROVE  /\ capacity \in Nat /\ gapStart \in Nat /\ gapEnd \in Nat
         /\ gapStart <= gapEnd /\ gapEnd <= capacity
         /\ ContentLength \in Nat /\ ContentLength <= capacity
         /\ gapStart <= ContentLength
         /\ buffer \in Cells(capacity)
         /\ InitialCapacity \in Nat
         /\ capacity > 0 => capacity = InitialCapacity
BY GapBufferAssumption DEF GapWithinBuffer, ContentLength

LEMMA InsertStep ==
  ASSUME ShortLines, GapWithinBuffer, NEW c \in Chars, gap_buffer_insert_char(c)
  PROVE  /\ gapStart < gapEnd
         /\ buffer' = [buffer EXCEPT ![gapStart] = c]
         /\ GapWithinBuffer'
<1>1. gapStart < gapEnd
  <2>1. ContentLength < capacity
    BY LiveTypes DEF ShortLines, gap_buffer_insert_char
  <2> QED BY <2>1, LiveTypes DEF ContentLength
<1>2. buffer' = [buffer EXCEPT ![gapStart] = c]
  BY <1>1, LiveTypes DEF gap_buffer_insert_char
<1>3. buffer' \in Cells(capacity)
  BY <1>1, <1>2, LiveTypes DEF Cells
<1>4. gapStart' = gapStart + 1 /\ UNCHANGED <<capacity, gapEnd, returned>>
  BY DEF gap_buffer_insert_char
<1>5. GapWithinBuffer'
  BY <1>1, <1>3, <1>4, LiveTypes DEF GapWithinBuffer
<1> QED BY <1>1, <1>2, <1>5

LEMMA OpenLeftStep ==
  ASSUME GapWithinBuffer, NEW start \in 0..gapStart, OpenLeft(start)
  PROVE  GapWithinBuffer'
BY LiveTypes DEF OpenLeft, GapWithinBuffer

LEMMA OpenRightStep ==
  ASSUME GapWithinBuffer, NEW end \in gapEnd..capacity, OpenRight(end)
  PROVE  GapWithinBuffer'
BY LiveTypes DEF OpenRight, GapWithinBuffer

LEMMA MoveStep ==
  ASSUME GapWithinBuffer, NEW index \in 0..ContentLength,
         gap_buffer_move_cursor_to_index(index)
  PROVE  GapWithinBuffer'
<1>1. /\ UNCHANGED <<capacity, returned>> /\ capacity > 0
  BY DEF gap_buffer_move_cursor_to_index
<1>2. CASE index = gapStart /\ UNCHANGED <<buffer, gapStart, gapEnd>>
  BY <1>1, <1>2 DEF GapWithinBuffer
<1>3. ASSUME NEW count, count = gapStart - index, count > 0,
             buffer' = Moved(buffer, gapEnd - count, index, count),
             gapStart' = index, gapEnd' = gapEnd - count
      PROVE  GapWithinBuffer'
  <2>1. /\ count \in Nat /\ gapEnd - count \in Nat /\ index \in Nat
        /\ index + count <= capacity /\ index <= gapEnd - count
    BY <1>3, LiveTypes
  <2>2. buffer' \in Cells(capacity)
    BY <1>3, <2>1, LiveTypes, MovedType
  <2>3. gapStart' \in 0..gapEnd' /\ gapEnd' \in 0..capacity
    BY <1>3, <2>1, LiveTypes
  <2> QED BY <1>1, <2>2, <2>3 DEF GapWithinBuffer
<1>4. ASSUME NEW count, count = index - gapStart, count > 0,
             buffer' = Moved(buffer, gapStart, gapEnd, count),
             gapStart' = index, gapEnd' = gapEnd + count
      PROVE  GapWithinBuffer'
  <2>1. /\ count \in Nat /\ gapEnd + count \in Nat /\ index \in Nat
        /\ gapEnd + count <= capacity /\ index <= gapEnd + count
    BY <1>4, LiveTypes DEF ContentLength
  <2>2. buffer' \in Cells(capacity)
    BY <1>4, <2>1, LiveTypes, MovedType
  <2>3. gapStart' \in 0..gapEnd' /\ gapEnd' \in 0..capacity
    BY <1>4, <2>1, LiveTypes
  <2> QED BY <1>1, <2>2, <2>3 DEF GapWithinBuffer
<1> QED BY <1>2, <1>3, <1>4 DEF gap_buffer_move_cursor_to_index

(* Loading a text that fits resizes nothing.                               *)
LEMMA LoadStep ==
  ASSUME ShortLines, GapWithinBuffer, NEW text \in Texts, gap_buffer_load_content(text)
  PROVE  /\ buffer' = [i \in 0..(capacity - 1) |->
                          IF i < Len(text) THEN text[i + 1] ELSE buffer[i]]
         /\ GapWithinBuffer'
<1>1. text \in Seq(Chars) /\ Len(text) \in Nat /\ Len(text) <= capacity /\ capacity > 0
  BY LiveTypes, GapBufferAssumption DEF ShortLines, gap_buffer_load_content
<1>2. CapacityFor(Len(text)) = capacity
  BY <1>1, LiveTypes DEF CapacityFor
<1>3. PICK fresh \in Chars :
        LET cells == Resized(CapacityFor(Len(text)), fresh)
        IN  buffer' = [i \in DOMAIN cells |->
                         IF i < Len(text) THEN text[i + 1] ELSE cells[i]]
  BY DEF gap_buffer_load_content
<1>4. DOMAIN buffer = 0..(capacity - 1) /\ buffer = [i \in 0..(capacity - 1) |-> buffer[i]]
  BY LiveTypes DEF Cells
<1>5. Reallocated(capacity, fresh) = buffer
  BY <1>4, Zenon DEF Reallocated
<1>6. capacity - (capacity - gapEnd) = gapEnd
  BY LiveTypes
<1>7. Resized(capacity, fresh) = Moved(buffer, gapEnd, gapEnd, capacity - gapEnd)
  BY <1>5, <1>6 DEF Resized
<1>8. \A i \in 0..(capacity - 1) : gapEnd + (i - gapEnd) = i
  BY LiveTypes
<1>9. Moved(buffer, gapEnd, gapEnd, capacity - gapEnd)
        = [i \in 0..(capacity - 1) |-> buffer[i]]
  BY <1>4, <1>8 DEF Moved
<1>10. Resized(capacity, fresh) = buffer
  BY <1>4, <1>7, <1>9
<1>11. buffer' = [i \in 0..(capacity - 1) |->
                    IF i < Len(text) THEN text[i + 1] ELSE buffer[i]]
  BY <1>2, <1>3, <1>4, <1>10
<1>12. buffer' \in Cells(capacity)
  <2>1. \A i \in 0..(capacity - 1) : buffer[i] \in Chars
    BY LiveTypes DEF Cells
  <2>2. \A i \in 0..(capacity - 1) : i < Len(text) => text[i + 1] \in Chars
    BY <1>1, LiveTypes
  <2> QED BY <1>11, <2>1, <2>2 DEF Cells
<1>13. gapStart' = Len(text) /\ gapEnd' = capacity /\ UNCHANGED <<capacity, returned>>
  BY DEF gap_buffer_load_content
<1> QED BY <1>1, <1>11, <1>12, <1>13, LiveTypes DEF GapWithinBuffer

(* The targets of the operations on words.                                 *)
WordLeft == SkipLeft(SkipLeft(gapStart, Boundary), WordChars)
WordRight(index, end) == SkipRight(SkipRight(index, end, Boundary), end, WordChars)

LEMMA WordTargets ==
  ASSUME GapWithinBuffer
  PROVE  /\ WordLeft \in 0..gapStart
         /\ WordRight(gapEnd, capacity) \in gapEnd..capacity
         /\ WordRight(gapStart, ContentLength) \in gapStart..ContentLength
<1>1. ASSUME NEW index \in Nat, NEW end \in Nat, index <= end
      PROVE  WordRight(index, end) \in index..end
  <2>1. SkipRight(index, end, Boundary) \in index..end
    BY <1>1, SkipRightFacts
  <2> DEFINE middle == SkipRight(index, end, Boundary)
  <2>2. middle \in Nat /\ middle <= end
    BY <1>1, <2>1
  <2> HIDE DEF middle
  <2>3. SkipRight(middle, end, WordChars) \in middle..end
    BY <1>1, <2>2, SkipRightFacts
  <2> QED BY <1>1, <2>1, <2>2, <2>3 DEF WordRight, middle
<1>2. WordLeft \in 0..gapStart
  <2>1. SkipLeft(gapStart, Boundary) \in 0..gapStart
    BY LiveTypes, SkipLeftFacts
  <2> DEFINE middle == SkipLeft(gapStart, Boundary)
  <2>2. middle \in Nat /\ middle <= gapStart
    BY <2>1, LiveTypes
  <2> HIDE DEF middle
  <2>3. SkipLeft(middle, WordChars) \in 0..middle
    BY <2>2, SkipLeftFacts
  <2> QED BY <2>2, <2>3, LiveTypes DEF WordLeft, middle
<1> QED BY <1>1, <1>2, LiveTypes

LEMMA GapStep ==
  ASSUME ShortLines, GapWithinBuffer, [GapBufferNext]_gapVars
  PROVE  GapWithinBuffer'
<1>1. CASE gap_buffer_init
  <2>1. InitialCapacity \in Nat /\ InitialCapacity > 0
    BY GapBufferAssumption
  <2> QED BY <1>1, <2>1 DEF gap_buffer_init, GapWithinBuffer
<1>2. CASE gap_buffer_destroy
  BY <1>2 DEF gap_buffer_destroy, GapWithinBuffer, Cells
<1>3. ASSUME NEW c \in Chars, gap_buffer_insert_char(c) PROVE GapWithinBuffer'
  BY <1>3, InsertStep
<1>4. CASE \/ gap_buffer_delete_char_left
           \/ gap_buffer_delete_word_left
           \/ gap_buffer_delete_content_left
  <2>1. PICK start \in 0..gapStart : OpenLeft(start)
    BY <1>4, LiveTypes, WordTargets
       DEF gap_buffer_delete_char_left, gap_buffer_delete_word_left,
           gap_buffer_delete_content_left, WordLeft
  <2> QED BY <2>1, OpenLeftStep
<1>5. CASE \/ gap_buffer_delete_char_right
           \/ gap_buffer_delete_word_right
           \/ gap_buffer_delete_content_right
  <2>1. PICK end \in gapEnd..capacity : OpenRight(end)
    BY <1>5, LiveTypes, WordTargets
       DEF gap_buffer_delete_char_right, gap_buffer_delete_word_right,
           gap_buffer_delete_content_right, WordRight
  <2> QED BY <2>1, OpenRightStep
<1>6. CASE gap_buffer_clear_content
  BY <1>6, LiveTypes DEF gap_buffer_clear_content, GapWithinBuffer
<1>7. ASSUME NEW text \in Texts, gap_buffer_load_content(text) PROVE GapWithinBuffer'
  BY <1>7, LoadStep
<1>8. CASE gap_buffer_move_cursor_left_by_char
  <2>1. buffer[gapStart - 1] \in Chars
    BY <1>8, LiveTypes DEF gap_buffer_move_cursor_left_by_char, Cells
  <2> QED BY <1>8, <2>1, LiveTypes
          DEF gap_buffer_move_cursor_left_by_char, GapWithinBuffer, Cells
<1>9. CASE gap_buffer_move_cursor_right_by_char
  <2>1. buffer[gapEnd] \in Chars
    BY <1>9, LiveTypes DEF gap_buffer_move_cursor_right_by_char, Cells
  <2> QED BY <1>9, <2>1, LiveTypes
          DEF gap_buffer_move_cursor_right_by_char, GapWithinBuffer, Cells
<1>10. CASE \/ gap_buffer_move_cursor_left_by_word
            \/ gap_buffer_move_cursor_right_by_word
            \/ gap_buffer_move_cursor_to_start
            \/ gap_buffer_move_cursor_to_end
  <2>1. PICK index \in 0..ContentLength : gap_buffer_move_cursor_to_index(index)
    BY <1>10, LiveTypes, WordTargets
       DEF gap_buffer_move_cursor_left_by_word, gap_buffer_move_cursor_right_by_word,
           gap_buffer_move_cursor_to_start, gap_buffer_move_cursor_to_end,
           WordLeft, WordRight
  <2> QED BY <2>1, MoveStep
<1>11. CASE UNCHANGED gapVars
  BY <1>11 DEF gapVars, GapWithinBuffer
<1> QED
  BY <1>1, <1>2, <1>3, <1>4, <1>5, <1>6, <1>7, <1>8, <1>9, <1>10, <1>11
  DEF GapBufferNext

(* As long as no line is longer than the initial capacity, no operation    *)
(* leaves the gap outside the buffer or ending before it starts            *)
(* (gap_buffer.c:99-353).                                                  *)
THEOREM GapStaysWithinBuffer ==
  ASSUME ShortLines
  PROVE  GapBufferSpec => []GapWithinBuffer
<1>1. GapBufferInit => GapWithinBuffer
  <2>1. <<>> \in Cells(0)
    BY DEF Cells
  <2>2. 0 \in 0..0
    OBVIOUS
  <2> QED BY <2>1, <2>2 DEF GapBufferInit, GapWithinBuffer
<1>2. GapWithinBuffer /\ [GapBufferNext]_gapVars => GapWithinBuffer'
  BY GapStep
<1> QED BY <1>1, <1>2, PTL DEF GapBufferSpec

-----------------------------------------------------------------------------
(* The gap buffer implements the line editor of module TextLine.           *)
Before == Content(buffer, 0, gapStart)
After == Content(buffer, gapEnd, capacity)

LEMMA ContentFacts ==
  ASSUME NEW n \in Nat, NEW cells \in Cells(n), NEW from \in Nat, NEW to \in Nat,
         from <= to, to <= n
  PROVE  /\ Content(cells, from, to) \in Seq(Chars)
         /\ Len(Content(cells, from, to)) = to - from
         /\ \A i \in 1..(to - from) : Content(cells, from, to)[i] = cells[from + i - 1]
<1>1. \A i \in 1..(to - from) : cells[from + i - 1] \in Chars
  BY DEF Cells
<1> QED BY <1>1 DEF Content

LEMMA SidesFacts ==
  ASSUME GapWithinBuffer
  PROVE  /\ Before \in Seq(Chars) /\ Len(Before) = gapStart
         /\ \A i \in 1..gapStart : Before[i] = buffer[i - 1]
         /\ After \in Seq(Chars) /\ Len(After) = capacity - gapEnd
         /\ \A i \in 1..(capacity - gapEnd) : After[i] = buffer[gapEnd + i - 1]
<1>0. /\ capacity \in Nat /\ gapStart \in Nat /\ gapEnd \in Nat
      /\ 0 \in Nat /\ 0 <= gapStart /\ gapStart <= capacity /\ gapEnd <= capacity
      /\ capacity <= capacity /\ buffer \in Cells(capacity)
  BY LiveTypes
<1>1. /\ Before \in Seq(Chars) /\ Len(Before) = gapStart - 0
      /\ \A i \in 1..(gapStart - 0) : Before[i] = buffer[0 + i - 1]
  BY <1>0, ContentFacts DEF Before
<1>2. /\ After \in Seq(Chars) /\ Len(After) = capacity - gapEnd
      /\ \A i \in 1..(capacity - gapEnd) : After[i] = buffer[gapEnd + i - 1]
  BY <1>0, ContentFacts DEF After
<1> QED BY <1>1, <1>2, LiveTypes

(* The loop of the deletion to the left stops where the last word begins.  *)
LEMMA WordLeftIsWordBegin ==
  ASSUME GapWithinBuffer
  PROVE  WordLeft = Line!LastWordBegin(Before)
<1> DEFINE m == SkipLeft(gapStart, Boundary)
           w == SkipLeft(m, WordChars)
           S == {0} \cup {i \in 1..(Len(Before) - 1) :
                            Before[i] \notin WordChars /\ Before[i + 1] \in WordChars}
<1>1. /\ m \in 0..gapStart
      /\ \A k \in m..(gapStart - 1) : buffer[k] \in Boundary
      /\ m > 0 => buffer[m - 1] \notin Boundary
  BY LiveTypes, SkipLeftFacts
<1>2. m \in Nat
  BY <1>1, LiveTypes
<1> HIDE DEF m
<1>3. /\ w \in 0..m
      /\ \A k \in w..(m - 1) : buffer[k] \in WordChars
      /\ w > 0 => buffer[w - 1] \notin WordChars
  BY <1>2, SkipLeftFacts
<1>4. WordLeft = w
  BY DEF WordLeft, m
<1> HIDE DEF w
<1>5. \A k \in 0..(gapStart - 1) : buffer[k] \in Chars
  BY LiveTypes DEF Cells
<1>6. Len(Before) = gapStart /\ \A i \in 1..gapStart : Before[i] = buffer[i - 1]
  BY SidesFacts
<1>7. w \in S
  <2>1. CASE w > 0
    <3>1. buffer[m - 1] \in WordChars
      BY <1>1, <1>3, <1>5, <2>1, LiveTypes DEF Boundary
    <3>2. w < m
      <4>1. w # m
        BY <1>3, <2>1, <3>1
      <4> QED BY <1>2, <1>3, <4>1
    <3>3. buffer[w] \in WordChars /\ buffer[w - 1] \notin WordChars
      <4>1. w \in w..(m - 1)
        BY <1>2, <1>3, <3>2
      <4> QED BY <1>3, <2>1, <4>1
    <3>4. w \in 1..(gapStart - 1)
      BY <1>1, <1>3, <2>1, <3>2, LiveTypes
    <3>5. Before[w] = buffer[w - 1] /\ Before[w + 1] = buffer[w]
      <4>1. w \in 1..gapStart /\ w + 1 \in 1..gapStart /\ (w + 1) - 1 = w
        BY <3>4, LiveTypes
      <4> QED BY <1>6, <4>1
    <3> QED BY <1>6, <3>3, <3>4, <3>5
  <2>2. CASE w = 0
    BY <2>2
  <2> QED BY <1>3, <2>1, <2>2
<1>8. ASSUME NEW y \in S PROVE w >= y
  <2>1. SUFFICES ASSUME y > w PROVE FALSE
    BY <1>3, LiveTypes, <1>6
  <2>2. y \in 1..(gapStart - 1) /\ Before[y] \notin WordChars /\ Before[y + 1] \in WordChars
    BY <1>3, <1>6, <2>1
  <2>3. buffer[y - 1] \notin WordChars /\ buffer[y] \in WordChars
    <3>1. y \in 1..gapStart /\ y + 1 \in 1..gapStart /\ (y + 1) - 1 = y
      BY <2>2, LiveTypes
    <3> QED BY <1>6, <2>2, <3>1
  <2>4. y - 1 >= m
    <3>1. SUFFICES ASSUME y - 1 < m PROVE FALSE
      BY <1>2, <2>2
    <3>2. y - 1 \in w..(m - 1)
      BY <1>2, <1>3, <2>1, <2>2, <3>1
    <3> QED BY <1>3, <2>3, <3>2
  <2>5. y \in m..(gapStart - 1)
    BY <1>2, <2>2, <2>4
  <2> QED BY <1>1, <2>3, <2>5 DEF Boundary
<1>9. \A x \in S : (\A y \in S : x >= y) => x = w
  <2>1. S \subseteq Int
    BY <1>6, LiveTypes
  <2> QED BY <1>7, <1>8, <2>1
<1>10. Line!Max(S) = w
  BY <1>7, <1>8, <1>9 DEF Line!Max
<1> QED BY <1>4, <1>10 DEF Line!LastWordBegin

(* The loop of the deletion to the right stops where the first word ends.  *)
LEMMA WordRightIsWordEnd ==
  ASSUME GapWithinBuffer
  PROVE  WordRight(gapEnd, capacity) - gapEnd = Line!FirstWordEnd(After)
<1> DEFINE m == SkipRight(gapEnd, capacity, Boundary)
           w == SkipRight(m, capacity, WordChars)
           S == {Len(After)} \cup {i \in 1..(Len(After) - 1) :
                            After[i] \in WordChars /\ After[i + 1] \notin WordChars}
<1>0. gapEnd \in Nat /\ capacity \in Nat /\ gapEnd <= capacity
  BY LiveTypes
<1>1. /\ m \in gapEnd..capacity
      /\ \A k \in gapEnd..(m - 1) : buffer[k] \in Boundary
      /\ m < capacity => buffer[m] \notin Boundary
  BY <1>0, SkipRightFacts
<1>2. m \in Nat /\ m <= capacity /\ gapEnd <= m
  BY <1>0, <1>1
<1> HIDE DEF m
<1>3. /\ w \in m..capacity
      /\ \A k \in m..(w - 1) : buffer[k] \in WordChars
      /\ w < capacity => buffer[w] \notin WordChars
  BY <1>0, <1>2, SkipRightFacts
<1>4. WordRight(gapEnd, capacity) = w
  BY DEF WordRight, m
<1> HIDE DEF w
<1>5. \A k \in 0..(capacity - 1) : buffer[k] \in Chars
  BY LiveTypes DEF Cells
<1>6. /\ Len(After) = capacity - gapEnd
      /\ \A i \in 1..(capacity - gapEnd) : After[i] = buffer[gapEnd + i - 1]
  BY SidesFacts
<1>7. w - gapEnd \in S
  <2>1. CASE w < capacity
    <3>1. m < capacity
      BY <1>0, <1>2, <1>3, <2>1
    <3>2. buffer[m] \in WordChars
      <4>1. m \in 0..(capacity - 1)
        BY <1>0, <1>2, <3>1
      <4> QED BY <1>1, <1>5, <3>1, <4>1 DEF Boundary
    <3>3. w > m
      <4>1. w # m
        BY <1>3, <2>1, <3>2
      <4> QED BY <1>0, <1>2, <1>3, <4>1
    <3>4. buffer[w - 1] \in WordChars /\ buffer[w] \notin WordChars
      <4>1. w - 1 \in m..(w - 1)
        BY <1>0, <1>2, <1>3, <3>3
      <4> QED BY <1>3, <2>1, <4>1
    <3>5. w - gapEnd \in 1..(capacity - gapEnd - 1)
      BY <1>0, <1>2, <1>3, <2>1, <3>3
    <3>6. After[w - gapEnd] = buffer[w - 1] /\ After[w - gapEnd + 1] = buffer[w]
      <4>1. /\ w - gapEnd \in 1..(capacity - gapEnd)
            /\ w - gapEnd + 1 \in 1..(capacity - gapEnd)
            /\ gapEnd + (w - gapEnd) - 1 = w - 1
            /\ gapEnd + (w - gapEnd + 1) - 1 = w
        BY <1>0, <1>2, <1>3, <3>5
      <4> QED BY <1>6, <4>1
    <3> QED BY <1>6, <3>4, <3>5, <3>6
  <2>2. CASE w = capacity
    BY <1>6, <2>2
  <2> QED BY <1>0, <1>2, <1>3, <2>1, <2>2
<1>8. ASSUME NEW y \in S PROVE w - gapEnd <= y
  <2>1. CASE y = Len(After)
    BY <1>0, <1>2, <1>3, <1>6, <2>1
  <2>2. CASE y \in 1..(capacity - gapEnd - 1)
             /\ After[y] \in WordChars /\ After[y + 1] \notin WordChars
    <3>1. SUFFICES ASSUME gapEnd + y < w PROVE FALSE
      BY <1>0, <1>2, <1>3, <2>2
    <3>2. buffer[gapEnd + y - 1] \in WordChars /\ buffer[gapEnd + y] \notin WordChars
      <4>1. /\ y \in 1..(capacity - gapEnd) /\ y + 1 \in 1..(capacity - gapEnd)
            /\ gapEnd + (y + 1) - 1 = gapEnd + y
        BY <1>0, <2>2
      <4> QED BY <1>6, <2>2, <4>1
    <3>3. gapEnd + y - 1 >= m
      <4>1. SUFFICES ASSUME gapEnd + y - 1 < m PROVE FALSE
        BY <1>0, <1>2, <2>2
      <4>2. gapEnd + y - 1 \in gapEnd..(m - 1)
        BY <1>0, <1>2, <2>2, <4>1
      <4> QED BY <1>1, <3>2, <4>2 DEF Boundary
    <3>4. gapEnd + y \in m..(w - 1)
      BY <1>0, <1>2, <1>3, <2>2, <3>1, <3>3
    <3> QED BY <1>3, <3>2, <3>4
  <2> QED BY <1>6, <2>1, <2>2
<1>9. \A x \in S : (\A y \in S : x <= y) => x = w - gapEnd
  <2>1. S \subseteq Int
    BY <1>0, <1>6
  <2>2. w - gapEnd \in Int
    BY <1>0, <1>2, <1>3
  <2> QED BY <1>7, <1>8, <2>1, <2>2
<1>10. Line!Min(S) = w - gapEnd
  BY <1>7, <1>8, <1>9 DEF Line!Min
<1> QED BY <1>4, <1>10 DEF Line!FirstWordEnd

(* A cursor movement that keeps the cells in place on both sides of the gap*)
(* splits the same text at another position.                               *)
LEMMA SplitElsewhere ==
  ASSUME NEW Items,
         NEW b \in Seq(Items), NEW a \in Seq(Items),
         NEW b2 \in Seq(Items), NEW a2 \in Seq(Items),
         Len(b2) + Len(a2) = Len(b) + Len(a),
         \A i \in 1..Len(b2) :
           /\ i <= Len(b) => b2[i] = b[i]
           /\ i > Len(b) => b2[i] = a[i - Len(b)],
         \A i \in 1..Len(a2) :
           /\ Len(b2) + i <= Len(b) => a2[i] = b[Len(b2) + i]
           /\ Len(b2) + i > Len(b) => a2[i] = a[Len(b2) + i - Len(b)]
  PROVE  LET text == b \o a
         IN  /\ b2 = SubSeq(text, 1, Len(b2))
             /\ a2 = SubSeq(text, Len(b2) + 1, Len(text))
<1> SUFFICES ASSUME NEW text, text = b \o a
             PROVE  /\ b2 = SubSeq(text, 1, Len(b2))
                    /\ a2 = SubSeq(text, Len(b2) + 1, Len(text))
  OBVIOUS
<1>1. /\ text \in Seq(Items) /\ Len(text) = Len(b) + Len(a)
      /\ Len(b) \in Nat /\ Len(a) \in Nat
  OBVIOUS
<1>7. ASSUME NEW i \in 1..Len(text), i <= Len(b) PROVE text[i] = b[i]
  BY <1>7
<1>8. ASSUME NEW i \in 1..Len(text), i > Len(b) PROVE text[i] = a[i - Len(b)]
  BY <1>8
<1>2. /\ Len(b2) \in Nat /\ Len(a2) \in Nat
      /\ Len(b2) <= Len(text) /\ Len(text) = Len(b2) + Len(a2)
  BY <1>1
<1>3. /\ SubSeq(text, 1, Len(b2)) \in Seq(Items)
      /\ Len(SubSeq(text, 1, Len(b2))) = Len(b2)
      /\ \A i \in 1..Len(b2) : SubSeq(text, 1, Len(b2))[i] = text[i]
  BY <1>1, <1>2
<1>4. b2 = SubSeq(text, 1, Len(b2))
  <2>1. ASSUME NEW i \in 1..Len(b2) PROVE b2[i] = text[i]
    <3>1. i \in 1..Len(text)
      BY <1>1, <1>2
    <3>2. CASE i <= Len(b)
      BY <1>7, <3>1, <3>2
    <3>3. CASE i > Len(b)
      BY <1>8, <3>1, <3>3
    <3> QED BY <1>1, <3>1, <3>2, <3>3
  <2> QED BY <1>3, <2>1
<1>5. /\ SubSeq(text, Len(b2) + 1, Len(text)) \in Seq(Items)
      /\ Len(SubSeq(text, Len(b2) + 1, Len(text))) = Len(a2)
      /\ \A i \in 1..Len(a2) :
           SubSeq(text, Len(b2) + 1, Len(text))[i] = text[Len(b2) + i]
  BY <1>1, <1>2
<1>6. a2 = SubSeq(text, Len(b2) + 1, Len(text))
  <2>1. ASSUME NEW i \in 1..Len(a2) PROVE a2[i] = text[Len(b2) + i]
    <3>1. Len(b2) + i \in 1..Len(text)
      BY <1>1, <1>2
    <3>2. CASE Len(b2) + i <= Len(b)
      BY <1>7, <3>1, <3>2
    <3>3. CASE Len(b2) + i > Len(b)
      BY <1>8, <3>1, <3>3
    <3> QED BY <1>1, <3>1, <3>2, <3>3
  <2> QED BY <1>5, <2>1
<1> QED BY <1>4, <1>6

(* The two sides of a gap.                                                 *)
GapIn(n, cells, start, end) ==
  /\ n \in Nat /\ cells \in Cells(n)
  /\ start \in Nat /\ end \in Nat /\ start <= end /\ end <= n

SidesRead(n, cells, start, end) ==
  /\ Content(cells, 0, start) \in Seq(Chars)
  /\ Len(Content(cells, 0, start)) = start
  /\ \A i \in 1..start : Content(cells, 0, start)[i] = cells[i - 1]
  /\ Content(cells, end, n) \in Seq(Chars)
  /\ Len(Content(cells, end, n)) = n - end
  /\ \A i \in 1..(n - end) : Content(cells, end, n)[i] = cells[end + i - 1]

LEMMA SidesOfGap ==
  ASSUME NEW n, NEW cells, NEW start, NEW end, GapIn(n, cells, start, end)
  PROVE  SidesRead(n, cells, start, end)
<1> USE DEF GapIn, SidesRead
<1>1. /\ Content(cells, 0, start) \in Seq(Chars)
      /\ Len(Content(cells, 0, start)) = start - 0
      /\ \A i \in 1..(start - 0) : Content(cells, 0, start)[i] = cells[0 + i - 1]
  <2>1. 0 \in Nat /\ 0 <= start /\ start <= n
    OBVIOUS
  <2> QED BY <2>1, ContentFacts
<1>2. /\ Content(cells, end, n) \in Seq(Chars)
      /\ Len(Content(cells, end, n)) = n - end
      /\ \A i \in 1..(n - end) : Content(cells, end, n)[i] = cells[end + i - 1]
  <2>1. n <= n
    OBVIOUS
  <2> QED BY <2>1, ContentFacts
<1> QED BY <1>1, <1>2

LEMMA SidesOf ==
  ASSUME NEW n \in Nat, NEW cells \in Cells(n), NEW start \in Nat, NEW end \in Nat,
         start <= end, end <= n
  PROVE  /\ Content(cells, 0, start) \in Seq(Chars)
         /\ Len(Content(cells, 0, start)) = start
         /\ \A i \in 1..start : Content(cells, 0, start)[i] = cells[i - 1]
         /\ Content(cells, end, n) \in Seq(Chars)
         /\ Len(Content(cells, end, n)) = n - end
         /\ \A i \in 1..(n - end) : Content(cells, end, n)[i] = cells[end + i - 1]
<1>1. GapIn(n, cells, start, end)
  BY DEF GapIn
<1>2. SidesRead(n, cells, start, end)
  BY <1>1, SidesOfGap
<1> QED BY <1>2 DEF SidesRead

LEMMA InsertSimulates ==
  ASSUME ShortLines, GapWithinBuffer, NEW c \in Chars, gap_buffer_insert_char(c)
  PROVE  Line!Insert(c)
<1>1. /\ gapStart < gapEnd /\ gapStart \in Nat /\ gapEnd \in Nat /\ capacity \in Nat
      /\ gapEnd <= capacity /\ buffer \in Cells(capacity)
      /\ buffer' = [buffer EXCEPT ![gapStart] = c]
      /\ gapStart' = gapStart + 1 /\ UNCHANGED <<capacity, gapEnd, returned>>
  BY InsertStep, LiveTypes DEF gap_buffer_insert_char
<1>2. /\ buffer' \in Cells(capacity) /\ buffer'[gapStart] = c
      /\ \A i \in 0..(capacity - 1) : i # gapStart => buffer'[i] = buffer[i]
  BY <1>1 DEF Cells
<1> DEFINE b == Content(buffer, 0, gapStart)
           b2 == Content(buffer', 0, gapStart + 1)
           a == Content(buffer, gapEnd, capacity)
           a2 == Content(buffer', gapEnd, capacity)
<1>3. /\ b \in Seq(Chars) /\ Len(b) = gapStart /\ \A i \in 1..gapStart : b[i] = buffer[i - 1]
      /\ a \in Seq(Chars) /\ Len(a) = capacity - gapEnd
      /\ \A i \in 1..(capacity - gapEnd) : a[i] = buffer[gapEnd + i - 1]
  <2>1. gapStart <= gapEnd
    BY <1>1
  <2> QED BY <1>1, <2>1, SidesOf
<1>4. /\ b2 \in Seq(Chars) /\ Len(b2) = gapStart + 1
      /\ \A i \in 1..(gapStart + 1) : b2[i] = buffer'[i - 1]
      /\ a2 \in Seq(Chars) /\ Len(a2) = capacity - gapEnd
      /\ \A i \in 1..(capacity - gapEnd) : a2[i] = buffer'[gapEnd + i - 1]
  <2>1. /\ gapStart + 1 \in Nat /\ gapStart + 1 <= gapEnd
        /\ capacity \in Nat /\ gapEnd \in Nat /\ gapEnd <= capacity
    BY <1>1
  <2>2. buffer' \in Cells(capacity)
    BY <1>2
  <2> QED BY <2>1, <2>2, SidesOf
<1>10. Line!Insert(c) <=> b2 = Append(b, c) /\ a2 = a
  BY <1>1 DEF Line!Insert
<1> HIDE DEF b, b2, a, a2
<1>5. ASSUME NEW i \in 1..gapStart PROVE b2[i] = b[i]
  <2>1. /\ i - 1 \in 0..(capacity - 1) /\ i - 1 # gapStart
        /\ i \in 1..(gapStart + 1)
    BY <1>1
  <2> QED BY <1>2, <1>3, <1>4, <2>1
<1>6. b2[gapStart + 1] = c
  BY <1>1, <1>2, <1>4
<1>7. b2 = Append(b, c)
  BY <1>1, <1>3, <1>4, <1>5, <1>6
<1>8. ASSUME NEW i \in 1..(capacity - gapEnd) PROVE a2[i] = a[i]
  <2>1. gapEnd + i - 1 \in 0..(capacity - 1) /\ gapEnd + i - 1 # gapStart
    BY <1>1
  <2> QED BY <1>2, <1>3, <1>4, <2>1
<1>9. a2 = a
  BY <1>1, <1>3, <1>4, <1>8
<1> QED BY <1>7, <1>9, <1>10

LEMMA OpenLeftSimulates ==
  ASSUME GapWithinBuffer, NEW start \in 0..gapStart, OpenLeft(start)
  PROVE  Line!KeepBefore(start)
<1>1. /\ gapStart <= gapEnd /\ gapStart \in Nat /\ gapEnd \in Nat /\ capacity \in Nat
      /\ gapEnd <= capacity /\ buffer \in Cells(capacity)
      /\ gapStart' = start /\ returned' = (start # gapStart)
      /\ UNCHANGED <<buffer, capacity, gapEnd>>
  BY LiveTypes DEF OpenLeft
<1> DEFINE b == Content(buffer, 0, gapStart)
           b2 == Content(buffer, 0, start)
<1>2. b \in Seq(Chars) /\ Len(b) = gapStart /\ \A i \in 1..gapStart : b[i] = buffer[i - 1]
  BY <1>1, SidesOf
<1>3. b2 \in Seq(Chars) /\ Len(b2) = start /\ \A i \in 1..start : b2[i] = buffer[i - 1]
  <2>1. start \in Nat /\ start <= gapEnd
    BY <1>1
  <2> QED BY <1>1, <2>1, SidesOf
<1>4. (start # gapStart) = (start < Len(b))
  BY <1>1, <1>2
<1>6. Line!KeepBefore(start) <=> b2 = SubSeq(b, 1, start) /\ returned' = (start < Len(b))
  BY <1>1 DEF Line!KeepBefore
<1> HIDE DEF b, b2
<1>5. b2 = SubSeq(b, 1, start)
  <2>1. SubSeq(b, 1, start) \in Seq(Chars) /\ Len(SubSeq(b, 1, start)) = start
        /\ \A i \in 1..start : SubSeq(b, 1, start)[i] = b[i]
    BY <1>1, <1>2
  <2>2. \A i \in 1..start : b2[i] = b[i]
    BY <1>1, <1>2, <1>3
  <2> QED BY <1>3, <2>1, <2>2
<1> QED BY <1>1, <1>4, <1>5, <1>6, Zenon

LEMMA OpenRightSimulates ==
  ASSUME GapWithinBuffer, NEW end \in gapEnd..capacity, OpenRight(end)
  PROVE  Line!DropAfter(end - gapEnd)
<1>1. /\ gapStart <= gapEnd /\ gapStart \in Nat /\ gapEnd \in Nat /\ capacity \in Nat
      /\ gapEnd <= capacity /\ buffer \in Cells(capacity)
      /\ gapEnd' = end /\ returned' = (end # gapEnd)
      /\ UNCHANGED <<buffer, capacity, gapStart>>
  BY LiveTypes DEF OpenRight
<1> DEFINE a == Content(buffer, gapEnd, capacity)
           a2 == Content(buffer, end, capacity)
           n == end - gapEnd
<1>2. /\ a \in Seq(Chars) /\ Len(a) = capacity - gapEnd
      /\ \A i \in 1..(capacity - gapEnd) : a[i] = buffer[gapEnd + i - 1]
  BY <1>1, SidesOf
<1>3. /\ a2 \in Seq(Chars) /\ Len(a2) = capacity - end
      /\ \A i \in 1..(capacity - end) : a2[i] = buffer[end + i - 1]
  <2>1. end \in Nat /\ gapStart <= end /\ end <= capacity
    BY <1>1
  <2> QED BY <1>1, <2>1, SidesOf
<1>4. (end # gapEnd) = (n > 0)
  BY <1>1
<1>6. Line!DropAfter(n) <=> a2 = SubSeq(a, n + 1, Len(a)) /\ returned' = (n > 0)
  BY <1>1 DEF Line!DropAfter
<1>7. n \in Nat /\ n + (capacity - end) = Len(a) /\ capacity - end \in Nat
  BY <1>1, <1>2
<1>8. \A i \in 1..(capacity - end) : /\ gapEnd + (n + i) - 1 = end + i - 1
                                     /\ n + i \in 1..(capacity - gapEnd)
  BY <1>1
<1> HIDE DEF a, a2, n
<1>5. a2 = SubSeq(a, n + 1, Len(a))
  <2>1. /\ SubSeq(a, n + 1, Len(a)) \in Seq(Chars)
        /\ Len(SubSeq(a, n + 1, Len(a))) = capacity - end
        /\ \A i \in 1..(capacity - end) : SubSeq(a, n + 1, Len(a))[i] = a[n + i]
    BY <1>2, <1>7
  <2>2. \A i \in 1..(capacity - end) : a2[i] = a[n + i]
    BY <1>2, <1>3, <1>8
  <2> QED BY <1>3, <1>7, <2>1, <2>2
<1> QED BY <1>1, <1>4, <1>5, <1>6, Zenon DEF n

(* The gap of a buffer moves from start..end to start2..end2: the cells    *)
(* outside both gaps stay and those between them cross.                    *)
GapMoved(n, cells, start, end, cells2, start2, end2) ==
  /\ start + (n - end) = start2 + (n - end2)
  /\ \A k \in 0..(start2 - 1) :
       /\ k < start => cells2[k] = cells[k]
       /\ k >= start => cells2[k] = cells[end + k - start]
  /\ \A k \in 0..(n - end2 - 1) :
       /\ start2 + k < start => cells2[end2 + k] = cells[start2 + k]
       /\ start2 + k >= start => cells2[end2 + k] = cells[end + start2 + k - start]

Splits(n, cells, start, end, cells2, start2, end2) ==
  LET text == Content(cells, 0, start) \o Content(cells, end, n)
  IN  /\ Content(cells2, 0, start2) = SubSeq(text, 1, start2)
      /\ Content(cells2, end2, n) = SubSeq(text, start2 + 1, Len(text))

(* Such a move splits the same text at another position.                   *)
LEMMA GapMoves ==
  ASSUME NEW n, NEW cells, NEW start, NEW end, NEW cells2, NEW start2, NEW end2,
         GapIn(n, cells, start, end), GapIn(n, cells2, start2, end2),
         GapMoved(n, cells, start, end, cells2, start2, end2)
  PROVE  Splits(n, cells, start, end, cells2, start2, end2)
<1> DEFINE b == Content(cells, 0, start)
           a == Content(cells, end, n)
           b2 == Content(cells2, 0, start2)
           a2 == Content(cells2, end2, n)
<1>0. /\ n \in Nat /\ start \in Nat /\ end \in Nat /\ start <= end /\ end <= n
      /\ start2 \in Nat /\ end2 \in Nat /\ start2 <= end2 /\ end2 <= n
  BY DEF GapIn
<1> HIDE DEF b, a, b2, a2
<1>1. /\ b \in Seq(Chars) /\ Len(b) = start /\ \A i \in 1..start : b[i] = cells[i - 1]
      /\ a \in Seq(Chars) /\ Len(a) = n - end
      /\ \A i \in 1..(n - end) : a[i] = cells[end + i - 1]
  <2>1. SidesRead(n, cells, start, end)
    BY SidesOfGap
  <2> QED BY <2>1 DEF b, a, SidesRead
<1>2. /\ b2 \in Seq(Chars) /\ Len(b2) = start2
      /\ \A i \in 1..start2 : b2[i] = cells2[i - 1]
      /\ a2 \in Seq(Chars) /\ Len(a2) = n - end2
      /\ \A i \in 1..(n - end2) : a2[i] = cells2[end2 + i - 1]
  <2>1. SidesRead(n, cells2, start2, end2)
    BY SidesOfGap
  <2> QED BY <2>1 DEF b2, a2, SidesRead
<1>3. ASSUME NEW i \in 1..start2
      PROVE  /\ i <= start => b2[i] = b[i]
             /\ i > start => b2[i] = a[i - start]
  <2>1. i - 1 \in 0..(start2 - 1)
    BY <1>0
  <2>2. b2[i] = cells2[i - 1]
    BY <1>2
  <2>3. ASSUME i <= start PROVE b2[i] = b[i]
    <3>1. i \in 1..start /\ i - 1 < start
      BY <1>0, <2>3
    <3>2. b[i] = cells[i - 1]
      BY <1>1, <3>1
    <3>3. cells2[i - 1] = cells[i - 1]
      BY <2>1, <3>1 DEF GapMoved
    <3> QED BY <2>2, <3>2, <3>3
  <2>4. ASSUME i > start PROVE b2[i] = a[i - start]
    <3>1. i - start \in 1..(n - end) /\ i - 1 >= start
      BY <1>0, <2>4 DEF GapMoved
    <3>2. a[i - start] = cells[end + (i - start) - 1]
      BY <1>1, <3>1
    <3>3. cells2[i - 1] = cells[end + (i - 1) - start]
      BY <2>1, <3>1 DEF GapMoved
    <3>4. end + (i - start) - 1 = end + (i - 1) - start
      BY <1>0
    <3> QED BY <2>2, <3>2, <3>3, <3>4
  <2> QED BY <2>3, <2>4
<1>4. ASSUME NEW i \in 1..(n - end2)
      PROVE  /\ start2 + i <= start => a2[i] = b[start2 + i]
             /\ start2 + i > start => a2[i] = a[start2 + i - start]
  <2>1. i - 1 \in 0..(n - end2 - 1) /\ end2 + (i - 1) = end2 + i - 1
    BY <1>0
  <2>2. a2[i] = cells2[end2 + (i - 1)]
    BY <1>2, <2>1
  <2>3. ASSUME start2 + i <= start PROVE a2[i] = b[start2 + i]
    <3>1. start2 + i \in 1..start /\ start2 + (i - 1) < start
          /\ (start2 + i) - 1 = start2 + (i - 1)
      BY <1>0, <2>3
    <3>2. b[start2 + i] = cells[start2 + (i - 1)]
      BY <1>1, <3>1
    <3>3. cells2[end2 + (i - 1)] = cells[start2 + (i - 1)]
      BY <2>1, <3>1 DEF GapMoved
    <3> QED BY <2>2, <3>2, <3>3
  <2>4. ASSUME start2 + i > start PROVE a2[i] = a[start2 + i - start]
    <3>1. start2 + i - start \in 1..(n - end) /\ start2 + (i - 1) >= start
      BY <1>0, <2>4 DEF GapMoved
    <3>2. a[start2 + i - start] = cells[end + (start2 + i - start) - 1]
      BY <1>1, <3>1
    <3>3. cells2[end2 + (i - 1)] = cells[end + start2 + (i - 1) - start]
      BY <2>1, <3>1 DEF GapMoved
    <3>4. end + (start2 + i - start) - 1 = end + start2 + (i - 1) - start
      BY <1>0
    <3> QED BY <2>2, <3>2, <3>3, <3>4
  <2> QED BY <2>3, <2>4
<1>5. Len(b2) + Len(a2) = Len(b) + Len(a)
  BY <1>0, <1>1, <1>2 DEF GapMoved
<1>6. /\ b2 = SubSeq(b \o a, 1, Len(b2))
      /\ a2 = SubSeq(b \o a, Len(b2) + 1, Len(b \o a))
  <2>1. \A i \in 1..Len(b2) : /\ i <= Len(b) => b2[i] = b[i]
                              /\ i > Len(b) => b2[i] = a[i - Len(b)]
    BY <1>1, <1>2, <1>3
  <2>2. \A i \in 1..Len(a2) :
          /\ Len(b2) + i <= Len(b) => a2[i] = b[Len(b2) + i]
          /\ Len(b2) + i > Len(b) => a2[i] = a[Len(b2) + i - Len(b)]
    BY <1>1, <1>2, <1>4
  <2>3. b \in Seq(Chars) /\ a \in Seq(Chars) /\ b2 \in Seq(Chars) /\ a2 \in Seq(Chars)
    BY <1>1, <1>2
  <2> QED BY <1>5, <2>1, <2>2, <2>3, SplitElsewhere
<1>7. /\ b2 = SubSeq(b \o a, 1, start2)
      /\ a2 = SubSeq(b \o a, start2 + 1, Len(b \o a))
  BY <1>2, <1>6
<1> QED BY <1>7 DEF Splits, b, a, b2, a2

LEMMA MoveSimulates ==
  ASSUME GapWithinBuffer, NEW index \in 0..ContentLength,
         gap_buffer_move_cursor_to_index(index)
  PROVE  Line!MoveTo(index)
<1>1. /\ gapStart <= gapEnd /\ gapStart \in Nat /\ gapEnd \in Nat /\ capacity \in Nat
      /\ gapEnd <= capacity /\ buffer \in Cells(capacity)
      /\ index \in Nat /\ index <= gapStart + (capacity - gapEnd)
      /\ gapStart' = index /\ UNCHANGED <<capacity, returned>>
  BY LiveTypes DEF gap_buffer_move_cursor_to_index, ContentLength
<1>2. /\ buffer' \in Cells(capacity) /\ gapEnd' \in Nat
      /\ index <= gapEnd' /\ gapEnd' <= capacity
  <2>1. GapWithinBuffer'
    BY MoveStep
  <2> QED BY <1>1, <2>1 DEF GapWithinBuffer
<1>3. DOMAIN buffer = 0..(capacity - 1)
  BY <1>1 DEF Cells
<1> DEFINE Preserved == GapMoved(capacity, buffer, gapStart, gapEnd, buffer', index, gapEnd')
<1>4. ASSUME index = gapStart, UNCHANGED <<buffer, gapStart, gapEnd>> PROVE Preserved
  <2>1. \A k \in 0..(capacity - gapEnd - 1) : gapEnd + index + k - gapStart = gapEnd + k
    BY <1>1, <1>4
  <2> QED BY <1>1, <1>4, <2>1 DEF GapMoved
<1>5. ASSUME NEW count, count = gapStart - index, count > 0,
             buffer' = Moved(buffer, gapEnd - count, index, count),
             gapEnd' = gapEnd - count
      PROVE  Preserved
  <2>1. count \in Nat /\ gapEnd - count >= index /\ gapEnd - count \in Nat
    BY <1>1, <1>5
  <2>2. \A i \in 0..(capacity - 1) :
          /\ i \notin (gapEnd - count)..(gapEnd - 1) => buffer'[i] = buffer[i]
          /\ i \in (gapEnd - count)..(gapEnd - 1) =>
               buffer'[i] = buffer[index + (i - (gapEnd - count))]
    <3>1. (gapEnd - count) + count - 1 = gapEnd - 1
      BY <1>1, <2>1
    <3> QED BY <1>3, <1>5, <3>1 DEF Moved
  <2>3. ASSUME NEW k \in 0..(index - 1) PROVE k < gapStart /\ buffer'[k] = buffer[k]
    <3>1. k \in 0..(capacity - 1) /\ k \notin (gapEnd - count)..(gapEnd - 1) /\ k < gapStart
      BY <1>1, <1>5, <2>1
    <3> QED BY <2>2, <3>1
  <2>4. ASSUME NEW k \in 0..(capacity - gapEnd' - 1)
        PROVE  /\ index + k < gapStart => buffer'[gapEnd' + k] = buffer[index + k]
               /\ index + k >= gapStart =>
                    buffer'[gapEnd' + k] = buffer[gapEnd + index + k - gapStart]
    <3>1. gapEnd' + k \in 0..(capacity - 1)
      BY <1>1, <1>5, <2>1
    <3>2. CASE index + k < gapStart
      <4>1. /\ gapEnd' + k \in (gapEnd - count)..(gapEnd - 1)
            /\ index + ((gapEnd' + k) - (gapEnd - count)) = index + k
        BY <1>1, <1>5, <2>1, <3>2
      <4> QED BY <1>1, <2>2, <3>1, <3>2, <4>1
    <3>3. CASE index + k >= gapStart
      <4>1. /\ gapEnd' + k \notin (gapEnd - count)..(gapEnd - 1)
            /\ gapEnd' + k = gapEnd + index + k - gapStart
        BY <1>1, <1>5, <2>1, <3>3
      <4>2. buffer'[gapEnd' + k] = buffer[gapEnd' + k]
        BY <2>2, <3>1, <4>1
      <4> QED BY <1>1, <3>3, <4>1, <4>2
    <3> QED BY <1>1, <3>2, <3>3
  <2>5. gapStart + (capacity - gapEnd) = index + (capacity - gapEnd')
    BY <1>1, <1>5, <2>1
  <2>6. \A k \in 0..(index - 1) : ~(k >= gapStart)
    BY <1>1, <2>3
  <2> QED BY <2>3, <2>4, <2>5, <2>6 DEF GapMoved
<1>6. ASSUME NEW count, count = index - gapStart, count > 0,
             buffer' = Moved(buffer, gapStart, gapEnd, count),
             gapEnd' = gapEnd + count
      PROVE  Preserved
  <2>1. count \in Nat /\ gapEnd + count <= capacity /\ gapStart + count = index
    BY <1>1, <1>6
  <2>2. \A i \in 0..(capacity - 1) :
          /\ i \notin gapStart..(index - 1) => buffer'[i] = buffer[i]
          /\ i \in gapStart..(index - 1) => buffer'[i] = buffer[gapEnd + (i - gapStart)]
    <3>1. gapStart + count - 1 = index - 1
      BY <1>1, <2>1
    <3> QED BY <1>3, <1>6, <3>1 DEF Moved
  <2>3. ASSUME NEW k \in 0..(index - 1)
        PROVE  /\ k < gapStart => buffer'[k] = buffer[k]
               /\ k >= gapStart => buffer'[k] = buffer[gapEnd + k - gapStart]
    <3>1. k \in 0..(capacity - 1)
      BY <1>1, <2>1
    <3>2. CASE k < gapStart
      <4>1. k \notin gapStart..(index - 1)
        BY <1>1, <3>2
      <4> QED BY <1>1, <2>2, <3>1, <3>2, <4>1
    <3>3. CASE k >= gapStart
      <4>1. k \in gapStart..(index - 1) /\ gapEnd + (k - gapStart) = gapEnd + k - gapStart
        BY <1>1, <3>3
      <4> QED BY <1>1, <2>2, <3>1, <3>3, <4>1
    <3> QED BY <1>1, <3>2, <3>3
  <2>4. ASSUME NEW k \in 0..(capacity - gapEnd' - 1)
        PROVE  /\ index + k >= gapStart
               /\ buffer'[gapEnd' + k] = buffer[gapEnd + index + k - gapStart]
    <3>1. /\ gapEnd' + k \in 0..(capacity - 1) /\ index + k >= gapStart
          /\ gapEnd' + k \notin gapStart..(index - 1)
          /\ gapEnd' + k = gapEnd + index + k - gapStart
      BY <1>1, <1>6, <2>1
    <3>2. buffer'[gapEnd' + k] = buffer[gapEnd' + k]
      BY <2>2, <3>1
    <3> QED BY <3>1, <3>2
  <2>5. gapStart + (capacity - gapEnd) = index + (capacity - gapEnd')
    BY <1>1, <1>6, <2>1
  <2>6. \A k \in 0..(capacity - gapEnd' - 1) : ~(index + k < gapStart)
    BY <1>1, <2>4
  <2> QED BY <2>3, <2>4, <2>5, <2>6 DEF GapMoved
<1>7. Preserved
  BY <1>1, <1>4, <1>5, <1>6 DEF gap_buffer_move_cursor_to_index
<1>8. Splits(capacity, buffer, gapStart, gapEnd, buffer', index, gapEnd')
  <2>1. /\ GapIn(capacity, buffer, gapStart, gapEnd)
        /\ GapIn(capacity, buffer', index, gapEnd')
    BY <1>1, <1>2 DEF GapIn
  <2> QED BY <1>7, <2>1, GapMoves
<1> HIDE DEF Preserved
<1> QED BY <1>1, <1>8 DEF Line!MoveTo, Splits

LEMMA EmptySide ==
  ASSUME NEW cells, NEW m \in Nat
  PROVE  Content(cells, m, m) = <<>>
<1>1. m - m = 0
  OBVIOUS
<1>2. 1..0 = {}
  OBVIOUS
<1> QED BY <1>1, <1>2 DEF Content

(* Resetting the gap, and freeing the buffer, leave an empty line.         *)
LEMMA EmptySimulates ==
  ASSUME GapWithinBuffer, gap_buffer_clear_content \/ gap_buffer_destroy
  PROVE  Line!Load(<<>>)
<1>1. gapStart' = 0 /\ gapEnd' = capacity' /\ capacity' \in Nat /\ returned' = returned
  BY LiveTypes DEF gap_buffer_clear_content, gap_buffer_destroy
<1>2. Content(buffer', 0, gapStart') = <<>> /\ Content(buffer', gapEnd', capacity') = <<>>
  BY <1>1, EmptySide
<1> QED BY <1>1, <1>2 DEF Line!Load

LEMMA InitStutters ==
  ASSUME GapWithinBuffer, gap_buffer_init
  PROVE  UNCHANGED Line!lineVars
<1>1. /\ capacity = 0 /\ gapStart = 0 /\ gapEnd = 0 /\ returned' = returned
      /\ gapStart' = 0 /\ gapEnd' = capacity' /\ capacity' \in Nat
  BY LiveTypes DEF gap_buffer_init
<1>2. /\ Content(buffer, 0, gapStart) = <<>> /\ Content(buffer, gapEnd, capacity) = <<>>
      /\ Content(buffer', 0, gapStart') = <<>> /\ Content(buffer', gapEnd', capacity') = <<>>
  BY <1>1, EmptySide
<1> QED BY <1>1, <1>2 DEF Line!lineVars

LEMMA LoadSimulates ==
  ASSUME ShortLines, GapWithinBuffer, NEW text \in Texts, gap_buffer_load_content(text)
  PROVE  Line!Load(text)
<1>1. /\ text \in Seq(Chars) /\ capacity \in Nat /\ capacity' = capacity
      /\ Len(text) \in Nat /\ Len(text) <= capacity
      /\ gapStart' = Len(text) /\ gapEnd' = capacity /\ returned' = returned
  BY LiveTypes, GapBufferAssumption DEF ShortLines, gap_buffer_load_content
<1>2. buffer' = [i \in 0..(capacity - 1) |->
                   IF i < Len(text) THEN text[i + 1] ELSE buffer[i]]
  BY LoadStep
<1>3. GapIn(capacity, buffer', Len(text), capacity)
  <2>1. buffer' \in Cells(capacity)
    BY <1>1, LoadStep DEF GapWithinBuffer
  <2> QED BY <1>1, <2>1 DEF GapIn
<1> DEFINE b2 == Content(buffer', 0, Len(text))
<1>4. /\ b2 \in Seq(Chars) /\ Len(b2) = Len(text)
      /\ \A i \in 1..Len(text) : b2[i] = buffer'[i - 1]
  <2>1. SidesRead(capacity, buffer', Len(text), capacity)
    BY <1>3, SidesOfGap
  <2> QED BY <2>1 DEF SidesRead
<1>5. Content(buffer', gapEnd', capacity') = <<>>
  BY <1>1, EmptySide
<1>6. Line!Load(text) <=> b2 = text
  BY <1>1, <1>5 DEF Line!Load
<1> HIDE DEF b2
<1>7. ASSUME NEW i \in 1..Len(text) PROVE b2[i] = text[i]
  <2>1. i - 1 \in 0..(capacity - 1) /\ i - 1 < Len(text) /\ (i - 1) + 1 = i
    BY <1>1
  <2> QED BY <1>2, <1>4, <2>1
<1>8. b2 = text
  BY <1>1, <1>4, <1>7
<1> QED BY <1>6, <1>8

(* A movement by one character is a movement to the index next to the      *)
(* cursor.                                                                 *)
LEMMA LeftByChar ==
  ASSUME GapWithinBuffer, gap_buffer_move_cursor_left_by_char
  PROVE  gap_buffer_move_cursor_to_index(gapStart - 1)
<1>1. /\ capacity > 0 /\ gapStart \in Nat /\ gapStart > 0 /\ gapEnd \in Nat
      /\ gapStart <= gapEnd /\ gapEnd <= capacity /\ capacity \in Nat
      /\ buffer' = [buffer EXCEPT ![gapEnd - 1] = buffer[gapStart - 1]]
      /\ gapStart' = gapStart - 1 /\ gapEnd' = gapEnd - 1
      /\ UNCHANGED <<capacity, returned>>
  BY LiveTypes DEF gap_buffer_move_cursor_left_by_char
<1>2. \A i : i \in (gapEnd - 1)..((gapEnd - 1) + 1 - 1) <=> i = gapEnd - 1
  BY <1>1
<1>3. (gapStart - 1) + ((gapEnd - 1) - (gapEnd - 1)) = gapStart - 1
  BY <1>1
<1>4. buffer' = Moved(buffer, gapEnd - 1, gapStart - 1, 1)
  BY <1>1, <1>2, <1>3 DEF Moved
<1> DEFINE count == gapStart - (gapStart - 1)
<1>5. count = 1
  BY <1>1
<1> HIDE DEF count
<1>6. /\ count > 0
      /\ buffer' = Moved(buffer, gapEnd - count, gapStart - 1, count)
      /\ gapEnd' = gapEnd - count
  <2>1. gapEnd - count = gapEnd - 1 /\ count > 0 /\ gapEnd' = gapEnd - 1
    BY <1>1, <1>5
  <2> QED BY <1>4, <1>5, <2>1, Zenon
<1> QED BY <1>1, <1>6, Zenon DEF gap_buffer_move_cursor_to_index, count

LEMMA RightByChar ==
  ASSUME GapWithinBuffer, gap_buffer_move_cursor_right_by_char
  PROVE  gap_buffer_move_cursor_to_index(gapStart + 1)
<1>1. /\ capacity > 0 /\ gapStart \in Nat /\ gapEnd \in Nat /\ gapEnd < capacity
      /\ gapStart <= gapEnd /\ capacity \in Nat
      /\ buffer' = [buffer EXCEPT ![gapStart] = buffer[gapEnd]]
      /\ gapStart' = gapStart + 1 /\ gapEnd' = gapEnd + 1
      /\ UNCHANGED <<capacity, returned>>
  BY LiveTypes DEF gap_buffer_move_cursor_right_by_char
<1>2. \A i : i \in gapStart..(gapStart + 1 - 1) <=> i = gapStart
  BY <1>1
<1>3. gapEnd + (gapStart - gapStart) = gapEnd
  BY <1>1
<1>4. buffer' = Moved(buffer, gapStart, gapEnd, 1)
  BY <1>1, <1>2, <1>3 DEF Moved
<1> DEFINE count == (gapStart + 1) - gapStart
<1>5. count = 1
  BY <1>1
<1> HIDE DEF count
<1>6. /\ count > 0
      /\ buffer' = Moved(buffer, gapStart, gapEnd, count)
      /\ gapEnd' = gapEnd + count
  BY <1>1, <1>4, <1>5
<1> QED BY <1>1, <1>6, Zenon DEF gap_buffer_move_cursor_to_index, count

LEMMA DeletionSimulates ==
  ASSUME GapWithinBuffer
  PROVE  Deletes
<1>1. /\ capacity \in Nat /\ gapStart \in Nat /\ gapEnd \in Nat /\ gapEnd <= capacity
      /\ Len(Before) = gapStart /\ Len(After) = capacity - gapEnd
  BY LiveTypes, SidesFacts
<1>2. ASSUME gap_buffer_delete_char_left PROVE Line!DeleteCharLeft
  <2> DEFINE start == IF gapStart = 0 THEN 0 ELSE gapStart - 1
  <2>1. start \in 0..gapStart
    BY <1>1
  <2>2. Line!KeepBefore(start)
    BY <1>2, <2>1, OpenLeftSimulates DEF gap_buffer_delete_char_left
  <2>3. Line!Max({0, Len(Before) - 1}) = start
    BY <1>1 DEF Line!Max
  <2> QED BY <2>2, <2>3 DEF Line!DeleteCharLeft, Before
<1>3. ASSUME gap_buffer_delete_word_left PROVE Line!DeleteWordLeft
  <2>1. Line!KeepBefore(WordLeft)
    BY <1>3, WordTargets, OpenLeftSimulates DEF gap_buffer_delete_word_left, WordLeft
  <2> QED BY <2>1, WordLeftIsWordBegin DEF Line!DeleteWordLeft, Before
<1>4. ASSUME gap_buffer_delete_content_left PROVE Line!DeleteContentLeft
  <2>1. 0 \in 0..gapStart
    BY <1>1
  <2>2. Line!KeepBefore(0)
    BY <1>4, <2>1, OpenLeftSimulates DEF gap_buffer_delete_content_left
  <2> QED BY <2>2 DEF Line!DeleteContentLeft
<1>5. ASSUME gap_buffer_delete_char_right PROVE Line!DeleteCharRight
  <2> DEFINE end == IF gapEnd = capacity THEN capacity ELSE gapEnd + 1
  <2>1. end \in gapEnd..capacity
    BY <1>1
  <2>2. Line!DropAfter(end - gapEnd)
    BY <1>5, <2>1, OpenRightSimulates DEF gap_buffer_delete_char_right
  <2>3. Line!Min({1, Len(After)}) = end - gapEnd
    BY <1>1 DEF Line!Min
  <2> QED BY <2>2, <2>3 DEF Line!DeleteCharRight, After
<1>6. ASSUME gap_buffer_delete_word_right PROVE Line!DeleteWordRight
  <2> DEFINE end == WordRight(gapEnd, capacity)
  <2>1. end \in gapEnd..capacity /\ OpenRight(end)
    BY <1>6, WordTargets DEF gap_buffer_delete_word_right, WordRight
  <2>2. end - gapEnd = Line!FirstWordEnd(After)
    BY WordRightIsWordEnd
  <2> HIDE DEF end
  <2>3. Line!DropAfter(end - gapEnd)
    BY <2>1, OpenRightSimulates
  <2> QED BY <2>2, <2>3 DEF Line!DeleteWordRight, After
<1>7. ASSUME gap_buffer_delete_content_right PROVE Line!DeleteContentRight
  <2>1. capacity \in gapEnd..capacity
    BY <1>1
  <2>2. Line!DropAfter(capacity - gapEnd)
    BY <1>7, <2>1, OpenRightSimulates DEF gap_buffer_delete_content_right
  <2> QED BY <1>1, <2>2 DEF Line!DeleteContentRight, After
<1> QED BY <1>2, <1>3, <1>4, <1>5, <1>6, <1>7 DEF Deletes

LEMMA MovementSimulates ==
  ASSUME GapWithinBuffer
  PROVE  Moves
<1>1. /\ capacity \in Nat /\ gapStart \in Nat /\ gapEnd \in Nat /\ gapEnd <= capacity
      /\ Len(Before) = gapStart /\ Len(After) = capacity - gapEnd
      /\ ContentLength = gapStart + (capacity - gapEnd)
  BY LiveTypes, SidesFacts DEF ContentLength
<1>2. ASSUME gap_buffer_move_cursor_left_by_char PROVE Line!MoveLeftByChar
  <2>1. gapStart - 1 \in 0..ContentLength /\ Line!Max({0, Len(Before) - 1}) = gapStart - 1
    BY <1>1, <1>2 DEF Line!Max, gap_buffer_move_cursor_left_by_char
  <2>2. Line!MoveTo(gapStart - 1)
    BY <1>2, <2>1, LeftByChar, MoveSimulates
  <2> QED BY <2>1, <2>2 DEF Line!MoveLeftByChar, Before
<1>3. ASSUME gap_buffer_move_cursor_right_by_char PROVE Line!MoveRightByChar
  <2>1. /\ gapStart + 1 \in 0..ContentLength
        /\ Len(Before) + Line!Min({1, Len(After)}) = gapStart + 1
    <3>1. gapEnd + 1 <= capacity
      BY <1>1, <1>3 DEF gap_buffer_move_cursor_right_by_char
    <3>2. \A n \in Nat : 1 <= n => Line!Min({1, n}) = 1
      BY DEF Line!Min
    <3>3. Len(After) \in Nat /\ 1 <= Len(After)
      BY <1>1, <3>1
    <3>4. Line!Min({1, Len(After)}) = 1
      BY <3>2, <3>3
    <3> QED BY <1>1, <3>1, <3>4
  <2>2. Line!MoveTo(gapStart + 1)
    BY <1>3, <2>1, RightByChar, MoveSimulates
  <2> QED BY <2>1, <2>2 DEF Line!MoveRightByChar, Before, After
<1>4. ASSUME gap_buffer_move_cursor_left_by_word PROVE Line!MoveLeftByWord
  <2>1. WordLeft \in 0..ContentLength /\ gap_buffer_move_cursor_to_index(WordLeft)
    BY <1>1, <1>4, WordTargets DEF gap_buffer_move_cursor_left_by_word, WordLeft
  <2>2. Line!MoveTo(WordLeft)
    BY <2>1, MoveSimulates
  <2> QED BY <2>2, WordLeftIsWordBegin DEF Line!MoveLeftByWord, Before
<1>5. ASSUME gap_buffer_move_cursor_right_by_word 
               PROVE  Line!MoveRight /\ (gapStart = gapEnd => Line!MoveRightByWord)
  <2> DEFINE index == WordRight(gapStart, ContentLength)
             passed == index - gapStart
  <2>1. index \in gapStart..ContentLength /\ gap_buffer_move_cursor_to_index(index)
    BY <1>5, WordTargets DEF gap_buffer_move_cursor_right_by_word, WordRight
  <2>2. gapStart = gapEnd => passed = Line!FirstWordEnd(After)
    BY <1>1, WordRightIsWordEnd
  <2> HIDE DEF index
  <2>3. Line!MoveTo(index)
    BY <1>1, <2>1, MoveSimulates
  <2>4. passed \in 0..Len(After) /\ Len(Before) + passed = index
    BY <1>1, <2>1
  <2> HIDE DEF passed
  <2> QED BY <2>2, <2>3, <2>4 DEF Line!MoveRight, Line!MoveRightByWord, Before, After
<1>6. ASSUME gap_buffer_move_cursor_to_start PROVE Line!MoveToStart
  <2>1. 0 \in 0..ContentLength /\ gap_buffer_move_cursor_to_index(0)
    BY <1>1, <1>6 DEF gap_buffer_move_cursor_to_start
  <2>2. Line!MoveTo(0)
    BY <2>1, MoveSimulates
  <2> QED BY <2>2 DEF Line!MoveToStart
<1>7. ASSUME gap_buffer_move_cursor_to_end PROVE Line!MoveToEnd
  <2>1. ContentLength \in 0..ContentLength /\ Len(Before) + Len(After) = ContentLength
    BY <1>1
  <2>2. Line!MoveTo(ContentLength)
    BY <1>7, <2>1, MoveSimulates DEF gap_buffer_move_cursor_to_end
  <2> QED BY <2>1, <2>2 DEF Line!MoveToEnd, Before, After
<1> QED BY <1>2, <1>3, <1>4, <1>5, <1>6, <1>7 DEF Moves

LEMMA EachOperationEdits ==
  ASSUME ShortLines, GapWithinBuffer
  PROVE  InsertsOrLoads /\ Deletes /\ Moves
<1>1. InsertsOrLoads
  BY InsertSimulates, LoadSimulates, InitStutters, EmptySimulates DEF InsertsOrLoads
<1> QED BY <1>1, DeletionSimulates, MovementSimulates

LEMMA StepEditsLine ==
  ASSUME ShortLines, GapWithinBuffer, [GapBufferNext]_gapVars
  PROVE  [Line!LineNext]_Line!lineVars
<1>1. CASE gap_buffer_init
  BY <1>1, InitStutters
<1>2. CASE gap_buffer_clear_content \/ gap_buffer_destroy
  BY <1>2, EmptySimulates DEF Line!LineNext
<1>3. ASSUME NEW c \in Chars, gap_buffer_insert_char(c) PROVE Line!LineNext
  BY <1>3, InsertSimulates DEF Line!LineNext
<1>4. CASE \/ gap_buffer_delete_char_left \/ gap_buffer_delete_char_right
           \/ gap_buffer_delete_word_left \/ gap_buffer_delete_word_right
           \/ gap_buffer_delete_content_left \/ gap_buffer_delete_content_right
  BY <1>4, DeletionSimulates DEF Deletes, Line!Delete, Line!LineNext
<1>5. ASSUME NEW text \in Texts, gap_buffer_load_content(text) PROVE Line!LineNext
  BY <1>5, LoadSimulates DEF Line!LineNext
<1>6. CASE \/ gap_buffer_move_cursor_left_by_char \/ gap_buffer_move_cursor_right_by_char
           \/ gap_buffer_move_cursor_left_by_word \/ gap_buffer_move_cursor_right_by_word
           \/ gap_buffer_move_cursor_to_start \/ gap_buffer_move_cursor_to_end
  BY <1>6, MovementSimulates DEF Moves, Line!Move, Line!LineNext
<1>7. CASE UNCHANGED gapVars
  BY <1>7 DEF gapVars, Line!lineVars, Content
<1> QED BY <1>1, <1>2, <1>3, <1>4, <1>5, <1>6, <1>7 DEF GapBufferNext

(* As long as no line is longer than the initial capacity, the gap buffer  *)
(* implements the line editor, operation by operation: a deletion deletes  *)
(* the character, the word or the side it names and tells whether there was*)
(* one, and a cursor movement leaves the text and gets where it says, the  *)
(* one to the right by a word only without a gap (gap_buffer.c:98-353).    *)
THEOREM GapBufferEditsLine ==
  ASSUME ShortLines
  PROVE  GapBufferSpec => EditsLine
<1>1. GapBufferInit => Line!LineInit
  BY EmptySide DEF GapBufferInit, Line!LineInit
<1>2. GapWithinBuffer /\ [GapBufferNext]_gapVars => [Line!LineNext]_Line!lineVars
  BY StepEditsLine
<1>3. GapWithinBuffer => [InsertsOrLoads /\ Deletes /\ Moves]_gapVars
  BY EachOperationEdits
<1>4. GapBufferSpec => []GapWithinBuffer
  BY GapStaysWithinBuffer
<1> QED BY <1>1, <1>2, <1>3, <1>4, PTL DEF GapBufferSpec, EditsLine, Line!LineSpec
=============================================================================
