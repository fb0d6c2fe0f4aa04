----------------------------- MODULE ReplProofs -----------------------------
(***************************************************************************)
(* For every alphabet, every length of a line and every size of the        *)
(* history: browsing keeps what was edited, the first older entry is the   *)
(* line last entered, and what is interpreted is what was entered, in an   *)
(* allocation that holds it, with the errors of no other line.             *)
(***************************************************************************)
EXTENDS Repl, HistoryProofs, SequenceTheorems, WellFoundedInduction

(* The physical line is one that may be entered, and unless it counts as   *)
(* modified it is as it was when it was last browsed.                      *)
LineInv ==
  /\ before \in Seq(Chars) /\ after \in Seq(Chars)
  /\ Len(before) + Len(after) <= MaxLine
  /\ isModified \in BOOLEAN
  /\ pc \in {"start", "prompt", "interpret", "exited"}
  /\ pc # "exited" /\ ~isModified => Content = settled

(* The newest entry of the ring is the line last entered.                  *)
RecallInv ==
  /\ HistoryInv /\ StoreInv
  /\ pc = "start" => lastLine = NoEntry
  /\ pc \in {"prompt", "interpret"} /\ lastLine # NoEntry =>
       entryCount > 0 /\ entries[newest] = lastLine /\ lastLine \in Lines

-----------------------------------------------------------------------------
(* Sets of naturals and sequences.                                         *)

LEMMA LeastNatural ==
  ASSUME NEW T, T \subseteq Nat, T # {}
  PROVE  \E x \in T : \A y \in T : x <= y
<1>1. PICK x \in T : \A y \in T : ~(<<y, x>> \in OpToRel(<, Nat))
  BY WFMin, NatLessThanWellFounded
<1>2. \A y \in T : ~(y < x)
  BY <1>1 DEF OpToRel
<1> QED BY <1>2

LEMMA MinExists ==
  ASSUME NEW n \in Nat, NEW T, T \subseteq 0..n, T # {}
  PROVE  PhysicalLine!Min(T) \in T
<1>1. T \subseteq Nat
  OBVIOUS
<1>2. PICK x \in T : \A y \in T : x <= y
  BY <1>1, LeastNatural
<1> QED BY <1>2 DEF PhysicalLine!Min

LEMMA MaxExists ==
  ASSUME NEW n \in Nat, NEW T, T \subseteq 0..n, T # {}
  PROVE  PhysicalLine!Max(T) \in T
<1> DEFINE U == {n - x : x \in T}
<1>1. U \subseteq Nat /\ U # {}
  <2>1. \A x \in T : n - x \in Nat
    OBVIOUS
  <2>2. PICK x \in T : TRUE
    OBVIOUS
  <2>3. n - x \in U
    BY <2>2
  <2> QED BY <2>1, <2>3
<1>2. PICK u \in U : \A v \in U : u <= v
  BY <1>1, LeastNatural
<1>3. PICK x \in T : u = n - x
  OBVIOUS
<1>4. ASSUME NEW y \in T PROVE y <= x
  <2>1. n - y \in U
    OBVIOUS
  <2> QED BY <1>2, <1>3, <2>1
<1> QED BY <1>4 DEF PhysicalLine!Max

(* Words begin and end within their text.                                  *)
LEMMA WordsWithin ==
  ASSUME NEW text \in Seq(Chars)
  PROVE  /\ PhysicalLine!LastWordBegin(text) \in 0..Len(text)
         /\ PhysicalLine!LastWordBegin(text) < Len(text) \/ Len(text) = 0
         /\ PhysicalLine!FirstWordEnd(text) \in 0..Len(text)
<1> DEFINE B == {0} \cup {i \in 1..(Len(text) - 1) :
                            text[i] \notin WordChars /\ text[i + 1] \in WordChars}
           E == {Len(text)} \cup {i \in 1..(Len(text) - 1) :
                            text[i] \in WordChars /\ text[i + 1] \notin WordChars}
<1>1. Len(text) \in Nat
  BY LenProperties
<1>2. B \subseteq 0..Len(text) /\ B # {} /\ \A i \in B : i < Len(text) \/ Len(text) = 0
  BY <1>1
<1>3. E \subseteq 0..Len(text) /\ E # {}
  BY <1>1
<1> HIDE DEF B, E
<1>4. PhysicalLine!Max(B) \in B /\ PhysicalLine!Min(E) \in E
  BY <1>1, <1>2, <1>3, MaxExists, MinExists
<1>5. /\ PhysicalLine!LastWordBegin(text) = PhysicalLine!Max(B)
      /\ PhysicalLine!FirstWordEnd(text) = PhysicalLine!Min(E)
  BY DEF PhysicalLine!LastWordBegin, PhysicalLine!FirstWordEnd, B, E
<1> QED BY <1>2, <1>3, <1>4, <1>5

(* Whoever cuts a text in two can put it together again.                   *)
LEMMA Cut ==
  ASSUME NEW text \in Seq(Chars), NEW n \in 0..Len(text)
  PROVE  /\ SubSeq(text, 1, n) \in Seq(Chars) /\ SubSeq(text, n + 1, Len(text)) \in Seq(Chars)
         /\ Len(SubSeq(text, 1, n)) = n
         /\ Len(SubSeq(text, n + 1, Len(text))) = Len(text) - n
         /\ SubSeq(text, 1, n) \o SubSeq(text, n + 1, Len(text)) = text
<1>1. Len(text) \in Nat /\ n \in Nat /\ n <= Len(text)
  BY LenProperties
<1>2. \A i \in 1..Len(text) : text[i] \in Chars
  BY ElementOfSeq
<1>3. \A i \in 1..n : text[i] \in Chars
  BY <1>1, <1>2
<1>4. \A i \in n + 1..Len(text) : text[i] \in Chars
  BY <1>1, <1>2
<1>5. SubSeq(text, 1, n) \in Seq(Chars) /\ Len(SubSeq(text, 1, n)) = n
  <2>1. SubSeq(text, 1, n) \in Seq(Chars) /\ Len(SubSeq(text, 1, n)) = IF 1 <= n THEN n - 1 + 1 ELSE 0
    BY <1>1, <1>3, SubSeqProperties
  <2> QED BY <1>1, <2>1
<1>6. /\ SubSeq(text, n + 1, Len(text)) \in Seq(Chars)
      /\ Len(SubSeq(text, n + 1, Len(text))) = Len(text) - n
  <2>1. n + 1 \in Int /\ Len(text) \in Int
    BY <1>1
  <2>2. /\ SubSeq(text, n + 1, Len(text)) \in Seq(Chars)
        /\ Len(SubSeq(text, n + 1, Len(text))) =
             IF n + 1 <= Len(text) THEN Len(text) - (n + 1) + 1 ELSE 0
    BY <1>4, <2>1, SubSeqProperties
  <2> QED BY <1>1, <2>2
<1>7. SubSeq(text, 1, n) \o SubSeq(text, n + 1, Len(text)) = text
  <2>1. 1 \in 1..Len(text) + 1 /\ n \in 1 - 1..Len(text) /\ Len(text) \in n..Len(text)
    BY <1>1
  <2>2. SubSeq(text, 1, n) \o SubSeq(text, n + 1, Len(text)) = SubSeq(text, 1, Len(text))
    BY <2>1, ConcatAdjacentSubSeq
  <2> QED BY <2>2, SubSeqFull
<1> QED BY <1>5, <1>6, <1>7

(* The lines are the texts of at most MaxLine characters.                  *)
LEMMA LinesAreShort ==
  /\ \A line \in Lines : line \in Seq(Chars) /\ Len(line) <= MaxLine
  /\ \A text \in Seq(Chars) : Len(text) <= MaxLine => text \in Lines
<1>1. ASSUME NEW line \in Lines PROVE line \in Seq(Chars) /\ Len(line) <= MaxLine
  <2>1. PICK n \in 0..MaxLine : line \in [1..n -> Chars]
    BY ReplAssumption
  <2>2. n \in Nat /\ n <= MaxLine
    BY <2>1, ReplAssumption
  <2>3. line \in Seq(Chars)
    BY <2>1, <2>2, SeqDef
  <2>4. Len(line) = n
    BY <2>1, <2>2, <2>3, LenProperties
  <2> QED BY <2>2, <2>3, <2>4
<1>2. ASSUME NEW text \in Seq(Chars), Len(text) <= MaxLine PROVE text \in Lines
  <2>1. text \in [1..Len(text) -> Chars] /\ Len(text) \in Nat
    BY LenProperties
  <2>2. Len(text) \in 0..MaxLine
    BY <1>2, <2>1, ReplAssumption
  <2> QED BY <2>1, <2>2, ReplAssumption
<1> QED BY <1>1, <1>2

-----------------------------------------------------------------------------
(* Editing.                                                                *)

(* A deletion shortens the line, and leaves it alone if it says so.        *)
LEMMA DeleteFacts ==
  ASSUME before \in Seq(Chars), after \in Seq(Chars), PhysicalLine!Delete
  PROVE  /\ before' \in Seq(Chars) /\ after' \in Seq(Chars) /\ deleted' \in BOOLEAN
         /\ Len(before') <= Len(before) /\ Len(after') <= Len(after)
         /\ ~deleted' => before' = before /\ after' = after
<1>1. Len(before) \in Nat /\ Len(after) \in Nat
  BY LenProperties
<1>2. ASSUME NEW n \in 0..Len(before), n < Len(before) \/ Len(before) = 0,
             PhysicalLine!KeepBefore(n)
      PROVE  /\ before' \in Seq(Chars) /\ Len(before') <= Len(before) /\ after' = after
             /\ deleted' \in BOOLEAN /\ (~deleted' => before' = before)
  <2>1. before' = SubSeq(before, 1, n) /\ deleted' = (n < Len(before)) /\ after' = after
    BY <1>2 DEF PhysicalLine!KeepBefore
  <2>2. SubSeq(before, 1, n) \in Seq(Chars) /\ Len(SubSeq(before, 1, n)) = n
    BY Cut
  <2>3. CASE n < Len(before)
    <3>1. deleted' = TRUE
      BY <2>1, <2>3
    <3>2. Len(before') <= Len(before)
      BY <1>1, <2>1, <2>2, <2>3
    <3> QED BY <2>1, <2>2, <3>1, <3>2
  <2>4. CASE ~(n < Len(before))
    <3>1. n = Len(before)
      BY <1>1, <2>4
    <3>2. before' = before
      BY <2>1, <3>1, SubSeqFull
    <3> QED BY <1>1, <2>1, <3>2
  <2> QED BY <2>3, <2>4
<1>3. ASSUME NEW n \in 0..Len(after), PhysicalLine!DropAfter(n)
      PROVE  /\ after' \in Seq(Chars) /\ Len(after') <= Len(after) /\ before' = before
             /\ deleted' \in BOOLEAN /\ (~deleted' => after' = after)
  <2>1. /\ after' = SubSeq(after, n + 1, Len(after)) /\ deleted' = (n > 0)
        /\ before' = before
    BY <1>3 DEF PhysicalLine!DropAfter
  <2>2. /\ SubSeq(after, n + 1, Len(after)) \in Seq(Chars)
        /\ Len(SubSeq(after, n + 1, Len(after))) = Len(after) - n
    BY Cut
  <2>3. CASE n > 0
    <3>1. deleted' = TRUE
      BY <2>1, <2>3
    <3>2. Len(after') <= Len(after)
      BY <1>1, <2>1, <2>2, <2>3
    <3> QED BY <2>1, <2>2, <3>1, <3>2
  <2>4. CASE ~(n > 0)
    <3>1. n = 0 /\ n + 1 = 1
      BY <2>4
    <3>2. after' = after
      BY <2>1, <3>1, SubSeqFull
    <3> QED BY <1>1, <2>1, <3>2
  <2> QED BY <2>3, <2>4
<1>4. PhysicalLine!Max({0, Len(before) - 1}) = IF Len(before) = 0 THEN 0 ELSE Len(before) - 1
  BY <1>1 DEF PhysicalLine!Max
<1>5. PhysicalLine!Min({1, Len(after)}) = IF Len(after) = 0 THEN 0 ELSE 1
  BY <1>1 DEF PhysicalLine!Min
<1>6. \/ \E n \in 0..Len(before) :
           (n < Len(before) \/ Len(before) = 0) /\ PhysicalLine!KeepBefore(n)
      \/ \E n \in 0..Len(after) : PhysicalLine!DropAfter(n)
  <2>1. CASE PhysicalLine!KeepBefore(PhysicalLine!Max({0, Len(before) - 1}))
    BY <1>1, <1>4, <2>1
  <2>2. CASE PhysicalLine!KeepBefore(PhysicalLine!LastWordBegin(before))
    BY <2>2, WordsWithin
  <2>3. CASE PhysicalLine!KeepBefore(0)
    BY <1>1, <2>3
  <2>4. CASE PhysicalLine!DropAfter(PhysicalLine!Min({1, Len(after)}))
    BY <1>1, <1>5, <2>4
  <2>5. CASE PhysicalLine!DropAfter(PhysicalLine!FirstWordEnd(after))
    BY <2>5, WordsWithin
  <2>6. CASE PhysicalLine!DropAfter(Len(after))
    BY <1>1, <2>6
  <2> QED BY <2>1, <2>2, <2>3, <2>4, <2>5, <2>6
         DEF PhysicalLine!Delete, PhysicalLine!DeleteCharLeft, PhysicalLine!DeleteWordLeft,
             PhysicalLine!DeleteContentLeft, PhysicalLine!DeleteCharRight,
             PhysicalLine!DeleteWordRight, PhysicalLine!DeleteContentRight
<1> QED BY <1>1, <1>2, <1>3, <1>6

(* The cursor moves and the text stays.                                    *)
LEMMA MoveFacts ==
  ASSUME before \in Seq(Chars), after \in Seq(Chars), PhysicalLine!Move
  PROVE  /\ before' \in Seq(Chars) /\ after' \in Seq(Chars) /\ Content' = Content
         /\ Len(before') + Len(after') = Len(before) + Len(after)
<1>1. Len(before) \in Nat /\ Len(after) \in Nat
  BY LenProperties
<1>2. before \o after \in Seq(Chars) /\ Len(before \o after) = Len(before) + Len(after)
  BY ConcatProperties
<1>3. \E n \in 0..Len(before) + Len(after) : PhysicalLine!MoveTo(n)
  <2>1. PhysicalLine!Max({0, Len(before) - 1}) = IF Len(before) = 0 THEN 0 ELSE Len(before) - 1
    BY <1>1 DEF PhysicalLine!Max
  <2>2. CASE PhysicalLine!MoveTo(PhysicalLine!Max({0, Len(before) - 1}))
    BY <1>1, <2>1, <2>2
  <2>3. CASE PhysicalLine!MoveTo(PhysicalLine!LastWordBegin(before))
    <3>1. PhysicalLine!LastWordBegin(before) \in 0..Len(before)
      BY WordsWithin
    <3> QED BY <1>1, <2>3, <3>1
  <2>4. CASE PhysicalLine!MoveTo(0)
    BY <1>1, <2>4
  <2>5. CASE \E n \in 0..Len(after) : PhysicalLine!MoveTo(Len(before) + n)
    <3>1. PICK n \in 0..Len(after) : PhysicalLine!MoveTo(Len(before) + n)
      BY <2>5
    <3>2. Len(before) + n \in 0..Len(before) + Len(after)
      BY <1>1
    <3> QED BY <3>1, <3>2
  <2>6. CASE PhysicalLine!MoveTo(Len(before) + PhysicalLine!Min({1, Len(after)}))
    <3>1. \A m \in Nat : PhysicalLine!Min({1, m}) = IF m = 0 THEN 0 ELSE 1
      BY DEF PhysicalLine!Min
    <3>2. PhysicalLine!Min({1, Len(after)}) \in 0..Len(after)
      BY <1>1, <3>1
    <3> QED BY <1>1, <2>6, <3>2
  <2>7. CASE PhysicalLine!MoveTo(Len(before) + Len(after))
    BY <1>1, <2>7
  <2> QED BY <2>2, <2>3, <2>4, <2>5, <2>6, <2>7
         DEF PhysicalLine!Move, PhysicalLine!MoveLeftByChar, PhysicalLine!MoveLeftByWord,
             PhysicalLine!MoveToStart, PhysicalLine!MoveRightByChar, PhysicalLine!MoveRight,
             PhysicalLine!MoveToEnd
<1>4. PICK n \in 0..Len(before) + Len(after) : PhysicalLine!MoveTo(n)
  BY <1>3
<1> DEFINE text == before \o after
<1>5. before' = SubSeq(text, 1, n) /\ after' = SubSeq(text, n + 1, Len(text))
  BY <1>4 DEF PhysicalLine!MoveTo
<1>6. text \in Seq(Chars) /\ n \in 0..Len(text)
  BY <1>2
<1>7. Content = text
  BY DEF Content
<1> HIDE DEF text
<1>8. /\ SubSeq(text, 1, n) \in Seq(Chars) /\ SubSeq(text, n + 1, Len(text)) \in Seq(Chars)
      /\ Len(SubSeq(text, 1, n)) = n
      /\ Len(SubSeq(text, n + 1, Len(text))) = Len(text) - n
      /\ SubSeq(text, 1, n) \o SubSeq(text, n + 1, Len(text)) = text
  BY <1>6, Cut
<1>9. Content' = text
  BY <1>5, <1>8 DEF Content
<1>10. Len(before') + Len(after') = Len(before) + Len(after)
  <2>1. n \in Nat /\ Len(text) = Len(before) + Len(after)
    BY <1>1, <1>2 DEF text
  <2>2. Len(before') = n /\ Len(after') = Len(text) - n
    BY <1>5, <1>8
  <2>3. \A m \in Nat : n + (m - n) = m
    BY <2>1
  <2> QED BY <1>1, <2>1, <2>2, <2>3
<1> QED BY <1>5, <1>7, <1>8, <1>9, <1>10

(* A line that is loaded replaces the whole content.                       *)
LEMMA LoadFacts ==
  ASSUME NEW line \in Seq(Chars), Len(line) <= MaxLine, PhysicalLine!Load(line)
  PROVE  /\ before' \in Seq(Chars) /\ after' \in Seq(Chars) /\ Content' = line
         /\ Len(before') + Len(after') <= MaxLine
<1>1. before' = line /\ after' = <<>>
  BY DEF PhysicalLine!Load
<1>2. <<>> \in Seq(Chars) /\ Len(<<>>) = 0 /\ line \o <<>> = line
  BY EmptySeq, ConcatEmptySeq
<1>3. Len(line) \in Nat
  BY LenProperties
<1>4. Len(before') + Len(after') <= MaxLine
  BY <1>1, <1>2, <1>3, ReplAssumption
<1> QED BY <1>1, <1>2, <1>4 DEF Content

LEMMA EmptyLine ==
  <<>> \in Seq(Chars) /\ Len(<<>>) <= MaxLine
BY EmptySeq, ReplAssumption

(* Browsing returns a line, or none.                                       *)
LEMMA ReturnedIsLine ==
  ASSUME HistoryInv, history_browse_older_entry \/ history_browse_newer_entry
  PROVE  returned' \in Lines \cup {NoEntry}
<1>1. browsed \in -1..(entryCount - 1) /\ phase = "open"
  BY DEF HistoryInv, history_browse_older_entry, history_browse_newer_entry
<1>2. ASSUME NEW index \in Indexes, BrowseEntry(index) PROVE returned' \in Lines \cup {NoEntry}
  BY <1>2, RingTypes DEF BrowseEntry
<1>3. CASE ReturnNoEntry
  BY <1>3 DEF ReturnNoEntry
<1>4. CASE history_browse_older_entry /\ ~ReturnNoEntry
  <2>1. entryCount # 0 /\ BrowseEntry(IF browsed # -1 THEN PreviousIndex ELSE newest)
    BY <1>4 DEF history_browse_older_entry, history_is_browsed
  <2>2. newest \in Indexes
    BY <2>1, RingTypes, Sizes DEF Indexes
  <2>3. browsed # -1 => PreviousIndex \in Indexes
    BY <1>1, RingTypes, Sizes DEF PreviousIndex, Indexes
  <2> QED BY <1>2, <2>1, <2>2, <2>3
<1>5. CASE history_browse_newer_entry /\ ~ReturnNoEntry
  <2>1. BrowseEntry((browsed + 1) % HistorySize)
    BY <1>5 DEF history_browse_newer_entry
  <2>2. (browsed + 1) % HistorySize \in Indexes
    <3> DEFINE next == browsed + 1
    <3>1. next \in Int
      BY <1>1, RingTypes
    <3> HIDE DEF next
    <3>2. next % HistorySize \in 0..(HistorySize - 1)
      BY <3>1, Wraps DEF WrapsOnce
    <3> QED BY <3>2 DEF Indexes, next
  <2> QED BY <1>2, <2>1, <2>2
<1> QED BY <1>3, <1>4, <1>5

-----------------------------------------------------------------------------
(* The steps of the REPL.                                                  *)

(* What loading a returned entry makes of the physical line.               *)
LEMMA LoadEntryFacts ==
  ASSUME LineInv, NEW entry \in Lines \cup {NoEntry}, LoadEntry(entry), pc' = pc,
         isModified' = FALSE
  PROVE  LineInv'
<1>1. settled' = Content'
  BY DEF LoadEntry
<1>2. CASE entry # NoEntry
  <2>1. PhysicalLine!Load(entry) /\ entry \in Seq(Chars) /\ Len(entry) <= MaxLine
    BY <1>2, LinesAreShort DEF LoadEntry
  <2>2. /\ before' \in Seq(Chars) /\ after' \in Seq(Chars)
        /\ Len(before') + Len(after') <= MaxLine
    BY <2>1, LoadFacts
  <2> QED BY <1>1, <2>2 DEF LineInv
<1>3. CASE entry = NoEntry
  <2>1. before' = before /\ after' = after
    BY <1>3 DEF LoadEntry, textVars
  <2> QED BY <1>1, <2>1 DEF LineInv
<1> QED BY <1>2, <1>3

LEMMA LineUnchanged ==
  ASSUME LineInv, UNCHANGED lineVars, pc' \in {"start", "prompt", "interpret", "exited"},
         pc' = "exited" \/ pc # "exited"
  PROVE  LineInv'
BY DEF LineInv, lineVars, Content

LEMMA LineStep ==
  ASSUME LineInv, RecallInv, [ReplNext]_replVars
  PROVE  LineInv'
<1>1. CASE InterpretStdin \/ InitializeHistory \/ InterpretLogicalLine
  <2>1. UNCHANGED lineVars /\ pc # "exited" /\ pc' \in {"start", "prompt", "interpret", "exited"}
    BY <1>1 DEF InterpretStdin, InitializeHistory, InterpretLogicalLine
  <2> QED BY <2>1, LineUnchanged
<1>2. CASE PrintableKey
  <2>1. /\ isModified' = TRUE /\ pc' = pc /\ Len(Content) < MaxLine
        /\ \E c \in Chars : before' = Append(before, c) /\ after' = after
    BY <1>2 DEF PrintableKey, EditsLine, PhysicalLine!Insert
  <2>2. PICK c \in Chars : before' = Append(before, c) /\ after' = after
    BY <2>1
  <2>3. before \in Seq(Chars) /\ after \in Seq(Chars)
    BY DEF LineInv
  <2>4. Len(before) \in Nat /\ Len(after) \in Nat /\ Len(Content) = Len(before) + Len(after)
    BY <2>3, LenProperties, ConcatProperties DEF Content
  <2>5. before' \in Seq(Chars) /\ Len(before') = Len(before) + 1
    BY <2>2, <2>3, AppendProperties
  <2>6. Len(before') + Len(after') <= MaxLine
    BY <2>1, <2>2, <2>4, <2>5, ReplAssumption
  <2> QED BY <2>1, <2>2, <2>3, <2>5, <2>6 DEF LineInv
<1>3. CASE DeletionKey
  <2>1. /\ isModified' = (isModified \/ deleted') /\ pc' = pc /\ settled' = settled
        /\ PhysicalLine!Delete
    BY <1>3 DEF DeletionKey, EditsLine
  <2>2. /\ before' \in Seq(Chars) /\ after' \in Seq(Chars) /\ deleted' \in BOOLEAN
        /\ Len(before') <= Len(before) /\ Len(after') <= Len(after)
        /\ ~deleted' => before' = before /\ after' = after
    BY <2>1, DeleteFacts DEF LineInv
  <2>3. isModified' \in BOOLEAN
    BY <2>1
  <2>4. ~isModified' => ~isModified /\ Content' = Content
    BY <2>1, <2>2 DEF Content
  <2>5. Len(before') + Len(after') <= MaxLine
    <3>1. /\ Len(before) \in Nat /\ Len(after) \in Nat /\ Len(before') \in Nat
          /\ Len(after') \in Nat
      BY <2>2, LenProperties DEF LineInv
    <3> QED BY <2>2, <3>1, ReplAssumption DEF LineInv
  <2> QED BY <2>1, <2>2, <2>3, <2>4, <2>5 DEF LineInv
<1>4. CASE CursorKey
  <2>1. UNCHANGED <<isModified, settled, pc>> /\ PhysicalLine!Move
    BY <1>4 DEF CursorKey, EditsLine
  <2>2. /\ before' \in Seq(Chars) /\ after' \in Seq(Chars) /\ Content' = Content
        /\ Len(before') + Len(after') = Len(before) + Len(after)
    BY <2>1, MoveFacts DEF LineInv
  <2> QED BY <2>1, <2>2 DEF LineInv
<1>5. CASE OlderEntryKey
  <2>1. returned' \in Lines \cup {NoEntry}
    BY <1>5, ReturnedIsLine DEF OlderEntryKey, RecallInv
  <2> QED BY <1>5, <2>1, LoadEntryFacts DEF OlderEntryKey, BrowsesHistory
<1>6. CASE NewerEntryKey
  <2>1. CASE history_is_newest_entry_browsed
    <3>1. <<>> \in Lines
      BY EmptyLine, LinesAreShort
    <3> QED BY <1>6, <2>1, <3>1, LoadEntryFacts DEF NewerEntryKey, BrowsesHistory
  <2>2. CASE ~history_is_newest_entry_browsed
    <3>1. returned' \in Lines \cup {NoEntry}
      BY <1>6, <2>2, ReturnedIsLine DEF NewerEntryKey, RecallInv
    <3> QED BY <1>6, <2>2, <3>1, LoadEntryFacts DEF NewerEntryKey, BrowsesHistory
  <2> QED BY <2>1, <2>2
<1>7. CASE EnterKey
  <2>1. /\ PhysicalLine!Load(<<>>) /\ isModified' = FALSE /\ settled' = <<>>
        /\ pc' = "interpret"
    BY <1>7 DEF EnterKey
  <2>2. /\ before' \in Seq(Chars) /\ after' \in Seq(Chars) /\ Content' = <<>>
        /\ Len(before') + Len(after') <= MaxLine
    BY <2>1, EmptyLine, LoadFacts
  <2> QED BY <2>1, <2>2 DEF LineInv
<1>8. CASE EndKey
  <2>1. PhysicalLine!Load(<<>>) /\ isModified' = isModified /\ pc' = "exited"
    BY <1>8 DEF EndKey
  <2>2. /\ before' \in Seq(Chars) /\ after' \in Seq(Chars)
        /\ Len(before') + Len(after') <= MaxLine
    BY <2>1, EmptyLine, LoadFacts
  <2> QED BY <2>1, <2>2 DEF LineInv
<1>9. CASE UNCHANGED replVars
  <2>1. UNCHANGED lineVars /\ pc' = pc
    BY <1>9 DEF replVars
  <2>2. pc' \in {"start", "prompt", "interpret", "exited"}
    BY <2>1 DEF LineInv
  <2>3. pc' = "exited" \/ pc # "exited"
    BY <2>1
  <2> QED BY <2>1, <2>2, <2>3, LineUnchanged
<1> QED BY <1>1, <1>2, <1>3, <1>4, <1>5, <1>6, <1>7, <1>8, <1>9 DEF ReplNext

(* The content of the physical line is a line.                             *)
LEMMA ContentIsLine ==
  ASSUME LineInv
  PROVE  Content \in Lines
<1>1. Content \in Seq(Chars) /\ Len(Content) = Len(before) + Len(after)
  BY ConcatProperties DEF LineInv, Content
<1> QED BY <1>1, LinesAreShort DEF LineInv

(* A step of the REPL is one of the history, or leaves it alone.           *)
LEMMA StepsOfHistory ==
  ASSUME LineInv, [ReplNext]_replVars
  PROVE  [HistoryNext]_historyVars
<1>1. CASE InterpretStdin \/ PrintableKey \/ DeletionKey \/ CursorKey \/ InterpretLogicalLine
  BY <1>1 DEF InterpretStdin, PrintableKey, DeletionKey, CursorKey, EditsLine, InterpretLogicalLine
<1>2. CASE InitializeHistory
  BY <1>2 DEF InitializeHistory, HistoryNext
<1>3. CASE OlderEntryKey \/ NewerEntryKey
  BY <1>3 DEF OlderEntryKey, NewerEntryKey, HistoryNext
<1>4. CASE EnterKey
  BY <1>4, ContentIsLine DEF EnterKey, HistoryNext
<1>5. CASE EndKey
  BY <1>5 DEF EndKey, HistoryNext
<1>6. CASE UNCHANGED replVars
  BY <1>6 DEF replVars, historyVars
<1> QED BY <1>1, <1>2, <1>3, <1>4, <1>5, <1>6 DEF ReplNext

LEMMA RecallStep ==
  ASSUME LoadsWhatItTrimmed, LineInv, RecallInv, [ReplNext]_replVars
  PROVE  RecallInv'
<1>1. HistoryInv' /\ StoreInv'
  BY StepsOfHistory, RingStep, StoreStep DEF RecallInv
<1> DEFINE Recalled == /\ pc = "start" => lastLine = NoEntry
                       /\ pc \in {"prompt", "interpret"} /\ lastLine # NoEntry =>
                            entryCount > 0 /\ entries[newest] = lastLine /\ lastLine \in Lines
<1>2. Recalled
  BY DEF RecallInv
<1>3. CASE InterpretStdin \/ EndKey
  <2> pc' = "exited"
    BY <1>3 DEF InterpretStdin, EndKey
  <2> QED BY <1>1 DEF RecallInv
<1>4. CASE InitializeHistory
  <2>1. lastLine' = lastLine /\ lastLine = NoEntry
    BY <1>2, <1>4 DEF InitializeHistory
  <2> QED BY <1>1, <2>1 DEF RecallInv
<1>5. CASE PrintableKey \/ DeletionKey \/ CursorKey \/ InterpretLogicalLine
  <2>1. UNCHANGED <<lastLine, entries, entryCount, newest>> /\ pc \in {"prompt", "interpret"}
        /\ pc' = "prompt"
    BY <1>5 DEF PrintableKey, DeletionKey, CursorKey, EditsLine, InterpretLogicalLine, historyVars
  <2> QED BY <1>1, <1>2, <2>1 DEF RecallInv
<1>6. CASE OlderEntryKey \/ NewerEntryKey
  <2>1. UNCHANGED <<lastLine, pc>>
    BY <1>6 DEF OlderEntryKey, NewerEntryKey, BrowsesHistory
  <2>2. UNCHANGED ringVars
    BY <1>6, BrowseStep
    DEF OlderEntryKey, NewerEntryKey, RecallInv, history_stop_browsing
  <2> QED BY <1>1, <1>2, <2>1, <2>2 DEF RecallInv, ringVars
<1>7. CASE EnterKey
  <2>1. /\ history_append_entry(Content) /\ pc = "prompt" /\ pc' = "interpret"
        /\ lastLine' = IF Content \in Blank THEN lastLine ELSE Content
    BY <1>7 DEF EnterKey
  <2>2. Content \in Lines
    BY ContentIsLine
  <2>3. entryCount \in Nat
    BY RingTypes DEF RecallInv
  <2>4. CASE Content \in Blank
    <3>1. UNCHANGED ringVars /\ lastLine' = lastLine
      BY <2>1, <2>4 DEF history_append_entry, IsSkipped
    <3> QED BY <1>1, <1>2, <2>1, <3>1 DEF RecallInv, ringVars
  <2>5. CASE Content \notin Blank /\ IsSkipped(Content)
    <3>1. UNCHANGED ringVars /\ lastLine' = Content /\ entryCount > 0 /\ entries[newest] = Content
      BY <2>1, <2>5 DEF history_append_entry, IsSkipped
    <3> QED BY <1>1, <2>1, <2>2, <3>1 DEF RecallInv, ringVars
  <2>6. CASE ~IsSkipped(Content)
    <3>1. Put(Content) /\ Content \notin Blank /\ lastLine' = Content
      BY <2>1, <2>6 DEF history_append_entry, IsSkipped
    <3>2. entries \in [Indexes -> Lines \cup {NoEntry}] /\ oldest \in Indexes
      BY DEF RecallInv, HistoryInv
    <3>3. entryCount' > 0 /\ entries'[newest'] = Content
      <4>1. CASE entryCount < HistorySize
        <5>1. /\ entries' = [entries EXCEPT ![entryCount] = Content]
              /\ newest' = entryCount /\ entryCount' = entryCount + 1
          BY <3>1, <4>1 DEF Put
        <5>2. entryCount \in Indexes
          BY <2>3, <4>1, Sizes DEF Indexes
        <5> QED BY <2>3, <3>2, <5>1, <5>2
      <4>2. CASE ~(entryCount < HistorySize)
        <5>1. /\ entries' = [entries EXCEPT ![oldest] = Content]
              /\ newest' = oldest /\ entryCount' = entryCount
          BY <3>1, <4>2 DEF Put
        <5>2. entryCount > 0
          BY <2>3, <4>2, Sizes
        <5> QED BY <3>2, <5>1, <5>2
      <4> QED BY <4>1, <4>2
    <3> QED BY <1>1, <2>1, <2>2, <3>1, <3>3 DEF RecallInv
  <2> QED BY <2>4, <2>5, <2>6
<1>8. CASE UNCHANGED replVars
  <2>1. UNCHANGED <<lastLine, pc, entries, entryCount, newest>>
    BY <1>8 DEF replVars, historyVars
  <2> QED BY <1>1, <1>2, <2>1 DEF RecallInv
<1> QED BY <1>3, <1>4, <1>5, <1>6, <1>7, <1>8 DEF ReplNext

LEMMA ReplInitially ==
  ASSUME ReplInit
  PROVE  LineInv /\ RecallInv
<1>1. HistoryInv /\ StoreInv
  BY InitialHistory, ReplAssumption DEF ReplInit, Accepted
<1>2. before = <<>> /\ after = <<>> /\ settled = <<>> /\ isModified = FALSE /\ pc = "start"
      /\ lastLine = NoEntry
  BY DEF ReplInit, PhysicalLine!LineInit
<1>3. <<>> \in Seq(Chars) /\ Len(<<>>) = 0 /\ <<>> \o <<>> = <<>>
  BY EmptySeq, ConcatEmptySeq
<1>4. LineInv
  <2>1. Len(before) + Len(after) <= MaxLine
    BY <1>2, <1>3, ReplAssumption
  <2>2. Content = settled
    BY <1>2, <1>3 DEF Content
  <2> QED BY <1>2, <1>3, <2>1, <2>2 DEF LineInv
<1> QED BY <1>1, <1>2, <1>4 DEF RecallInv

LEMMA ReplInvariance ==
  ASSUME LoadsWhatItTrimmed
  PROVE  ReplSpec => [](LineInv /\ RecallInv)
<1>1. ReplInit => LineInv /\ RecallInv
  BY ReplInitially
<1>2. LineInv /\ RecallInv /\ [ReplNext]_replVars => (LineInv /\ RecallInv)'
  BY LineStep, RecallStep
<1> QED BY <1>1, <1>2, PTL DEF ReplSpec

-----------------------------------------------------------------------------
(* A key that browses the history never takes a line that was changed since*)
(* it was last browsed, with the cursor behind its start (repl.c:99, 168). *)
THEOREM EditsSurviveBrowsing ==
  ASSUME LoadsWhatItTrimmed
  PROVE  ReplSpec => BrowsingKeepsEdits
<1>1. LineInv /\ [ReplNext]_replVars =>
        [(OlderEntryKey \/ NewerEntryKey) /\ Content' # Content =>
           Content = settled \/ before = <<>>]_replVars
  BY DEF LineInv, OlderEntryKey, NewerEntryKey, BrowsesHistory
<1> QED BY <1>1, ReplInvariance, PTL DEF ReplSpec, BrowsingKeepsEdits

(* The first older entry is the line last entered that is not blank, for   *)
(* every size of the history and wherever its ring has wrapped around      *)
(* (repl.c:168-175, history.c:124-153, 216-238).                           *)
THEOREM LastLineIsRecalled ==
  ASSUME LoadsWhatItTrimmed
  PROVE  ReplSpec => RecallsLastLine
<1>1. ASSUME LineInv, RecallInv, OlderEntryKey, ~history_is_browsed, lastLine # NoEntry
      PROVE  Content' = lastLine
  <2>1. /\ entryCount > 0 /\ entries[newest] = lastLine /\ lastLine \in Lines
    BY <1>1 DEF RecallInv, OlderEntryKey, BrowsesHistory
  <2>2. browsed = -1 /\ browsed # oldest /\ entryCount # 0
    BY <1>1, <2>1, RingTypes DEF RecallInv, history_is_browsed
  <2>3. returned' = lastLine
    BY <1>1, <2>1, <2>2
    DEF OlderEntryKey, history_browse_older_entry, history_is_oldest_entry_browsed,
        history_is_browsed, BrowseEntry
  <2>4. PhysicalLine!Load(lastLine)
    BY <1>1, <2>3 DEF OlderEntryKey, LoadEntry
  <2> QED BY <2>1, <2>4, LoadFacts, LinesAreShort
<1>2. LineInv /\ RecallInv /\ [ReplNext]_replVars =>
        [OlderEntryKey /\ ~history_is_browsed /\ lastLine # NoEntry => Content' = lastLine]_replVars
  BY <1>1
<1> QED BY <1>2, ReplInvariance, PTL DEF ReplSpec, RecallsLastLine

-----------------------------------------------------------------------------
(* The capacities of DARRAY_RESERVE.  The library proves no recursive      *)
(* function to exist without an operator parameter: this one is put        *)
(* together from its beginnings, which exist because there is no least     *)
(* length without one.                                                     *)

(* A function that is the capacities grown through, as far as it goes.     *)
Beginning(f, n, capacity) ==
  /\ f[0] = capacity
  /\ \A i \in 1..n : f[i] = NextCapacity(f[i - 1])

LEMMA NextIsGreater ==
  ASSUME NEW capacity \in Nat
  PROVE  NextCapacity(capacity) \in Nat /\ NextCapacity(capacity) > capacity
<1>1. /\ InitialGrowthCapacity \in Nat /\ InitialGrowthCapacity > 0
      /\ GrowthFactor \in Nat /\ GrowthFactor >= 2
  BY GrowthAssumption
<1>2. CASE capacity < InitialGrowthCapacity
  BY <1>1, <1>2 DEF NextCapacity
<1>3. CASE capacity >= InitialGrowthCapacity
  <2>1. PICK extra \in Nat : GrowthFactor = extra + 2
    BY <1>1
  <2>2. capacity * GrowthFactor = capacity * extra + 2 * capacity /\ capacity * extra \in Nat
    BY <2>1
  <2> QED BY <1>1, <1>3, <2>2 DEF NextCapacity
<1> QED BY <1>1, <1>2, <1>3

LEMMA BeginningsAgree ==
  ASSUME NEW capacity, NEW m \in Nat, NEW n \in Nat, NEW f, NEW g,
         Beginning(f, m, capacity), Beginning(g, n, capacity)
  PROVE  \A i \in Nat : i <= m /\ i <= n => f[i] = g[i]
<1> DEFINE Differ == {i \in Nat : i <= m /\ i <= n /\ f[i] # g[i]}
<1>1. SUFFICES ASSUME Differ # {} PROVE FALSE
  OBVIOUS
<1>2. PICK i \in Differ : \A j \in Differ : i <= j
  <2>1. Differ \subseteq Nat
    OBVIOUS
  <2> HIDE DEF Differ
  <2> QED BY <1>1, <2>1, LeastNatural
<1>3. i # 0
  BY DEF Beginning
<1>4. i - 1 \in Nat /\ i \in 1..m /\ i \in 1..n
  BY <1>3
<1>5. f[i - 1] = g[i - 1]
  BY <1>2, <1>4
<1> QED BY <1>4, <1>5 DEF Beginning

LEMMA BeginningsExist ==
  ASSUME NEW capacity
  PROVE  \A n \in Nat : \E f : Beginning(f, n, capacity)
<1> DEFINE Without == {n \in Nat : ~\E f : Beginning(f, n, capacity)}
<1>1. SUFFICES ASSUME Without # {} PROVE FALSE
  OBVIOUS
<1>2. PICK n \in Without : \A m \in Without : n <= m
  <2>1. Without \subseteq Nat
    OBVIOUS
  <2> HIDE DEF Without
  <2> QED BY <1>1, <2>1, LeastNatural
<1>3. n # 0
  <2>1. Beginning([i \in {0} |-> capacity], 0, capacity)
    BY DEF Beginning
  <2> QED BY <2>1
<1>4. n - 1 \in Nat /\ n - 1 \notin Without
  BY <1>2, <1>3
<1>5. PICK f : Beginning(f, n - 1, capacity)
  BY <1>4
<1> DEFINE longer == [i \in 0..n |-> IF i = n THEN NextCapacity(f[n - 1]) ELSE f[i]]
<1>6. /\ \A i \in 0..n : longer[i] = IF i = n THEN NextCapacity(f[n - 1]) ELSE f[i]
      /\ n \in Nat
  OBVIOUS
<1> HIDE DEF longer
<1>7. longer[0] = capacity
  BY <1>3, <1>5, <1>6 DEF Beginning
<1>8. ASSUME NEW i \in 1..n PROVE longer[i] = NextCapacity(longer[i - 1])
  <2>1. i \in 0..n /\ i - 1 \in 0..n /\ i - 1 # n
    BY <1>6
  <2>2. longer[i - 1] = f[i - 1]
    BY <1>6, <2>1
  <2>3. CASE i = n
    BY <1>6, <2>1, <2>2, <2>3
  <2>4. CASE i # n
    <3>1. i \in 1..n - 1
      BY <1>6, <2>4
    <3>2. longer[i] = f[i] /\ f[i] = NextCapacity(f[i - 1])
      BY <1>5, <1>6, <2>1, <2>4, <3>1 DEF Beginning
    <3> QED BY <2>2, <3>2
  <2> QED BY <2>3, <2>4
<1>9. Beginning(longer, n, capacity)
  BY <1>7, <1>8 DEF Beginning
<1> QED BY <1>9

LEMMA CapacitiesGrow ==
  ASSUME NEW capacity
  PROVE  /\ Capacities(capacity)[0] = capacity
         /\ \A n \in Nat : Capacities(capacity)[n + 1] = NextCapacity(Capacities(capacity)[n])
<1> DEFINE beginning(n) == CHOOSE f : Beginning(f, n, capacity)
           whole == [n \in Nat |-> beginning(n)[n]]
           grown == Capacities(capacity)
<1>1. \A n \in Nat : Beginning(beginning(n), n, capacity)
  BY BeginningsExist
<1> HIDE DEF beginning
<1>2. whole[0] = capacity
  BY <1>1 DEF Beginning
<1>3. ASSUME NEW n \in Nat, n # 0 PROVE whole[n] = NextCapacity(whole[n - 1])
  <2>1. n - 1 \in Nat /\ n - 1 <= n /\ n \in 1..n
    BY <1>3
  <2>2. beginning(n)[n] = NextCapacity(beginning(n)[n - 1])
    BY <1>1, <2>1 DEF Beginning
  <2>3. beginning(n)[n - 1] = beginning(n - 1)[n - 1]
    BY <1>1, <2>1, BeginningsAgree
  <2> QED BY <2>1, <2>2, <2>3
<1>4. whole = [n \in Nat |-> IF n = 0 THEN capacity ELSE NextCapacity(whole[n - 1])]
  <2>1. \A n \in Nat : whole[n] = IF n = 0 THEN capacity ELSE NextCapacity(whole[n - 1])
    BY <1>2, <1>3
  <2> QED BY <2>1
<1> HIDE DEF whole
<1>5. grown = [n \in Nat |-> IF n = 0 THEN capacity ELSE NextCapacity(grown[n - 1])]
  BY <1>4, Zenon DEF Capacities
<1> HIDE DEF grown
<1>6. \A n \in Nat : grown[n] = IF n = 0 THEN capacity ELSE NextCapacity(grown[n - 1])
  BY <1>5
<1>7. \A n \in Nat : grown[n + 1] = NextCapacity(grown[n])
  <2>1. ASSUME NEW n \in Nat PROVE grown[n + 1] = NextCapacity(grown[n])
    <3>1. n + 1 \in Nat /\ n + 1 # 0 /\ (n + 1) - 1 = n
      OBVIOUS
    <3> QED BY <1>6, <3>1
  <2> QED BY <2>1
<1> QED BY <1>6, <1>7 DEF grown

(* DARRAY_RESERVE makes room for what it is asked to.                      *)
LEMMA ReserveMakesRoom ==
  ASSUME NEW capacity \in Nat, NEW minimum \in Nat
  PROVE  /\ ReservedCapacity(capacity, minimum) \in Nat
         /\ ReservedCapacity(capacity, minimum) >= minimum
<1> DEFINE grown == Capacities(capacity)
<1>1. grown[0] = capacity /\ \A n \in Nat : grown[n + 1] = NextCapacity(grown[n])
  BY CapacitiesGrow
<1>2. ReservedCapacity(capacity, minimum)
        = grown[CHOOSE n \in 0..minimum :
                  grown[n] >= minimum /\ \A k \in 0..n - 1 : grown[k] < minimum]
  BY DEF ReservedCapacity
<1> HIDE DEF grown
<1>3. \A n \in Nat : grown[n] \in Nat /\ grown[n] >= n
  <2> DEFINE Short == {n \in Nat : ~(grown[n] \in Nat /\ grown[n] >= n)}
  <2>1. SUFFICES ASSUME Short # {} PROVE FALSE
    OBVIOUS
  <2>2. PICK n \in Short : \A m \in Short : n <= m
    <3>1. Short \subseteq Nat
      OBVIOUS
    <3> HIDE DEF Short
    <3> QED BY <2>1, <3>1, LeastNatural
  <2>3. n # 0
    BY <1>1
  <2>4. n - 1 \in Nat /\ (n - 1) + 1 = n
    BY <2>3
  <2>5. grown[n - 1] \in Nat /\ grown[n - 1] >= n - 1
    BY <2>2, <2>4
  <2>6. grown[n] = NextCapacity(grown[n - 1])
    BY <1>1, <2>4
  <2>7. grown[n] \in Nat /\ grown[n] > grown[n - 1]
    BY <2>5, <2>6, NextIsGreater
  <2> QED BY <2>4, <2>5, <2>7
<1> DEFINE Enough == {n \in Nat : grown[n] >= minimum}
<1>4. Enough \subseteq Nat /\ minimum \in Enough
  BY <1>3
<1>5. PICK n \in Enough : \A k \in Enough : n <= k
  <2> HIDE DEF Enough
  <2> QED BY <1>4, LeastNatural
<1>6. n \in 0..minimum /\ grown[n] >= minimum /\ \A k \in 0..n - 1 : grown[k] < minimum
  BY <1>3, <1>4, <1>5
<1> DEFINE chosen == CHOOSE i \in 0..minimum :
                       grown[i] >= minimum /\ \A k \in 0..i - 1 : grown[k] < minimum
<1>7. chosen \in 0..minimum /\ grown[chosen] >= minimum
  BY <1>6
<1> QED BY <1>2, <1>3, <1>7

-----------------------------------------------------------------------------
Cells == Chars \cup {PHYSICAL_LINE_SEPARATOR, NUL, Garbage}
Printed == Chars \cup {PHYSICAL_LINE_SEPARATOR}

(* A text stands at the beginning of an allocation, up to its NUL.         *)
Holds(bytes, text) ==
  /\ Len(text) < Len(bytes)
  /\ \A i \in 1..Len(text) : bytes[i] = text[i]
  /\ bytes[Len(text) + 1] = NUL

(* The logical line that is interpreted or continued is in its allocation, *)
(* and `count' counts its NUL too.                                         *)
LogicalInv ==
  /\ data \in Seq(Cells) /\ count \in 0..Len(data)
  /\ isContinuing \in BOOLEAN
  /\ isContinuing <=> status = "COMPILER_UNEXPECTED_EOF"
  /\ errorFile = [content |-> <<>>, position |-> 0]
  /\ pc = "interpret" \/ (pc # "exited" /\ isContinuing) =>
       logical \in Seq(Printed) /\ Holds(data, logical) /\ count = Len(logical) + 1

(* What the REPL relies on of the interpreter: a status, and errors that   *)
(* are text.                                                               *)
InterpreterReports ==
  \A source : /\ Status(source) \in Statuses
              /\ \E Texts : NUL \notin Texts /\ Errors(source) \in Seq(Texts)

-----------------------------------------------------------------------------
(* Copying writes a text where it is told to and nothing else.             *)
LEMMA CopiedText ==
  ASSUME NEW bytes \in Seq(Cells), NEW text \in Seq(Cells), NEW index \in Nat,
         index + Len(text) <= Len(bytes)
  PROVE  /\ Copied(bytes, index, text) \in Seq(Cells)
         /\ Len(Copied(bytes, index, text)) = Len(bytes)
         /\ \A i \in 1..Len(bytes) : i <= index => Copied(bytes, index, text)[i] = bytes[i]
         /\ \A i \in 1..Len(text) : Copied(bytes, index, text)[index + i] = text[i]
<1> DEFINE copied == Copied(bytes, index, text)
<1>1. /\ Len(bytes) \in Nat /\ Len(text) \in Nat /\ DOMAIN bytes = 1..Len(bytes)
      /\ \A i \in 1..Len(bytes) : bytes[i] \in Cells
      /\ \A i \in 1..Len(text) : text[i] \in Cells
  BY LenProperties, ElementOfSeq
<1>2. copied = [i \in 1..Len(bytes) |->
                  IF i \in index + 1..index + Len(text) THEN text[i - index] ELSE bytes[i]]
  BY <1>1 DEF Copied
<1> HIDE DEF copied
<1>3. \A i \in 1..Len(bytes) : copied[i] \in Cells
  BY <1>1, <1>2
<1>4. copied \in Seq(Cells) /\ Len(copied) = Len(bytes)
  BY <1>1, <1>2, <1>3
<1>5. ASSUME NEW i \in 1..Len(text) PROVE copied[index + i] = text[i]
  <2>1. /\ index + i \in 1..Len(bytes) /\ index + i \in index + 1..index + Len(text)
        /\ (index + i) - index = i
    BY <1>1
  <2> QED BY <1>2, <2>1
<1>6. ASSUME NEW i \in 1..Len(bytes), i <= index PROVE copied[i] = bytes[i]
  BY <1>1, <1>2, <1>6
<1> QED BY <1>4, <1>5, <1>6 DEF copied

(* Reallocating keeps the bytes.                                           *)
LEMMA ReservedRoom ==
  ASSUME NEW bytes \in Seq(Cells), NEW minimum \in Nat, Len(bytes) < minimum
  PROVE  /\ Reserve(bytes, minimum) \in Seq(Cells)
         /\ Len(Reserve(bytes, minimum)) >= minimum
         /\ \A i \in 1..Len(bytes) : Reserve(bytes, minimum)[i] = bytes[i]
<1> DEFINE room == ReservedCapacity(Len(bytes), minimum) - Len(bytes)
           garbage == [i \in 1..room |-> Garbage]
<1>1. Len(bytes) \in Nat
  BY LenProperties
<1>2. room \in Nat /\ Len(bytes) + room >= minimum
  <2>1. /\ ReservedCapacity(Len(bytes), minimum) \in Nat
        /\ ReservedCapacity(Len(bytes), minimum) >= minimum
    BY <1>1, ReserveMakesRoom
  <2> QED BY <1>1, <2>1
<1>3. Reserve(bytes, minimum) = bytes \o garbage
  BY DEF Reserve
<1> HIDE DEF room
<1>4. garbage \in Seq(Cells) /\ Len(garbage) = room
  BY <1>2 DEF Cells
<1> HIDE DEF garbage
<1>5. /\ bytes \o garbage \in Seq(Cells) /\ Len(bytes \o garbage) = Len(bytes) + room
      /\ \A i \in 1..Len(bytes) + Len(garbage) :
           (bytes \o garbage)[i] = IF i <= Len(bytes) THEN bytes[i] ELSE garbage[i - Len(bytes)]
  BY <1>4, ConcatProperties
<1> QED BY <1>1, <1>2, <1>3, <1>4, <1>5

LEMMA MinIsLeast ==
  ASSUME NEW T, T \subseteq Int, NEW x \in T, \A y \in T : x <= y
  PROVE  Min(T) = x
<1>1. Min(T) \in T /\ \A y \in T : Min(T) <= y
  BY DEF Min
<1>2. Min(T) \in Int /\ x \in Int /\ Min(T) <= x /\ x <= Min(T)
  BY <1>1
<1> QED BY <1>2

(* Reading up to the first NUL gives the text that the allocation holds.   *)
LEMMA ReadsText ==
  ASSUME NEW Texts, NUL \notin Texts, NEW text \in Seq(Texts),
         NEW All, NEW bytes \in Seq(All), Holds(bytes, text)
  PROVE  AsString(bytes) = text
<1> DEFINE n == Len(text)
           Nuls == {i \in DOMAIN bytes : bytes[i] = NUL}
<1>1. /\ n \in Nat /\ Len(bytes) \in Nat /\ DOMAIN bytes = 1..Len(bytes) /\ n < Len(bytes)
      /\ \A i \in 1..n : text[i] \in Texts
  BY LenProperties, ElementOfSeq DEF Holds
<1>2. \A i \in 1..n : bytes[i] = text[i] /\ bytes[i] # NUL
  BY <1>1 DEF Holds
<1>3. n + 1 \in Nuls
  BY <1>1 DEF Holds
<1>4. \A i \in Nuls : n + 1 <= i
  BY <1>1, <1>2
<1>5. Nuls \subseteq Int
  BY <1>1
<1>6. Min(Nuls) = n + 1
  <2> HIDE DEF Nuls, n
  <2> QED BY <1>3, <1>4, <1>5, MinIsLeast
<1>7. AsString(bytes) = SubSeq(bytes, 1, n)
  <2>1. AsString(bytes) = SubSeq(bytes, 1, Min(Nuls) - 1)
    BY <1>3 DEF AsString
  <2> HIDE DEF Nuls, n
  <2>2. Min(Nuls) - 1 = n
    BY <1>1, <1>6
  <2> QED BY <2>1, <2>2
<1>8. /\ SubSeq(bytes, 1, n) \in Seq(All) /\ Len(SubSeq(bytes, 1, n)) = n
      /\ \A i \in 1..n : SubSeq(bytes, 1, n)[i] = bytes[i]
  <2>1. \A i \in 1..n : bytes[i] \in All
    BY <1>1, ElementOfSeq
  <2> HIDE DEF n
  <2>2. /\ SubSeq(bytes, 1, n) \in Seq(All)
        /\ Len(SubSeq(bytes, 1, n)) = IF 1 <= n THEN n - 1 + 1 ELSE 0
        /\ \A i \in 1..n - 1 + 1 : SubSeq(bytes, 1, n)[i] = bytes[1 + i - 1]
    BY <1>1, <2>1, SubSeqProperties
  <2> QED BY <1>1, <2>2
<1>9. SubSeq(bytes, 1, n) = text
  <2>1. \A i \in 1..n : SubSeq(bytes, 1, n)[i] = text[i]
    BY <1>2, <1>8
  <2>2. SubSeq(bytes, 1, n) \in Seq(All \cup Texts) /\ text \in Seq(All \cup Texts)
    BY <1>8, SeqMonotonic
  <2> HIDE DEF n
  <2> QED BY <1>8, <2>1, <2>2, SeqEqual DEF n
<1> QED BY <1>7, <1>9

(* Enter puts the physical line behind what is to be continued, or begins  *)
(* a new logical line.                                                     *)
LEMMA AppendsLine ==
  ASSUME LogicalInv, pc = "prompt", NEW text \in Seq(Chars), AppendPhysicalLine(text),
         logical' = IF status = "COMPILER_UNEXPECTED_EOF"
                    THEN logical \o <<PHYSICAL_LINE_SEPARATOR>> \o text ELSE text
  PROVE  /\ data' \in Seq(Cells) /\ count' \in 0..Len(data')
         /\ logical' \in Seq(Printed) /\ Holds(data', logical') /\ count' = Len(logical') + 1
<1> DEFINE n == Len(text)
           newCount == (IF isContinuing THEN count ELSE 0) + n + 1
           reserved == IF Len(data) < newCount THEN Reserve(data, newCount) ELSE data
<1>1. /\ n \in Nat /\ text \in Seq(Cells) /\ text \in Seq(Printed)
      /\ data \in Seq(Cells) /\ Len(data) \in Nat /\ count \in 0..Len(data) /\ count \in Nat
  <2>1. Chars \subseteq Cells /\ Chars \subseteq Printed
    BY DEF Cells, Printed
  <2>2. data \in Seq(Cells) /\ count \in 0..Len(data)
    BY DEF LogicalInv
  <2>3. text \in Seq(Cells) /\ text \in Seq(Printed)
    BY <2>1, SeqMonotonic
  <2>4. n \in Nat /\ Len(data) \in Nat
    BY <2>2, LenProperties
  <2> QED BY <2>2, <2>3, <2>4
<1>2. newCount \in Nat
  BY <1>1
<1>3. /\ reserved \in Seq(Cells) /\ Len(reserved) \in Nat /\ Len(reserved) >= newCount
      /\ \A i \in 1..Len(data) : reserved[i] = data[i]
      /\ Len(reserved) >= Len(data)
  <2> HIDE DEF newCount, n
  <2>1. CASE Len(data) < newCount
    <3>1. reserved = Reserve(data, newCount)
      BY <2>1
    <3>2. reserved \in Seq(Cells) /\ Len(reserved) >= newCount
          /\ \A i \in 1..Len(data) : reserved[i] = data[i]
      BY <1>1, <1>2, <2>1, <3>1, ReservedRoom
    <3>3. Len(reserved) \in Nat
      BY <3>2, LenProperties
    <3> QED BY <1>1, <1>2, <2>1, <3>2, <3>3
  <2>2. CASE ~(Len(data) < newCount)
    BY <1>1, <1>2, <2>2
  <2> QED BY <2>1, <2>2
<1>4. /\ count' = newCount
      /\ data' = IF isContinuing
                 THEN Copied(reserved, count - 1,
                             <<PHYSICAL_LINE_SEPARATOR>> \o text \o <<NUL>>)
                 ELSE Copied(reserved, 0, Append(text, NUL))
  BY DEF AppendPhysicalLine
<1> HIDE DEF reserved
<1>5. CASE ~isContinuing
  <2> DEFINE string == Append(text, NUL)
  <2>1. /\ string \in Seq(Cells) /\ Len(string) = n + 1 /\ string[n + 1] = NUL
        /\ \A i \in 1..n : string[i] = text[i]
    <3>1. NUL \in Cells
      BY DEF Cells
    <3> QED BY <1>1, <3>1, AppendProperties
  <2>2. newCount = n + 1 /\ data' = Copied(reserved, 0, string) /\ logical' = text
    BY <1>1, <1>4, <1>5 DEF LogicalInv
  <2> HIDE DEF string, newCount, n
  <2>3. /\ data' \in Seq(Cells) /\ Len(data') = Len(reserved)
        /\ \A i \in 1..n + 1 : data'[0 + i] = string[i]
    <3>1. 0 \in Nat /\ 0 + Len(string) <= Len(reserved)
      BY <1>1, <1>3, <2>1, <2>2
    <3> QED BY <1>3, <2>1, <2>2, <3>1, CopiedText
  <2>4. \A i \in 1..n + 1 : data'[i] = string[i]
    BY <1>1, <2>3
  <2>5. count' \in 0..Len(data') /\ count' = n + 1 /\ n < Len(data')
    <3>1. count' = n + 1 /\ Len(data') \in Nat /\ Len(data') >= n + 1
      BY <1>3, <1>4, <2>2, <2>3
    <3> QED BY <1>1, <3>1
  <2>6. Holds(data', text)
    BY <1>1, <2>1, <2>4, <2>5 DEF Holds, n
  <2> QED BY <1>1, <2>2, <2>3, <2>5, <2>6 DEF n
<1>6. CASE isContinuing
  <2> DEFINE m == Len(logical)
             rest == <<PHYSICAL_LINE_SEPARATOR>> \o text
             string == rest \o <<NUL>>
  <2>1. /\ logical \in Seq(Printed) /\ m \in Nat /\ count = m + 1 /\ m < Len(data)
        /\ \A i \in 1..m : data[i] = logical[i]
    <3>1. logical \in Seq(Printed) /\ Holds(data, logical) /\ count = Len(logical) + 1
      BY <1>6 DEF LogicalInv
    <3>2. m \in Nat
      BY <3>1, LenProperties
    <3> QED BY <3>1, <3>2 DEF Holds
  <2>2. rest \in Seq(Printed) /\ rest \in Seq(Cells) /\ Len(rest) = n + 1
    <3>1. <<PHYSICAL_LINE_SEPARATOR>> \in Seq(Printed) /\ Len(<<PHYSICAL_LINE_SEPARATOR>>) = 1
      BY DEF Printed
    <3>2. rest \in Seq(Printed) /\ Len(rest) = 1 + n
      BY <1>1, <3>1, ConcatProperties
    <3>3. Printed \subseteq Cells
      BY DEF Printed, Cells
    <3> QED BY <1>1, <3>2, <3>3, SeqMonotonic
  <2> HIDE DEF rest
  <2>3. /\ string \in Seq(Cells) /\ Len(string) = n + 2 /\ string[n + 2] = NUL
        /\ \A i \in 1..n + 1 : string[i] = rest[i]
    <3>1. <<NUL>> \in Seq(Cells) /\ Len(<<NUL>>) = 1 /\ <<NUL>>[1] = NUL
      BY DEF Cells
    <3>2. /\ string \in Seq(Cells) /\ Len(string) = n + 2
          /\ \A i \in 1..n + 2 : string[i] = IF i <= n + 1 THEN rest[i] ELSE <<NUL>>[i - (n + 1)]
      <4> HIDE DEF n
      <4>1. /\ string \in Seq(Cells) /\ Len(string) = Len(rest) + Len(<<NUL>>)
            /\ \A i \in 1..Len(rest) + Len(<<NUL>>) :
                 string[i] = IF i <= Len(rest) THEN rest[i] ELSE <<NUL>>[i - Len(rest)]
        BY <2>2, <3>1, ConcatProperties
      <4>2. Len(rest) + Len(<<NUL>>) = n + 2
        BY <1>1, <2>2, <3>1
      <4> QED BY <2>2, <4>1, <4>2
    <3> HIDE DEF string, n
    <3>3. n + 2 \in 1..n + 2 /\ (n + 2) - (n + 1) = 1 /\ ~(n + 2 <= n + 1)
      BY <1>1
    <3>4. string[n + 2] = NUL
      BY <3>1, <3>2, <3>3
    <3> QED BY <1>1, <3>2, <3>4
  <2>4. /\ newCount = m + n + 2 /\ data' = Copied(reserved, m, string)
        /\ logical' = logical \o rest
    <3>1. /\ logical' = logical \o <<PHYSICAL_LINE_SEPARATOR>> \o text
      BY <1>6 DEF LogicalInv
    <3>2. logical \o <<PHYSICAL_LINE_SEPARATOR>> \o text = logical \o rest
      <4>1. <<PHYSICAL_LINE_SEPARATOR>> \in Seq(Printed)
        BY DEF Printed
      <4> QED BY <1>1, <2>1, <4>1, ConcatAssociative DEF rest
    <3>3. count - 1 = m
      BY <2>1
    <3>4. newCount = m + n + 2
      BY <1>1, <1>6, <2>1
    <3>5. data' = Copied(reserved, count - 1, <<PHYSICAL_LINE_SEPARATOR>> \o text \o <<NUL>>)
      BY <1>4, <1>6
    <3> QED BY <3>1, <3>2, <3>3, <3>4, <3>5 DEF rest
  <2> HIDE DEF string, newCount, n, m
  <2>5. /\ data' \in Seq(Cells) /\ Len(data') = Len(reserved)
        /\ \A i \in 1..Len(reserved) : i <= m => data'[i] = reserved[i]
        /\ \A i \in 1..n + 2 : data'[m + i] = string[i]
    <3>1. m \in Nat /\ m + Len(string) <= Len(reserved)
      BY <1>1, <1>3, <2>1, <2>3, <2>4
    <3> QED BY <1>3, <2>3, <2>4, <3>1, CopiedText
  <2>6. /\ logical' \in Seq(Printed) /\ Len(logical') = m + n + 1
        /\ \A i \in 1..m + n + 1 : logical'[i] = IF i <= m THEN logical[i] ELSE rest[i - m]
    <3>1. /\ logical \o rest \in Seq(Printed) /\ Len(logical \o rest) = Len(logical) + Len(rest)
          /\ \A i \in 1..Len(logical) + Len(rest) : (logical \o rest)[i] =
               IF i <= Len(logical) THEN logical[i] ELSE rest[i - Len(logical)]
      BY <2>1, <2>2, ConcatProperties
    <3>2. Len(logical) = m /\ Len(logical) + Len(rest) = m + n + 1
      BY <1>1, <2>1, <2>2 DEF m
    <3> QED BY <2>4, <3>1, <3>2
  <2>7. ASSUME NEW i \in 1..m + n + 1 PROVE data'[i] = logical'[i]
    <3>1. CASE i <= m
      <4>1. i \in 1..m /\ i \in 1..Len(data) /\ i \in 1..Len(reserved)
        BY <1>1, <1>3, <2>1, <3>1
      <4> QED BY <1>3, <2>1, <2>5, <2>6, <3>1, <4>1
    <3>2. CASE ~(i <= m)
      <4>1. i - m \in 1..n + 1 /\ i - m \in 1..n + 2 /\ m + (i - m) = i
        BY <1>1, <2>1, <3>2
      <4>2. data'[i] = string[i - m] /\ string[i - m] = rest[i - m]
        BY <2>3, <2>5, <4>1
      <4> QED BY <2>6, <3>2, <4>2
    <3> QED BY <3>1, <3>2
  <2>8. data'[m + n + 2] = NUL
    <3>1. n + 2 \in 1..n + 2 /\ m + (n + 2) = m + n + 2
      BY <1>1, <2>1
    <3> QED BY <2>3, <2>5, <3>1
  <2>9. count' = m + n + 2 /\ count' \in 0..Len(data') /\ m + n + 1 < Len(data')
    <3>1. count' = m + n + 2 /\ Len(data') \in Nat /\ Len(data') >= m + n + 2
      BY <1>3, <1>4, <2>4, <2>5
    <3> QED BY <1>1, <2>1, <3>1
  <2>10. Holds(data', logical')
    <3>1. (m + n + 1) + 1 = m + n + 2
      BY <1>1, <2>1
    <3> QED BY <2>6, <2>7, <2>8, <2>9, <3>1 DEF Holds
  <2>11. count' = Len(logical') + 1
    <3>1. count' = m + n + 2 /\ Len(logical') = m + n + 1
      BY <2>6, <2>9
    <3>2. (m + n + 1) + 1 = m + n + 2
      BY <1>1, <2>1
    <3> QED BY <3>1, <3>2
  <2> QED BY <2>5, <2>6, <2>9, <2>10, <2>11, Zenon
<1> QED BY <1>5, <1>6

-----------------------------------------------------------------------------
LEMMA LogicalUnchanged ==
  ASSUME LogicalInv, UNCHANGED <<logicalVars, resultVars>>,
         pc' = pc \/ pc' = "exited" \/ (pc = "start" /\ pc' = "prompt")
  PROVE  LogicalInv'
<1>1. UNCHANGED <<isContinuing, data, count, logical, errorFile, status>>
  BY DEF logicalVars, resultVars
<1> QED BY <1>1 DEF LogicalInv, Holds

LEMMA LogicalStep ==
  ASSUME LineInv, LogicalInv, [ReplNext]_replVars
  PROVE  LogicalInv'
<1>1. CASE InterpretStdin \/ InitializeHistory \/ PrintableKey \/ DeletionKey \/ CursorKey
           \/ OlderEntryKey \/ NewerEntryKey \/ UNCHANGED replVars
  <2>1. UNCHANGED <<logicalVars, resultVars>>
    BY <1>1 DEF InterpretStdin, InitializeHistory, PrintableKey, DeletionKey, CursorKey,
      EditsLine, OlderEntryKey, NewerEntryKey, BrowsesHistory, replVars
  <2>2. pc' = pc \/ pc' = "exited" \/ (pc = "start" /\ pc' = "prompt")
    BY <1>1 DEF InterpretStdin, InitializeHistory, PrintableKey, DeletionKey, CursorKey,
      EditsLine, OlderEntryKey, NewerEntryKey, BrowsesHistory, replVars
  <2> QED BY <2>1, <2>2, LogicalUnchanged
<1>2. CASE EnterKey
  <2>1. /\ pc = "prompt" /\ AppendPhysicalLine(Content) /\ pc' = "interpret"
        /\ logical' = IF status = "COMPILER_UNEXPECTED_EOF"
                      THEN logical \o <<PHYSICAL_LINE_SEPARATOR>> \o Content ELSE Content
        /\ UNCHANGED <<isContinuing, errorFile, status>>
    BY <1>2 DEF EnterKey, resultVars
  <2>2. Content \in Seq(Chars)
    BY ContentIsLine, LinesAreShort
  <2>3. /\ data' \in Seq(Cells) /\ count' \in 0..Len(data')
        /\ logical' \in Seq(Printed) /\ Holds(data', logical') /\ count' = Len(logical') + 1
    BY <2>1, <2>2, AppendsLine
  <2>4. /\ isContinuing' \in BOOLEAN
        /\ isContinuing' <=> status' = "COMPILER_UNEXPECTED_EOF"
        /\ errorFile' = [content |-> <<>>, position |-> 0]
    BY <2>1 DEF LogicalInv
  <2>5. Holds(data', logical') <=> Holds(data, logical)'
    BY DEF Holds
  <2> QED BY <2>3, <2>4, <2>5 DEF LogicalInv
<1>3. CASE InterpretLogicalLine
  <2>1. /\ pc = "interpret" /\ UNCHANGED <<data, count, logical>>
        /\ isContinuing' = (status' = "COMPILER_UNEXPECTED_EOF")
        /\ errorFile' = Cleared(Written(errorFile, Errors(AsString(data))))
    BY <1>3 DEF InterpretLogicalLine
  <2>2. errorFile' = [content |-> <<>>, position |-> 0]
    BY <2>1 DEF Cleared, Written
  <2> QED BY <2>1, <2>2 DEF LogicalInv, Holds
<1>4. CASE EndKey
  <2>1. /\ data' = <<>> /\ count' = 0 /\ pc' = "exited"
        /\ UNCHANGED <<isContinuing, errorFile, status>>
    BY <1>4 DEF EndKey, resultVars
  <2>2. <<>> \in Seq(Cells) /\ 0 \in 0..Len(<<>>)
    BY EmptySeq
  <2> QED BY <2>1, <2>2 DEF LogicalInv
<1> QED BY <1>1, <1>2, <1>3, <1>4 DEF ReplNext

LEMMA LogicalInitially ==
  ASSUME ReplInit
  PROVE  LogicalInv
<1>1. <<>> \in Seq(Cells) /\ 0 \in 0..Len(<<>>)
  BY EmptySeq
<1> QED BY <1>1 DEF ReplInit, LogicalInv

(* The history is open from the first prompt to the end, and what the type *)
(* invariant needs besides.                                                *)
OpenInv ==
  /\ pc \in {"prompt", "interpret"} <=> phase = "open"
  /\ deleted \in BOOLEAN
  /\ status \in Statuses

LEMMA OpenStep ==
  ASSUME InterpreterReports, LineInv, OpenInv, [ReplNext]_replVars
  PROVE  OpenInv'
<1>1. status' \in Statuses
  <2>1. ASSUME InterpretLogicalLine PROVE status' \in Statuses
    BY <2>1 DEF InterpretLogicalLine, InterpreterReports
  <2>2. ASSUME ~InterpretLogicalLine PROVE status' = status
    BY <2>2 DEF ReplNext, InterpretStdin, InitializeHistory, PrintableKey, DeletionKey,
      CursorKey, EditsLine, OlderEntryKey, NewerEntryKey, BrowsesHistory, EnterKey, EndKey,
      resultVars, replVars
  <2> QED BY <2>1, <2>2 DEF OpenInv
<1>2. CASE InterpretStdin
  BY <1>1, <1>2 DEF InterpretStdin, OpenInv, historyVars, lineVars
<1>3. CASE InitializeHistory
  BY <1>1, <1>3 DEF InitializeHistory, OpenInv, LineInv, lineVars
<1>4. CASE PrintableKey \/ CursorKey
  <2>1. UNCHANGED <<pc, phase, deleted>>
    BY <1>4 DEF PrintableKey, CursorKey, EditsLine, historyVars, PhysicalLine!Insert,
      PhysicalLine!Move, PhysicalLine!MoveLeftByChar, PhysicalLine!MoveLeftByWord,
      PhysicalLine!MoveToStart, PhysicalLine!MoveRightByChar, PhysicalLine!MoveRight,
      PhysicalLine!MoveToEnd, PhysicalLine!MoveTo
  <2> QED BY <1>1, <2>1 DEF OpenInv
<1>5. CASE DeletionKey
  <2>1. UNCHANGED <<pc, phase>> /\ PhysicalLine!Delete
    BY <1>5 DEF DeletionKey, EditsLine, historyVars
  <2>2. deleted' \in BOOLEAN
    BY <2>1, DeleteFacts DEF LineInv
  <2> QED BY <1>1, <2>1, <2>2 DEF OpenInv
<1>6. CASE OlderEntryKey \/ NewerEntryKey
  <2>1. UNCHANGED <<pc, deleted>>
    BY <1>6 DEF OlderEntryKey, NewerEntryKey, BrowsesHistory, LoadEntry, textVars,
      PhysicalLine!Load
  <2>2. UNCHANGED phase
    BY <1>6 DEF OlderEntryKey, NewerEntryKey, history_browse_older_entry,
      history_browse_newer_entry, history_stop_browsing, ReturnNoEntry, BrowseEntry
  <2> QED BY <1>1, <2>1, <2>2 DEF OpenInv
<1>7. CASE EnterKey
  BY <1>1, <1>7 DEF EnterKey, history_append_entry, PhysicalLine!Load, OpenInv
<1>8. CASE EndKey
  BY <1>1, <1>8 DEF EndKey, history_destroy, PhysicalLine!Load, OpenInv
<1>9. CASE InterpretLogicalLine
  BY <1>1, <1>9 DEF InterpretLogicalLine, historyVars, lineVars, OpenInv
<1>10. CASE UNCHANGED replVars
  BY <1>1, <1>10 DEF replVars, historyVars, lineVars, OpenInv
<1> QED BY <1>2, <1>3, <1>4, <1>5, <1>6, <1>7, <1>8, <1>9, <1>10 DEF ReplNext

LEMMA LogicalInvariance ==
  ASSUME LoadsWhatItTrimmed
  PROVE  ReplSpec => []LogicalInv
<1>1. LineInv /\ LogicalInv /\ [ReplNext]_replVars => LogicalInv'
  BY LogicalStep
<1>2. ReplInit => LogicalInv
  BY LogicalInitially
<1> QED BY <1>1, <1>2, ReplInvariance, PTL DEF ReplSpec

(* What is interpreted is what was entered, however long it is, however    *)
(* often it is continued or reallocated and whatever the interpreter makes *)
(* of it (repl.c:225-244).                                                 *)
THEOREM EnteredIsInterpreted ==
  ASSUME LoadsWhatItTrimmed
  PROVE  ReplSpec => []InterpretsWhatWasEntered
<1>1. ASSUME LogicalInv, pc = "interpret" PROVE AsString(data) = logical
  <2>1. NUL \notin Printed
    BY ReplAssumption DEF Printed, NUL, PHYSICAL_LINE_SEPARATOR
  <2>2. logical \in Seq(Printed) /\ data \in Seq(Cells) /\ Holds(data, logical)
    BY <1>1 DEF LogicalInv
  <2> QED BY <2>1, <2>2, ReadsText
<1>2. LogicalInv => InterpretsWhatWasEntered
  BY <1>1 DEF InterpretsWhatWasEntered
<1> QED BY <1>2, LogicalInvariance, PTL

(* The errors shown are those of the line that failed, whatever was        *)
(* recorded before it (repl.c:253-264).                                    *)
THEOREM ErrorsAreOfTheLine ==
  ASSUME LoadsWhatItTrimmed, InterpreterReports
  PROVE  ReplSpec => ShowsItsOwnErrors
<1>1. ASSUME LogicalInv, InterpretsWhatWasEntered, InterpretLogicalLine
      PROVE  stderr' = IF Status(logical) = "COMPILER_FAILURE" THEN Errors(logical) ELSE <<>>
  <2> DEFINE recorded == Written(errorFile, Errors(logical))
  <2>1. AsString(data) = logical
    BY <1>1 DEF InterpretsWhatWasEntered, InterpretLogicalLine
  <2>2. stderr' = IF Status(logical) = "COMPILER_FAILURE" THEN ReadAsString(recorded) ELSE <<>>
    BY <1>1, <2>1 DEF InterpretLogicalLine
  <2>3. PICK Texts : NUL \notin Texts /\ Errors(logical) \in Seq(Texts)
    BY DEF InterpreterReports
  <2>4. recorded.content = Errors(logical)
    <3>1. errorFile.content = <<>> /\ errorFile.position = 0
      BY <1>1 DEF LogicalInv
    <3> DEFINE hole == [i \in 1..Max({0, 0 - Len(<<>>)}) |-> NUL]
    <3>2. recorded.content = SubSeq(<<>> \o hole, 1, 0) \o Errors(logical)
      BY <3>1 DEF Written
    <3> HIDE DEF hole
    <3>3. SubSeq(<<>> \o hole, 1, 0) = <<>>
      BY SubSeqEmpty
    <3> QED BY <2>3, <3>2, <3>3, ConcatEmptySeq
  <2> HIDE DEF recorded
  <2>5. ReadAsString(recorded) = Errors(logical)
    <3> DEFINE bytes == Append(Errors(logical), NUL)
    <3>1. Errors(logical) \in Seq(Texts \cup {NUL})
      BY <2>3, SeqMonotonic
    <3>2. /\ bytes \in Seq(Texts \cup {NUL}) /\ Len(bytes) = Len(Errors(logical)) + 1
          /\ bytes[Len(Errors(logical)) + 1] = NUL
          /\ \A i \in 1..Len(Errors(logical)) : bytes[i] = Errors(logical)[i]
      BY <3>1, AppendProperties
    <3>3. Len(Errors(logical)) \in Nat
      BY <3>1, LenProperties
    <3> HIDE DEF bytes
    <3>4. Holds(bytes, Errors(logical))
      BY <3>2, <3>3 DEF Holds
    <3>5. AsString(bytes) = Errors(logical)
      BY <2>3, <3>2, <3>4, ReadsText
    <3> QED BY <2>4, <3>5 DEF ReadAsString, bytes
  <2> QED BY <2>2, <2>5
<1>2. ASSUME LogicalInv, InterpretsWhatWasEntered, ReplNext, pc = "interpret"
      PROVE  InterpretLogicalLine
  BY <1>2 DEF ReplNext, InterpretStdin, InitializeHistory, PrintableKey, DeletionKey, CursorKey,
    EditsLine, OlderEntryKey, NewerEntryKey, BrowsesHistory, EnterKey, EndKey
<1>3. LogicalInv /\ InterpretsWhatWasEntered /\ [ReplNext]_replVars =>
        [pc = "interpret" =>
           stderr' = IF Status(logical) = "COMPILER_FAILURE"
                     THEN Errors(logical) ELSE <<>>]_replVars
  BY <1>1, <1>2
<1> QED BY <1>3, LogicalInvariance, EnteredIsInterpreted, PTL DEF ReplSpec, ShowsItsOwnErrors

(* The logical line never leaves its allocation, and the history is used   *)
(* only between its initialization and its end (repl.c:144-282).           *)
THEOREM LogicalLineFits ==
  ASSUME LoadsWhatItTrimmed, InterpreterReports
  PROVE  ReplSpec => []ReplTypeOK
<1>1. LineInv /\ OpenInv /\ [ReplNext]_replVars => OpenInv'
  BY OpenStep
<1>2. ReplInit => OpenInv
  BY DEF ReplInit, NotInitialized, PhysicalLine!LineInit, OpenInv, Statuses
<1>3. LineInv /\ RecallInv /\ LogicalInv /\ OpenInv => ReplTypeOK
  BY DEF LineInv, RecallInv, LogicalInv, OpenInv, ReplTypeOK, Cells
<1> QED BY <1>1, <1>2, <1>3, ReplInvariance, LogicalInvariance, PTL DEF ReplSpec
=============================================================================
