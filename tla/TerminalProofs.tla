--------------------------- MODULE TerminalProofs ---------------------------
(***************************************************************************)
(* For every script, every set of signals and any number of them: the queue*)
(* of rejected characters keeps its bounds, every character that is read is*)
(* returned once and in order, and a terminal in noncanonical mode is      *)
(* restored when the process is over.                                      *)
(***************************************************************************)
EXTENDS Terminal, SequenceTheorems, TLAPS

(* What is queued was read, and a sequence begins with its escape.         *)
KeysInv ==
  /\ KeysTypeOK
  /\ \A i \in frameIndex..frameIndex + frameCount - 1 : frames[i] \in Characters
  /\ sequence # <<>> => sequence[1] = Esc

(* NoCharacterLost, character by character.                                *)
EachInPlace ==
  /\ flushed + Len(delivered) + frameCount + Len(sequence) = taken
  /\ \A i \in 1..Len(delivered) : delivered[i] = script[flushed + i]
  /\ \A i \in 1..frameCount :
       frames[frameIndex + i - 1] = script[flushed + Len(delivered) + i]
  /\ \A i \in 1..Len(sequence) :
       sequence[i] = script[flushed + Len(delivered) + frameCount + i]

-----------------------------------------------------------------------------
(* Operators.                                                              *)

LEMMA Shorter ==
  ASSUME NEW m \in Nat, NEW n \in 2..6, m < n
  PROVE  m <= 5
OBVIOUS

LEMMA InRange ==
  ASSUME NEW m \in Nat, NEW n \in Nat, m > 0, m <= n
  PROVE  m \in 1..n
OBVIOUS

LEMMA QueueRange ==
  ASSUME NEW n \in 1..6
  PROVE  /\ n - 1 \in 0..5 /\ 0 + (n - 1) <= 5
         /\ \A i \in 0..n - 2 : i \in 0..4 /\ i + 2 \in 1..n
OBVIOUS

(* A control sequence has from two to six characters, ESC first.           *)
LEMMA KeysAreShort ==
  ASSUME NEW k \in Keys
  PROVE  Len(k.chars) \in 2..MAX_CONTROL_SEQUENCE_LENGTH /\ k.chars[1] = Esc
<1>1. CASE \E c \in {"b", "d", "f"} : k = [type |-> AltKey[c], chars |-> <<Esc, c>>]
  <2>1. PICK c \in {"b", "d", "f"} : k = [type |-> AltKey[c], chars |-> <<Esc, c>>]
    BY <1>1
  <2>2. k.chars = <<Esc, c>>
    BY <2>1
  <2> QED BY <2>2 DEF MAX_CONTROL_SEQUENCE_LENGTH
<1>2. CASE \E c \in {"A", "B", "C", "D"} : k = [type |-> ArrowKey[c], chars |-> <<Esc, "[", c>>]
  <2>1. PICK c \in {"A", "B", "C", "D"} : k = [type |-> ArrowKey[c], chars |-> <<Esc, "[", c>>]
    BY <1>2
  <2>2. k.chars = <<Esc, "[", c>>
    BY <2>1
  <2> QED BY <2>2 DEF MAX_CONTROL_SEQUENCE_LENGTH
<1>3. CASE \E c \in {"A", "B", "C", "D"} :
             k = [type |-> CtrlArrowKey[c], chars |-> <<Esc, "[", "1", ";", "5", c>>]
  <2>1. PICK c \in {"A", "B", "C", "D"} :
          k = [type |-> CtrlArrowKey[c], chars |-> <<Esc, "[", "1", ";", "5", c>>]
    BY <1>3
  <2>2. k.chars = <<Esc, "[", "1", ";", "5", c>>
    BY <2>1
  <2>3. PICK x3, x4, x5, x6 : k.chars = <<Esc, "[", x3, x4, x5, x6>>
    BY <2>2, Zenon
  <2>4. Len(k.chars) = 6 /\ k.chars[1] = Esc
    BY <2>3
  <2> QED BY <2>4 DEF MAX_CONTROL_SEQUENCE_LENGTH
<1>4. CASE k = [type |-> "DELETE", chars |-> <<Esc, "[", "3", "~">>]
  <2>1. k.chars = <<Esc, "[", "3", "~">>
    BY <1>4
  <2> QED BY <2>1 DEF MAX_CONTROL_SEQUENCE_LENGTH
<1> QED BY <1>1, <1>2, <1>3, <1>4 DEF Keys

(* A lone ESC may begin a control sequence.                                *)
LEMMA EscBegins == BeginsSequence(<<Esc>>)
<1> DEFINE k == [type |-> "DELETE", chars |-> <<Esc, "[", "3", "~">>]
<1>1. k \in Keys
  BY DEF Keys
<1>2. k.chars = <<Esc, "[", "3", "~">>
  OBVIOUS
<1>3. SubSeq(k.chars, 1, 1) = <<Esc>>
  <2>1. /\ SubSeq(k.chars, 1, 1) \in Seq({Esc}) /\ Len(SubSeq(k.chars, 1, 1)) = 1
        /\ SubSeq(k.chars, 1, 1)[1] = Esc
    <3> k.chars[1] = Esc
      BY <1>2
    <3> \A i \in 1..1 : k.chars[i] \in {Esc}
      OBVIOUS
    <3> QED BY <1>2, SubSeqProperties
  <2>2. <<Esc>> \in Seq({Esc}) /\ Len(<<Esc>>) = 1 /\ <<Esc>>[1] = Esc
    OBVIOUS
  <2>3. \A i \in 1..Len(<<Esc>>) : SubSeq(k.chars, 1, 1)[i] = <<Esc>>[i]
    BY <2>1, <2>2
  <2> HIDE DEF k
  <2> QED BY <2>1, <2>2, <2>3, SeqEqual, Zenon
<1>4. Len(<<Esc>>) = 1 /\ Len(k.chars) = 4
  BY <1>2
<1> QED BY <1>1, <1>3, <1>4 DEF BeginsSequence

(* What begins a control sequence is shorter than the longest one.         *)
LEMMA BeginningsAreShort ==
  ASSUME NEW chars \in Seq(Characters), BeginsSequence(chars)
  PROVE  Len(chars) \in Nat /\ Len(chars) <= Capacity
<1>1. PICK k \in Keys : Len(chars) < Len(k.chars)
  BY DEF BeginsSequence
<1>2. Len(k.chars) \in 2..6
  BY KeysAreShort DEF MAX_CONTROL_SEQUENCE_LENGTH
<1>3. Len(chars) \in Nat
  BY LenProperties
<1>4. Len(chars) <= 5
  BY <1>1, <1>2, <1>3, Shorter
<1> QED BY <1>3, <1>4 DEF Capacity, MAX_CONTROL_SEQUENCE_LENGTH

(* Facts of a state in which KeysInv holds.                                *)
LEMMA ScriptFacts ==
  ASSUME KeysInv
  PROVE  /\ script \in Seq(Characters) /\ Len(script) \in Nat
         /\ \A i \in 1..Len(script) : script[i] \in Characters
         /\ typed \in Nat /\ taken \in Nat /\ flushed \in Nat
         /\ flushed <= taken /\ taken <= typed /\ typed <= Len(script)
         /\ frameCount \in 0..5 /\ frameIndex \in 0..4
         /\ Len(delivered) \in Nat /\ Len(sequence) \in Nat /\ Len(sequence) <= 5
         /\ sequence # <<>> <=> Len(sequence) > 0
         /\ sequence # <<>> => frameCount = 0 /\ frameIndex = 0
<1>1. script \in Seq(Characters)
  BY ScriptsAssumption DEF KeysInv, KeysTypeOK
<1>2. Len(script) \in Nat /\ \A i \in 1..Len(script) : script[i] \in Characters
  BY <1>1, LenProperties, ElementOfSeq
<1>3. Len(delivered) \in Nat /\ Len(sequence) \in Nat
  BY LenProperties DEF KeysInv, KeysTypeOK
<1>4. sequence # <<>> <=> Len(sequence) > 0
  BY <1>3, EmptySeq DEF KeysInv, KeysTypeOK
<1>5. Len(sequence) <= 5
  <2>1. CASE sequence # <<>>
    <3> sequence \in Seq(Characters) /\ BeginsSequence(sequence)
      BY <2>1 DEF KeysInv, KeysTypeOK
    <3> Len(sequence) <= Capacity
      BY BeginningsAreShort
    <3> QED BY DEF Capacity, MAX_CONTROL_SEQUENCE_LENGTH
  <2>2. CASE sequence = <<>>
    BY <1>3, <1>4, <2>2
  <2> QED BY <2>1, <2>2
<1>6. /\ typed \in Nat /\ taken \in Nat /\ flushed \in Nat
      /\ flushed <= taken /\ taken <= typed /\ typed <= Len(script)
      /\ frameCount \in 0..5 /\ frameIndex \in 0..4
  BY <1>2 DEF KeysInv, KeysTypeOK, Capacity, MAX_CONTROL_SEQUENCE_LENGTH
<1>7. sequence # <<>> => frameCount = 0 /\ frameIndex = 0
  BY DEF KeysInv, KeysTypeOK
<1> QED BY <1>1, <1>2, <1>3, <1>4, <1>5, <1>6, <1>7

-----------------------------------------------------------------------------
(* The decoder's steps.                                                    *)

LEMMA KeyboardPreserves ==
  ASSUME KeysInv, EachInPlace, TypeCharacter \/ HangUp
  PROVE  KeysInv' /\ EachInPlace'
<1>1. UNCHANGED <<script, flushed, taken, frames, frameCount, frameIndex, sequence, delivered>>
  BY DEF TypeCharacter, HangUp, queueVars
<1>2. hungUp' \in BOOLEAN
  BY DEF TypeCharacter, HangUp, KeysInv, KeysTypeOK
<1>3. typed' \in 0..Len(script) /\ taken \in 0..typed'
  <2>1. CASE TypeCharacter
    BY <2>1, ScriptFacts DEF TypeCharacter
  <2>2. CASE HangUp
    BY <2>2, ScriptFacts DEF HangUp
  <2> QED BY <2>1, <2>2
<1>4. KeysTypeOK'
  BY <1>1, <1>2, <1>3 DEF KeysInv, KeysTypeOK, BeginsSequence
<1> QED BY <1>1, <1>4 DEF KeysInv, EachInPlace

(* Before anything is read, what has been typed may be discarded.          *)
LEMMA FlushPreserves ==
  ASSUME KeysInv, Flush, delivered = <<>>, sequence = <<>>, frameCount = 0
  PROVE  KeysInv' /\ EachInPlace'
<1>1. KeysTypeOK'
  <2>1. typed' \in 0..Len(script') /\ taken' \in 0..typed' /\ flushed' \in 0..taken'
    BY ScriptFacts DEF Flush, inputVars, KeysInv, KeysTypeOK
  <2>2. UNCHANGED <<script, hungUp, frames, frameCount, frameIndex, sequence, delivered>>
    BY DEF Flush, inputVars, queueVars
  <2> QED BY <2>1, <2>2 DEF KeysInv, KeysTypeOK, BeginsSequence
<1>2. Len(delivered) = 0 /\ Len(sequence) = 0
  BY EmptySeq
<1> QED BY <1>1, <1>2, ScriptFacts DEF Flush, KeysInv, EachInPlace, inputVars, queueVars

(* What Return does to the characters delivered.                           *)
LEMMA ReturnDelivers ==
  ASSUME KeysInv, NEW chars \in Seq(Characters), NEW type, Return(type, chars)
  PROVE  /\ delivered' \in Seq(Characters) /\ sequence' = <<>>
         /\ Len(delivered') = Len(delivered) + Len(chars) /\ Len(sequence') = 0
         /\ \A i \in 1..Len(delivered) : delivered'[i] = delivered[i]
         /\ \A i \in 1..Len(chars) : delivered'[Len(delivered) + i] = chars[i]
<1>1. delivered \in Seq(Characters)
  BY DEF KeysInv, KeysTypeOK
<1>2. Len(delivered) \in Nat /\ Len(chars) \in Nat
  BY <1>1, LenProperties
<1>3. delivered' = delivered \o chars /\ sequence' = <<>>
  BY DEF Return
<1>4. /\ delivered \o chars \in Seq(Characters)
      /\ Len(delivered \o chars) = Len(delivered) + Len(chars)
      /\ \A i \in 1..Len(delivered) + Len(chars) :
           (delivered \o chars)[i] =
             IF i <= Len(delivered) THEN delivered[i] ELSE chars[i - Len(delivered)]
  BY <1>1, ConcatProperties
<1>5. \A i \in 1..Len(delivered) : (delivered \o chars)[i] = delivered[i]
  BY <1>2, <1>4
<1>6. \A i \in 1..Len(chars) : (delivered \o chars)[Len(delivered) + i] = chars[i]
  <2> SUFFICES ASSUME NEW i \in 1..Len(chars)
               PROVE  (delivered \o chars)[Len(delivered) + i] = chars[i]
    OBVIOUS
  <2>1. Len(delivered) + i \in 1..Len(delivered) + Len(chars) /\ ~(Len(delivered) + i <= Len(delivered))
    BY <1>2
  <2>2. (Len(delivered) + i) - Len(delivered) = i
    BY <1>2
  <2> QED BY <1>4, <2>1, <2>2
<1> QED BY <1>3, <1>4, <1>5, <1>6, EmptySeq

(* A key that is a single character.                                       *)
LEMMA ReturnOneDelivers ==
  ASSUME KeysInv, NEW c \in Characters, NEW type, Return(type, <<c>>)
  PROVE  /\ delivered' \in Seq(Characters) /\ sequence' = <<>>
         /\ Len(delivered') = Len(delivered) + 1 /\ Len(sequence') = 0
         /\ \A i \in 1..Len(delivered) : delivered'[i] = delivered[i]
         /\ delivered'[Len(delivered) + 1] = c
<1>1. <<c>> \in Seq(Characters) /\ Len(<<c>>) = 1 /\ <<c>>[1] = c
  OBVIOUS
<1>2. /\ delivered' \in Seq(Characters) /\ sequence' = <<>>
      /\ Len(delivered') = Len(delivered) + Len(<<c>>) /\ Len(sequence') = 0
      /\ \A i \in 1..Len(delivered) : delivered'[i] = delivered[i]
      /\ \A i \in 1..Len(<<c>>) : delivered'[Len(delivered) + i] = <<c>>[i]
  BY <1>1, ReturnDelivers, Zenon
<1>3. 1 \in 1..Len(<<c>>)
  BY <1>1
<1>4. delivered'[Len(delivered) + 1] = <<c>>[1]
  BY <1>2, <1>3, Zenon
<1> QED BY <1>1, <1>2, <1>4

LEMMA ReadRejectPreserves ==
  ASSUME KeysInv, EachInPlace, ReadReject
  PROVE  KeysInv' /\ EachInPlace'
<1> DEFINE c == frames[frameIndex]
<1>1. sequence = <<>> /\ frameCount > 0 /\ frameCount' = frameCount - 1 /\ frames' = frames
  BY DEF ReadReject, Dequeue
<1>2. UNCHANGED <<script, typed, flushed, taken, hungUp>>
  BY DEF ReadReject, inputVars
<1>3. frameIndex \in frameIndex..frameIndex + frameCount - 1
  BY <1>1, ScriptFacts
<1>4. c \in Characters
  BY <1>3 DEF KeysInv
<1>5. Return(SingleKey(c), <<c>>)
  BY DEF ReadReject
<1> HIDE DEF c
<1>6. /\ delivered' \in Seq(Characters) /\ sequence' = <<>>
      /\ Len(delivered') = Len(delivered) + 1 /\ Len(sequence') = 0 /\ Len(sequence) = 0
      /\ \A i \in 1..Len(delivered) : delivered'[i] = delivered[i]
      /\ delivered'[Len(delivered) + 1] = c
  BY <1>1, <1>4, <1>5, ReturnOneDelivers, EmptySeq
<1>7. frameIndex' = IF frameCount = 1 THEN 0 ELSE frameIndex + 1
  BY DEF ReadReject, Dequeue
<1>8. KeysTypeOK'
  <2>1. frameIndex + frameCount <= 5
    BY DEF KeysInv, KeysTypeOK, Capacity, MAX_CONTROL_SEQUENCE_LENGTH
  <2>2. frameCount' \in 0..5 /\ frameIndex' \in 0..4 /\ frameIndex' + frameCount' <= 5
    BY <1>1, <1>7, <2>1, ScriptFacts
  <2>3. frameCount' = 0 => frameIndex' = 0
    BY <1>1, <1>7, ScriptFacts
  <2> QED BY <1>1, <1>2, <1>6, <2>2, <2>3
    DEF KeysInv, KeysTypeOK, Capacity, MAX_CONTROL_SEQUENCE_LENGTH, BeginsSequence
<1>9. \A i \in frameIndex'..frameIndex' + frameCount' - 1 : frames'[i] \in Characters
  <2>1. \A i \in Int : i \in frameIndex'..frameIndex' + frameCount' - 1
                         => i \in frameIndex..frameIndex + frameCount - 1
    BY <1>1, <1>7, ScriptFacts
  <2> QED BY <1>1, <2>1 DEF KeysInv
<1>10. \A i \in 1..Len(delivered') : delivered'[i] = script[flushed + i]
  <2>1. frameIndex + 1 - 1 = frameIndex /\ 1 \in 1..frameCount
    BY <1>1, ScriptFacts
  <2>2. frames[frameIndex + 1 - 1] = script[flushed + Len(delivered) + 1]
    BY <2>1 DEF EachInPlace
  <2>3. c = script[flushed + Len(delivered) + 1]
    BY <2>1, <2>2 DEF c
  <2> SUFFICES ASSUME NEW i \in 1..Len(delivered')
               PROVE  delivered'[i] = script[flushed + i]
    OBVIOUS
  <2>4. CASE i \in 1..Len(delivered)
    BY <1>6, <2>4 DEF EachInPlace
  <2>5. CASE i = Len(delivered) + 1
    <3> flushed + (Len(delivered) + 1) = flushed + Len(delivered) + 1
      BY ScriptFacts
    <3> QED BY <1>6, <2>3, <2>5
  <2> QED BY <1>6, <2>4, <2>5, ScriptFacts
<1>11. \A i \in 1..frameCount' :
         frames'[frameIndex' + i - 1] = script[flushed + Len(delivered') + i]
  <2> SUFFICES ASSUME NEW i \in 1..frameCount'
               PROVE  frames'[frameIndex' + i - 1] = script[flushed + Len(delivered') + i]
    OBVIOUS
  <2>1. i + 1 \in 1..frameCount /\ frameIndex' = frameIndex + 1
    <3> i + 1 \in 1..frameCount /\ frameCount # 1
      BY <1>1, ScriptFacts
    <3> QED BY <1>7
  <2>2. frames[frameIndex + (i + 1) - 1] = script[flushed + Len(delivered) + (i + 1)]
    BY <2>1 DEF EachInPlace
  <2>3. /\ frameIndex + (i + 1) - 1 = frameIndex' + i - 1
        /\ flushed + Len(delivered) + (i + 1) = flushed + Len(delivered') + i
    <3>1. i \in Nat
      OBVIOUS
    <3>2. frameIndex + (i + 1) - 1 = frameIndex' + i - 1
      BY <2>1, <3>1, ScriptFacts
    <3>3. flushed + Len(delivered) + (i + 1) = flushed + Len(delivered') + i
      BY <1>6, <3>1, ScriptFacts
    <3> QED BY <3>2, <3>3
  <2> QED BY <1>1, <2>2, <2>3
<1>12. flushed' + Len(delivered') + frameCount' + Len(sequence') = taken'
  BY <1>1, <1>2, <1>6, ScriptFacts DEF EachInPlace
<1> QED BY <1>1, <1>2, <1>6, <1>8, <1>9, <1>10, <1>11, <1>12 DEF KeysInv, EachInPlace

LEMMA ReadEofPreserves ==
  ASSUME KeysInv, EachInPlace, ReadEof
  PROVE  KeysInv' /\ EachInPlace'
<1>1. UNCHANGED <<script, typed, flushed, taken, hungUp, frames, frameCount, frameIndex, sequence>>
  BY DEF ReadEof, Return, inputVars, queueVars
<1>2. delivered' = delivered
  BY ConcatEmptySeq DEF ReadEof, Return, KeysInv, KeysTypeOK
<1> QED BY <1>1, <1>2 DEF KeysInv, KeysTypeOK, EachInPlace, BeginsSequence

(* A character is taken from stdin, and it is one of the script.           *)
LEMMA TakenCharacter ==
  ASSUME KeysInv, ~NothingToRead
  PROVE  /\ script[taken + 1] \in Characters
         /\ taken + 1 \in 0..typed /\ flushed \in 0..taken + 1
<1>1. taken + 1 \in 1..Len(script) /\ taken + 1 <= typed
  BY ScriptFacts DEF NothingToRead
<1> QED BY <1>1, ScriptFacts

LEMMA ReadCharacterPreserves ==
  ASSUME KeysInv, EachInPlace, ReadCharacter
  PROVE  KeysInv' /\ EachInPlace'
<1> DEFINE c == script[taken + 1]
<1>1. sequence = <<>> /\ frameCount = 0 /\ taken' = taken + 1 /\ Len(sequence) = 0
  BY EmptySeq DEF ReadCharacter
<1>2. UNCHANGED <<script, typed, flushed, hungUp, frames, frameCount, frameIndex>>
  BY DEF ReadCharacter, inputVars, queueVars
<1>3. c \in Characters /\ taken' \in 0..typed /\ flushed \in 0..taken'
  BY <1>1, TakenCharacter DEF ReadCharacter
<1>4. flushed + Len(delivered) = taken
  BY <1>1, ScriptFacts DEF EachInPlace
<1>5. c = script[flushed + Len(delivered) + 1]
  BY <1>4
<1>6. CASE c = Esc
  <2>1. sequence' = <<Esc>> /\ delivered' = delivered
    BY <1>6 DEF ReadCharacter
  <2>2. <<Esc>> \in Seq(Characters) /\ Len(<<Esc>>) = 1 /\ <<Esc>>[1] = Esc
    BY <1>3, <1>6
  <2>3. KeysTypeOK'
    BY <1>1, <1>2, <1>3, <2>1, <2>2, EscBegins DEF KeysInv, KeysTypeOK, BeginsSequence
  <2>4. KeysInv'
    BY <1>2, <2>1, <2>2, <2>3 DEF KeysInv
  <2>5. flushed' + Len(delivered') + frameCount' + Len(sequence') = taken'
    BY <1>1, <1>2, <1>4, <2>1, <2>2, ScriptFacts
  <2>6. \A i \in 1..Len(sequence') :
          sequence'[i] = script'[flushed' + Len(delivered') + frameCount' + i]
    <3>1. flushed + Len(delivered) + 0 + 1 = flushed + Len(delivered) + 1
      BY ScriptFacts
    <3>2. sequence'[1] = script'[flushed' + Len(delivered') + frameCount' + 1]
      BY <1>1, <1>2, <1>5, <1>6, <2>1, <2>2, <3>1
    <3>3. Len(sequence') = 1
      BY <2>1, <2>2
    <3> QED BY <3>2, <3>3
  <2> QED BY <1>1, <1>2, <2>1, <2>4, <2>5, <2>6 DEF EachInPlace
<1>7. CASE c # Esc
  <2>1. Return(SingleKey(c), <<c>>)
    BY <1>7 DEF ReadCharacter
  <2> HIDE DEF c
  <2>2. /\ delivered' \in Seq(Characters) /\ sequence' = <<>>
        /\ Len(delivered') = Len(delivered) + 1 /\ Len(sequence') = 0
        /\ \A i \in 1..Len(delivered) : delivered'[i] = delivered[i]
        /\ delivered'[Len(delivered) + 1] = c
    BY <1>3, <2>1, ReturnOneDelivers
  <2>3. KeysTypeOK'
    BY <1>1, <1>2, <1>3, <2>2 DEF KeysInv, KeysTypeOK, BeginsSequence
  <2>4. KeysInv'
    BY <1>2, <2>2, <2>3 DEF KeysInv
  <2>5. flushed' + Len(delivered') + frameCount' + Len(sequence') = taken'
    BY <1>1, <1>2, <1>4, <2>2, ScriptFacts
  <2>6. \A i \in 1..Len(delivered') : delivered'[i] = script'[flushed' + i]
    <3> SUFFICES ASSUME NEW i \in 1..Len(delivered')
                 PROVE  delivered'[i] = script[flushed + i]
      BY <1>2
    <3>1. CASE i \in 1..Len(delivered)
      BY <2>2, <3>1 DEF EachInPlace
    <3>2. CASE i = Len(delivered) + 1
      <4> flushed + (Len(delivered) + 1) = flushed + Len(delivered) + 1
        BY ScriptFacts
      <4> QED BY <1>5, <2>2, <3>2
    <3> QED BY <2>2, <3>1, <3>2, ScriptFacts
  <2> QED BY <1>1, <1>2, <2>2, <2>4, <2>5, <2>6 DEF EachInPlace
<1> QED BY <1>6, <1>7

(* The characters read so far, if they are rejected: the first is returned *)
(* and the others are queued, for which the queue has room.                *)
LEMMA RejectPreserves ==
  ASSUME KeysInv, EachInPlace, frameCount = 0, frameIndex = 0,
         UNCHANGED <<script, typed, flushed, hungUp>>,
         taken' \in 0..typed, flushed \in 0..taken',
         NEW chars \in Seq(Characters), Len(chars) \in 1..6, chars[1] = Esc,
         flushed + Len(delivered) + Len(chars) = taken',
         \A i \in 1..Len(chars) : chars[i] = script[flushed + Len(delivered) + i],
         Reject(chars)
  PROVE  KeysInv' /\ EachInPlace'
<1>1. \A i \in 1..Len(chars) : chars[i] \in Characters
  BY ElementOfSeq
<1>2. 1 \in 1..Len(chars)
  OBVIOUS
<1>3. Esc \in Characters
  BY <1>1, <1>2
<1>4. /\ delivered' \in Seq(Characters) /\ sequence' = <<>>
      /\ Len(delivered') = Len(delivered) + 1 /\ Len(sequence') = 0
      /\ \A i \in 1..Len(delivered) : delivered'[i] = delivered[i]
      /\ delivered'[Len(delivered) + 1] = Esc
  BY <1>3, ReturnOneDelivers DEF Reject
<1>5. DOMAIN frames = 0..4 /\ \A i \in 0..4 : frames[i] \in Characters \cup {NUL}
  BY DEF KeysInv, KeysTypeOK, Capacity, MAX_CONTROL_SEQUENCE_LENGTH
<1>6. frames' = [i \in 0..4 |-> IF i \in 0..Len(chars) - 2 THEN chars[i + 2] ELSE frames[i]]
  <2>1. \A i \in 0..4 : i - 0 + 2 = i + 2
    OBVIOUS
  <2>2. 0 + Len(chars) - 2 = Len(chars) - 2
    OBVIOUS
  <2> QED BY <1>5, <2>1, <2>2 DEF Reject
<1>7. \A i \in 0..Len(chars) - 2 : i \in 0..4 /\ i + 2 \in 1..Len(chars)
  BY QueueRange
<1>8. \A i \in 0..Len(chars) - 2 : frames'[i] = chars[i + 2] /\ frames'[i] \in Characters
  BY <1>1, <1>6, <1>7
<1>9. frameCount' = Len(chars) - 1 /\ frameIndex' = 0
  BY DEF Reject
<1>10. KeysTypeOK'
  <2>1. frames' \in [0..4 -> Characters \cup {NUL}]
    <3> SUFFICES ASSUME NEW i \in 0..4
                 PROVE  (IF i \in 0..Len(chars) - 2 THEN chars[i + 2] ELSE frames[i])
                          \in Characters \cup {NUL}
      BY <1>6
    <3>1. CASE i \in 0..Len(chars) - 2
      <4> chars[i + 2] \in Characters
        BY <1>1, <1>7, <3>1
      <4> QED BY <3>1
    <3>2. CASE i \notin 0..Len(chars) - 2
      BY <1>5, <3>2
    <3> QED BY <3>1, <3>2
  <2>2. frameCount' \in 0..5 /\ frameIndex' \in 0..4 /\ frameIndex' + frameCount' <= 5
    <3>1. Len(chars) - 1 \in 0..5 /\ 0 + (Len(chars) - 1) <= 5
      BY QueueRange
    <3> QED BY <1>9, <3>1
  <2> QED BY <1>4, <1>9, <2>1, <2>2
    DEF KeysInv, KeysTypeOK, Capacity, MAX_CONTROL_SEQUENCE_LENGTH, BeginsSequence
<1>11. KeysInv'
  <2>1. \A i \in frameIndex'..frameIndex' + frameCount' - 1 : i \in 0..Len(chars) - 2
    BY <1>9
  <2> QED BY <1>4, <1>8, <1>10, <2>1 DEF KeysInv
<1>12. flushed' + Len(delivered') + frameCount' + Len(sequence') = taken'
  BY <1>4, <1>9, ScriptFacts
<1>13. \A i \in 1..Len(delivered') : delivered'[i] = script'[flushed' + i]
  <2> SUFFICES ASSUME NEW i \in 1..Len(delivered')
               PROVE  delivered'[i] = script[flushed + i]
    OBVIOUS
  <2>1. CASE i \in 1..Len(delivered)
    BY <1>4, <2>1 DEF EachInPlace
  <2>2. CASE i = Len(delivered) + 1
    <3> flushed + (Len(delivered) + 1) = flushed + Len(delivered) + 1
      BY ScriptFacts
    <3> QED BY <1>2, <1>4, <2>2
  <2> QED BY <1>4, <2>1, <2>2, ScriptFacts
<1>14. \A i \in 1..frameCount' :
         frames'[frameIndex' + i - 1] = script'[flushed' + Len(delivered') + i]
  <2> SUFFICES ASSUME NEW i \in 1..frameCount'
               PROVE  frames'[frameIndex' + i - 1] = script[flushed + Len(delivered') + i]
    OBVIOUS
  <2>1. i \in Nat /\ i - 1 \in 0..Len(chars) - 2 /\ i + 1 \in 1..Len(chars)
    BY <1>9
  <2>2. frameIndex' + i - 1 = i - 1 /\ (i - 1) + 2 = i + 1
    BY <1>9, <2>1
  <2>3. flushed + Len(delivered) + (i + 1) = flushed + Len(delivered') + i
    BY <1>4, <2>1, ScriptFacts
  <2>4. frames'[i - 1] = chars[i + 1]
    BY <1>8, <2>1, <2>2
  <2>5. chars[i + 1] = script[flushed + Len(delivered) + (i + 1)]
    BY <2>1
  <2> QED BY <2>2, <2>3, <2>4, <2>5
<1> QED BY <1>4, <1>11, <1>12, <1>13, <1>14 DEF EachInPlace

LEMMA ContinuationMissingPreserves ==
  ASSUME KeysInv, EachInPlace, ContinuationMissing
  PROVE  KeysInv' /\ EachInPlace'
<1>1. /\ sequence # <<>> /\ Reject(sequence)
      /\ UNCHANGED <<script, typed, flushed, hungUp, taken>>
  BY DEF ContinuationMissing, inputVars
<1>2. frameCount = 0 /\ frameIndex = 0 /\ Len(sequence) \in 1..6
  <2>1. Len(sequence) \in 1..5
    BY <1>1, ScriptFacts, InRange
  <2> QED BY <1>1, <2>1, ScriptFacts
<1>3. sequence \in Seq(Characters) /\ sequence[1] = Esc
  BY <1>1 DEF KeysInv, KeysTypeOK
<1>4. taken' \in 0..typed /\ flushed \in 0..taken'
  BY <1>1, ScriptFacts
<1>5. flushed + Len(delivered) + Len(sequence) = taken'
  BY <1>1, <1>2, ScriptFacts DEF EachInPlace
<1>6. \A i \in 1..Len(sequence) : sequence[i] = script[flushed + Len(delivered) + i]
  <2>1. flushed + Len(delivered) + 0 = flushed + Len(delivered)
    BY ScriptFacts
  <2> QED BY <1>2, <2>1 DEF EachInPlace
<1> QED BY <1>1, <1>2, <1>3, <1>4, <1>5, <1>6, RejectPreserves

LEMMA ContinueSequencePreserves ==
  ASSUME KeysInv, EachInPlace, ContinueSequence
  PROVE  KeysInv' /\ EachInPlace'
<1> DEFINE chars == Append(sequence, script[taken + 1])
<1>1. /\ sequence # <<>> /\ ~NothingToRead /\ taken' = taken + 1
      /\ UNCHANGED <<script, typed, flushed, hungUp>>
  BY DEF ContinueSequence, inputVars
<1>2. frameCount = 0 /\ frameIndex = 0 /\ Len(sequence) \in 1..5
  BY <1>1, ScriptFacts, InRange
<1>3. sequence \in Seq(Characters) /\ sequence[1] = Esc
  BY <1>1 DEF KeysInv, KeysTypeOK
<1>4. script[taken + 1] \in Characters /\ taken' \in 0..typed /\ flushed \in 0..taken'
  BY <1>1, TakenCharacter
<1>5. /\ chars \in Seq(Characters) /\ chars # <<>> /\ Len(chars) = Len(sequence) + 1
      /\ \A i \in 1..Len(sequence) : chars[i] = sequence[i]
      /\ chars[Len(sequence) + 1] = script[taken + 1]
  BY <1>3, <1>4, AppendProperties
<1>6. \/ \E k \in Keys : Return(k.type, chars) /\ UNCHANGED queueVars
      \/ /\ BeginsSequence(chars) /\ sequence' = chars
         /\ UNCHANGED <<key, delivered, queueVars>>
      \/ Reject(chars)
  BY Zenon DEF ContinueSequence
<1> HIDE DEF chars
<1>7. Len(chars) \in 1..6 /\ chars[1] = Esc
  BY <1>2, <1>3, <1>5
<1>8. flushed + Len(delivered) + Len(chars) = taken'
  BY <1>1, <1>2, <1>5, ScriptFacts DEF EachInPlace
<1>9. \A i \in 1..Len(chars) : chars[i] = script[flushed + Len(delivered) + i]
  <2> SUFFICES ASSUME NEW i \in 1..Len(chars)
               PROVE  chars[i] = script[flushed + Len(delivered) + i]
    OBVIOUS
  <2>1. flushed + Len(delivered) + 0 = flushed + Len(delivered)
    BY ScriptFacts
  <2>2. CASE i \in 1..Len(sequence)
    BY <1>2, <1>5, <2>1, <2>2 DEF EachInPlace
  <2>3. CASE i = Len(sequence) + 1
    <3> flushed + Len(delivered) + i = taken + 1
      BY <1>1, <1>2, <1>5, <1>8, <2>3, ScriptFacts
    <3> QED BY <1>5, <2>3
  <2> QED BY <1>2, <1>5, <2>2, <2>3
<1>10. CASE \E k \in Keys : Return(k.type, chars) /\ UNCHANGED queueVars
  <2>1. PICK k \in Keys : Return(k.type, chars) /\ UNCHANGED queueVars
    BY <1>10
  <2>2. /\ delivered' \in Seq(Characters) /\ sequence' = <<>>
        /\ Len(delivered') = Len(delivered) + Len(chars) /\ Len(sequence') = 0
        /\ \A i \in 1..Len(delivered) : delivered'[i] = delivered[i]
        /\ \A i \in 1..Len(chars) : delivered'[Len(delivered) + i] = chars[i]
    BY <1>5, <2>1, ReturnDelivers
  <2>3. UNCHANGED <<frames, frameCount, frameIndex>>
    BY <2>1 DEF queueVars
  <2>4. KeysTypeOK'
    BY <1>1, <1>4, <2>2, <2>3 DEF KeysInv, KeysTypeOK, BeginsSequence
  <2>5. KeysInv'
    BY <2>2, <2>3, <2>4 DEF KeysInv
  <2>6. flushed' + Len(delivered') + frameCount' + Len(sequence') = taken'
    BY <1>1, <1>2, <1>5, <1>8, <2>2, <2>3, ScriptFacts
  <2>7. \A i \in 1..Len(delivered') : delivered'[i] = script'[flushed' + i]
    <3> SUFFICES ASSUME NEW i \in 1..Len(delivered')
                 PROVE  delivered'[i] = script[flushed + i]
      BY <1>1
    <3>1. CASE i \in 1..Len(delivered)
      BY <2>2, <3>1 DEF EachInPlace
    <3>2. CASE i \notin 1..Len(delivered)
      <4> DEFINE m == i - Len(delivered)
      <4>1. m \in 1..Len(chars) /\ Len(delivered) + m = i
        BY <1>7, <2>2, <3>2, ScriptFacts
      <4>2. flushed + Len(delivered) + m = flushed + i
        BY <4>1, ScriptFacts
      <4> HIDE DEF m
      <4> QED BY <1>9, <2>2, <4>1, <4>2
    <3> QED BY <3>1, <3>2
  <2> QED BY <1>1, <1>2, <2>2, <2>3, <2>5, <2>6, <2>7 DEF EachInPlace
<1>11. CASE /\ BeginsSequence(chars) /\ sequence' = chars
            /\ UNCHANGED <<key, delivered, queueVars>>
  <2>1. UNCHANGED <<delivered, frames, frameCount, frameIndex>>
    BY <1>11 DEF queueVars
  <2>2. KeysTypeOK'
    BY <1>1, <1>2, <1>4, <1>5, <1>11, <2>1 DEF KeysInv, KeysTypeOK, BeginsSequence
  <2>3. KeysInv'
    BY <1>7, <1>11, <2>1, <2>2 DEF KeysInv
  <2>4. flushed' + Len(delivered') + frameCount' + Len(sequence') = taken'
    BY <1>1, <1>2, <1>7, <1>8, <1>11, <2>1, ScriptFacts
  <2>5. flushed + Len(delivered) + 0 = flushed + Len(delivered)
    BY ScriptFacts
  <2>6. \A i \in 1..Len(sequence') :
          sequence'[i] = script'[flushed' + Len(delivered') + frameCount' + i]
    BY <1>1, <1>2, <1>9, <1>11, <2>1, <2>5
  <2> QED BY <1>1, <1>2, <2>1, <2>3, <2>4, <2>6 DEF EachInPlace
<1>12. CASE Reject(chars)
  BY <1>1, <1>2, <1>4, <1>5, <1>7, <1>8, <1>9, <1>12, RejectPreserves
<1> QED BY <1>6, <1>10, <1>11, <1>12

LEMMA ReadKeyPreserves ==
  ASSUME KeysInv, EachInPlace, terminal_read_key
  PROVE  KeysInv' /\ EachInPlace'
BY ReadRejectPreserves, ReadCharacterPreserves, ReadEofPreserves,
   ContinueSequencePreserves, ContinuationMissingPreserves DEF terminal_read_key

(* The characters in place, one by one, make up the whole.                 *)
LEMMA InPlaceIsNotLost ==
  ASSUME KeysInv, EachInPlace
  PROVE  NoCharacterLost
<1> DEFINE whole == delivered \o Queued
           read == SubSeq(script, flushed + 1, taken)
<1>1. delivered \in Seq(Characters) /\ sequence \in Seq(Characters)
  BY DEF KeysInv, KeysTypeOK
<1>2. Len(delivered) \in Nat /\ Len(sequence) \in Nat /\ frameCount \in Nat
  BY ScriptFacts
<1>3. /\ Queued \in Seq(Characters) /\ Len(Queued) = frameCount
      /\ \A i \in 1..frameCount : Queued[i] = frames[frameIndex + i - 1]
  <2>1. \A i \in 1..frameCount : frames[frameIndex + i - 1] \in Characters
    <3> SUFFICES ASSUME NEW i \in 1..frameCount
                 PROVE  frames[frameIndex + i - 1] \in Characters
      OBVIOUS
    <3> frameIndex + i - 1 \in frameIndex..frameIndex + frameCount - 1
      BY ScriptFacts
    <3> QED BY DEF KeysInv
  <2>2. Queued \in [1..frameCount -> Characters]
    BY <2>1 DEF Queued
  <2> QED BY <1>2, <2>2 DEF Queued
<1> HIDE DEF Queued
<1>4. /\ whole \in Seq(Characters) /\ Len(whole) = Len(delivered) + frameCount
      /\ \A i \in 1..Len(delivered) + frameCount :
           whole[i] = IF i <= Len(delivered) THEN delivered[i] ELSE Queued[i - Len(delivered)]
  BY <1>1, <1>3, ConcatProperties
<1> HIDE DEF whole
<1>5. /\ whole \o sequence \in Seq(Characters)
      /\ Len(whole \o sequence) = Len(delivered) + frameCount + Len(sequence)
      /\ \A i \in 1..Len(whole) + Len(sequence) :
           (whole \o sequence)[i] = IF i <= Len(whole) THEN whole[i] ELSE sequence[i - Len(whole)]
  BY <1>1, <1>4, ConcatProperties
<1>6. /\ read \in Seq(Characters) /\ Len(read) = taken - flushed
      /\ \A i \in 1..taken - flushed : read[i] = script[flushed + i]
  <2>1. flushed + 1 \in Int /\ taken \in Int
    BY ScriptFacts
  <2>2. \A i \in flushed + 1..taken : script[i] \in Characters
    <3> \A i \in flushed + 1..taken : i \in 1..Len(script)
      BY ScriptFacts
    <3> QED BY ScriptFacts
  <2>3. /\ read \in Seq(Characters)
        /\ Len(read) = IF flushed + 1 <= taken THEN taken - (flushed + 1) + 1 ELSE 0
        /\ \A i \in 1..taken - (flushed + 1) + 1 : read[i] = script[flushed + 1 + i - 1]
    BY <2>1, <2>2, SubSeqProperties
  <2>4. taken - (flushed + 1) + 1 = taken - flushed
    BY ScriptFacts
  <2>5. Len(read) = taken - flushed
    BY <2>3, <2>4, ScriptFacts
  <2>6. \A i \in 1..taken - flushed : flushed + 1 + i - 1 = flushed + i
    BY ScriptFacts
  <2> QED BY <2>3, <2>4, <2>5, <2>6
<1> HIDE DEF read
<1>7. Len(whole \o sequence) = Len(read)
  BY <1>2, <1>5, <1>6, ScriptFacts DEF EachInPlace
<1>8. ASSUME NEW i \in 1..Len(whole \o sequence)
      PROVE  (whole \o sequence)[i] = read[i]
  <2>1. i \in Nat /\ i \in 1..taken - flushed /\ i \in 1..Len(whole) + Len(sequence)
    BY <1>4, <1>5, <1>6, <1>7, <1>2
  <2>2. read[i] = script[flushed + i]
    BY <1>6, <2>1
  <2>3. CASE i <= Len(delivered)
    <3>1. i \in 1..Len(delivered) /\ i <= Len(whole) /\ i \in 1..Len(delivered) + frameCount
      BY <1>2, <1>4, <2>1, <2>3
    <3>2. (whole \o sequence)[i] = delivered[i]
      BY <1>4, <1>5, <2>1, <3>1
    <3> QED BY <2>2, <3>1, <3>2 DEF EachInPlace
  <2>4. CASE ~(i <= Len(delivered)) /\ i <= Len(whole)
    <3> DEFINE m == i - Len(delivered)
    <3>1. m \in 1..frameCount /\ i \in 1..Len(delivered) + frameCount
      BY <1>2, <1>4, <2>1, <2>4
    <3>2. (whole \o sequence)[i] = Queued[m]
      BY <1>4, <1>5, <2>1, <2>4, <3>1
    <3>3. flushed + Len(delivered) + m = flushed + i
      BY <1>2, <2>1, ScriptFacts
    <3> HIDE DEF m
    <3> QED BY <1>3, <2>2, <3>1, <3>2, <3>3 DEF EachInPlace
  <2>5. CASE ~(i <= Len(whole))
    <3> DEFINE m == i - Len(whole)
    <3>1. m \in 1..Len(sequence)
      BY <1>2, <1>4, <2>1, <2>5
    <3>2. (whole \o sequence)[i] = sequence[m]
      BY <1>5, <2>1, <2>5
    <3>3. flushed + Len(delivered) + frameCount + m = flushed + i
      BY <1>2, <1>4, <2>1, ScriptFacts
    <3> HIDE DEF m
    <3> QED BY <2>2, <3>1, <3>2, <3>3 DEF EachInPlace
  <2> QED BY <2>3, <2>4, <2>5
<1>9. whole \o sequence = read
  BY <1>5, <1>6, <1>7, <1>8, SeqEqual
<1> QED BY <1>9 DEF NoCharacterLost, whole, read

-----------------------------------------------------------------------------
(* The process.                                                            *)

(* Type correctness of the mode variables alone.                           *)
ModeTypeOK ==
  /\ mode \in {"original", "noncanonical"}
  /\ setup \in {"start", "terminal", "not a terminal", "noncanonical", "registering", "enabled"}
  /\ registered \in 0..Len(Signals) /\ handlers \subseteq SignalSet
  /\ exitHandler \in BOOLEAN
  /\ handling \in Seq([signal : SignalSet, restored : BOOLEAN])
  /\ process \in {"running", "exiting"} \cup Ended
  /\ exitHandler \/ handlers # {} \/ handling # <<>> => setup \in {"registering", "enabled"}

(* Nothing is read before noncanonical mode is enabled.                    *)
NothingReadBefore ==
  setup # "enabled" => delivered = <<>> /\ sequence = <<>> /\ frameCount = 0

(* The handlers: once registered a signal's handler is either still there  *)
(* or running, and all of them are registered, with the one for exit(),    *)
(* before keys are read; a handler that has restored the terminal left it  *)
(* so, and a process is over by exit() only after the exit handler has run.*)
HandlersInv ==
  /\ setup \in {"registering", "enabled"} => exitHandler
  /\ setup = "enabled" => registered = Len(Signals)
  /\ \A i \in 1..registered : Signals[i] \in handlers \cup Blocked
  /\ \A i \in 1..Len(handling) : handling[i].restored => mode = "original"
  /\ RestoredOnTermination

TerminalInv == KeysInv /\ EachInPlace /\ ModeTypeOK /\ NothingReadBefore /\ HandlersInv

LEMMA TerminalInitially == TerminalInit => TerminalInv
<1> SUFFICES ASSUME TerminalInit PROVE TerminalInv
  OBVIOUS
<1> USE DEF TerminalInit, KeysInit, ModeInit
<1>1. script \in Seq(Characters) /\ Len(script) \in Nat
  BY ScriptsAssumption, LenProperties
<1>2. Len(<<>>) = 0 /\ <<>> \in Seq(Characters)
  BY EmptySeq
<1>3. KeysTypeOK
  <2>1. typed \in 0..Len(script) /\ taken \in 0..typed /\ flushed \in 0..taken
    BY <1>1
  <2>2. frames \in [0..Capacity - 1 -> Characters \cup {NUL}]
    OBVIOUS
  <2>3. /\ frameCount \in 0..Capacity /\ frameIndex \in 0..Capacity - 1
        /\ frameIndex + frameCount <= Capacity
    BY DEF Capacity, MAX_CONTROL_SEQUENCE_LENGTH
  <2>4. /\ script \in Scripts /\ hungUp \in BOOLEAN /\ sequence \in Seq(Characters)
        /\ delivered \in Seq(Characters) /\ (sequence # <<>> => BeginsSequence(sequence) /\ frameCount = 0)
        /\ (frameCount = 0 => frameIndex = 0)
    BY <1>2
  <2> QED BY ONLY <2>1, <2>2, <2>3, <2>4 DEF KeysTypeOK
<1>4. KeysInv /\ EachInPlace
  BY <1>2, <1>3 DEF KeysInv, EachInPlace
<1>5. Len(Signals) \in Nat
  BY SignalsAssumption, LenProperties
<1>6. ModeTypeOK
  <2>1. registered \in 0..Len(Signals)
    BY <1>5
  <2>2. handling \in Seq([signal : SignalSet, restored : BOOLEAN])
    BY EmptySeq
  <2> QED BY <2>1, <2>2 DEF ModeTypeOK
<1>7. HandlersInv
  BY <1>2 DEF HandlersInv, RestoredOnTermination
<1> QED BY <1>4, <1>6, <1>7 DEF TerminalInv, NothingReadBefore

(* Signals: what is known of them.                                         *)
LEMMA SignalFacts ==
  /\ Len(Signals) \in Nat /\ \A i \in 1..Len(Signals) : Signals[i] \in SignalSet
  /\ \A s \in SignalSet : \E i \in 1..Len(Signals) : Signals[i] = s
<1> DOMAIN Signals = 1..Len(Signals) /\ Len(Signals) \in Nat
  BY SignalsAssumption, LenProperties
<1> QED BY DEF SignalSet

LEMMA RegisteredFacts ==
  ASSUME ModeTypeOK
  PROVE  /\ registered \in Nat /\ registered <= Len(Signals)
         /\ registered < Len(Signals) => registered + 1 \in 1..Len(Signals)
         /\ registered + 1 \in Nat /\ registered + 1 - 1 = registered
<1>1. registered \in 0..Len(Signals)
  BY DEF ModeTypeOK
<1>2. \A m, n \in Nat : m \in 0..n => m <= n /\ (m < n => m + 1 \in 1..n)
  OBVIOUS
<1> QED BY <1>1, <1>2, SignalFacts

LEMMA SetupPreserves ==
  ASSUME TerminalInv,
         \/ IsATerminal \/ EnableNoncanonicalMode \/ RegisterExitHandler
         \/ RegisterSignalHandler
  PROVE  TerminalInv'
<1> USE DEF TerminalInv
<1>1. CASE IsATerminal
  <2>1. UNCHANGED <<keyVars, mode, registered, handlers, exitHandler, handling, process>>
    BY <1>1 DEF IsATerminal, Setup
  <2>2. setup = "start" /\ setup' \in {"terminal", "not a terminal"}
    BY <1>1 DEF IsATerminal, Setup
  <2>3. KeysInv' /\ EachInPlace' /\ NothingReadBefore'
    BY <2>1, <2>2 DEF keyVars, KeysInv, KeysTypeOK, EachInPlace, BeginsSequence, NothingReadBefore
  <2>4. ModeTypeOK'
    BY <2>1, <2>2 DEF ModeTypeOK
  <2>5. HandlersInv'
    BY <2>1, <2>2 DEF HandlersInv, RestoredOnTermination, Blocked
  <2> QED BY <2>3, <2>4, <2>5
<1>2. CASE EnableNoncanonicalMode
  <2>1. /\ UNCHANGED <<registered, handlers, exitHandler, handling, process>>
        /\ setup = "terminal" /\ setup' = "noncanonical" /\ mode' = "noncanonical"
        /\ handling = <<>> /\ Flush
    BY <1>2 DEF EnableNoncanonicalMode, Setup, Runs
  <2>2. KeysInv' /\ EachInPlace' /\ NothingReadBefore'
    <3>1. delivered = <<>> /\ sequence = <<>> /\ frameCount = 0
      BY <2>1 DEF NothingReadBefore
    <3> QED BY <2>1, <3>1, FlushPreserves DEF Flush, queueVars, NothingReadBefore
  <2>3. ModeTypeOK'
    BY <2>1 DEF ModeTypeOK
  <2>4. HandlersInv'
    BY <2>1, EmptySeq DEF HandlersInv, RestoredOnTermination, Blocked
  <2> QED BY <2>2, <2>3, <2>4
<1>3. CASE RegisterExitHandler
  <2>1. /\ UNCHANGED <<keyVars, mode, registered, handlers, handling, process>>
        /\ setup = "noncanonical" /\ setup' = "registering" /\ exitHandler' = TRUE
    BY <1>3 DEF RegisterExitHandler, Setup
  <2>2. KeysInv' /\ EachInPlace' /\ NothingReadBefore'
    BY <2>1 DEF keyVars, KeysInv, KeysTypeOK, EachInPlace, BeginsSequence, NothingReadBefore
  <2>3. ModeTypeOK'
    BY <2>1 DEF ModeTypeOK
  <2>4. HandlersInv'
    BY <2>1 DEF HandlersInv, RestoredOnTermination, Blocked
  <2> QED BY <2>2, <2>3, <2>4
<1>4. CASE RegisterSignalHandler
  <2>1. /\ UNCHANGED <<keyVars, mode, exitHandler, handling, process>>
        /\ process = "running" /\ setup = "registering"
    BY <1>4 DEF RegisterSignalHandler, Runs
  <2>2. CASE registered < Len(Signals)
    <3>1. /\ registered' = registered + 1 /\ setup' = setup
          /\ handlers' = handlers \cup {Signals[registered + 1]}
      BY <1>4, <2>2 DEF RegisterSignalHandler
    <3>2. registered + 1 \in 1..Len(Signals)
      BY <2>2, RegisteredFacts
    <3>3. KeysInv' /\ EachInPlace' /\ NothingReadBefore'
      BY <2>1, <3>1
      DEF keyVars, KeysInv, KeysTypeOK, EachInPlace, BeginsSequence, NothingReadBefore
    <3>4. ModeTypeOK'
      BY <2>1, <3>1, <3>2, SignalFacts DEF ModeTypeOK
    <3>5. \A i \in 1..registered' : Signals[i] \in handlers' \cup Blocked'
      <4> SUFFICES ASSUME NEW i \in 1..registered' PROVE Signals[i] \in handlers' \cup Blocked'
        OBVIOUS
      <4>1. i \in 1..registered \/ i = registered + 1
        BY <3>1, RegisteredFacts
      <4> QED BY <2>1, <3>1, <4>1 DEF HandlersInv, Blocked
    <3>6. HandlersInv'
      BY <2>1, <3>1, <3>5 DEF HandlersInv, RestoredOnTermination
    <3> QED BY <3>3, <3>4, <3>6
  <2>3. CASE ~(registered < Len(Signals))
    <3>1. setup' = "enabled" /\ UNCHANGED <<registered, handlers>>
      BY <1>4, <2>3 DEF RegisterSignalHandler
    <3>2. registered = Len(Signals)
      BY <2>3, RegisteredFacts, SignalFacts
    <3>3. KeysInv' /\ EachInPlace' /\ NothingReadBefore'
      BY <2>1, <3>1
      DEF keyVars, KeysInv, KeysTypeOK, EachInPlace, BeginsSequence, NothingReadBefore
    <3>4. ModeTypeOK'
      BY <2>1, <3>1 DEF ModeTypeOK
    <3>5. HandlersInv'
      BY <2>1, <3>1, <3>2 DEF HandlersInv, RestoredOnTermination, Blocked
    <3> QED BY <3>3, <3>4, <3>5
  <2> QED BY <2>2, <2>3
<1> QED BY <1>1, <1>2, <1>3, <1>4

(* Steps that read nothing: the keys are as they were.                     *)
LEMMA KeysUnchanged ==
  ASSUME TerminalInv, UNCHANGED <<keyVars, setup>>
  PROVE  KeysInv' /\ EachInPlace' /\ NothingReadBefore'
BY DEF TerminalInv, keyVars, KeysInv, KeysTypeOK, EachInPlace, BeginsSequence, NothingReadBefore

(* Steps of the keyboard and of terminal_read_key leave the mode alone.    *)
LEMMA ModeUnchanged ==
  ASSUME TerminalInv, UNCHANGED modeVars
  PROVE  ModeTypeOK' /\ HandlersInv'
BY DEF TerminalInv, modeVars, ModeTypeOK, HandlersInv, RestoredOnTermination, Blocked

LEMMA ReadingPreserves ==
  ASSUME TerminalInv,
         ReadKey \/ (process \notin Ended /\ (TypeCharacter \/ HangUp) /\ UNCHANGED modeVars)
  PROVE  TerminalInv'
<1>1. UNCHANGED modeVars
  BY DEF ReadKey
<1>2. CASE ReadKey
  <2>1. KeysInv' /\ EachInPlace'
    BY <1>2, ReadKeyPreserves DEF ReadKey, TerminalInv
  <2>2. setup' = "enabled"
    BY <1>1, <1>2 DEF ReadKey, modeVars
  <2> QED BY <1>1, <2>1, <2>2, ModeUnchanged DEF TerminalInv, NothingReadBefore
<1>3. CASE TypeCharacter \/ HangUp
  <2>1. KeysInv' /\ EachInPlace'
    BY <1>3, KeyboardPreserves DEF TerminalInv
  <2>2. UNCHANGED <<delivered, sequence, frameCount, setup>>
    BY <1>1, <1>3 DEF TypeCharacter, HangUp, queueVars, modeVars
  <2>3. NothingReadBefore'
    BY <2>2 DEF TerminalInv, NothingReadBefore
  <2> QED BY <1>1, <2>1, <2>3, ModeUnchanged DEF TerminalInv
<1> QED BY <1>2, <1>3

LEMMA EndingPreserves ==
  ASSUME TerminalInv, Exit \/ RunExitHandler \/ Abort
  PROVE  TerminalInv'
<1>1. /\ UNCHANGED <<keyVars, setup, registered, handlers, exitHandler, handling>>
      /\ process' \in {"exiting", "exited", "aborted"}
  BY DEF Exit, RunExitHandler, Abort
<1>2. \/ mode' = mode /\ process' # "exited"
      \/ mode' = (IF exitHandler THEN "original" ELSE mode) /\ process' = "exited"
  BY DEF Exit, RunExitHandler, Abort
<1>3. ModeTypeOK'
  BY <1>1, <1>2 DEF TerminalInv, ModeTypeOK, Ended
<1>4. HandlersInv'
  BY <1>1, <1>2 DEF TerminalInv, HandlersInv, RestoredOnTermination, Blocked
<1> QED BY <1>1, <1>3, <1>4, KeysUnchanged DEF TerminalInv

(* A frame is pushed for the signal, which leaves the registered handlers  *)
(* and is blocked instead.                                                 *)
LEMMA DeliverPreserves ==
  ASSUME TerminalInv, NEW signal \in SignalSet, Deliver(signal)
  PROVE  TerminalInv'
<1> USE DEF TerminalInv
<1>1. /\ UNCHANGED <<keyVars, mode, setup, registered, exitHandler>>
      /\ signal \notin Blocked
  BY DEF Deliver
<1>2. CASE signal \in handlers
  <2>1. /\ handling' = Append(handling, Frame(signal)) /\ handlers' = handlers \ {signal}
        /\ process' = process
    BY <1>2 DEF Deliver
  <2> DEFINE Frames == [signal : SignalSet, restored : BOOLEAN]
  <2>2. handling \in Seq(Frames) /\ Frame(signal) \in Frames
    BY DEF ModeTypeOK, Frame
  <2>3. /\ handling' \in Seq(Frames) /\ Len(handling') = Len(handling) + 1
        /\ \A i \in 1..Len(handling) : handling'[i] = handling[i]
        /\ handling'[Len(handling) + 1] = Frame(signal)
        /\ Len(handling) \in Nat
        /\ DOMAIN handling = 1..Len(handling) /\ DOMAIN handling' = 1..Len(handling')
    BY <2>1, <2>2, AppendProperties, LenProperties
  <2> HIDE DEF Frames
  <2>4. Blocked' = Blocked \cup {signal}
    <3>1. Frame(signal).signal = signal
      BY DEF Frame
    <3>2. 1..Len(handling) + 1 = 1..Len(handling) \cup {Len(handling) + 1}
      BY <2>3
    <3> QED BY <2>3, <3>1, <3>2 DEF Blocked
  <2>5. setup \in {"registering", "enabled"}
    BY <1>2 DEF ModeTypeOK
  <2>6. ModeTypeOK'
    BY <1>1, <2>1, <2>3, <2>5 DEF ModeTypeOK, Frames
  <2>7. \A i \in 1..registered' : Signals[i] \in handlers' \cup Blocked'
    BY <1>1, <2>1, <2>4 DEF HandlersInv
  <2>8. \A i \in 1..Len(handling') : handling'[i].restored => mode' = "original"
    <3>1. ~Frame(signal).restored
      BY DEF Frame
    <3>2. \A i \in 1..Len(handling') : i \in 1..Len(handling) \/ i = Len(handling) + 1
      BY <2>3
    <3> QED BY <1>1, <2>3, <3>1, <3>2 DEF HandlersInv
  <2>9. HandlersInv'
    BY <1>1, <2>1, <2>7, <2>8 DEF HandlersInv, RestoredOnTermination
  <2> QED BY <1>1, <2>6, <2>9, KeysUnchanged
<1>3. CASE signal \notin handlers
  <2>1. process' = "killed" /\ UNCHANGED <<handlers, handling>>
    BY <1>3 DEF Deliver
  <2>2. setup # "enabled"
    BY <1>1, <1>3, SignalFacts DEF HandlersInv
  <2>3. ModeTypeOK'
    BY <1>1, <2>1 DEF ModeTypeOK, Ended
  <2>4. HandlersInv'
    BY <1>1, <2>1, <2>2 DEF HandlersInv, RestoredOnTermination, Blocked
  <2> QED BY <1>1, <2>3, <2>4, KeysUnchanged
<1> QED BY <1>2, <1>3

(* The innermost handler restores the terminal before the signal ends the  *)
(* process.                                                                *)
LEMMA SignalHandlerPreserves ==
  ASSUME TerminalInv, RunSignalHandler
  PROVE  TerminalInv'
<1> USE DEF TerminalInv
<1> DEFINE n == Len(handling)
           Frames == [signal : SignalSet, restored : BOOLEAN]
<1>1. UNCHANGED <<keyVars, setup, registered, handlers, exitHandler>> /\ handling # <<>>
  BY DEF RunSignalHandler
<1>2. handling \in Seq(Frames)
  BY DEF ModeTypeOK
<1>3. n \in Nat /\ n \in 1..n /\ DOMAIN handling = 1..n /\ handling \in [1..n -> Frames]
  <2>1. Len(handling) \in Nat \ {0}
    BY <1>1, <1>2, EmptySeq
  <2>2. n \in 1..n
    BY <2>1, InRange
  <2> QED BY <1>2, <2>1, <2>2, LenProperties
<1>4. handling[n] \in Frames
  BY <1>3
<1>5. ASSUME NEW b \in BOOLEAN, handling' = [handling EXCEPT ![n].restored = b],
             process' = process, mode' = (IF b THEN "original" ELSE mode)
      PROVE  TerminalInv'
  <2>1. /\ handling' = [handling EXCEPT ![n].restored = b] /\ process' = process
        /\ mode' = (IF b THEN "original" ELSE mode)
    BY <1>5
  <2> DEFINE frame == [handling[n] EXCEPT !.restored = b]
  <2>2. frame \in Frames /\ frame.signal = handling[n].signal /\ frame.restored = b
    BY <1>4
  <2>3. handling' = [handling EXCEPT ![n] = frame]
    BY <2>1
  <2> HIDE DEF frame, Frames, n
  <2>4. /\ handling' \in Seq(Frames) /\ Len(handling') = Len(handling)
        /\ \A i \in 1..Len(handling) : handling'[i] = IF i = n THEN frame ELSE handling[i]
        /\ DOMAIN handling' = 1..n
    BY <1>2, <1>3, <2>2, <2>3, ExceptSeq, LenProperties DEF n
  <2>5. Blocked' = Blocked
    BY <1>3, <2>2, <2>4 DEF Blocked, n
  <2>6. ModeTypeOK'
    BY <1>1, <2>1, <2>4 DEF ModeTypeOK, Frames
  <2>7. \A i \in 1..Len(handling') : handling'[i].restored => mode' = "original"
    BY <2>1, <2>2, <2>4 DEF HandlersInv
  <2>8. HandlersInv'
    BY <1>1, <2>1, <2>5, <2>7 DEF HandlersInv, RestoredOnTermination
  <2> QED BY <1>1, <2>6, <2>8, KeysUnchanged
<1>6. CASE /\ process' = "killed" /\ UNCHANGED <<mode, handling>>
           /\ handling[n].restored
  <2>1. mode = "original"
    BY <1>3, <1>6 DEF HandlersInv
  <2>2. ModeTypeOK'
    BY <1>1, <1>6 DEF ModeTypeOK, Ended
  <2>3. HandlersInv'
    BY <1>1, <1>6, <2>1 DEF HandlersInv, RestoredOnTermination, Blocked
  <2> QED BY <1>1, <2>2, <2>3, KeysUnchanged
<1>7. \/ handling' = [handling EXCEPT ![n].restored = TRUE] /\ mode' = "original" /\ process' = process
      \/ handling' = [handling EXCEPT ![n].restored = FALSE] /\ UNCHANGED <<mode, process>>
      \/ process' = "killed" /\ UNCHANGED <<mode, handling>> /\ handling[n].restored
  BY DEF RunSignalHandler
<1>8. CASE handling' = [handling EXCEPT ![n].restored = TRUE] /\ mode' = "original" /\ process' = process
  <2>1. mode' = (IF TRUE THEN "original" ELSE mode)
    BY <1>8
  <2> QED BY <1>5, <1>8, <2>1
<1>9. CASE handling' = [handling EXCEPT ![n].restored = FALSE] /\ UNCHANGED <<mode, process>>
  <2>1. process' = process /\ mode' = (IF FALSE THEN "original" ELSE mode)
    BY <1>9
  <2> QED BY <1>5, <1>9, <2>1
<1> QED BY <1>6, <1>7, <1>8, <1>9

LEMMA TerminalStepPreserves == TerminalInv /\ [TerminalNext]_terminalVars => TerminalInv'
<1> SUFFICES ASSUME TerminalInv, [TerminalNext]_terminalVars PROVE TerminalInv'
  OBVIOUS
<1>1. CASE UNCHANGED terminalVars
  BY <1>1, KeysUnchanged, ModeUnchanged DEF terminalVars, modeVars, TerminalInv
<1>2. CASE TerminalStep
  BY <1>2, SetupPreserves, ReadingPreserves, EndingPreserves, SignalHandlerPreserves
  DEF TerminalStep
<1>3. CASE TerminalEnvironment
  BY <1>3, ReadingPreserves, EndingPreserves, DeliverPreserves DEF TerminalEnvironment
<1> QED BY <1>1, <1>2, <1>3 DEF TerminalNext

LEMMA TerminalInvariance == TerminalSpec => []TerminalInv
BY TerminalInitially, TerminalStepPreserves, PTL DEF TerminalSpec

-----------------------------------------------------------------------------
(* The queue of rejected characters never overflows, the assertions of its *)
(* macros and of restore_terminal_parameters hold, and every variable has  *)
(* its type, for every script and any number of signals (terminal.c 264,   *)
(* 378, 386, 387).                                                         *)
THEOREM RejectQueueFits == TerminalSpec => []TerminalTypeOK
<1>1. TerminalInv => TerminalTypeOK
  BY DEF TerminalInv, KeysInv, ModeTypeOK, TerminalTypeOK
<1> QED BY <1>1, TerminalInvariance, PTL

(* Every character that is read is returned once and in the order in which *)
(* it was typed, whatever is rejected or times out.                        *)
THEOREM CharactersInOrder == TerminalSpec => []NoCharacterLost
<1>1. TerminalInv => NoCharacterLost
  BY InPlaceIsNotLost DEF TerminalInv
<1> QED BY <1>1, TerminalInvariance, PTL

(* Once noncanonical mode is enabled, a process that has exited or was     *)
(* ended by a signal leaves the terminal as it found it, however many      *)
(* signals arrive and however their handlers interrupt each other.         *)
THEOREM TerminalIsRestored == TerminalSpec => []RestoredOnTermination
<1>1. TerminalInv => RestoredOnTermination
  BY DEF TerminalInv, HandlersInv
<1> QED BY <1>1, TerminalInvariance, PTL
=============================================================================
