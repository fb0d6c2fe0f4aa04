---------------------------- MODULE TerminalKeys ----------------------------
(***************************************************************************)
(* The key decoder of src/cli/terminal.c (POSIX): terminal_read_key reads  *)
(* characters one at a time, takes those that make up a control sequence   *)
(* for one key, and keeps the characters of a sequence that did not come   *)
(* about in a queue, from which the next calls read before they read stdin.*)
(*                                                                         *)
(* `script' is all that will ever be typed.  Its first `typed' characters  *)
(* have been typed, of which `flushed' were discarded when the terminal    *)
(* mode was changed and `taken' are no longer in stdin.                    *)
(***************************************************************************)
EXTENDS Integers, Sequences

CONSTANTS Scripts,         \* what may be typed, ended or not by a hang-up
          Printable,       \* characters from 32 to 126
          Unknown          \* characters that are no key, of a control key or above 126

VARIABLES
  script, typed, flushed, taken,
  hungUp,                  \* stdin is at its end
  frames, frameCount, frameIndex,  \* control_sequence_reject_queue
  sequence,                \* char_1, char_2, ... of a call that began with ESC
  key,                     \* the key last returned
  delivered                \* auxiliary: the characters of all keys returned

inputVars == <<script, typed, hungUp>>
queueVars == <<frames, frameCount, frameIndex>>
keyVars == <<script, typed, flushed, taken, hungUp, frames, frameCount,
             frameIndex, sequence, key, delivered>>

Esc == "ESC"
NUL == "NUL"
ControlKeys ==
  {"ENTER", "CTRL_A", "CTRL_B", "CTRL_D", "CTRL_E", "CTRL_F", "CTRL_H", "CTRL_K",
   "CTRL_L", "CTRL_N", "CTRL_P", "CTRL_U", "CTRL_W", "BACKSPACE"}
Characters == Printable \cup Unknown \cup ControlKeys \cup {Esc}

(* The control sequences, with the key that each one stands for.           *)
AltKey == [b |-> "ALT_B", d |-> "ALT_D", f |-> "ALT_F"]
ArrowKey == [A |-> "ARROW_UP", B |-> "ARROW_DOWN", C |-> "ARROW_RIGHT", D |-> "ARROW_LEFT"]
CtrlArrowKey == [A |-> "CTRL_ARROW_UP", B |-> "CTRL_ARROW_DOWN",
                 C |-> "CTRL_ARROW_RIGHT", D |-> "CTRL_ARROW_LEFT"]
Keys ==
  {[type |-> AltKey[c], chars |-> <<Esc, c>>] : c \in {"b", "d", "f"}}
    \cup {[type |-> ArrowKey[c], chars |-> <<Esc, "[", c>>] : c \in {"A", "B", "C", "D"}}
    \cup {[type |-> CtrlArrowKey[c], chars |-> <<Esc, "[", "1", ";", "5", c>>]
             : c \in {"A", "B", "C", "D"}}
    \cup {[type |-> "DELETE", chars |-> <<Esc, "[", "3", "~">>]}

IsSequence(chars) == \E k \in Keys : k.chars = chars
BeginsSequence(chars) ==
  \E k \in Keys : Len(chars) < Len(k.chars) /\ SubSeq(k.chars, 1, Len(chars)) = chars

MAX_CONTROL_SEQUENCE_LENGTH == 6
Capacity == MAX_CONTROL_SEQUENCE_LENGTH - 1

ASSUME ScriptsAssumption ==
  /\ Scripts \subseteq Seq(Characters)
  /\ \A c \in Printable \cup Unknown : c \notin ControlKeys \cup {Esc}
  /\ Printable \cap Unknown = {}

(* The key of a single character, as no control key and no letter is ESC.  *)
SingleKey(c) ==
  CASE c \in ControlKeys -> c [] c \in Printable -> "PRINTABLE" [] OTHER -> "UNKNOWN"

NothingToRead == taken = typed

KeysInit ==
  /\ script \in Scripts
  /\ typed = 0 /\ flushed = 0 /\ taken = 0 /\ hungUp = FALSE
  /\ frames = [i \in 0..Capacity - 1 |-> NUL] /\ frameCount = 0 /\ frameIndex = 0
  /\ sequence = <<>> /\ key = "NONE" /\ delivered = <<>>

-----------------------------------------------------------------------------
(* The keyboard.                                                           *)
TypeCharacter ==
  /\ ~hungUp /\ typed < Len(script)
  /\ typed' = typed + 1
  /\ UNCHANGED <<script, hungUp, flushed, taken, queueVars, sequence, key, delivered>>

HangUp ==
  /\ ~hungUp
  /\ hungUp' = TRUE
  /\ UNCHANGED <<script, typed, flushed, taken, queueVars, sequence, key, delivered>>

(* tcsetattr with TCSAFLUSH discards what has been typed and not read.     *)
Flush ==
  /\ flushed' = typed
  /\ taken' = typed
  /\ UNCHANGED <<inputVars, queueVars, sequence, key, delivered>>

-----------------------------------------------------------------------------
(* terminal_read_key returns a key for these characters.                   *)
Return(type, chars) ==
  /\ key' = type
  /\ delivered' = delivered \o chars
  /\ sequence' = <<>>

(* Mutation: the index is not reset when the queue runs empty.             *)
DequeueForGood ==
  /\ frameCount > 0
  /\ frameCount' = frameCount - 1
  /\ frameIndex' = frameIndex + 1
  /\ UNCHANGED frames

(* DEQUEUE_CONTROL_SEQUENCE_REJECT.                                        *)
Dequeue ==
  /\ frameCount > 0
  /\ frameCount' = frameCount - 1
  /\ frameIndex' = IF frameCount = 1 THEN 0 ELSE frameIndex + 1
  /\ UNCHANGED frames

(* REJECT_CONTROL_SEQUENCE_CHARS, given what was read: all but the ESC are *)
(* queued, and the key is unknown.                                         *)
Reject(chars) ==
  /\ frames' = [i \in DOMAIN frames |->
                  IF i \in frameCount..frameCount + Len(chars) - 2
                  THEN chars[i - frameCount + 2] ELSE frames[i]]
  /\ frameCount' = frameCount + Len(chars) - 1
  /\ UNCHANGED frameIndex
  /\ Return("UNKNOWN", <<Esc>>)

(* Mutation: the queue is read as a stack.                                 *)
ReadNewestReject ==
  /\ sequence = <<>>
  /\ Dequeue
  /\ Return(SingleKey(frames[frameCount - 1]), <<frames[frameCount - 1]>>)
  /\ UNCHANGED <<inputVars, flushed, taken>>

(* A call while characters are queued.  A rejected ESC is only unknown: it *)
(* does not begin a sequence, although the characters that would follow it *)
(* are next, as an ESC ends every sequence and so is the last one queued.  *)
ReadReject ==
  /\ sequence = <<>>
  /\ Dequeue
  /\ Return(SingleKey(frames[frameIndex]), <<frames[frameIndex]>>)
  /\ UNCHANGED <<inputVars, flushed, taken>>

(* A call that reads stdin, and waits until there is something to read.    *)
ReadCharacter ==
  /\ sequence = <<>> /\ frameCount = 0
  /\ ~NothingToRead
  /\ taken' = taken + 1
  /\ LET c == script[taken + 1]
     IN  IF c = Esc
         THEN sequence' = <<Esc>> /\ UNCHANGED <<key, delivered>>
         ELSE Return(SingleKey(c), <<c>>)
  /\ UNCHANGED <<inputVars, flushed, queueVars>>

(* getchar returns EOF, which has no case and is not printable.            *)
ReadEof ==
  /\ sequence = <<>> /\ frameCount = 0
  /\ NothingToRead /\ hungUp
  /\ Return("UNKNOWN", <<>>)
  /\ UNCHANGED <<inputVars, flushed, taken, queueVars>>

(* read_control_sequence_continuation_character returns a character ...    *)
ContinueSequence ==
  /\ sequence # <<>>
  /\ ~NothingToRead
  /\ taken' = taken + 1
  /\ LET chars == Append(sequence, script[taken + 1])
     IN  \/ /\ IsSequence(chars)
            /\ \E k \in Keys : k.chars = chars /\ Return(k.type, chars)
            /\ UNCHANGED queueVars
         \/ /\ BeginsSequence(chars)
            /\ sequence' = chars
            /\ UNCHANGED <<key, delivered, queueVars>>
         \/ /\ ~IsSequence(chars) /\ ~BeginsSequence(chars)
            /\ Reject(chars)
  /\ UNCHANGED <<inputVars, flushed>>

(* Mutation: it waits for a character as long as there may be one.         *)
ContinuationEndsAtHangUp ==
  /\ sequence # <<>>
  /\ NothingToRead /\ hungUp
  /\ Reject(sequence)
  /\ UNCHANGED <<inputVars, flushed, taken>>

(* ... or EOF, if none is typed for 50 ms or stdin is at its end.          *)
ContinuationMissing ==
  /\ sequence # <<>>
  /\ NothingToRead
  /\ Reject(sequence)
  /\ UNCHANGED <<inputVars, flushed, taken>>

terminal_read_key ==
  \/ ReadReject \/ ReadCharacter \/ ReadEof \/ ContinueSequence \/ ContinuationMissing

-----------------------------------------------------------------------------
(* Properties.                                                             *)

Queued == [i \in 1..frameCount |-> frames[frameIndex + i - 1]]

(* Type invariant, with the assertions of the queue's macros (terminal.c   *)
(* 378, 386, 387): what is queued is in the array, and a sequence is only  *)
(* begun when nothing is, so there is room for what may be rejected.       *)
KeysTypeOK ==
  /\ script \in Scripts
  /\ typed \in 0..Len(script) /\ taken \in 0..typed /\ flushed \in 0..taken
  /\ hungUp \in BOOLEAN
  /\ frames \in [0..Capacity - 1 -> Characters \cup {NUL}]
  /\ frameCount \in 0..Capacity /\ frameIndex \in 0..Capacity - 1
  /\ frameIndex + frameCount <= Capacity
  /\ sequence \in Seq(Characters) /\ delivered \in Seq(Characters)
  /\ sequence # <<>> => BeginsSequence(sequence) /\ frameCount = 0
  /\ frameCount = 0 => frameIndex = 0

(* Every character that is read reaches the caller once and in the order in*)
(* which it was typed, in a key of its own or as part of a control         *)
(* sequence, whatever is rejected, times out or is typed while rejected    *)
(* characters are waiting.                                                 *)
NoCharacterLost ==
  delivered \o Queued \o sequence = SubSeq(script, flushed + 1, taken)
=============================================================================
