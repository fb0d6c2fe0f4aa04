-------------------------------- MODULE Repl --------------------------------
(***************************************************************************)
(* The REPL, src/cli/repl.c: keys edit a physical line and browse the      *)
(* history, Enter appends the physical line to the logical line and has it *)
(* interpreted, and an unexpected end of the source makes the next physical*)
(* line a continuation.                                                    *)
(*                                                                         *)
(* The physical line is the line editor that the gap buffer implements     *)
(* (TextLine), the history is the ring and the file of History, whose lines*)
(* are texts here.  `data' is the allocation of the logical line, from the *)
(* first byte on, whatever earlier lines left in it included.              *)
(***************************************************************************)
EXTENDS History, DynamicArray

CONSTANTS
  Chars, WordChars,        \* printable characters, and those a word is made of
  MaxLine, MaxSource,      \* bounds of the model: length of a physical line, and of
                           \* a logical line that is continued
  InitialFiles,            \* the history that earlier sessions left
  Status(_),               \* what interpreter_interpret returns for a source,
  Errors(_)                \* and the static analysis errors it records

VARIABLES
  before, after, deleted,  \* physical_line, and what its last deletion returned
  isModified,              \* is_physical_line_modified
  isContinuing,            \* is_continuing_logical_line
  data, count,             \* logical_line
  errorFile,               \* g_static_analysis_error_stream: content and position
  status,                  \* of the last interpretation
  stderr,                  \* what the last interpretation showed
  pc,
  logical,                 \* auxiliary: the physical lines of the logical line
  settled,                 \* auxiliary: the physical line when it was last browsed
  lastLine                 \* auxiliary: the last line entered that is not blank

textVars == <<before, after, deleted>>
lineVars == <<before, after, deleted, isModified, settled>>
logicalVars == <<isContinuing, data, count, logical>>
resultVars == <<errorFile, status, stderr>>
replVars == <<historyVars, lineVars, logicalVars, resultVars, pc, lastLine>>

PhysicalLine == INSTANCE TextLine WITH returned <- deleted, Texts <- Lines
Content == before \o after

PHYSICAL_LINE_SEPARATOR == "LF"
NUL == "NUL"
Garbage == "garbage"
Statuses == {"SUCCESS", "VM_FAILURE", "COMPILER_FAILURE", "COMPILER_UNEXPECTED_EOF"}

ASSUME ReplAssumption ==
  /\ MaxLine \in Nat /\ MaxSource \in Nat
  /\ Lines = UNION {[1..n -> Chars] : n \in 0..MaxLine} /\ WordChars \subseteq Chars
  /\ Chars \cap {PHYSICAL_LINE_SEPARATOR, NUL, Garbage} = {}
  /\ InitialFiles \subseteq {NoFile} \cup Seq(Lines \ Blank)

ReplInit ==
  /\ NotInitialized /\ file \in InitialFiles
  /\ PhysicalLine!LineInit /\ isModified = FALSE /\ settled = <<>>
  /\ isContinuing = FALSE /\ data = <<>> /\ count = 0 /\ logical = <<>>
  /\ errorFile = [content |-> <<>>, position |-> 0]
  /\ status = "SUCCESS" /\ stderr = <<>> /\ pc = "start" /\ lastLine = NoEntry

-----------------------------------------------------------------------------
(* Without a terminal, all of stdin is interpreted, and that is all.       *)
InterpretStdin ==
  /\ pc = "start" /\ phase = "closed"
  /\ pc' = "exited"
  /\ UNCHANGED <<historyVars, lineVars, logicalVars, resultVars, lastLine>>

InitializeHistory ==
  /\ pc = "start"
  /\ \/ history_file_trim_read
     \/ history_file_trim_truncate
     \/ history_file_trim_write
     \/ history_file_load
  /\ pc' = IF phase' = "open" THEN "prompt" ELSE "start"
  /\ UNCHANGED <<lineVars, logicalVars, resultVars, lastLine>>

-----------------------------------------------------------------------------
(* Keys that edit the physical line.                                       *)
EditsLine ==
  /\ pc = "prompt"
  /\ UNCHANGED <<historyVars, logicalVars, resultVars, pc, lastLine, settled>>

PrintableKey ==
  /\ EditsLine
  /\ Len(Content) < MaxLine
  /\ \E c \in Chars : PhysicalLine!Insert(c)
  /\ isModified' = TRUE

(* Mutation: a deletion does not count as a modification.                  *)
DeletionKeyUnnoticed ==
  /\ EditsLine
  /\ PhysicalLine!Delete
  /\ UNCHANGED isModified

(* Backspace, Ctrl-H, Delete, Ctrl-W, Alt-D, Ctrl-U and Ctrl-K.            *)
DeletionKey ==
  /\ EditsLine
  /\ PhysicalLine!Delete
  /\ isModified' = (isModified \/ deleted')

(* Arrows to the left and right, Ctrl-A, B, E, F, Alt-B and F.             *)
CursorKey ==
  /\ EditsLine
  /\ PhysicalLine!Move
  /\ UNCHANGED isModified

-----------------------------------------------------------------------------
(* Keys that browse the history: ignored unless the line is as it was when *)
(* the history was last browsed, or the cursor is at its start.            *)
BrowsesHistory ==
  /\ pc = "prompt"
  /\ ~isModified \/ before = <<>>
  /\ isModified' = FALSE
  /\ UNCHANGED <<logicalVars, resultVars, pc, lastLine>>

LoadEntry(entry) ==
  /\ IF entry # NoEntry THEN PhysicalLine!Load(entry) ELSE UNCHANGED textVars
  /\ settled' = Content'

(* Arrow up and Ctrl-P.                                                    *)
OlderEntryKey ==
  /\ BrowsesHistory
  /\ history_browse_older_entry
  /\ LoadEntry(returned')

(* Arrow down and Ctrl-N: below the newest entry there is an empty line.   *)
NewerEntryKey ==
  /\ BrowsesHistory
  /\ IF history_is_newest_entry_browsed
     THEN history_stop_browsing /\ LoadEntry(<<>>)
     ELSE history_browse_newer_entry /\ LoadEntry(returned')

-----------------------------------------------------------------------------
(* Write bytes into the allocation, from an index on.                      *)
Copied(bytes, index, text) ==
  [i \in DOMAIN bytes |->
     IF i \in index + 1..index + Len(text) THEN text[i - index] ELSE bytes[i]]

Reserve(bytes, minimum) ==
  bytes \o [i \in 1..ReservedCapacity(Len(bytes), minimum) - Len(bytes) |-> Garbage]

(* The string at the beginning of the allocation.                          *)
AsString(bytes) ==
  IF \E i \in DOMAIN bytes : bytes[i] = NUL
  THEN SubSeq(bytes, 1, Min({i \in DOMAIN bytes : bytes[i] = NUL}) - 1)
  ELSE Append(bytes, Garbage)

(* Mutation: the separator is written behind the terminating NUL.          *)
AppendPhysicalLineBehindNul(text) ==
  LET newCount == (IF isContinuing THEN count ELSE 0) + Len(text) + 1
      reserved == IF Len(data) < newCount THEN Reserve(data, newCount) ELSE data
  IN  /\ data' = IF isContinuing
                 THEN Copied(reserved, count, <<PHYSICAL_LINE_SEPARATOR>> \o text \o <<NUL>>)
                 ELSE Copied(reserved, 0, Append(text, NUL))
      /\ count' = newCount

(* Mutation: the room for the separator of a continuation is not reserved. *)
AppendPhysicalLineUnreserved(text) ==
  LET newCount == (IF isContinuing THEN count ELSE 0) + Len(text) + 1
  IN  /\ data' = IF isContinuing
                 THEN Copied(Reserve(data, newCount - 1), count - 1,
                          <<PHYSICAL_LINE_SEPARATOR>> \o text \o <<NUL>>)
                 ELSE Copied(Reserve(data, newCount), 0, Append(text, NUL))
      /\ count' = newCount

(* A new logical line overwrites the previous one; a continuation replaces *)
(* its NUL by the separator.                                               *)
AppendPhysicalLine(text) ==
  LET newCount == (IF isContinuing THEN count ELSE 0) + Len(text) + 1
      reserved == IF Len(data) < newCount THEN Reserve(data, newCount) ELSE data
  IN  /\ data' = IF isContinuing
                 THEN Copied(reserved, count - 1,
                          <<PHYSICAL_LINE_SEPARATOR>> \o text \o <<NUL>>)
                 ELSE Copied(reserved, 0, Append(text, NUL))
      /\ count' = newCount

(* Enter: handle_physical_line_end.  history_append_entry also stops the   *)
(* browsing.                                                               *)
EnterKey ==
  /\ pc = "prompt"
  /\ isContinuing => count + Len(Content) <= MaxSource
  /\ history_append_entry(Content)
  /\ AppendPhysicalLine(Content)
  /\ logical' = IF status = "COMPILER_UNEXPECTED_EOF"
                THEN logical \o <<PHYSICAL_LINE_SEPARATOR>> \o Content ELSE Content
  /\ lastLine' = IF Content \in Blank THEN lastLine ELSE Content
  /\ PhysicalLine!Load(<<>>)
  /\ isModified' = FALSE /\ settled' = <<>>
  /\ pc' = "interpret"
  /\ UNCHANGED <<isContinuing, resultVars>>

-----------------------------------------------------------------------------
(* The temporary file of static analysis errors: writing at the position,  *)
(* with a hole of NULs if the position is behind the end, reading all of it*)
(* as a string, and io_clear_file.                                         *)
Written(f, cells) ==
  LET hole == [i \in 1..Max({0, f.position - Len(f.content)}) |-> NUL]
  IN  [content |-> SubSeq(f.content \o hole, 1, f.position) \o cells,
       position |-> f.position + Len(cells)]

(* Mutation: the file is truncated and the position stays.                 *)
TruncatedOnly(f) == [f EXCEPT !.content = <<>>]

Cleared(f) == [f EXCEPT !.content = <<>>, !.position = 0]

ReadAsString(f) == AsString(Append(f.content, NUL))

(* interpreter_interpret, and what the REPL makes of its status.           *)
InterpretLogicalLine ==
  /\ pc = "interpret"
  /\ LET source == AsString(data)
         recorded == Written(errorFile, Errors(source))
     IN  /\ status' = Status(source)
         /\ stderr' = IF status' = "COMPILER_FAILURE"
                      THEN ReadAsString(recorded) ELSE <<>>
         /\ errorFile' = Cleared(recorded)
  /\ isContinuing' = (status' = "COMPILER_UNEXPECTED_EOF")
  /\ pc' = "prompt"
  /\ UNCHANGED <<historyVars, lineVars, data, count, logical, lastLine>>

(* Ctrl-D on an empty line: clean_up, and exit().                          *)
EndKey ==
  /\ pc = "prompt" /\ Content = <<>>
  /\ history_destroy
  /\ data' = <<>> /\ count' = 0 /\ PhysicalLine!Load(<<>>)
  /\ pc' = "exited"
  /\ UNCHANGED <<isModified, settled, isContinuing, logical, resultVars, lastLine>>

ReplNext ==
  \/ InterpretStdin \/ InitializeHistory
  \/ PrintableKey \/ DeletionKey \/ CursorKey
  \/ OlderEntryKey \/ NewerEntryKey \/ EnterKey \/ EndKey
  \/ InterpretLogicalLine

ReplSpec == ReplInit /\ [][ReplNext]_replVars

-----------------------------------------------------------------------------
(* Properties.                                                             *)

(* Type invariant: the logical line fits in its allocation, and the history*)
(* is as its own invariant has it.                                         *)
ReplTypeOK ==
  /\ HistoryInv
  /\ before \in Seq(Chars) /\ after \in Seq(Chars) /\ deleted \in BOOLEAN
  /\ isModified \in BOOLEAN /\ isContinuing \in BOOLEAN
  /\ data \in Seq(Chars \cup {PHYSICAL_LINE_SEPARATOR, NUL, Garbage})
  /\ count \in 0..Len(data)
  /\ status \in Statuses
  /\ pc \in {"start", "prompt", "interpret", "exited"}
  /\ pc \in {"prompt", "interpret"} <=> phase = "open"

(* What is interpreted are the physical lines entered since the last one   *)
(* that left nothing to be continued, whatever longer line was in the      *)
(* allocation before and however often it was reallocated.                 *)
InterpretsWhatWasEntered == pc = "interpret" => AsString(data) = logical

(* A failing line shows the errors of its own compilation and of no other, *)
(* although those of lines that were continued are recorded too.           *)
ShowsItsOwnErrors ==
  [][pc = "interpret" =>
       stderr' = IF Status(logical) = "COMPILER_FAILURE"
                 THEN Errors(logical) ELSE <<>>]_replVars

(* Browsing replaces the physical line only if it has not been changed     *)
(* since it was last browsed (or begun), or the cursor is at its start.    *)
BrowsingKeepsEdits ==
  [][(OlderEntryKey \/ NewerEntryKey) /\ Content' # Content =>
       Content = settled \/ before = <<>>]_replVars

(* The first older entry is the line last entered, unless it was blank,    *)
(* however full the history and whichever entry had been browsed for it.   *)
RecallsLastLine ==
  [][OlderEntryKey /\ ~history_is_browsed /\ lastLine # NoEntry =>
       Content' = lastLine]_replVars
=============================================================================
