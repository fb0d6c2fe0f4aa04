------------------------------ MODULE History ------------------------------
(***************************************************************************)
(* The REPL's history, src/cli/history.c: a ring of the physical lines     *)
(* entered, browsed with the arrow keys, and the file in the home directory*)
(* that every session of the program reads when it starts and appends to.  *)
(*                                                                         *)
(* A line is a member of Lines.  The file is the sequence of its lines, or *)
(* NoFile; only the program writes it, so it holds no blank line.  Reading,*)
(* truncating and writing the file are steps of their own: another session *)
(* may append in between, and the process may be killed.                   *)
(***************************************************************************)
EXTENDS Integers, SequencesExt

CONSTANTS
  HistorySize,     \* HISTORY_SIZE: 1000
  Lines, Blank,    \* physical lines, and those that are all whitespace
  Formatted(_),    \* the lines that printing a line as a format may give
  NoEntry, NoFile, \* a null pointer; no history file
  MaxFile,         \* bound of the model: lines in the file
  AppendPhases,    \* the phases in which another session may append
  KillPhases       \* the phases in which the process may be killed

Phases == {"closed", "trimming", "truncated", "trimmed", "open"}

ASSUME HistoryAssumption ==
  /\ HistorySize \in Nat \ {0} /\ MaxFile \in Nat
  /\ Blank \subseteq Lines /\ NoEntry \notin Lines /\ NoFile \notin Seq(Lines)
  /\ AppendPhases \subseteq Phases \ {"truncated"} /\ KillPhases \subseteq Phases
  /\ \A line \in Lines \ Blank : Formatted(line) \subseteq Lines \ Blank

VARIABLES
  entries, entryCount, oldest, newest,
  browsed,         \* browsed_entry_index, -1 if none is browsed
  file, phase,
  kept,            \* content read by history_file_trim, without excess lines
  returned         \* what the last browse operation returned

ringVars == <<entries, entryCount, oldest, newest>>
historyVars == <<entries, entryCount, oldest, newest, browsed, file, phase, kept, returned>>

Indexes == 0..(HistorySize - 1)
NoEntries == [i \in Indexes |-> NoEntry]
FileLines == IF file = NoFile THEN <<>> ELSE file
LastLines(lines) == SubSeq(lines, Max({1, Len(lines) - HistorySize + 1}), Len(lines))

(* The zeroed structure of a process that has not called history_init, and *)
(* of one that has called history_destroy.                                 *)
Zeroed ==
  /\ entries' = NoEntries /\ entryCount' = 0 /\ oldest' = 0 /\ newest' = 0
  /\ browsed' = 0 /\ kept' = <<>>

NotInitialized ==
  /\ entries = NoEntries /\ entryCount = 0 /\ oldest = 0 /\ newest = 0
  /\ browsed = 0 /\ kept = <<>>
  /\ phase = "closed" /\ returned = NoEntry
HistoryInit == NotInitialized /\ file = NoFile

-----------------------------------------------------------------------------
(* history_file_trim: read the file, truncate it, write what is kept.      *)
history_file_trim_read ==
  /\ phase = "closed"
  /\ browsed' = -1
  /\ IF Len(FileLines) <= HistorySize
     THEN phase' = "trimmed" /\ UNCHANGED kept
     ELSE phase' = "trimming" /\ kept' = LastLines(FileLines)
  /\ UNCHANGED <<ringVars, file, returned>>

history_file_trim_truncate ==
  /\ phase = "trimming"
  /\ phase' = "truncated"
  /\ file' = <<>>
  /\ UNCHANGED <<ringVars, browsed, kept, returned>>

(* The kept text is printed as a format.                                   *)
history_file_trim_write ==
  /\ phase = "truncated"
  /\ phase' = "trimmed"
  /\ file' \in {text \in [DOMAIN kept -> Lines] :
                  \A i \in DOMAIN kept : text[i] \in Formatted(kept[i])}
  /\ kept' = <<>>
  /\ UNCHANGED <<ringVars, browsed, returned>>

LoadEntries ==
  /\ entries' = [i \in Indexes |-> IF i < Len(file) THEN file[i + 1] ELSE NoEntry]
  /\ entryCount' = Len(file)
  /\ newest' = Len(file) - 1
  /\ oldest' = 0

(* The rest of history_init: load the file, if there is one, and open it   *)
(* for appending, which creates it.                                        *)
history_file_load ==
  /\ phase = "trimmed"
  /\ phase' = "open"
  /\ IF file = NoFile THEN UNCHANGED ringVars ELSE LoadEntries
  /\ file' = FileLines
  /\ UNCHANGED <<browsed, kept, returned>>

history_destroy ==
  /\ phase = "open"
  /\ phase' = "closed"
  /\ Zeroed
  /\ UNCHANGED <<file, returned>>

(* The process is killed; another one may be started.                      *)
Kill ==
  /\ phase \in KillPhases \ {"closed"}
  /\ phase' = "closed"
  /\ Zeroed
  /\ UNCHANGED <<file, returned>>

(* Another session accepts a line: it appends to the same file.            *)
AppendElsewhere(line) ==
  /\ phase \in AppendPhases
  /\ file # NoFile
  /\ Len(file) < MaxFile
  /\ line \notin Blank
  /\ file' = Append(file, line)
  /\ UNCHANGED <<ringVars, browsed, phase, kept, returned>>

-----------------------------------------------------------------------------
(* Mutation: the oldest entry does not move when it is overwritten.        *)
PutInPlace(line) ==
  IF entryCount < HistorySize
  THEN /\ entries' = [entries EXCEPT ![entryCount] = line]
       /\ newest' = entryCount
       /\ entryCount' = entryCount + 1
       /\ UNCHANGED oldest
  ELSE /\ entries' = [entries EXCEPT ![oldest] = line]
       /\ newest' = oldest
       /\ UNCHANGED <<entryCount, oldest>>

Put(line) ==
  IF entryCount < HistorySize
  THEN /\ entries' = [entries EXCEPT ![entryCount] = line]
       /\ newest' = entryCount
       /\ entryCount' = entryCount + 1
       /\ UNCHANGED oldest
  ELSE /\ entries' = [entries EXCEPT ![oldest] = line]
       /\ newest' = oldest
       /\ oldest' = (oldest + 1) % HistorySize
       /\ UNCHANGED entryCount

(* Mutation: a line is compared with the oldest entry.                     *)
IsSkippedAgainstOldest(line) == line \in Blank \/ (entryCount > 0 /\ entries[oldest] = line)

IsSkipped(line) == line \in Blank \/ (entryCount > 0 /\ entries[newest] = line)

history_append_entry(line) ==
  /\ phase = "open"
  /\ Len(file) < MaxFile
  /\ browsed' = -1
  /\ IF IsSkipped(line)
     THEN UNCHANGED <<ringVars, file>>
     ELSE Put(line) /\ file' = Append(file, line)
  /\ UNCHANGED <<phase, kept, returned>>

history_is_browsed == browsed # -1
history_is_newest_entry_browsed == browsed = newest
history_is_oldest_entry_browsed == browsed = oldest

BrowseEntry(index) ==
  /\ browsed' = index
  /\ returned' = entries[index]
  /\ UNCHANGED <<ringVars, file, phase, kept>>

ReturnNoEntry == returned' = NoEntry /\ UNCHANGED <<ringVars, browsed, file, phase, kept>>

(* Mutation: the index before the first is the last one in use.            *)
PreviousIndexInUse == IF browsed = 0 THEN entryCount - 2 ELSE browsed - 1

PreviousIndex == IF browsed = 0 THEN HistorySize - 1 ELSE browsed - 1

history_browse_older_entry ==
  /\ phase = "open"
  /\ IF entryCount = 0 \/ history_is_oldest_entry_browsed
     THEN ReturnNoEntry
     ELSE BrowseEntry(IF history_is_browsed THEN PreviousIndex ELSE newest)

history_browse_newer_entry ==
  /\ phase = "open"
  /\ IF ~history_is_browsed \/ history_is_newest_entry_browsed
     THEN ReturnNoEntry
     ELSE BrowseEntry((browsed + 1) % HistorySize)

history_stop_browsing ==
  /\ phase = "open"
  /\ browsed' = -1
  /\ UNCHANGED <<ringVars, file, phase, kept, returned>>

HistoryNext ==
  \/ history_file_trim_read
  \/ history_file_trim_truncate
  \/ history_file_trim_write
  \/ history_file_load
  \/ history_destroy
  \/ Kill
  \/ \E line \in Lines : history_append_entry(line) \/ AppendElsewhere(line)
  \/ history_browse_older_entry
  \/ history_browse_newer_entry
  \/ history_stop_browsing

HistorySpec == HistoryInit /\ [][HistoryNext]_historyVars

-----------------------------------------------------------------------------
(* The entries of the ring, oldest first.                                  *)
Listed == [i \in 1..entryCount |-> entries[(oldest + i - 1) % HistorySize]]

(* The ring starts at element 0 until it is full and then at the element   *)
(* after the newest one; what is browsed is an entry, and every entry is a *)
(* line that is not blank (history.c:29-34).                               *)
HistoryInv ==
  /\ phase \in Phases
  /\ entryCount \in 0..HistorySize
  /\ oldest \in Indexes
  /\ entries \in [Indexes -> Lines \cup {NoEntry}]
  /\ \A i \in Indexes : i < entryCount <=> entries[i] \in Lines \ Blank
  /\ entryCount > 0 => newest = (oldest + entryCount - 1) % HistorySize
  /\ entryCount = 0 => newest \in {-1, 0}
  /\ entryCount < HistorySize => oldest = 0
  /\ phase = "open" => browsed \in -1..(entryCount - 1)

(* What a session would load: the file, or the text that is about to be    *)
(* written back.                                                           *)
Saved == LastLines(IF phase = "truncated" THEN kept ELSE FileLines)

Promise == INSTANCE RecentEntries
             WITH Size <- HistorySize,
                  saved <- Saved,
                  listed <- Listed,
                  cursor <- IF phase = "open" /\ browsed # -1
                            THEN ((browsed - oldest) % HistorySize) + 1 ELSE 0,
                  answer <- returned

(* What each operation does to that list.                                 *)
OperationsKeepEntries ==
  /\ history_file_trim_read \/ history_file_trim_truncate \/ history_file_trim_write
       => UNCHANGED Promise!recentVars
  /\ history_file_load => Promise!Open
  /\ history_destroy \/ Kill => Promise!Close
  /\ \A line \in Lines :
       /\ history_append_entry(line) => Promise!Enter(line)
       /\ AppendElsewhere(line) => Promise!RememberElsewhere(line)
  /\ history_browse_older_entry => Promise!BrowseOlder
  /\ history_browse_newer_entry => Promise!BrowseNewer
  /\ history_stop_browsing => Promise!StopBrowsing

(* The history remembers the most recent lines of all sessions and browses *)
(* those of its own: a call that appends a line enters that line, a call   *)
(* that browses older or newer entries goes that way and returns the entry,*)
(* and trimming the file loses nothing, whatever the order in which lines  *)
(* are entered and sessions are started, ended and killed (history.c:92,   *)
(* 124, 186-268).                                                          *)
KeepsRecentEntries == Promise!RecentSpec /\ [][OperationsKeepEntries]_historyVars

(* The entries that are loaded fit in the ring (history.c:92).             *)
LoadedEntriesFit == entryCount <= HistorySize
=============================================================================
