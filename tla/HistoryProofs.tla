--------------------------- MODULE HistoryProofs ---------------------------
(***************************************************************************)
(* Proofs about the history for every size of the ring, every set of lines *)
(* and any number of sessions, as long as no other session appends between *)
(* the trimming of the file and its loading; and the refinement of         *)
(* RecentEntries, under what WritesWhatItRead adds.                        *)
(***************************************************************************)
EXTENDS History, SequenceTheorems, TLAPS

LoadsWhatItTrimmed == "trimmed" \notin AppendPhases

Accepted == Lines \ Blank

(* What the invariant of the ring rests on: the lines that reach the ring  *)
(* are accepted ones, a file that is about to be loaded fits, and a process*)
(* that has not loaded it has an empty ring.                               *)
StoreInv ==
  /\ file = NoFile \/ file \in Seq(Accepted)
  /\ kept \in Seq(Accepted)
  /\ Len(kept) <= HistorySize
  /\ phase = "open" => file # NoFile
  /\ phase = "trimmed" => Len(FileLines) <= HistorySize
  /\ phase \in {"trimming", "truncated", "trimmed"} => browsed = -1
  /\ phase # "open" => /\ entries = NoEntries /\ entryCount = 0
                       /\ oldest = 0 /\ newest = 0

LEMMA Sizes ==
  /\ HistorySize \in Nat /\ HistorySize > 0
  /\ NoEntry \notin Lines /\ NoEntry \notin Accepted /\ Accepted \subseteq Lines
BY HistoryAssumption DEF Accepted

(* Indexes wrap around once.                                               *)
WrapsOnce(x, n) ==
  /\ x % n \in 0..(n - 1)
  /\ 0 <= x /\ x < n => x % n = x
  /\ n <= x /\ x < n + n => x % n = x - n
  /\ -n <= x /\ x < 0 => x % n = x + n

LEMMA Wraps ==
  ASSUME NEW x \in Int
  PROVE  WrapsOnce(x, HistorySize)
<1>1. \A n \in Nat : n > 0 => WrapsOnce(x, n)
  BY DEF WrapsOnce
<1> QED BY <1>1, Sizes

LEMMA LastLinesType ==
  ASSUME NEW lines \in Seq(Accepted)
  PROVE  /\ LastLines(lines) \in Seq(Accepted)
         /\ Len(LastLines(lines)) <= HistorySize
<1> DEFINE from == Len(lines) - HistorySize + 1
           first == IF from > 1 THEN from ELSE 1
<1>1. Len(lines) \in Nat /\ from \in Int
  BY Sizes
<1> HIDE DEF from
<1>2. Max({1, from}) = first
  BY <1>1 DEF Max
<1>3. first \in Nat \ {0} /\ Len(lines) - first + 1 <= HistorySize
  BY <1>1, Sizes DEF from
<1> HIDE DEF first
<1>4. LastLines(lines) = SubSeq(lines, first, Len(lines))
  BY <1>2 DEF LastLines, from
<1>5. /\ SubSeq(lines, first, Len(lines)) \in Seq(Accepted)
      /\ Len(SubSeq(lines, first, Len(lines))) <= HistorySize
  BY <1>1, <1>3, Sizes
<1> QED BY <1>4, <1>5

LEMMA FileLinesType ==
  ASSUME StoreInv
  PROVE  FileLines \in Seq(Accepted)
BY DEF StoreInv, FileLines

-----------------------------------------------------------------------------
LEMMA StoreStep ==
  ASSUME LoadsWhatItTrimmed, StoreInv, [HistoryNext]_historyVars
  PROVE  StoreInv'
<1>1. CASE history_file_trim_read
  <2>1. FileLines \in Seq(Accepted)
    BY FileLinesType
  <2>2. FileLines' = FileLines
    BY <1>1 DEF history_file_trim_read, FileLines
  <2>3. CASE Len(FileLines) <= HistorySize
    BY <1>1, <2>2, <2>3 DEF history_file_trim_read, ringVars, StoreInv, NoEntries
  <2>4. CASE ~(Len(FileLines) <= HistorySize)
    BY <1>1, <2>1, <2>4, LastLinesType
       DEF history_file_trim_read, ringVars, StoreInv, NoEntries
  <2> QED BY <2>3, <2>4
<1>2. CASE history_file_trim_truncate
  BY <1>2 DEF history_file_trim_truncate, ringVars, StoreInv, NoEntries
<1>3. CASE history_file_trim_write
  <2>1. /\ phase = "truncated" /\ phase' = "trimmed" /\ kept' = <<>>
        /\ UNCHANGED ringVars /\ browsed' = browsed /\ file' \in [DOMAIN kept -> Lines]
        /\ \A i \in DOMAIN kept : file'[i] \in Formatted(kept[i])
    BY <1>3 DEF history_file_trim_write
  <2>2. kept \in Seq(Accepted) /\ Len(kept) \in Nat /\ Len(kept) <= HistorySize
        /\ DOMAIN kept = 1..Len(kept)
    BY DEF StoreInv
  <2>3. \A i \in 1..Len(kept) : file'[i] \in Accepted
    <3>1. \A i \in 1..Len(kept) : kept[i] \in Lines \ Blank
      BY <2>2 DEF Accepted
    <3> QED BY <2>1, <2>2, <3>1, HistoryAssumption DEF Accepted
  <2>4. file' \in [1..Len(kept) -> Accepted]
    BY <2>1, <2>2, <2>3
  <2>5. file' \in Seq(Accepted) /\ Len(file') = Len(kept)
    BY <2>2, <2>4
  <2>6. Len(FileLines') <= HistorySize
    BY <2>2, <2>5, Sizes DEF FileLines
  <2> QED BY <2>1, <2>5, <2>6, Sizes DEF StoreInv, ringVars, NoEntries
<1>4. CASE history_file_load
  <2>1. file' = FileLines /\ phase' = "open" /\ kept' = kept
    BY <1>4 DEF history_file_load
  <2>2. file' \in Seq(Accepted) /\ file' # NoFile
    <3>1. \A lines \in Seq(Accepted) : lines \in Seq(Lines)
      BY Sizes
    <3> QED BY <2>1, <3>1, FileLinesType, HistoryAssumption
  <2> QED BY <2>1, <2>2 DEF StoreInv
<1>5. CASE history_destroy \/ Kill
  <2>1. /\ phase' = "closed" /\ file' = file /\ kept' = <<>>
        /\ entries' = NoEntries /\ entryCount' = 0 /\ oldest' = 0 /\ newest' = 0
    BY <1>5 DEF history_destroy, Kill, Zeroed
  <2>2. NoEntries' = NoEntries
    BY DEF NoEntries
  <2>3. <<>> \in Seq(Accepted) /\ Len(<<>>) <= HistorySize
    BY Sizes
  <2> QED BY <2>1, <2>2, <2>3 DEF StoreInv
<1>6. ASSUME NEW line \in Lines, history_append_entry(line) PROVE StoreInv'
  <2>1. phase = "open" /\ phase' = "open" /\ kept' = kept /\ file \in Seq(Accepted)
    BY <1>6 DEF history_append_entry, StoreInv
  <2>2. CASE IsSkipped(line)
    BY <1>6, <2>1, <2>2 DEF history_append_entry, StoreInv
  <2>3. CASE ~IsSkipped(line)
    <3>1. line \in Accepted /\ file' = Append(file, line)
      BY <1>6, <2>3 DEF history_append_entry, IsSkipped, Accepted
    <3>2. file' \in Seq(Accepted) /\ file' # NoFile
      <4>1. Append(file, line) \in Seq(Accepted) /\ Append(file, line) \in Seq(Lines)
        BY <2>1, <3>1, Sizes
      <4> QED BY <3>1, <4>1, HistoryAssumption
    <3> QED BY <2>1, <3>2 DEF StoreInv
  <2> QED BY <2>2, <2>3
<1>7. ASSUME NEW line \in Lines, AppendElsewhere(line) PROVE StoreInv'
  <2>1. /\ phase' = phase /\ phase # "trimmed" /\ kept' = kept /\ UNCHANGED ringVars
        /\ browsed' = browsed
        /\ file \in Seq(Accepted) /\ line \in Accepted /\ file' = Append(file, line)
    BY <1>7 DEF AppendElsewhere, StoreInv, LoadsWhatItTrimmed, Accepted
  <2>2. file' \in Seq(Accepted) /\ file' # NoFile
    <3>1. Append(file, line) \in Seq(Accepted) /\ Append(file, line) \in Seq(Lines)
      BY <2>1, Sizes
    <3> QED BY <2>1, <3>1, HistoryAssumption
  <2> QED BY <2>1, <2>2 DEF StoreInv, ringVars, NoEntries
<1>8. CASE \/ history_browse_older_entry \/ history_browse_newer_entry
           \/ history_stop_browsing \/ UNCHANGED historyVars
  <2>1. UNCHANGED <<ringVars, file, phase, kept>> /\ (phase = "open" \/ browsed' = browsed)
    BY <1>8 DEF history_browse_older_entry, history_browse_newer_entry,
                history_stop_browsing, BrowseEntry, ReturnNoEntry, historyVars, ringVars
  <2> QED BY <2>1 DEF StoreInv, FileLines, ringVars, NoEntries
<1> QED BY <1>1, <1>2, <1>3, <1>4, <1>5, <1>6, <1>7, <1>8 DEF HistoryNext

-----------------------------------------------------------------------------
LEMMA RingTypes ==
  ASSUME HistoryInv
  PROVE  /\ entryCount \in Nat /\ entryCount <= HistorySize
         /\ oldest \in Nat /\ oldest < HistorySize
         /\ entries \in [Indexes -> Lines \cup {NoEntry}]
         /\ entryCount = 0 => newest \in {-1, 0}
         /\ entryCount > 0 => newest \in 0..(HistorySize - 1)
         /\ newest \in Int
         /\ entryCount < HistorySize => oldest = 0
         /\ 0 < entryCount /\ entryCount < HistorySize => newest = entryCount - 1
         /\ entryCount = HistorySize =>
              newest = IF oldest = 0 THEN HistorySize - 1 ELSE oldest - 1
<1>1. /\ entryCount \in Nat /\ entryCount <= HistorySize
      /\ oldest \in Nat /\ oldest < HistorySize
      /\ entries \in [Indexes -> Lines \cup {NoEntry}]
      /\ entryCount = 0 => newest \in {-1, 0}
      /\ entryCount > 0 => newest = (oldest + entryCount - 1) % HistorySize
      /\ entryCount < HistorySize => oldest = 0
  BY Sizes DEF HistoryInv, Indexes
<1> DEFINE last == oldest + entryCount - 1
           r == last % HistorySize
<1>2. last \in Int /\ last < HistorySize + HistorySize
  BY <1>1, Sizes
<1>3. entryCount > 0 => newest = r
  BY <1>1
<1>4. entryCount > 0 => 0 <= last
  BY <1>1
<1>5. /\ entryCount < HistorySize => last = entryCount - 1
      /\ entryCount = HistorySize => last - HistorySize = oldest - 1
  BY <1>1, Sizes
<1> HIDE DEF last
<1>6. /\ r \in 0..(HistorySize - 1)
      /\ 0 <= last /\ last < HistorySize => r = last
      /\ HistorySize <= last /\ last < HistorySize + HistorySize => r = last - HistorySize
  <2>1. WrapsOnce(last, HistorySize)
    BY <1>2, Wraps
  <2> QED BY <2>1, Zenon DEF WrapsOnce
<1> HIDE DEF r
<1>7. 0 < entryCount /\ entryCount < HistorySize => newest = entryCount - 1
  BY <1>1, <1>2, <1>3, <1>4, <1>5, <1>6, Sizes
<1>8. entryCount = HistorySize =>
        newest = IF oldest = 0 THEN HistorySize - 1 ELSE oldest - 1
  <2>1. SUFFICES ASSUME entryCount = HistorySize
                 PROVE  newest = IF oldest = 0 THEN HistorySize - 1 ELSE oldest - 1
    OBVIOUS
  <2>2. last - HistorySize = oldest - 1 /\ newest = r
    BY <1>3, <1>5, <2>1, Sizes
  <2> QED BY <1>1, <1>2, <1>6, <2>2, Sizes
<1>9. newest \in Int /\ (entryCount > 0 => newest \in 0..(HistorySize - 1))
  BY <1>1, <1>3, <1>6, Sizes
<1> QED BY <1>1, <1>7, <1>8, <1>9

(* The ring after a new entry.                                             *)
LEMMA PutStep ==
  ASSUME HistoryInv, NEW line \in Accepted, Put(line),
         phase' = "open", browsed' = -1
  PROVE  HistoryInv'
<1>0. line \in Lines
  BY Sizes
<1>1. CASE entryCount < HistorySize
  <2>1. /\ entries' = [entries EXCEPT ![entryCount] = line]
        /\ newest' = entryCount /\ entryCount' = entryCount + 1 /\ oldest' = 0
    BY <1>1, RingTypes DEF Put
  <2>2. entryCount \in Indexes /\ entryCount' \in 0..HistorySize /\ oldest' \in Indexes
    BY <1>1, <2>1, RingTypes, Sizes DEF Indexes
  <2>3. entries' \in [Indexes -> Lines \cup {NoEntry}]
    BY <1>0, <2>1, RingTypes
  <2>4. ASSUME NEW i \in Indexes PROVE i < entryCount' <=> entries'[i] \in Lines \ Blank
    <3>1. i \in Int /\ (i < entryCount' <=> i < entryCount \/ i = entryCount)
      BY <2>1, RingTypes DEF Indexes
    <3>2. i < entryCount <=> entries[i] \in Lines \ Blank
      BY DEF HistoryInv
    <3>3. entries'[i] = IF i = entryCount THEN line ELSE entries[i]
      BY <2>1, RingTypes
    <3> QED BY <3>1, <3>2, <3>3 DEF Accepted
  <2>5. newest' = (oldest' + entryCount' - 1) % HistorySize
    <3>1. oldest' + entryCount' - 1 = entryCount
      BY <2>1, RingTypes
    <3>2. entryCount % HistorySize = entryCount
      BY <1>1, RingTypes, Sizes, Wraps DEF WrapsOnce
    <3> QED BY <2>1, <3>1, <3>2
  <2>6. entryCount' # 0 /\ -1 \in -1..(entryCount' - 1)
    BY <2>1, RingTypes
  <2> QED BY <2>1, <2>2, <2>3, <2>4, <2>5, <2>6 DEF HistoryInv, Phases, Indexes
<1>2. CASE ~(entryCount < HistorySize)
  <2>1. /\ entryCount = HistorySize /\ entryCount' = entryCount
        /\ entries' = [entries EXCEPT ![oldest] = line]
        /\ newest' = oldest /\ oldest' = (oldest + 1) % HistorySize
    BY <1>2, RingTypes, Sizes DEF Put
  <2>2. oldest \in Indexes /\ oldest' \in Indexes /\ entryCount' \in 0..HistorySize
    <3>1. (oldest + 1) % HistorySize \in 0..(HistorySize - 1)
      BY RingTypes, Sizes, Wraps DEF WrapsOnce
    <3> QED BY <2>1, <3>1, RingTypes, Sizes DEF Indexes
  <2>3. entries' \in [Indexes -> Lines \cup {NoEntry}]
    BY <1>0, <2>1, RingTypes
  <2>4. ASSUME NEW i \in Indexes PROVE i < entryCount' <=> entries'[i] \in Lines \ Blank
    <3>1. i < entryCount
      BY <2>1, Sizes DEF Indexes
    <3>2. entries[i] \in Lines \ Blank
      BY <3>1 DEF HistoryInv
    <3>3. entries'[i] = IF i = oldest THEN line ELSE entries[i]
      BY <2>1, RingTypes
    <3> QED BY <2>1, <3>1, <3>2, <3>3 DEF Accepted
  <2>5. newest' = (oldest' + entryCount' - 1) % HistorySize
    <3>1. CASE oldest + 1 < HistorySize
      <4>1. oldest' = oldest + 1
        <5>1. oldest + 1 \in Int /\ 0 <= oldest + 1
          BY RingTypes
        <5> QED BY <2>1, <3>1, <5>1, Wraps DEF WrapsOnce
      <4> DEFINE x == oldest' + entryCount' - 1
      <4>2. x = oldest + HistorySize
        BY <2>1, <4>1, RingTypes, Sizes
      <4> HIDE DEF x
      <4>3. x % HistorySize = x - HistorySize
        BY <4>2, RingTypes, Sizes, Wraps DEF WrapsOnce
      <4>4. x - HistorySize = oldest
        BY <4>2, RingTypes, Sizes
      <4> QED BY <2>1, <4>3, <4>4 DEF x
    <3>2. CASE ~(oldest + 1 < HistorySize)
      <4>1. oldest + 1 = HistorySize /\ HistorySize % HistorySize = HistorySize - HistorySize
        BY <3>2, RingTypes, Sizes, Wraps DEF WrapsOnce
      <4>2. oldest' = 0
        BY <2>1, <4>1, Sizes
      <4> DEFINE x == oldest' + entryCount' - 1
      <4>3. x = oldest
        BY <2>1, <4>1, <4>2, RingTypes, Sizes
      <4> HIDE DEF x
      <4>4. x % HistorySize = x
        BY <4>3, RingTypes, Sizes, Wraps DEF WrapsOnce
      <4> QED BY <2>1, <4>3, <4>4 DEF x
    <3> QED BY <3>1, <3>2
  <2>6. entryCount' # 0 /\ -1 \in -1..(entryCount' - 1) /\ ~(entryCount' < HistorySize)
    BY <2>1, Sizes
  <2> QED BY <2>2, <2>3, <2>4, <2>5, <2>6 DEF HistoryInv, Phases, Indexes
<1> QED BY <1>1, <1>2

(* The ring after loading a file that fits.                                *)
LEMMA LoadRing ==
  ASSUME StoreInv, file \in Seq(Accepted), Len(file) <= HistorySize, LoadEntries,
         phase' = "open", browsed' = -1
  PROVE  HistoryInv'
<1>1. /\ entries' = [i \in Indexes |-> IF i < Len(file) THEN file[i + 1] ELSE NoEntry]
      /\ entryCount' = Len(file) /\ newest' = Len(file) - 1 /\ oldest' = 0
      /\ Len(file) \in Nat
  BY DEF LoadEntries
<1>2. ASSUME NEW i \in Indexes, i < Len(file) PROVE file[i + 1] \in Accepted
  BY <1>1, <1>2 DEF Indexes
<1>3. entries' \in [Indexes -> Lines \cup {NoEntry}]
  BY <1>1, <1>2, Sizes
<1>4. ASSUME NEW i \in Indexes PROVE i < entryCount' <=> entries'[i] \in Lines \ Blank
  BY <1>1, <1>2, Sizes DEF Accepted
<1>5. entryCount' > 0 => newest' = (oldest' + entryCount' - 1) % HistorySize
  <2> DEFINE x == oldest' + entryCount' - 1
  <2>1. x = Len(file) - 1
    BY <1>1
  <2> HIDE DEF x
  <2>2. Len(file) > 0 => x % HistorySize = x
    BY <1>1, <2>1, Sizes, Wraps DEF WrapsOnce
  <2> QED BY <1>1, <2>1, <2>2 DEF x
<1>6. /\ entryCount' \in 0..HistorySize /\ oldest' \in Indexes
      /\ entryCount' = 0 => newest' \in {-1, 0}
      /\ -1 \in -1..(entryCount' - 1)
  BY <1>1, Sizes DEF Indexes
<1> QED BY <1>1, <1>3, <1>4, <1>5, <1>6 DEF HistoryInv, Phases, Indexes

(* An empty ring, before a session loads the file and after it ends.       *)
LEMMA EmptyRing ==
  ASSUME entries' = NoEntries, entryCount' = 0, oldest' = 0, newest' = 0,
         phase' \in Phases, phase' = "open" => browsed' = -1
  PROVE  HistoryInv'
<1>1. entries' \in [Indexes -> Lines \cup {NoEntry}]
  BY DEF NoEntries
<1>2. ASSUME NEW i \in Indexes PROVE i < entryCount' <=> entries'[i] \in Lines \ Blank
  <2>1. entries'[i] = NoEntry /\ ~(i < 0)
    BY DEF NoEntries, Indexes
  <2> QED BY <2>1, Sizes
<1>3. 0 \in 0..HistorySize /\ 0 \in Indexes /\ -1 \in -1..(0 - 1)
  BY Sizes DEF Indexes
<1> QED BY <1>1, <1>2, <1>3 DEF HistoryInv, Phases, Indexes

(* Browsing stays within the entries.                                      *)
LEMMA BrowseStep ==
  ASSUME HistoryInv, history_browse_older_entry \/ history_browse_newer_entry
  PROVE  /\ UNCHANGED <<ringVars, file, phase, kept>> /\ phase = "open"
         /\ browsed' \in -1..(entryCount - 1)
<1>1. browsed \in -1..(entryCount - 1) /\ phase = "open"
  BY DEF HistoryInv, history_browse_older_entry, history_browse_newer_entry
<1>2. UNCHANGED <<ringVars, file, phase, kept>>
  <2>1. ReturnNoEntry \/ \E index : BrowseEntry(index)
    BY DEF history_browse_older_entry, history_browse_newer_entry
  <2> QED BY <2>1 DEF BrowseEntry, ReturnNoEntry
<1>3. CASE browsed' = browsed
  BY <1>1, <1>2, <1>3
<1>4. CASE history_browse_older_entry /\ browsed' # browsed
  <2>0. entryCount \in Nat
    BY RingTypes
  <2>1. /\ entryCount > 0 /\ browsed # oldest
        /\ browsed' = IF browsed # -1 THEN PreviousIndex ELSE newest
    BY <1>4, <2>0
       DEF history_browse_older_entry, BrowseEntry, ReturnNoEntry, history_is_browsed,
           history_is_oldest_entry_browsed
  <2>2. CASE browsed = -1
    BY <1>1, <1>2, <2>1, <2>2, RingTypes, Sizes
  <2>3. CASE browsed # -1
    <3>1. browsed' = (IF browsed = 0 THEN HistorySize - 1 ELSE browsed - 1)
      BY <2>1, <2>3 DEF PreviousIndex
    <3> QED BY <1>1, <1>2, <2>1, <2>3, <3>1, RingTypes, Sizes
  <2> QED BY <2>2, <2>3
<1>5. CASE history_browse_newer_entry /\ browsed' # browsed
  <2>1. browsed # -1 /\ browsed # newest /\ browsed' = (browsed + 1) % HistorySize
    BY <1>5 DEF history_browse_newer_entry, BrowseEntry, ReturnNoEntry, history_is_browsed,
                history_is_newest_entry_browsed
  <2>2. browsed \in Nat /\ browsed + 1 \in Int /\ browsed + 1 <= entryCount
    BY <1>1, <2>1, RingTypes
  <2> DEFINE next == browsed + 1
  <2>5. next \in Int /\ 0 <= next
    BY <2>2
  <2> HIDE DEF next
  <2>6. WrapsOnce(next, HistorySize)
    BY <2>5, Wraps
  <2>7. /\ (browsed + 1) % HistorySize \in 0..(HistorySize - 1)
        /\ browsed + 1 < HistorySize => (browsed + 1) % HistorySize = browsed + 1
    BY <2>5, <2>6 DEF WrapsOnce, next
  <2>3. CASE entryCount < HistorySize
    <3>1. browsed + 1 < entryCount
      BY <2>1, <2>2, <2>3, RingTypes
    <3>2. (browsed + 1) % HistorySize = browsed + 1
      BY <2>2, <2>3, <2>7, <3>1, RingTypes, Sizes
    <3> QED BY <1>1, <1>2, <2>1, <2>2, <3>1, <3>2, RingTypes
  <2>4. CASE entryCount = HistorySize
    <3> QED BY <1>1, <1>2, <2>1, <2>4, <2>7, RingTypes
  <2> QED BY <2>3, <2>4, RingTypes, Sizes
<1> QED BY <1>1, <1>2, <1>3, <1>4, <1>5

LEMMA RingStep ==
  ASSUME LoadsWhatItTrimmed, StoreInv, HistoryInv, [HistoryNext]_historyVars
  PROVE  HistoryInv'
<1>1. CASE history_file_trim_read \/ history_file_trim_truncate \/ history_file_trim_write
  <2>1. /\ UNCHANGED ringVars /\ phase' \in Phases /\ phase # "open" /\ phase' # "open"
    BY <1>1 DEF history_file_trim_read, history_file_trim_truncate,
                history_file_trim_write, ringVars, Phases
  <2>2. entries' = NoEntries /\ entryCount' = 0 /\ oldest' = 0 /\ newest' = 0
    BY <2>1 DEF StoreInv, ringVars
  <2> QED BY <2>1, <2>2, EmptyRing
<1>2. CASE history_file_load
  <2>1. phase = "trimmed" /\ phase' = "open" /\ browsed' = browsed
    BY <1>2 DEF history_file_load
  <2>2. browsed' = -1
    BY <2>1 DEF StoreInv
  <2>3. CASE file = NoFile
    <3>1. entries' = NoEntries /\ entryCount' = 0 /\ oldest' = 0 /\ newest' = 0
      BY <1>2, <2>1, <2>3 DEF history_file_load, StoreInv, ringVars
    <3> QED BY <2>1, <2>2, <3>1, EmptyRing DEF Phases
  <2>4. CASE file # NoFile
    <3>1. LoadEntries /\ file \in Seq(Accepted) /\ Len(file) <= HistorySize
      BY <1>2, <2>1, <2>4 DEF history_file_load, StoreInv, FileLines
    <3> QED BY <2>1, <2>2, <3>1, LoadRing
  <2> QED BY <2>3, <2>4
<1>3. CASE history_destroy \/ Kill
  BY <1>3, EmptyRing DEF history_destroy, Kill, Zeroed, Phases
<1>4. ASSUME NEW line \in Lines, history_append_entry(line) PROVE HistoryInv'
  <2>1. phase' = "open" /\ phase = "open" /\ browsed' = -1
    BY <1>4 DEF history_append_entry
  <2>2. CASE IsSkipped(line)
    <3>1. UNCHANGED ringVars /\ -1 \in -1..(entryCount - 1)
      BY <1>4, <2>2, RingTypes DEF history_append_entry
    <3> QED BY <2>1, <3>1 DEF HistoryInv, ringVars, Indexes
  <2>3. CASE ~IsSkipped(line)
    <3>1. line \in Accepted /\ Put(line)
      BY <1>4, <2>3 DEF history_append_entry, IsSkipped, Accepted
    <3> QED BY <2>1, <3>1, PutStep
  <2> QED BY <2>2, <2>3
<1>5. ASSUME NEW line \in Lines, AppendElsewhere(line) PROVE HistoryInv'
  BY <1>5 DEF AppendElsewhere, HistoryInv, ringVars, Indexes
<1>6. CASE history_browse_older_entry \/ history_browse_newer_entry
  BY <1>6, BrowseStep DEF HistoryInv, ringVars, Indexes
<1>7. CASE history_stop_browsing
  <2>1. UNCHANGED ringVars /\ phase' = phase /\ browsed' = -1 /\ -1 \in -1..(entryCount - 1)
    BY <1>7, RingTypes DEF history_stop_browsing
  <2> QED BY <2>1 DEF HistoryInv, ringVars, Indexes
<1>8. CASE UNCHANGED historyVars
  BY <1>8 DEF historyVars, HistoryInv, ringVars, Indexes
<1> QED BY <1>1, <1>2, <1>3, <1>4, <1>5, <1>6, <1>7, <1>8 DEF HistoryNext

LEMMA InitialHistory ==
  ASSUME NotInitialized, file = NoFile \/ file \in Seq(Accepted)
  PROVE  HistoryInv /\ StoreInv
<1>1. entries \in [Indexes -> Lines \cup {NoEntry}]
  BY DEF NotInitialized, NoEntries
<1>2. ASSUME NEW i \in Indexes PROVE i < entryCount <=> entries[i] \in Lines \ Blank
  <2>1. entries[i] = NoEntry /\ ~(i < 0) /\ entryCount = 0
    BY DEF NotInitialized, NoEntries, Indexes
  <2> QED BY <2>1, Sizes
<1>3. 0 \in 0..HistorySize /\ 0 \in Indexes
  BY Sizes DEF Indexes
<1>4. HistoryInv
  BY <1>1, <1>2, <1>3 DEF NotInitialized, HistoryInv, Phases
<1>5. <<>> \in Seq(Accepted) /\ Len(<<>>) <= HistorySize
  BY Sizes
<1>6. StoreInv
  BY <1>5 DEF NotInitialized, StoreInv
<1> QED BY <1>4, <1>6

(* Unless another session appends between trimming and loading, the ring   *)
(* never holds more entries than it has room for, starts at the oldest one,*)
(* and only an entry is browsed (history.c:29-34, 187-273).                *)
THEOREM HistoryRingHolds ==
  ASSUME LoadsWhatItTrimmed
  PROVE  HistorySpec => [](HistoryInv /\ StoreInv)
<1>1. HistoryInit => HistoryInv /\ StoreInv
  BY InitialHistory DEF HistoryInit
<1>2. HistoryInv /\ StoreInv /\ [HistoryNext]_historyVars => HistoryInv' /\ StoreInv'
  BY RingStep, StoreStep
<1> QED BY <1>1, <1>2, PTL DEF HistorySpec

-----------------------------------------------------------------------------
(* What the promise needs besides: a text that is trimmed is written back  *)
(* as it was read, and nothing is appended while it is not in the file.    *)
WritesWhatItRead ==
  /\ \A line \in Accepted : Formatted(line) = {line}
  /\ "trimming" \notin AppendPhases
  /\ "truncated" \notin KillPhases

KeptInv == phase = "trimming" => kept = LastLines(FileLines)

-----------------------------------------------------------------------------
(* The last lines of a list: all of them as long as they are few.          *)
LEMMA LastLinesElements ==
  ASSUME NEW lines \in Seq(Accepted)
  PROVE  /\ LastLines(lines) \in Seq(Accepted)
         /\ Len(lines) <= HistorySize => LastLines(lines) = lines
         /\ Len(lines) > HistorySize =>
              /\ Len(LastLines(lines)) = HistorySize
              /\ \A i \in 1..HistorySize :
                   LastLines(lines)[i] = lines[Len(lines) - HistorySize + i]
<1> DEFINE n == Len(lines)
           from == n - HistorySize + 1
           first == IF from > 1 THEN from ELSE 1
<1>1. n \in Nat /\ from \in Int
  BY Sizes
<1>2. \A i \in 1..n : lines[i] \in Accepted
  BY ElementOfSeq
<1> HIDE DEF from
<1>3. Max({1, from}) = first
  BY <1>1 DEF Max
<1>4. LastLines(lines) = SubSeq(lines, first, n)
  BY <1>3 DEF LastLines, from
<1>5. first \in Int /\ first >= 1
  BY <1>1
<1> HIDE DEF first, n
<1>6. \A i \in first..n : lines[i] \in Accepted
  BY <1>1, <1>2, <1>5
<1>7. /\ SubSeq(lines, first, n) \in Seq(Accepted)
      /\ Len(SubSeq(lines, first, n)) = IF first <= n THEN n - first + 1 ELSE 0
      /\ \A i \in 1..n - first + 1 : SubSeq(lines, first, n)[i] = lines[first + i - 1]
  BY <1>1, <1>5, <1>6, SubSeqProperties
<1>8. CASE n <= HistorySize
  <2>1. first = 1
    BY <1>1, <1>8, Sizes DEF first, from
  <2>2. Len(SubSeq(lines, 1, n)) = n /\ \A i \in 1..n : SubSeq(lines, 1, n)[i] = lines[i]
    BY <1>1, <1>7, <2>1
  <2>3. SubSeq(lines, 1, n) = lines
    BY <1>7, <2>1, <2>2, SeqEqual DEF n
  <2> QED BY <1>1, <1>4, <1>7, <1>8, <2>1, <2>3, Sizes DEF n
<1>9. CASE n > HistorySize
  <2>1. first = n - HistorySize + 1
    BY <1>1, <1>9, Sizes DEF first, from
  <2> QED BY <1>1, <1>4, <1>7, <1>9, <2>1, Sizes DEF n
<1> QED BY <1>1, <1>8, <1>9, Sizes

LEMMA LastLinesTwice ==
  ASSUME NEW lines \in Seq(Accepted)
  PROVE  LastLines(LastLines(lines)) = LastLines(lines)
BY LastLinesElements, LastLinesType

(* Appending to the last lines.                                            *)
LEMMA LastLinesAppend ==
  ASSUME NEW lines \in Seq(Accepted), NEW line \in Accepted
  PROVE  LastLines(Append(lines, line)) = LastLines(Append(LastLines(lines), line))
<1> DEFINE few == LastLines(lines)
           all == Append(lines, line)
           some == Append(few, line)
           n == Len(lines)
<1>1. few \in Seq(Accepted) /\ n \in Nat
  BY LastLinesElements
<1>2. /\ all \in Seq(Accepted) /\ Len(all) = n + 1 /\ all[n + 1] = line
      /\ \A i \in 1..n : all[i] = lines[i]
  BY AppendProperties
<1>3. /\ some \in Seq(Accepted) /\ Len(some) = Len(few) + 1 /\ some[Len(few) + 1] = line
      /\ \A i \in 1..Len(few) : some[i] = few[i]
  BY <1>1, AppendProperties
<1>4. CASE n <= HistorySize
  BY <1>4, LastLinesElements
<1>5. CASE n > HistorySize
  <2>1. Len(few) = HistorySize
        /\ \A i \in 1..HistorySize : few[i] = lines[n - HistorySize + i]
    BY <1>5, LastLinesElements
  <2> HIDE DEF few, all, some, n
  <2>2. /\ LastLines(all) \in Seq(Accepted) /\ Len(LastLines(all)) = HistorySize
        /\ \A i \in 1..HistorySize : LastLines(all)[i] = all[n + 1 - HistorySize + i]
    <3>1. Len(all) > HistorySize
      BY <1>1, <1>2, <1>5, Sizes
    <3>2. \A i \in 1..HistorySize : Len(all) - HistorySize + i = n + 1 - HistorySize + i
      BY <1>1, <1>2, Sizes
    <3> QED BY <1>2, <3>1, <3>2, LastLinesElements
  <2>3. /\ LastLines(some) \in Seq(Accepted) /\ Len(LastLines(some)) = HistorySize
        /\ \A i \in 1..HistorySize : LastLines(some)[i] = some[i + 1]
    <3>1. Len(some) > HistorySize /\ Len(some) - HistorySize = 1
      BY <1>3, <2>1, Sizes
    <3>2. \A i \in 1..HistorySize : Len(some) - HistorySize + i = i + 1
      BY <3>1, Sizes
    <3> QED BY <1>3, <3>1, <3>2, LastLinesElements
  <2>4. ASSUME NEW i \in 1..HistorySize PROVE LastLines(all)[i] = LastLines(some)[i]
    <3>1. CASE i = HistorySize
      <4>1. n + 1 - HistorySize + i = n + 1 /\ i + 1 = Len(few) + 1
        BY <1>1, <2>1, <3>1, Sizes
      <4> QED BY <1>2, <1>3, <2>2, <2>3, <4>1
    <3>2. CASE i # HistorySize
      <4>1. i + 1 \in 1..HistorySize /\ n + 1 - HistorySize + i \in 1..n
            /\ n - HistorySize + (i + 1) = n + 1 - HistorySize + i
        BY <1>1, <1>5, <3>2, Sizes
      <4>2. LastLines(some)[i] = few[i + 1]
        BY <1>3, <2>1, <2>3, <4>1
      <4>3. LastLines(all)[i] = lines[n + 1 - HistorySize + i]
        BY <1>2, <2>2, <4>1
      <4>4. few[i + 1] = lines[n - HistorySize + (i + 1)]
        BY <2>1, <4>1
      <4> QED BY <4>1, <4>2, <4>3, <4>4
    <3> QED BY <3>1, <3>2
  <2>5. LastLines(all) = LastLines(some)
    BY <2>2, <2>3, <2>4, SeqEqual
  <2> QED BY <2>5 DEF all, some, few
<1> QED BY <1>1, <1>4, <1>5, Sizes

(* A full list that is appended to.                                        *)
LEMMA LastLinesOfFull ==
  ASSUME NEW lines \in Seq(Accepted), Len(lines) = HistorySize, NEW line \in Accepted
  PROVE  /\ LastLines(Append(lines, line)) \in Seq(Accepted)
         /\ Len(LastLines(Append(lines, line))) = HistorySize
         /\ \A i \in 1..HistorySize :
              LastLines(Append(lines, line))[i] =
                IF i = HistorySize THEN line ELSE lines[i + 1]
<1> DEFINE all == Append(lines, line)
<1>1. /\ all \in Seq(Accepted) /\ Len(all) = HistorySize + 1 /\ all[HistorySize + 1] = line
      /\ \A i \in 1..HistorySize : all[i] = lines[i]
  BY AppendProperties
<1> HIDE DEF all
<1>2. Len(all) > HistorySize /\ \A i \in 1..HistorySize : Len(all) - HistorySize + i = i + 1
  BY <1>1, Sizes
<1>3. /\ LastLines(all) \in Seq(Accepted) /\ Len(LastLines(all)) = HistorySize
      /\ \A i \in 1..HistorySize : LastLines(all)[i] = all[i + 1]
  BY <1>1, <1>2, LastLinesElements
<1>4. \A i \in 1..HistorySize : all[i + 1] = IF i = HistorySize THEN line ELSE lines[i + 1]
  BY <1>1, Sizes
<1> QED BY <1>3, <1>4 DEF all

LEMMA RecentIsLastLines ==
  \A lines : Promise!Recent(lines) = LastLines(lines)
BY DEF Promise!Recent, LastLines, Promise!Max, Max

-----------------------------------------------------------------------------
(* The ring as a list: where the entries are, and the other way round.     *)
At(i) == IF oldest + i - 1 < HistorySize THEN oldest + i - 1 ELSE oldest + i - 1 - HistorySize
Position(k) == IF k >= oldest THEN k - oldest + 1 ELSE k - oldest + 1 + HistorySize

RingListed ==
  /\ Listed \in Seq(Accepted) /\ Len(Listed) = entryCount
  /\ \A i \in 1..entryCount :
       Listed[i] = entries[At(i)] /\ At(i) \in Indexes /\ At(i) < entryCount

LEMMA ListedEntries == HistoryInv => RingListed
<1> SUFFICES ASSUME HistoryInv PROVE RingListed
  OBVIOUS
<1>1. ASSUME NEW i \in 1..entryCount
      PROVE  /\ (oldest + i - 1) % HistorySize = At(i)
             /\ At(i) \in Indexes /\ At(i) < entryCount
  <2> DEFINE x == oldest + i - 1
  <2>1. x \in Int /\ 0 <= x /\ x < HistorySize + HistorySize
    BY RingTypes, Sizes
  <2>2. At(i) = IF x < HistorySize THEN x ELSE x - HistorySize
    BY RingTypes, Sizes DEF At
  <2>3. entryCount < HistorySize => x < entryCount
    BY RingTypes
  <2> HIDE DEF x
  <2>4. x % HistorySize = At(i)
    <3>1. WrapsOnce(x, HistorySize)
      BY <2>1, Wraps
    <3> QED BY <2>1, <2>2, <3>1, Sizes DEF WrapsOnce
  <2>5. At(i) \in Indexes
    BY <2>1, <2>2, Sizes DEF Indexes
  <2>6. At(i) < entryCount
    BY <2>1, <2>2, <2>3, RingTypes, Sizes
  <2> QED BY <2>4, <2>5, <2>6 DEF x
<1>2. ASSUME NEW i \in 1..entryCount PROVE entries[At(i)] \in Accepted
  BY <1>1 DEF HistoryInv, Accepted
<1>3. Listed = [i \in 1..entryCount |-> entries[At(i)]]
  BY <1>1 DEF Listed
<1>4. entryCount \in Nat
  BY RingTypes
<1>5. Listed \in Seq(Accepted) /\ Len(Listed) = entryCount
  BY <1>2, <1>3, <1>4
<1> QED BY <1>1, <1>3, <1>5 DEF RingListed

LEMMA PositionOfIndex ==
  ASSUME HistoryInv, NEW k \in Indexes, k < entryCount
  PROVE  /\ ((k - oldest) % HistorySize) + 1 = Position(k)
         /\ Position(k) \in 1..entryCount /\ At(Position(k)) = k
<1> DEFINE x == k - oldest
<1>1. x \in Int /\ -HistorySize <= x /\ x < HistorySize
  BY RingTypes, Sizes DEF Indexes
<1>2. k \in Int /\ Position(k) = IF 0 <= x THEN x + 1 ELSE x + 1 + HistorySize
  BY RingTypes DEF Position, Indexes
<1>3. entryCount < HistorySize => x = k
  BY RingTypes DEF Indexes
<1>4. oldest + x = k /\ 0 <= k /\ k < HistorySize
  BY RingTypes, Sizes DEF Indexes
<1> HIDE DEF x
<1>5. (x % HistorySize) + 1 = Position(k)
  <2>1. WrapsOnce(x, HistorySize)
    BY <1>1, Wraps
  <2> QED BY <1>1, <1>2, <2>1, Sizes DEF WrapsOnce
<1>6. Position(k) \in 1..entryCount
  BY <1>1, <1>2, <1>3, <1>4, RingTypes, Sizes
<1>7. At(Position(k)) = k
  BY <1>1, <1>2, <1>4, RingTypes, Sizes DEF At
<1> QED BY <1>5, <1>6, <1>7 DEF x

(* The oldest entry, the newest one and the neighbours of an entry.        *)
LEMMA Positions ==
  ASSUME HistoryInv, entryCount > 0
  PROVE  /\ \A k \in Indexes : k < entryCount => (k = oldest <=> Position(k) = 1)
         /\ \A k \in Indexes : k < entryCount => (k = newest <=> Position(k) = entryCount)
         /\ newest \in Indexes /\ newest < entryCount
         /\ \A k \in Indexes : k < entryCount /\ k # oldest =>
              LET p == IF k = 0 THEN HistorySize - 1 ELSE k - 1
              IN  p \in Indexes /\ p < entryCount /\ Position(p) = Position(k) - 1
         /\ \A k \in Indexes : k < entryCount /\ k # newest =>
              LET n == (k + 1) % HistorySize
              IN  n \in Indexes /\ n < entryCount /\ Position(n) = Position(k) + 1
<1> USE Sizes, RingTypes DEF Indexes
<1>1. \A k \in Indexes : k < entryCount => (k = oldest <=> Position(k) = 1)
  BY DEF Position
<1>2. newest \in Indexes /\ newest < entryCount
  OBVIOUS
<1>3. \A k \in Indexes : k < entryCount => (k = newest <=> Position(k) = entryCount)
  BY DEF Position
<1>4. ASSUME NEW k \in Indexes, k < entryCount, k # oldest
      PROVE  LET p == IF k = 0 THEN HistorySize - 1 ELSE k - 1
             IN  p \in Indexes /\ p < entryCount /\ Position(p) = Position(k) - 1
  BY <1>4 DEF Position
<1>5. ASSUME NEW k \in Indexes, k < entryCount, k # newest
      PROVE  LET n == (k + 1) % HistorySize
             IN  n \in Indexes /\ n < entryCount /\ Position(n) = Position(k) + 1
  <2> DEFINE x == k + 1
             n == IF x < HistorySize THEN x ELSE 0
  <2>1. x \in Int /\ 0 <= x /\ x <= HistorySize
    OBVIOUS
  <2>2. n \in Indexes /\ n < entryCount /\ Position(n) = Position(k) + 1
    BY <1>5 DEF Position
  <2> HIDE DEF x
  <2>3. x % HistorySize = n
    <3>1. WrapsOnce(x, HistorySize)
      BY <2>1, Wraps
    <3> QED BY <2>1, <3>1 DEF WrapsOnce
  <2> QED BY <2>2, <2>3 DEF x
<1> QED BY <1>1, <1>2, <1>3, <1>4, <1>5

(* The list is empty exactly when the ring is, and ends in its newest line.*)
LEMMA ListedEnds ==
  ASSUME HistoryInv
  PROVE  /\ Listed = <<>> <=> entryCount = 0
         /\ entryCount > 0 => Listed[entryCount] = entries[newest]
<1>1. Listed \in Seq(Accepted) /\ Len(Listed) = entryCount
  BY ListedEntries DEF RingListed
<1>2. ASSUME entryCount > 0 PROVE Listed[entryCount] = entries[newest]
  <2>1. Position(newest) = entryCount /\ newest \in Indexes /\ newest < entryCount
    BY <1>2, Positions
  <2>2. At(entryCount) = newest /\ entryCount \in 1..entryCount
    BY <2>1, PositionOfIndex
  <2> QED BY <2>2, ListedEntries DEF RingListed
<1> QED BY <1>1, <1>2, RingTypes, EmptySeq

-----------------------------------------------------------------------------
(* A line that is remembered.                                              *)
LEMMA PutAppends ==
  ASSUME HistoryInv, HistoryInv', NEW line \in Accepted, Put(line)
  PROVE  Listed' = LastLines(Append(Listed, line))
<1> USE Sizes, RingTypes
<1>1. /\ Listed \in Seq(Accepted) /\ Len(Listed) = entryCount
      /\ \A i \in 1..entryCount : Listed[i] = entries[At(i)] /\ At(i) \in Indexes
  BY ListedEntries DEF RingListed
<1>2. /\ Listed' \in Seq(Accepted) /\ Len(Listed') = entryCount'
      /\ \A i \in 1..entryCount' : Listed'[i] = entries'[At(i)']
  <2>1. RingListed'
    BY ListedEntries, PTL
  <2> QED BY <2>1 DEF RingListed
<1>3. CASE entryCount < HistorySize
  <2>1. /\ entries' = [entries EXCEPT ![entryCount] = line]
        /\ entryCount' = entryCount + 1 /\ oldest = 0 /\ oldest' = 0
    BY <1>3 DEF Put
  <2>2. /\ Append(Listed, line) \in Seq(Accepted)
        /\ Len(Append(Listed, line)) = entryCount + 1
        /\ Append(Listed, line)[entryCount + 1] = line
        /\ \A i \in 1..entryCount : Append(Listed, line)[i] = Listed[i]
    BY <1>1, AppendProperties
  <2>3. LastLines(Append(Listed, line)) = Append(Listed, line)
    <3> DEFINE all == Append(Listed, line)
    <3>1. all \in Seq(Accepted) /\ Len(all) <= HistorySize
      BY <1>3, <2>2
    <3> HIDE DEF all
    <3>2. LastLines(all) = all
      BY <3>1, LastLinesElements
    <3> QED BY <3>2 DEF all
  <2>4. ASSUME NEW i \in 1..entryCount + 1 PROVE Listed'[i] = Append(Listed, line)[i]
    <3>1. At(i)' = i - 1 /\ At(i) = i - 1 /\ i - 1 \in Indexes
      BY <1>3, <2>1 DEF At, Indexes
    <3>2. Listed'[i] = IF i - 1 = entryCount THEN line ELSE entries[i - 1]
      BY <1>2, <2>1, <3>1
    <3>3. CASE i = entryCount + 1
      BY <2>2, <3>2, <3>3
    <3>4. CASE i # entryCount + 1
      <4>1. i \in 1..entryCount
        BY <3>4
      <4> QED BY <1>1, <2>2, <3>1, <3>2, <3>4, <4>1
    <3> QED BY <3>3, <3>4
  <2>5. Listed' = Append(Listed, line)
    BY <1>2, <2>1, <2>2, <2>4, SeqEqual
  <2> QED BY <2>3, <2>5
<1>4. CASE ~(entryCount < HistorySize)
  <2>1. /\ entryCount = HistorySize /\ entryCount' = HistorySize
        /\ entries' = [entries EXCEPT ![oldest] = line]
        /\ oldest' = (oldest + 1) % HistorySize
    BY <1>4 DEF Put
  <2> DEFINE x == oldest + 1
  <2>2. oldest' = IF x < HistorySize THEN x ELSE 0
    <3>1. x \in Int /\ 0 <= x /\ x <= HistorySize
      OBVIOUS
    <3>2. oldest' = x % HistorySize
      BY <2>1
    <3> HIDE DEF x
    <3>3. WrapsOnce(x, HistorySize)
      BY <3>1, Wraps
    <3> QED BY <3>1, <3>2, <3>3 DEF WrapsOnce
  <2>3. LET longer == LastLines(Append(Listed, line))
        IN  /\ longer \in Seq(Accepted) /\ Len(longer) = HistorySize
            /\ \A i \in 1..HistorySize :
                 longer[i] = IF i = HistorySize THEN line ELSE Listed[i + 1]
    BY <1>1, <2>1, LastLinesOfFull
  <2>4. ASSUME NEW i \in 1..HistorySize
        PROVE  Listed'[i] = IF i = HistorySize THEN line ELSE Listed[i + 1]
    <3>1. CASE i = HistorySize
      <4>1. At(i)' = oldest
        BY <2>2, <3>1 DEF At
      <4>2. Listed'[i] = entries'[oldest]
        BY <1>2, <2>1, <4>1
      <4>3. entries'[oldest] = line
        BY <2>1 DEF Indexes
      <4> QED BY <3>1, <4>2, <4>3
    <3>2. CASE i # HistorySize
      <4>1. i + 1 \in 1..entryCount /\ At(i)' = At(i + 1) /\ At(i + 1) # oldest
        BY <2>1, <2>2, <3>2 DEF At
      <4>2. Listed'[i] = entries'[At(i + 1)] /\ At(i + 1) \in Indexes
        BY <1>1, <1>2, <2>1, <4>1
      <4>3. entries'[At(i + 1)] = entries[At(i + 1)]
        BY <2>1, <4>1, <4>2
      <4> QED BY <1>1, <3>2, <4>1, <4>2, <4>3
    <3> QED BY <3>1, <3>2
  <2>5. Listed' = LastLines(Append(Listed, line))
    BY <1>2, <2>1, <2>3, <2>4, SeqEqual
  <2> QED BY <2>5
<1> QED BY <1>3, <1>4

(* A session that has loaded the file lists all of it.                     *)
LEMMA LoadLists ==
  ASSUME StoreInv, HistoryInv', history_file_load
  PROVE  Listed' = LastLines(FileLines) /\ Len(FileLines) <= HistorySize
<1> USE Sizes
<1>1. FileLines \in Seq(Accepted) /\ Len(FileLines) <= HistorySize
  BY FileLinesType DEF StoreInv, history_file_load
<1>2. LastLines(FileLines) = FileLines
  BY <1>1, LastLinesElements
<1>3. /\ entryCount' = Len(FileLines) /\ oldest' = 0
      /\ \A i \in 1..Len(FileLines) : entries'[i - 1] = FileLines[i]
  <2>1. CASE file = NoFile
    <3>1. FileLines = <<>> /\ Len(FileLines) = 0 /\ entryCount' = 0 /\ oldest' = 0
      BY <2>1 DEF FileLines, history_file_load, StoreInv, ringVars
    <3> QED BY <3>1
  <2>2. CASE file # NoFile
    <3>1. FileLines = file /\ LoadEntries
      BY <2>2 DEF FileLines, history_file_load
    <3>2. ASSUME NEW i \in 1..Len(FileLines) PROVE entries'[i - 1] = FileLines[i]
      <4>1. i - 1 \in Indexes /\ i - 1 < Len(file) /\ (i - 1) + 1 = i
        BY <1>1, <3>1 DEF Indexes
      <4> QED BY <3>1, <4>1 DEF LoadEntries
    <3> QED BY <3>1, <3>2 DEF LoadEntries
  <2> QED BY <2>1, <2>2
<1>4. /\ Listed' \in Seq(Accepted) /\ Len(Listed') = entryCount'
      /\ \A i \in 1..entryCount' : Listed'[i] = entries'[At(i)']
  <2>1. RingListed'
    BY ListedEntries, PTL
  <2> QED BY <2>1 DEF RingListed
<1>5. ASSUME NEW i \in 1..Len(FileLines) PROVE At(i)' = i - 1
  BY <1>1, <1>3 DEF At
<1>6. Listed' = FileLines
  BY <1>1, <1>3, <1>4, <1>5, SeqEqual
<1> QED BY <1>1, <1>2, <1>6

(* A line is appended to the file.                                         *)
LEMMA SavedAppends ==
  ASSUME StoreInv, file # NoFile, NEW line \in Accepted, file' = Append(file, line),
         phase # "truncated", phase' = phase
  PROVE  Saved' = LastLines(Append(Saved, line))
<1>1. file \in Seq(Accepted)
  BY DEF StoreInv
<1>2. Append(file, line) # NoFile
  <2>1. Append(file, line) \in Seq(Lines)
    BY <1>1, Sizes
  <2> QED BY <2>1, HistoryAssumption
<1>3. Saved = LastLines(file) /\ Saved' = LastLines(Append(file, line))
  BY <1>2 DEF Saved, FileLines, LastLines
<1> QED BY <1>1, <1>3, LastLinesAppend

-----------------------------------------------------------------------------
(* The history is a list of recent entries.                                *)
Cursor == IF phase = "open" /\ browsed # -1 THEN ((browsed - oldest) % HistorySize) + 1 ELSE 0
promiseVars == <<Saved, Listed, Cursor, returned>>

LEMMA CursorIsPosition ==
  ASSUME HistoryInv, phase = "open", browsed # -1
  PROVE  /\ Cursor = Position(browsed) /\ browsed \in Indexes /\ browsed < entryCount
         /\ entryCount > 0
<1>1. browsed \in Indexes /\ browsed < entryCount /\ entryCount > 0
  BY RingTypes, Sizes DEF HistoryInv, Indexes
<1>2. ((browsed - oldest) % HistorySize) + 1 = Position(browsed)
  BY <1>1, PositionOfIndex
<1> QED BY <1>1, <1>2 DEF Cursor

(* The text that is trimmed stays what would be loaded.                    *)
LEMMA KeptStep ==
  ASSUME WritesWhatItRead, StoreInv, KeptInv, [HistoryNext]_historyVars
  PROVE  KeptInv'
<1> SUFFICES ASSUME phase' = "trimming" PROVE kept' = LastLines(FileLines')
  BY DEF KeptInv, LastLines
<1>1. CASE history_file_trim_read
  BY <1>1 DEF history_file_trim_read, FileLines
<1>2. CASE UNCHANGED <<file, phase, kept>>
  BY <1>2 DEF KeptInv, FileLines
<1>3. ASSUME NEW line \in Lines, AppendElsewhere(line) PROVE FALSE
  BY <1>3 DEF AppendElsewhere, WritesWhatItRead
<1>4. ASSUME NEW line \in Lines, history_append_entry(line) PROVE FALSE
  BY <1>4 DEF history_append_entry
<1> QED BY <1>1, <1>2, <1>3, <1>4
        DEF HistoryNext, history_file_trim_truncate, history_file_trim_write,
            history_file_load, history_destroy, Kill, historyVars,
            history_browse_older_entry, history_browse_newer_entry,
            history_stop_browsing, BrowseEntry, ReturnNoEntry

(* Trimming changes neither the list nor what the next session would load. *)
LEMMA TrimStutters ==
  ASSUME WritesWhatItRead, HistoryInv, StoreInv, KeptInv,
         history_file_trim_read \/ history_file_trim_truncate \/ history_file_trim_write
  PROVE  UNCHANGED promiseVars
<1>1. UNCHANGED ringVars /\ returned' = returned /\ phase # "open" /\ phase' # "open"
  BY DEF history_file_trim_read, history_file_trim_truncate, history_file_trim_write
<1>2. Listed' = Listed /\ Cursor' = Cursor
  BY <1>1 DEF Listed, Cursor, ringVars
<1>3. FileLines \in Seq(Accepted) /\ kept \in Seq(Accepted)
  BY FileLinesType DEF StoreInv
<1>4. CASE history_file_trim_read
  <2>1. phase # "truncated" /\ phase' # "truncated" /\ file' = file
    BY <1>4 DEF history_file_trim_read
  <2> QED BY <1>1, <1>2, <2>1 DEF promiseVars, Saved, FileLines, LastLines
<1>5. CASE history_file_trim_truncate
  <2>1. phase = "trimming" /\ phase' = "truncated" /\ kept' = kept
        /\ kept = LastLines(FileLines)
    BY <1>5 DEF history_file_trim_truncate, KeptInv
  <2>2. Saved = LastLines(FileLines) /\ Saved' = LastLines(kept)
    BY <2>1 DEF Saved, LastLines
  <2> QED BY <1>1, <1>2, <1>3, <2>1, <2>2, LastLinesTwice DEF promiseVars
<1>6. CASE history_file_trim_write
  <2>1. /\ phase = "truncated" /\ phase' = "trimmed"
        /\ file' \in [DOMAIN kept -> Lines]
        /\ \A i \in DOMAIN kept : file'[i] \in Formatted(kept[i])
    BY <1>6 DEF history_file_trim_write
  <2>2. Len(kept) \in Nat /\ DOMAIN kept = 1..Len(kept)
        /\ \A i \in 1..Len(kept) : kept[i] \in Accepted
    BY <1>3, ElementOfSeq
  <2>3. \A i \in 1..Len(kept) : file'[i] = kept[i]
    BY <2>1, <2>2 DEF WritesWhatItRead
  <2>4. file' \in [1..Len(kept) -> Lines]
    BY <2>1, <2>2
  <2>5. kept \in [1..Len(kept) -> Lines]
    BY <1>3, <2>2, Sizes
  <2>6. file' = kept
    BY <2>3, <2>4, <2>5
  <2>7. kept # NoFile
    BY <1>3, <2>2, <2>5, HistoryAssumption
  <2>8. Saved = LastLines(kept) /\ Saved' = LastLines(kept)
    BY <2>1, <2>6, <2>7 DEF Saved, FileLines, LastLines
  <2> QED BY <1>1, <1>2, <2>8 DEF promiseVars
<1> QED BY <1>1, <1>2, <1>4, <1>5, <1>6 DEF promiseVars

LEMMA SessionSteps ==
  ASSUME WritesWhatItRead, HistoryInv, StoreInv, HistoryInv'
  PROVE  /\ history_file_load => Promise!Open
         /\ history_destroy \/ Kill => Promise!Close
<1>1. ASSUME history_file_load PROVE Promise!Open
  <2>1. /\ phase = "trimmed" /\ phase' = "open" /\ browsed' = -1 /\ returned' = returned
        /\ file' = FileLines
    BY <1>1 DEF history_file_load, StoreInv
  <2>2. Listed' = LastLines(FileLines) /\ Len(FileLines) <= HistorySize
    BY <1>1, LoadLists
  <2>3. FileLines \in Seq(Accepted) /\ FileLines # NoFile
    <3>1. \A lines \in Seq(Accepted) : lines \in Seq(Lines)
      BY Sizes
    <3> QED BY <3>1, FileLinesType, HistoryAssumption
  <2>4. Saved = LastLines(FileLines) /\ Saved' = LastLines(FileLines)
    BY <2>1, <2>3 DEF Saved, FileLines, LastLines
  <2> QED BY <2>1, <2>2, <2>4 DEF Promise!Open
<1>2. ASSUME history_destroy \/ Kill PROVE Promise!Close
  <2>1. /\ phase' = "closed" /\ phase # "truncated" /\ file' = file
        /\ returned' = returned /\ entryCount' = 0
    BY <1>2 DEF history_destroy, Kill, Zeroed, WritesWhatItRead
  <2>2. Listed' = <<>>
    <3>1. HistoryInv => (Listed = <<>> <=> entryCount = 0)
      BY ListedEnds
    <3> QED BY <2>1 DEF Listed
  <2>3. Saved' = Saved
    BY <2>1 DEF Saved, FileLines, LastLines
  <2> QED BY <2>1, <2>2, <2>3 DEF Promise!Close
<1> QED BY <1>1, <1>2

LEMMA AppendSteps ==
  ASSUME HistoryInv, StoreInv, HistoryInv', NEW line \in Lines
  PROVE  /\ history_append_entry(line) => Promise!Enter(line)
         /\ AppendElsewhere(line) => Promise!RememberElsewhere(line)
<1>1. IsSkipped(line) <=> line \in Blank \/ (Listed # <<>> /\ line = Promise!Last(Listed))
  <2>1. Len(Listed) = entryCount
    BY ListedEntries DEF RingListed
  <2> QED BY <2>1, ListedEnds, RingTypes DEF Promise!Last, IsSkipped
<1>2. ASSUME history_append_entry(line) PROVE Promise!Enter(line)
  <2>1. CASE IsSkipped(line)
    <3>1. Promise!StopBrowsing
      BY <1>2, <2>1 DEF history_append_entry, Promise!StopBrowsing, Saved, FileLines,
                        LastLines, Listed, ringVars
    <3> QED BY <1>1, <2>1, <3>1 DEF Promise!Enter
  <2>2. CASE ~IsSkipped(line)
    <3>1. /\ phase = "open" /\ phase' = "open" /\ browsed' = -1 /\ returned' = returned
          /\ Put(line) /\ file' = Append(file, line) /\ file # NoFile
          /\ line \in Accepted /\ line \notin Blank
          /\ entryCount > 0 => entries[newest] # line
      BY <1>2, <2>2 DEF history_append_entry, IsSkipped, StoreInv, Accepted
    <3>2. Listed' = LastLines(Append(Listed, line))
      BY <3>1, PutAppends
    <3>3. Saved' = LastLines(Append(Saved, line))
      BY <3>1, SavedAppends
    <3>4. Promise!Remember(line)
      BY <3>1, <3>2, <3>3, RecentIsLastLines DEF Promise!Remember
    <3> QED BY <1>1, <2>2, <3>4 DEF Promise!Enter
  <2> QED BY <2>1, <2>2
<1>3. ASSUME AppendElsewhere(line) PROVE Promise!RememberElsewhere(line)
  <2>1. /\ phase \in AppendPhases /\ phase' = phase /\ file # NoFile /\ line \in Accepted
        /\ file' = Append(file, line) /\ UNCHANGED <<ringVars, browsed, returned>>
    BY <1>3 DEF AppendElsewhere, Accepted
  <2>2. phase # "truncated"
    BY <2>1, HistoryAssumption
  <2>3. Saved' = LastLines(Append(Saved, line))
    BY <2>1, <2>2, SavedAppends
  <2> QED BY <2>1, <2>3, RecentIsLastLines DEF Promise!RememberElsewhere, Listed, ringVars
<1> QED BY <1>2, <1>3

(* Browsing to an index of the ring is browsing to its position.           *)
LEMMA BrowsesPosition ==
  ASSUME HistoryInv, phase = "open", NEW k \in Indexes, k < entryCount, BrowseEntry(k)
  PROVE  Promise!Browse(Position(k))
<1>1. /\ browsed' = k /\ returned' = entries[k] /\ UNCHANGED ringVars
      /\ file' = file /\ phase' = phase /\ kept' = kept
  BY DEF BrowseEntry
<1>2. ((k - oldest) % HistorySize) + 1 = Position(k) /\ Listed[Position(k)] = entries[k]
  BY PositionOfIndex, ListedEntries DEF RingListed
<1>3. k # -1
  BY Sizes DEF Indexes
<1>4. (IF phase' = "open" /\ browsed' # -1
       THEN ((browsed' - oldest') % HistorySize) + 1 ELSE 0) = Position(k)
  BY <1>1, <1>2, <1>3 DEF ringVars
<1>5. Saved' = Saved /\ Listed' = Listed
  BY <1>1 DEF Saved, FileLines, LastLines, Listed, ringVars
<1> QED BY <1>1, <1>2, <1>4, <1>5 DEF Promise!Browse

LEMMA NothingBrowsed ==
  ASSUME ReturnNoEntry
  PROVE  Promise!NothingToBrowse
BY DEF ReturnNoEntry, Promise!NothingToBrowse, Saved, FileLines, LastLines, Listed, ringVars

LEMMA BrowseSteps ==
  ASSUME HistoryInv
  PROVE  /\ history_browse_older_entry => Promise!BrowseOlder
         /\ history_browse_newer_entry => Promise!BrowseNewer
         /\ history_stop_browsing => Promise!StopBrowsing
<1> USE RingTypes, Sizes
<1>1. Len(Listed) = entryCount /\ (Listed = <<>> <=> entryCount = 0)
  BY ListedEntries, ListedEnds DEF RingListed
<1>2. ASSUME history_browse_older_entry PROVE Promise!BrowseOlder
  <2>1. phase = "open"
    BY <1>2 DEF history_browse_older_entry
  <2>2. CASE entryCount = 0 \/ browsed = oldest
    <3>1. Promise!NothingToBrowse
      BY <1>2, <2>2, NothingBrowsed
         DEF history_browse_older_entry, history_is_oldest_entry_browsed
    <3>2. Listed = <<>> \/ Cursor = 1
      <4>1. browsed = oldest /\ entryCount > 0 => Cursor = 1
        BY <2>1, CursorIsPosition, Positions
      <4> QED BY <1>1, <2>2, <4>1
    <3> QED BY <3>1, <3>2 DEF Promise!BrowseOlder, Cursor
  <2>3. CASE entryCount # 0 /\ browsed = -1
    <3>1. BrowseEntry(newest)
      BY <1>2, <2>3 DEF history_browse_older_entry, history_is_oldest_entry_browsed,
                        history_is_browsed
    <3>2. newest \in Indexes /\ newest < entryCount /\ Position(newest) = entryCount
      BY <2>3, Positions
    <3>3. Promise!Browse(entryCount)
      BY <2>1, <3>1, <3>2, BrowsesPosition
    <3>4. Listed # <<>> /\ Cursor = 0
      BY <1>1, <2>3 DEF Cursor
    <3> QED BY <1>1, <3>3, <3>4 DEF Promise!BrowseOlder, Cursor
  <2>4. CASE entryCount # 0 /\ browsed # -1 /\ browsed # oldest
    <3>1. BrowseEntry(PreviousIndex)
      BY <1>2, <2>4 DEF history_browse_older_entry, history_is_oldest_entry_browsed,
                        history_is_browsed
    <3>2. Cursor = Position(browsed) /\ browsed \in Indexes /\ browsed < entryCount
      BY <2>1, <2>4, CursorIsPosition
    <3>3. /\ PreviousIndex \in Indexes /\ PreviousIndex < entryCount
          /\ Position(PreviousIndex) = Cursor - 1 /\ Cursor # 1
      BY <2>4, <3>2, Positions DEF PreviousIndex
    <3>4. Promise!Browse(Cursor - 1)
      BY <2>1, <3>1, <3>3, BrowsesPosition
    <3>5. Cursor # 0 /\ Listed # <<>>
      <4>1. Position(browsed) \in 1..entryCount
        BY <3>2, PositionOfIndex
      <4> QED BY <1>1, <2>4, <3>2, <4>1
    <3> QED BY <3>3, <3>4, <3>5 DEF Promise!BrowseOlder, Cursor
  <2> QED BY <2>2, <2>3, <2>4
<1>3. ASSUME history_browse_newer_entry PROVE Promise!BrowseNewer
  <2>1. phase = "open"
    BY <1>3 DEF history_browse_newer_entry
  <2>2. CASE browsed = -1 \/ browsed = newest
    <3>1. Promise!NothingToBrowse
      BY <1>3, <2>2, NothingBrowsed
         DEF history_browse_newer_entry, history_is_newest_entry_browsed, history_is_browsed
    <3>2. Cursor = 0 \/ Cursor = Len(Listed)
      <4>1. browsed # -1 /\ browsed = newest => Cursor = entryCount
        BY <2>1, CursorIsPosition, Positions
      <4> QED BY <1>1, <2>2, <4>1 DEF Cursor
    <3> QED BY <3>1, <3>2 DEF Promise!BrowseNewer, Cursor
  <2>3. CASE browsed # -1 /\ browsed # newest
    <3> DEFINE next == (browsed + 1) % HistorySize
    <3>1. BrowseEntry(next)
      BY <1>3, <2>3
         DEF history_browse_newer_entry, history_is_newest_entry_browsed, history_is_browsed
    <3>2. Cursor = Position(browsed) /\ browsed \in Indexes /\ browsed < entryCount
          /\ entryCount > 0
      BY <2>1, <2>3, CursorIsPosition
    <3>3. /\ next \in Indexes /\ next < entryCount
          /\ Position(next) = Cursor + 1 /\ Cursor # entryCount
      BY <2>3, <3>2, Positions
    <3> HIDE DEF next
    <3>4. Promise!Browse(Cursor + 1)
      BY <2>1, <3>1, <3>3, BrowsesPosition
    <3>5. Cursor # 0
      <4>1. Position(browsed) \in 1..entryCount
        BY <3>2, PositionOfIndex
      <4> QED BY <3>2, <4>1
    <3> QED BY <1>1, <3>3, <3>4, <3>5 DEF Promise!BrowseNewer, Cursor
  <2> QED BY <2>2, <2>3
<1>4. ASSUME history_stop_browsing PROVE Promise!StopBrowsing
  BY <1>4 DEF history_stop_browsing, Promise!StopBrowsing, Saved, FileLines, LastLines,
              Listed, ringVars
<1> QED BY <1>2, <1>3, <1>4

LEMMA EachOperationKeepsEntries ==
  ASSUME WritesWhatItRead, HistoryInv, StoreInv, KeptInv, HistoryInv'
  PROVE  OperationsKeepEntries
<1>1. UNCHANGED promiseVars => UNCHANGED Promise!recentVars
  BY DEF promiseVars, Cursor, Promise!recentVars
<1>2. history_file_trim_read \/ history_file_trim_truncate \/ history_file_trim_write
        => UNCHANGED Promise!recentVars
  BY <1>1, TrimStutters
<1>3. \A line \in Lines :
        /\ history_append_entry(line) => Promise!Enter(line)
        /\ AppendElsewhere(line) => Promise!RememberElsewhere(line)
  BY AppendSteps
<1>4. /\ history_file_load => Promise!Open
      /\ history_destroy \/ Kill => Promise!Close
  BY SessionSteps
<1>5. /\ history_browse_older_entry => Promise!BrowseOlder
      /\ history_browse_newer_entry => Promise!BrowseNewer
      /\ history_stop_browsing => Promise!StopBrowsing
  BY BrowseSteps
<1> QED BY <1>2, <1>3, <1>4, <1>5 DEF OperationsKeepEntries

LEMMA StepRemembers ==
  ASSUME OperationsKeepEntries, [HistoryNext]_historyVars
  PROVE  [Promise!RecentNext]_Promise!recentVars
<1>1. CASE history_file_trim_read \/ history_file_trim_truncate \/ history_file_trim_write
  BY <1>1 DEF OperationsKeepEntries
<1>2. CASE history_file_load \/ history_destroy \/ Kill
  BY <1>2 DEF OperationsKeepEntries, Promise!RecentNext
<1>3. CASE \E line \in Lines : history_append_entry(line) \/ AppendElsewhere(line)
  BY <1>3 DEF OperationsKeepEntries, Promise!RecentNext
<1>4. CASE \/ history_browse_older_entry \/ history_browse_newer_entry
           \/ history_stop_browsing
  BY <1>4 DEF OperationsKeepEntries, Promise!RecentNext
<1>5. CASE UNCHANGED historyVars
  BY <1>5 DEF historyVars, Promise!recentVars, Saved, FileLines, LastLines, Listed
<1> QED BY <1>1, <1>2, <1>3, <1>4, <1>5 DEF HistoryNext

LEMMA InitialPromise == HistoryInit => Promise!RecentInit
<1> SUFFICES ASSUME HistoryInit PROVE Promise!RecentInit
  OBVIOUS
<1>1. <<>> \in Seq(Accepted) /\ Len(<<>>) <= HistorySize
  BY Sizes
<1>2. LastLines(<<>>) = <<>>
  <2> DEFINE none == <<>>
  <2>1. none \in Seq(Accepted) /\ Len(none) <= HistorySize
    BY <1>1
  <2> HIDE DEF none
  <2>2. LastLines(none) = none
    BY <2>1, LastLinesElements
  <2> QED BY <2>2 DEF none
<1>3. Saved = <<>>
  BY <1>2 DEF HistoryInit, NotInitialized, Saved, FileLines
<1>4. Listed = <<>>
  BY DEF HistoryInit, NotInitialized, Listed
<1> QED BY <1>3, <1>4 DEF HistoryInit, NotInitialized, Promise!RecentInit

(* The history is a list of the most recent lines of all sessions, browsed *)
(* in order, whatever the size of the ring, however many sessions append   *)
(* and wherever else they are killed (history.c:92-273), as long as the    *)
(* file is left alone from its reading to its loading and printing a line  *)
(* as a format prints that line.                                           *)
THEOREM HistoryKeepsRecentEntries ==
  ASSUME LoadsWhatItTrimmed, WritesWhatItRead
  PROVE  HistorySpec => KeepsRecentEntries
<1>1. HistoryInit => Promise!RecentInit /\ HistoryInv /\ StoreInv /\ KeptInv
  BY InitialPromise, InitialHistory DEF HistoryInit, NotInitialized, KeptInv
<1>2. HistoryInv /\ StoreInv /\ KeptInv /\ [HistoryNext]_historyVars =>
        HistoryInv' /\ StoreInv' /\ KeptInv'
  BY RingStep, StoreStep, KeptStep
<1>3. HistoryInv /\ StoreInv /\ KeptInv /\ HistoryInv' => [OperationsKeepEntries]_historyVars
  BY EachOperationKeepsEntries
<1>4. HistoryInv /\ StoreInv /\ KeptInv /\ HistoryInv' /\ [HistoryNext]_historyVars =>
        [Promise!RecentNext]_Promise!recentVars
  BY EachOperationKeepsEntries, StepRemembers
<1> QED BY <1>1, <1>2, <1>3, <1>4, PTL
        DEF HistorySpec, KeepsRecentEntries, Promise!RecentSpec
=============================================================================
