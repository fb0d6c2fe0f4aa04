--------------------------- MODULE RecentEntries ---------------------------
(***************************************************************************)
(* What the history of the REPL promises: a list of the most recent lines, *)
(* which the sessions save one after another or side by side, and which a  *)
(* session can browse from the newest line to the oldest and back.         *)
(***************************************************************************)
EXTENDS Integers, SequencesExt

CONSTANTS Size,            \* how many lines are remembered
          Lines, Blank,    \* lines, and those that are never remembered
          NoEntry          \* the answer when there is no such line

VARIABLES saved,           \* the lines a session would start with
          listed,          \* the lines of this session, oldest first
          cursor,          \* which of them is browsed; 0: none
          answer           \* what browsing last answered

recentVars == <<saved, listed, cursor, answer>>

Recent(lines) == SubSeq(lines, Max({1, Len(lines) - Size + 1}), Len(lines))

RecentInit ==
  /\ saved = <<>> /\ listed = <<>>
  /\ cursor = 0 /\ answer = NoEntry

Open == listed' = saved /\ cursor' = 0 /\ UNCHANGED <<saved, answer>>
Close == listed' = <<>> /\ cursor' = 0 /\ UNCHANGED <<saved, answer>>

Remember(line) ==
  /\ listed' = Recent(Append(listed, line))
  /\ saved' = Recent(Append(saved, line))
  /\ cursor' = 0
  /\ UNCHANGED answer

StopBrowsing == cursor' = 0 /\ UNCHANGED <<saved, listed, answer>>

(* A line is remembered unless it is blank or the newest one again.        *)
Enter(line) ==
  IF line \in Blank \/ (listed # <<>> /\ line = Last(listed))
  THEN StopBrowsing ELSE Remember(line)

RememberElsewhere(line) ==
  saved' = Recent(Append(saved, line)) /\ UNCHANGED <<listed, cursor, answer>>

Browse(target) ==
  /\ cursor' = target
  /\ answer' = listed[target]
  /\ UNCHANGED <<saved, listed>>

NothingToBrowse == answer' = NoEntry /\ UNCHANGED <<saved, listed, cursor>>

BrowseOlder ==
  IF listed = <<>> \/ cursor = 1 THEN NothingToBrowse
  ELSE Browse(IF cursor = 0 THEN Len(listed) ELSE cursor - 1)

BrowseNewer ==
  IF cursor = 0 \/ cursor = Len(listed) THEN NothingToBrowse
  ELSE Browse(cursor + 1)

RecentNext ==
  \/ Open \/ Close
  \/ \E line \in Lines : Enter(line) \/ RememberElsewhere(line)
  \/ BrowseOlder \/ BrowseNewer \/ StopBrowsing

RecentSpec == RecentInit /\ [][RecentNext]_recentVars
=============================================================================
