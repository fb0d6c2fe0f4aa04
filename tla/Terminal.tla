------------------------------ MODULE Terminal ------------------------------
(***************************************************************************)
(* src/cli/terminal.c (POSIX): the process that turns the terminal to      *)
(* noncanonical mode and reads keys, the signals that may arrive between   *)
(* any two of its steps, and the restoration of the terminal when it ends. *)
(***************************************************************************)
EXTENDS TerminalKeys

CONSTANT Signals           \* SIGINT, SIGTERM, SIGHUP, SIGQUIT: in the order of registration

VARIABLES
  mode,                    \* of the terminal: "original" or "noncanonical"
  setup,                   \* how far terminal_enable_noncannonical_mode is
  registered,              \* the signals whose handler it has registered
  handlers,                \* those of them whose handler is still signal_handler
  exitHandler,             \* restore_terminal_parameters is registered with atexit()
  handling,                \* the signal handlers that have not returned, innermost last
  process

modeVars == <<mode, setup, registered, handlers, exitHandler, handling, process>>
terminalVars == <<keyVars, modeVars>>

SignalSet == {Signals[i] : i \in DOMAIN Signals}
Ended == {"exited", "killed", "aborted"}

ASSUME SignalsAssumption ==
  /\ Signals \in Seq(STRING)
  /\ \A i, k \in DOMAIN Signals : Signals[i] = Signals[k] => i = k

ModeInit ==
  /\ mode = "original" /\ setup = "start" /\ registered = 0
  /\ handlers = {} /\ exitHandler = FALSE /\ handling = <<>> /\ process = "running"

TerminalInit == KeysInit /\ ModeInit

(* The process takes a step of its own: no signal handler runs.            *)
Runs == process = "running" /\ handling = <<>>

-----------------------------------------------------------------------------
(* terminal_enable_noncannonical_mode.                                     *)
Setup(from, to) ==
  /\ Runs /\ setup = from
  /\ setup' = to
  /\ UNCHANGED <<registered, handlers, handling, process>>

IsATerminal ==
  /\ Setup("start", "terminal") \/ Setup("start", "not a terminal")
  /\ UNCHANGED <<keyVars, mode, exitHandler>>

EnableNoncanonicalMode ==
  /\ Setup("terminal", "noncanonical")
  /\ mode' = "noncanonical"
  /\ Flush
  /\ UNCHANGED exitHandler

RegisterExitHandler ==
  /\ Setup("noncanonical", "registering")
  /\ exitHandler' = TRUE
  /\ UNCHANGED <<keyVars, mode>>

RegisterSignalHandler ==
  /\ Runs /\ setup = "registering"
  /\ IF registered < Len(Signals)
     THEN /\ registered' = registered + 1
          /\ handlers' = handlers \cup {Signals[registered + 1]}
          /\ UNCHANGED setup
     ELSE setup' = "enabled" /\ UNCHANGED <<registered, handlers>>
  /\ UNCHANGED <<keyVars, mode, exitHandler, handling, process>>

ReadKey == Runs /\ setup = "enabled" /\ terminal_read_key /\ UNCHANGED modeVars

-----------------------------------------------------------------------------
(* exit(): the REPL is left, or ERROR_IO, ERROR_SYSTEM or another reported *)
(* error ends the process, one of the calls above failing included.        *)
Exit ==
  /\ Runs
  /\ process' = "exiting"
  /\ UNCHANGED <<keyVars, mode, setup, registered, handlers, exitHandler, handling>>

RunExitHandler ==
  /\ process = "exiting" /\ handling = <<>>
  /\ mode' = IF exitHandler THEN "original" ELSE mode
  /\ process' = "exited"
  /\ UNCHANGED <<keyVars, setup, registered, handlers, exitHandler, handling>>

(* abort(): a failed assertion or ERROR_INTERNAL anywhere in the program.  *)
Abort ==
  /\ Runs
  /\ process' = "aborted"
  /\ UNCHANGED <<keyVars, mode, setup, registered, handlers, exitHandler, handling>>

-----------------------------------------------------------------------------
(* A signal arrives.  While its handler runs it is blocked and others are  *)
(* not; SA_RESETHAND restores the default action, which ends the process.  *)
Blocked == {handling[i].signal : i \in DOMAIN handling}
Frame(signal) == [signal |-> signal, restored |-> FALSE]

(* Mutation: the handler stays registered, as without SA_RESETHAND.        *)
DeliverKeepingHandler(signal) ==
  /\ process \notin Ended /\ signal \notin Blocked
  /\ IF signal \in handlers
     THEN handling' = Append(handling, Frame(signal)) /\ UNCHANGED <<handlers, process>>
     ELSE process' = "killed" /\ UNCHANGED <<handlers, handling>>
  /\ UNCHANGED <<keyVars, mode, setup, registered, exitHandler>>

Deliver(signal) ==
  /\ process \notin Ended /\ signal \notin Blocked
  /\ IF signal \in handlers
     THEN /\ handling' = Append(handling, Frame(signal))
          /\ handlers' = handlers \ {signal}
          /\ UNCHANGED process
     ELSE process' = "killed" /\ UNCHANGED <<handlers, handling>>
  /\ UNCHANGED <<keyVars, mode, setup, registered, exitHandler>>

(* Mutation: the process ends without the handler having restored the      *)
(* terminal, as if it did not, or did it after a raise that is not blocked.*)
RunSignalHandlerWithoutRestoring ==
  /\ process \notin Ended /\ handling # <<>>
  /\ process' = "killed"
  /\ UNCHANGED <<keyVars, mode, setup, registered, handlers, exitHandler, handling>>

(* signal_handler: restore the terminal, then raise the signal, which is   *)
(* blocked until the handler returns and then takes its default action, or *)
(* that of a handler that is registered for it.                            *)
RunSignalHandler ==
  /\ process \notin Ended /\ handling # <<>>
  /\ LET n == Len(handling)
     IN  IF ~handling[n].restored
         THEN /\ mode' = "original"
              /\ handling' = [handling EXCEPT ![n].restored = TRUE]
              /\ UNCHANGED process
         ELSE IF handling[n].signal \in handlers
         THEN /\ handling' = [handling EXCEPT ![n].restored = FALSE]
              /\ UNCHANGED <<mode, process>>
         ELSE process' = "killed" /\ UNCHANGED <<mode, handling>>
  /\ UNCHANGED <<keyVars, setup, registered, handlers, exitHandler>>

-----------------------------------------------------------------------------
TerminalStep ==
  \/ IsATerminal \/ EnableNoncanonicalMode \/ RegisterExitHandler
  \/ RegisterSignalHandler \/ ReadKey \/ RunExitHandler \/ RunSignalHandler

TerminalEnvironment ==
  \/ process \notin Ended /\ (TypeCharacter \/ HangUp) /\ UNCHANGED modeVars
  \/ Exit \/ Abort
  \/ \E signal \in SignalSet : Deliver(signal)

TerminalNext == TerminalStep \/ TerminalEnvironment
TerminalSpec == TerminalInit /\ [][TerminalNext]_terminalVars
FairTerminalSpec == TerminalSpec /\ WF_terminalVars(TerminalStep)

-----------------------------------------------------------------------------
(* Properties.                                                             *)

(* Type invariant, with the assertion of restore_terminal_parameters       *)
(* (terminal.c 264): it is only registered, and so only called, in         *)
(* noncanonical mode.                                                      *)
TerminalTypeOK ==
  /\ KeysTypeOK
  /\ mode \in {"original", "noncanonical"}
  /\ setup \in {"start", "terminal", "not a terminal", "noncanonical", "registering", "enabled"}
  /\ registered \in 0..Len(Signals) /\ handlers \subseteq SignalSet
  /\ exitHandler \in BOOLEAN
  /\ handling \in Seq([signal : SignalSet, restored : BOOLEAN])
  /\ process \in {"running", "exiting"} \cup Ended
  /\ exitHandler \/ handlers # {} \/ handling # <<>> => setup \in {"registering", "enabled"}

(* Once noncanonical mode is enabled (terminal_enable_noncannonical_mode   *)
(* has returned) the terminal is as it was found when the process is over, *)
(* whether it exits or is ended by a signal, or by several at once, at any *)
(* moment (terminal.h: "registers handlers for terminal parameter          *)
(* restoration upon imminent process termination").  abort() runs no       *)
(* handler and is not meant.                                               *)
RestoredOnTermination ==
  setup = "enabled" /\ process \in {"exited", "killed"} => mode = "original"

(* A signal that is caught ends the process all the same: the handler's    *)
(* raise() does not call the handler again.                                *)
SignalEndsProcess == handling # <<>> ~> process = "killed"

(* Whatever is typed is delivered, a lone ESC and the beginning of a       *)
(* control sequence included, as long as the process runs and reads keys.  *)
InputIsDelivered ==
  []<>(\/ flushed + Len(delivered) = typed
       \/ process # "running" \/ setup = "not a terminal")
=============================================================================
