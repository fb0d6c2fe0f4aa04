----------------------------- MODULE MCTerminal -----------------------------
(***************************************************************************)
(* Instances of the terminal for TLC: every control sequence, every way to *)
(* leave one early, and what may follow it, another sequence, a control key*)
(* and an escape included.                                                 *)
(***************************************************************************)
EXTENDS Terminal

MCPrintable == {"[", "1", ";", "5", "3", "~", "A", "B", "C", "D", "b", "d", "f", "x"}
MCUnknown == {"0xC3"}
MCSignals == <<"INT", "TERM">>

(* The proper beginnings of control sequences, but for their ESC.          *)
Begun == {<<>>, <<"[">>, <<"[", "1">>, <<"[", "1", ";">>, <<"[", "1", ";", "5">>, <<"[", "3">>}
Endings == {<<>>, <<"x">>, <<"A">>, <<"b">>, <<"ENTER">>, <<"0xC3">>, <<"~">>, <<Esc>>,
            <<Esc, "b">>, <<Esc, "[", "A">>, <<"[", "A">>, <<Esc, Esc, "d">>}

MCScripts ==
  {k.chars : k \in Keys}
    \cup {<<Esc>> \o b \o e : b \in Begun, e \in Endings}
    \cup {<<Esc, Esc>> \o b : b \in Begun} \cup {<<"x", "ENTER", Esc, "d", "CTRL_D">>}
=============================================================================
