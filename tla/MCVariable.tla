----------------------------- MODULE MCVariable -----------------------------
EXTENDS Variable, Console, Events

\* With Char8Modulus = 4: "1", "5 4" which converts to it (5 is cut to 1, and the zero
\* byte of 4 ends the name), "1 2", and a name one byte too long for MaxName = 3.
MCNames == {<<1>>, <<5, 4>>, <<1, 2>>, <<1, 2, 3>>}

\* Two rows in mode 0 and four in mode 1, of three columns.
MCRowsOf == <<2, 4>>

MCMessages ==
  {<<"PRINTABLE">>, <<"LINEFEED">>, <<"CARRIAGE_RETURN", "LINEFEED", "PRINTABLE">>,
   <<"PRINTABLE", "PRINTABLE", "PRINTABLE", "BACKSPACE">>, <<"BACKSPACE", "ZERO_LOW_BYTE", "PRINTABLE">>}

\* Positions of both screens, of the larger one, of neither, and one that turns negative
\* with IntModulus = 16.
MCPositions == {<<1, 0>>, <<2, 1>>, <<0, 3>>, <<3, 0>>, <<0, 15>>}

\* The variables, the console and the events share no state: a behaviour is about one.
MCInit == Init /\ console = ConsoleStart /\ events = EventsStart

VariablesIdle == items = << >> /\ last.op = "none"

MCNext ==
  \/ console = ConsoleStart /\ events = EventsStart /\ Next /\ UNCHANGED <<console, events>>
  \/ VariablesIdle /\ events = EventsStart /\ ConsoleNext /\ UNCHANGED <<items, last, events>>
  \/ VariablesIdle /\ console = ConsoleStart /\ EventsNext /\ UNCHANGED <<items, last, console>>

MCSpec == MCInit /\ [][MCNext]_<<vars, console, events>>
=============================================================================
