--------------------------- MODULE MCCommandParser ---------------------------
\* Instances of the parser: names of two characters, arguments of one, and recv
\* buffers that a line does not fit in.
EXTENDS CommandParser, TLC

CRLF == <<"cr", "lf">>

\* Valid with no, one and two arguments, too short, empty, too long a name, too
\* long an argument, a control character, a lone LF.
WellTerminated ==
    { <<"x", "x">> \o CRLF,
      <<"x", "x", "sp", "x">> \o CRLF,
      <<"x", "x", "sp", "x", "sp", "x">> \o CRLF,
      <<"x">> \o CRLF,
      CRLF,
      <<"x", "x", "x", "x">> \o CRLF,
      <<"x", "x", "sp", "x", "x">> \o CRLF,
      <<"x", "ctl", "x">> \o CRLF,
      <<"x", "lf", "x">> \o CRLF }

\* A third space with nothing behind it, with a character that lands in the second
\* argument, and with a CR whose line end depends on a cut.
ThreeSpaces ==
    { <<"x", "x", "sp", "x", "sp", "sp">> \o CRLF,
      <<"x", "x", "sp", "sp", "sp", "x">> \o CRLF,
      <<"x", "x", "sp", "sp", "sp", "cr", "x", "lf">> }

\* A CR with one character before the LF, with two, with a CR, and in a line that is
\* invalid already.
LoneCRs ==
    { <<"x", "x", "cr", "x", "lf">>,
      <<"x", "x", "cr", "x", "x", "lf">> \o CRLF,
      <<"x", "x", "cr", "cr", "lf">>,
      <<"ctl", "cr", "x", "lf">> \o CRLF }

AllLines == WellTerminated \cup ThreeSpaces \cup LoneCRs

\* Behind the NUL: nothing, the end of a line, a whole command.
Stale == {<<>>, CRLF, <<"cr", "lf", "x", "x", "cr", "lf">>}
=============================================================================
