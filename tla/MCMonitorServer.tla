-------------------------- MODULE MCMonitorServer --------------------------
(* The start and the monitor with short texts, for TLC: ids and keys of two *)
(* characters, two names, two passwords, and every way in which one part of *)
(* a datagram can be wrong or missing.                                      *)
EXTENDS MonitorServer, FiniteSets

Version == <<"V", "1", ".", "0">>
Key == <<"k", "k">>
Magic == <<"M", "P", "3", "P", " ">>
Id == <<"A", "1">>

U == <<"u">>
V == <<"v">>
P == <<"1">>
Q == <<"2", ":">>

Request(magic, version, id, key, line) ==
    [magic |-> magic, version |-> version, id |-> id, key |-> key, line |-> line,
     newlines |-> 3]

\* The datagram that stops in its first line, in the id or in the key.
Stopped(r, newlines) ==
    [r EXCEPT !.newlines = newlines, !.line = <<>>,
              !.key = IF newlines < 2 THEN <<>> ELSE @,
              !.id = IF newlines < 1 THEN <<>> ELSE @]

BT == <<"B", "T">>
AU(u, p) == <<"A", "U", " ">> \o u \o <<" ">> \o p
MP(u, p) == <<"M", "P", " ">> \o u \o <<" ">> \o p
DU(u) == <<"D", "U", " ">> \o u

Commands ==
    Plain \cup {AU(u, p) : u \in {U, V}, p \in {P, Q}}
          \cup {MP(u, p) : u \in {U, V}, p \in {P, Q}} \cup {DU(U), DU(V)}

NotCommands ==
    {<<>>, <<"B">>, <<"A">>, <<"M">>, <<"D">>, <<"L", "T">>, <<"C", "T">>, <<"H", "T">>, <<"D", "P">>, <<"M", "U">>, <<"A", "C">>,
     <<"B", "T", " ">>, <<"L", "U", "k">>, <<"X">>, <<"B", "T", "NUL", "k">>, <<"B", "NUL", "T">>,
     <<"A", "U">>, <<"A", "U", " ">>, <<"A", "U", " ", "u">>, <<"A", "U", " ", "u", " ">>,
     AU(<<>>, P), AU(U, P) \o <<" ">>, AU(U, P) \o <<"\n">>, MP(U, <<"\n">>),
     <<"M", "P", "u">>, DU(<<>>), DU(U) \o <<" ", "1">>, DU(<<"u", "\n">>),
     DU(U) \o <<"NUL", "k">>, AU(U, P) \o <<"NUL", "k">>}

Magics == {Magic, <<>>, <<"M", "P", "P", "P", " ">>, <<"M", "P", "3", "P">>, <<"V">> \o Magic}
Versions == {Version, <<"V", "2", ".", "0">>, <<"V", "1", "0", ".", "0">>, <<"V", ".", "0">>,
             <<"V", "1", ".", "0", "0">>, <<"V", "1", ".">>, <<"1", ".", "0">>, <<>>}
Ids == {Id, <<"k">>, <<>>, <<"k", "k", "k">>, <<"k", "other">>}
Keys == {Key, <<"k", "A">>, <<"k">>, <<>>, <<"k", "k", "k">>, <<"other", "k">>}

\* Keys that do not fit: they reach uniqueID, and the end of mp3p_data.
LongKeys == {Key \o Key, Key \o Key \o <<"A">>, [i \in 1 .. 4 + 3 + 4 + 4 + 8 |-> "k"]}

\* Behind a datagram: no newline, a newline near and far.
AllResidues == {<<>>, <<"2">>, <<"\n">>, <<"2", "\n">>, <<"2", "2", "NUL", "k", "\n", "k">>}

\* Everything in a right envelope, and one or two parts of the envelope wrong around
\* a right, a wrong and an overlong command.
AllRequests ==
    {Request(Magic, Version, Id, Key, line) : line \in Commands \cup NotCommands}
    \cup UNION {
        {Request(m, Version, Id, Key, line) : m \in Magics}
        \cup {Request(Magic, v, Id, Key, line) : v \in Versions}
        \cup {Request(Magic, Version, i, Key, line) : i \in Ids}
        \cup {Request(Magic, Version, Id, k, line) : k \in Keys}
        \cup {Request(Magic, <<"V", "2", ".", "0">>, Id, k, line) : k \in Keys}
        \cup {Request(Magic, Version, <<"k">>, k, line) : k \in Keys}
        : line \in {AU(U, P), <<"B">>, <<"B", "T", "NUL", "k">>}}
    \cup {Request(Magic, Version, Id, k, AU(U, P)) : k \in LongKeys}
    \cup {Stopped(Request(Magic, v, i, Key, <<>>), n) :
             v \in {Version, <<"V", "1", ".">>}, i \in {Id, <<"k">>}, n \in 0 .. 2}
    \cup {Stopped(Request(Magic, Version, Id, k, <<>>), 2) :
             k \in {<<>>, <<"k">>} \cup LongKeys}

\* Command lines: up to three users, and each way to get one wrong.
Given == {U \o <<":">> \o P, U \o <<":", "2">>, V \o <<":">> \o P}
Wrong == {U \o <<":">>, <<":">> \o P, U, <<>>, Q \o Q, <<"-", "u">>}
Option(a) == <<DashU, a>>

AllArgumentLists ==
    {<<>>, <<1024>>, <<1023>> \o Option(U \o <<":">> \o P), <<1024, U>>,
     <<1024>> \o <<DashU>>, <<1024, U>> \o Option(V \o <<":">> \o P)}
    \cup {<<1024>> \o Option(a) \o Option(b) : a, b \in Given \cup Wrong}
    \cup {<<1024>> \o Option(a) \o Option(b) \o Option(c) : a, b, c \in Given}

AllUsers == {U, V}
AllPasswords == {P, Q, <<"2">>}
=============================================================================
