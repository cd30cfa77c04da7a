------------------------------ MODULE Datagram ------------------------------
(***************************************************************************)
(* How the server reads a datagram of the monitoring protocol              *)
(* (mp3pFunctions/mp3pFunctions.c): the automaton parseMp3pCharacter,      *)
(* parseDatagram, which runs it over the bytes received and the NUL behind *)
(* them, and copyDgramData, which takes the fields out.  copyDgramData     *)
(* looks for newlines where the automaton has not: it reads what lies in   *)
(* the buffer behind the NUL, and writes behind the field it copies to.    *)
(*                                                                         *)
(* A datagram is the sequence of its characters.  Letters has the ones the *)
(* grammar names and some others; a string longer than one character       *)
(* stands for one that the grammar has no name for.                        *)
(***************************************************************************)
EXTENDS Naturals, Sequences, SequencesExt

CONSTANTS
    IDLENGTH,       \* characters of an id and of a key (32)
    VERSION,        \* the version of the server, "V1.0"
    AUTHKEY,        \* the key of the server
    VERSIONSIZE,    \* the arrays of mp3p_args_data, in this order (128, 512, 256, ...)
    AUTHORIZATION,
    UIDSIZE,
    USERNAMESIZE,
    PASSWORDSIZE

LF  == "\n"
NUL == "NUL"
Space == " "

Digits == {"0", "1", "2", "3"}
Letters == {"M", "P", "V", "B", "T", "R", "H", "C", "L", "U", "D", "A", "k", "u", "v"}
Alnum == Digits \cup Letters
Chars == Alnum \cup {Space, LF, NUL, ".", ":", "other"}
WordChars == Chars \ {Space, LF, NUL}

\* The server's key is one that a datagram can have.
ASSUME KeyAssumption ==
    /\ IDLENGTH \in Nat /\ Len(AUTHKEY) = IDLENGTH
    /\ \A i \in DOMAIN AUTHKEY : AUTHKEY[i] \in Alnum

\* Its arrays have room for an id and for a key.
ASSUME SizeAssumption ==
    /\ {VERSIONSIZE, AUTHORIZATION, UIDSIZE, USERNAMESIZE, PASSWORDSIZE} \subseteq Nat
    /\ IDLENGTH < AUTHORIZATION /\ IDLENGTH < UIDSIZE

-----------------------------------------------------------------------------
(* parseMp3pCharacter *)

\* The state of the automaton: its own, the two lengths it counts, and the static
\* variable onSuccessCommandState, which outlives the datagram.
StartOf(onSuccess) ==
    [state |-> "START", length |-> 0, authorizationLength |-> 0, onSuccess |-> onSuccess]

\* The transitions that only look at the character: in the first line, ...
HeaderTransitions == {
    <<"START",                {"M"},   "READM">>,
    <<"READM",                {"P"},   "READP">>,
    <<"READP",                {"3"},   "READ3">>,
    <<"READ3",                {"P"},   "READSECONDP">>,
    <<"READSECONDP",          {Space}, "READVERSIONSEPARATOR">>,
    <<"READVERSIONSEPARATOR", {"V"},   "READVERSIONV">>,
    <<"READVERSIONV",         Digits,  "READVERSIONNUM">>,
    <<"READVERSIONNUM",       Digits,  "READVERSIONNUM">>,
    <<"READVERSIONNUM",       {"."},   "READVERSIONDOT">>,
    <<"READVERSIONDOT",       Digits,  "READVERSIONSUBNUM">>,
    <<"READVERSIONSUBNUM",    {LF},    "READFIRSTNEWLINE">> }

\* ... in the two letters of the command, ...
NameTransitions ==
    {<<"READTHIRDNEWLINE", {t[1]}, t[2]>> : t \in
        {<<"B", "READB">>, <<"H", "READH">>, <<"C", "READC">>, <<"L", "READL">>,
         <<"M", "READM_FOR_MP">>, <<"D", "READ_D">>, <<"A", "READA">>}}
    \cup
    {<<"READL", {"U"}, "READLU">>, <<"READL", {"C"}, "READLC">>,
     <<"READC", {"C"}, "READCC">>, <<"READH", {"C"}, "READHC">>,
     <<"READB", {"R"}, "READBR">>, <<"READB", {"T"}, "READBT">>,
     <<"READA", {"U"}, "READAU">>, <<"READ_D", {"U"}, "READDU">>,
     <<"READM_FOR_MP", {"P"}, "READMP">>}

\* ... in its arguments, ...
ArgumentTransitions ==
    {<<"READDU", {Space}, "READONEARGSEPARATOR">>,
     <<"READMP", {Space}, "READFIRSTARGSEPARATOR">>,
     <<"READAU", {Space}, "READFIRSTARGSEPARATOR">>,
     <<"READONEARGSEPARATOR", WordChars, "READINGONLYUSER">>,
     <<"READINGONLYUSER", WordChars, "READINGONLYUSER">>,
     <<"READFIRSTARGSEPARATOR", WordChars, "READINGUSER">>,
     <<"READINGUSER", WordChars, "READINGUSER">>,
     <<"READINGUSER", {Space}, "READSECONDARGSEPARATOR">>,
     <<"READSECONDARGSEPARATOR", WordChars, "READINGPASSWORD">>,
     <<"READINGPASSWORD", WordChars, "READINGPASSWORD">>}

\* ... and at its end.
EndTransitions ==
    {<<t[1], {NUL}, t[2]>> : t \in
        {<<"READBT", "DGRAM_BT_COMMAND">>, <<"READBR", "DGRAM_BR_COMMAND">>,
         <<"READHC", "DGRAM_HC_COMMAND">>, <<"READCC", "DGRAM_CC_COMMAND">>,
         <<"READLC", "DGRAM_LC_COMMAND">>, <<"READLU", "DGRAM_LU_COMMAND">>,
         <<"READINGONLYUSER", "onSuccessCommandState">>,
         <<"READINGPASSWORD", "onSuccessCommandState">>}}

CommandTransitions == NameTransitions \cup ArgumentTransitions \cup EndTransitions

\* The command that the end of the arguments is to complete.
OnSuccess == [READAU |-> "DGRAM_AU_COMMAND", READDU |-> "DGRAM_DU_COMMAND",
              READMP |-> "DGRAM_MP_COMMAND"]

\* The transitions out of a state: a state that has none, a complete command
\* among them, refuses every character.
From(state) == {t \in HeaderTransitions \cup CommandTransitions : t[1] = state}

\* What a refused character makes of the datagram.
Refusal(state) ==
    CASE state \in {"READSECONDNEWLINE", "READCLIENTPASSWORD"} -> "DGRAMBADAUTH"
      [] \E t \in CommandTransitions : t[1] = state -> "DGRAM_INVALID_COMMAND"
      [] OTHER -> "DGRAMDISCARD"

\* mutant: a command with two arguments leaves the static variable as it was
EnterKeepingOnSuccess(p, state) ==
    [p EXCEPT !.state = IF state = "onSuccessCommandState" THEN p.onSuccess ELSE state,
              !.onSuccess = IF state = "READDU" THEN OnSuccess[state] ELSE @]

\* A transition: READAU, READDU and READMP set onSuccessCommandState, the end of the
\* last argument enters the state it holds.
Enter(p, state) ==
    [p EXCEPT !.state = IF state = "onSuccessCommandState" THEN p.onSuccess ELSE state,
              !.onSuccess = IF state \in DOMAIN OnSuccess THEN OnSuccess[state] ELSE @]

\* The id and the key: IDLENGTH letters or digits, then a newline.
ReadId(p, c) ==
    CASE c \in Alnum /\ p.length < IDLENGTH ->
           [p EXCEPT !.length = @ + 1, !.state = "READCLIENTDGRAMID"]
      [] c = LF /\ p.length = IDLENGTH -> [p EXCEPT !.state = "READSECONDNEWLINE"]
      [] OTHER -> [p EXCEPT !.state = Refusal(p.state)]

ReadKey(p, c) ==
    CASE c \in Alnum /\ p.authorizationLength < IDLENGTH ->
           [p EXCEPT !.authorizationLength = @ + 1, !.state = "READCLIENTPASSWORD"]
      [] c = LF /\ p.authorizationLength = IDLENGTH ->
           [p EXCEPT !.state = "READTHIRDNEWLINE"]
      [] OTHER -> [p EXCEPT !.state = Refusal(p.state)]

ParseMp3pCharacter(p, c) ==
    CASE p.state \in {"READFIRSTNEWLINE", "READCLIENTDGRAMID"} -> ReadId(p, c)
      [] p.state \in {"READSECONDNEWLINE", "READCLIENTPASSWORD"} -> ReadKey(p, c)
      [] \E t \in From(p.state) : c \in t[2] ->
           Enter(p, (CHOOSE t \in From(p.state) : c \in t[2])[3])
      [] OTHER -> [p EXCEPT !.state = Refusal(p.state)]

-----------------------------------------------------------------------------
(* parseDatagram *)

Refusals == {"DGRAM_INVALID_COMMAND", "DGRAMDISCARD", "DGRAMBADAUTH"}

\* The loop over the characters, which a refusal ends.
Feed(p, c) == IF p.state \in Refusals THEN p ELSE ParseMp3pCharacter(p, c)

RunAutomaton(dgram, onSuccess) ==
    LET after[i \in 0 .. Len(dgram)] ==
            IF i = 0 THEN StartOf(onSuccess) ELSE Feed(after[i - 1], dgram[i])
    IN  after[Len(dgram)]

\* The text from place i up to one of the stops, or to the end.
Upto(text, i, stops) ==
    LET ends == {j \in i .. Len(text) : text[j] \in stops}
    IN  SubSeq(text, i, IF ends = {} THEN Len(text)
                        ELSE (CHOOSE j \in ends : \A k \in ends : j <= k) - 1)

\* obtainUsername: behind the first space of the line.
ObtainUsername(line) ==
    Upto(line, SelectInSeq(line, LAMBDA c : c = Space) + 1, {Space, NUL})

\* obtainPassword: behind the last one.
ObtainPassword(line) ==
    Upto(line, SelectLastInSeq(line, LAMBDA c : c = Space) + 1, {Space, NUL})

\* The bytes of mp3p_data from authorization to its end: the arrays and a pointer.
FromAuthorization == AUTHORIZATION + UIDSIZE + USERNAMESIZE + PASSWORDSIZE + 8

\* copyDgramData of the text in the buffer: the version is the text from the first "V"
\* to the end of its line, the id and the key are the next two lines, wherever they end.
\* A key that does not fit is written over the id copied before it; one that leaves the
\* buffer or mp3p_data ends the process (AddressSanitizer).  A command's arguments are
\* only copied when it is complete.
CopyDgramData(text, state) ==
    LET v       == SelectInSeq(text, LAMBDA c : c = "V")
        version == Upto(text, v, {LF})
        i       == v + Len(version) + 1
        id      == Upto(text, i, {LF})
        k       == i + Len(id) + 1
        key     == Upto(text, k, {LF})
        line    == Append(Upto(text, k + Len(key) + 1, {NUL}), NUL)
        hasTwo  == state \in {"DGRAM_MP_COMMAND", "DGRAM_AU_COMMAND"}
    IN  [overrun |-> Len(key) >= FromAuthorization \/ \A j \in k .. Len(text) : text[j] # LF,
         version |-> version, authorization |-> key,
         uniqueID |-> IF Len(key) < AUTHORIZATION THEN id
                      ELSE Upto(SubSeq(key, AUTHORIZATION + 1, Len(key)), 1, {NUL}),
         username |-> IF hasTwo \/ state = "DGRAM_DU_COMMAND"
                      THEN ObtainUsername(line) ELSE <<>>,
         password |-> IF hasTwo THEN ObtainPassword(line) ELSE <<>>]

\* The strategy that a datagram, followed in the buffer by residue, selects (none when it
\* is discarded or ends the process), the fields it comes with, and what the static
\* variable is afterwards.
ParseDatagram(dgram, residue, onSuccess) ==
    LET p    == RunAutomaton(dgram, onSuccess)
        data == CopyDgramData(dgram \o residue, p.state)
    IN  IF p.state = "DGRAMDISCARD"
        THEN [command |-> "DGRAMERROR", data |-> <<>>, onSuccess |-> p.onSuccess]
        ELSE [command |->
                CASE data.overrun -> "ABORT"
                  [] ~ data.overrun /\ p.state \in Refusals -> p.state
                  [] ~ data.overrun /\ p.state \notin Refusals
                       /\ data.version # VERSION -> "INVALID_VERSION"
                  [] ~ data.overrun /\ p.state \notin Refusals /\ data.version = VERSION
                       /\ data.authorization # AUTHKEY -> "INVALID_AUTHKEY"
                  [] OTHER -> p.state,
              data |-> data, onSuccess |-> p.onSuccess]
=============================================================================
