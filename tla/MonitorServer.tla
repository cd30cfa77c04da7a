--------------------------- MODULE MonitorServer ---------------------------
(***************************************************************************)
(* The server as its operator sees it: the start with the users of the     *)
(* command line, then handleUdpRequest for one datagram after the other,   *)
(* on the list of users and the statistics that it shares with the POP3    *)
(* sessions.  The sessions themselves are in Pop3Server; here they are     *)
(* what they do to the list and to the counters.                           *)
(***************************************************************************)
EXTENDS Arguments, Datagram

CONSTANTS
    ArgumentLists,    \* the command lines tried
    Requests,         \* the datagrams tried, in the parts the client makes them of
    Residues,         \* what may lie behind a datagram in the buffer
    USERDATASIZE,     \* the arrays of a node of the list (512)
    Users,            \* the names they use
    Passwords,
    NoPassword,
    MaxRequests,      \* bound: datagrams received in a behaviour
    MaxConnections    \* bound: connections accepted in a behaviour

ASSUME BoundAssumption ==
    MaxRequests \in Nat /\ MaxConnections \in Nat /\ NoPassword \notin Passwords

VARIABLES
    phase,      \* "starting", "parsed", "serving", or how the process ended:
                \* "exited" or "crashed" in the start, "aborted" by a datagram, "stopped"
    argv,       \* the command line, later the arguments of -u
    users,      \* the list
    stats,      \* stats_singleton
    onSuccess,  \* the static variable of parseMp3pCharacter
    exchange    \* the datagram handled last and the reply to it; else empty

vars == <<phase, argv, users, stats, onSuccess, exchange>>

-----------------------------------------------------------------------------
(* stats/stats.c; every datagram counts as one byte *)

CreateStatsInstance ==
    [historic |-> 0, concurrent |-> 0, bytesTransfered |-> 0, bytesRecieved |-> 0]

\* mutant: the historic count is forgotten
AddConcurrentOnly(st) == [st EXCEPT !.concurrent = @ + 1]

AddConcurrentConnection(st) == [st EXCEPT !.concurrent = @ + 1, !.historic = @ + 1]
RemoveConcurrentConnection(st) == [st EXCEPT !.concurrent = @ - 1]
AddRecievedBytes(st, n) == [st EXCEPT !.bytesRecieved = @ + n]
AddTransferedBytes(st, n) == [st EXCEPT !.bytesTransfered = @ + n]

-----------------------------------------------------------------------------
(* The start *)

Init ==
    /\ phase = "starting"
    /\ argv \in ArgumentLists
    /\ users = <<>>
    /\ stats = CreateStatsInstance
    /\ onSuccess = "START"
    /\ exchange = <<>>

\* parseArgs, which exits when it does not accept the arguments.
Start ==
    /\ phase = "starting"
    /\ \/ ArgumentsAccepted(argv) /\ phase' = "parsed" /\ argv' = ParseArgs(argv)
       \/ ~ ArgumentsAccepted(argv) /\ phase' = "exited" /\ argv' = <<>>
    /\ UNCHANGED <<users, stats, onSuccess, exchange>>

\* initializeUserSingleton and freeArgs.
FillList ==
    /\ phase = "parsed"
    /\ LET filled == InitializeUserSingleton(argv) IN
         /\ phase' = IF filled.crashed THEN "crashed" ELSE "serving"
         /\ users' = IF filled.crashed THEN <<>> ELSE filled.list
    /\ argv' = <<>>
    /\ UNCHANGED <<stats, onSuccess, exchange>>

-----------------------------------------------------------------------------
(* handleUdpRequest *)

\* What the static variable may hold: the compiler's zero, which is START, or a command.
StaticValues == {"START"} \cup {OnSuccess[s] : s \in DOMAIN OnSuccess}

\* The first line, the id, the key and the command that the client's sprintf joins with
\* "MP3P %s\n%s\n%s\n%s", as far as they were sent: a datagram with less than three
\* newlines stops behind its first line, in the id or in the key.  The server puts a
\* NUL behind what it receives.
Render(r) ==
    LET first == r.magic \o r.version
        two   == first \o <<LF>> \o r.id
        three == two \o <<LF>> \o r.key
    IN  (CASE r.newlines = 0 -> first
           [] r.newlines = 1 -> two
           [] r.newlines = 2 -> three
           [] r.newlines = 3 -> three \o <<LF>> \o r.line) \o <<NUL>>

\* An argument is a text, the first one, the port, is read as a number.
Texts == Seq(STRING)

\* Every part of a request is a text too.  Users and Passwords have all the names and
\* passwords of the inputs tried: they leave nothing out of what the server does.
ASSUME ArgumentsAssumption ==
    \A a \in ArgumentLists :
        ArgumentsAccepted(a) =>
            /\ Tail(a) \in Seq(Texts)
            /\ \A n \in DOMAIN ParseArgs(a) :
                 LET tokens == Tokens(ParseArgs(a)[n])
                 IN  Len(tokens) >= 2 => tokens[1] \in Users /\ Last(tokens) \in Passwords

\* The parts of a request are those of its lines: the newlines between them are the
\* only ones in front of the command, and the first line is parted behind its first
\* space, if it has one.
IsParted(r) ==
    /\ \A part \in {r.magic, r.version, r.id, r.key} : \A i \in DOMAIN part : part[i] # LF
    /\ \A i \in DOMAIN r.magic : r.magic[i] = Space => i = Len(r.magic)
    /\ \A i \in DOMAIN r.version : r.version[i] = Space =>
         r.magic # <<>> /\ Last(r.magic) = Space

ASSUME RequestsAssumption ==
    /\ Requests \subseteq
         [magic : Texts, version : Texts, id : Texts, key : Texts, line : Texts,
          newlines : 0 .. 3]
    /\ \A r \in Requests : IsParted(r)
    /\ Residues \subseteq Texts
    /\ \A r \in Requests, residue \in Residues, s \in StaticValues :
         LET parsed == ParseDatagram(Render(r), residue, s)
             args   == parsed.data
         IN  /\ parsed.command \in {"DGRAM_AU_COMMAND", "DGRAM_MP_COMMAND", "DGRAM_DU_COMMAND"}
                  => args.username \in Users
             /\ parsed.command \in {"DGRAM_AU_COMMAND", "DGRAM_MP_COMMAND"}
                  => args.password \in Passwords

Status(code, args) ==
    [status |-> code, id |-> args.uniqueID, number |-> 0, lines |-> <<>>]
Statistics(n, args) == [Status(200, args) EXCEPT !.number = n]
NoReply == [status |-> 0, id |-> <<>>, number |-> 0, lines |-> <<>>]

Capabilities == <<"BT", "BR", "CC", "HC", "DU", "AU", "MP", "LU", "LC">>

\* The reply of the strategy that parseDatagram selects; a state without a strategy
\* leaves commandFunction unset, and there is no saying what the call does.
ReplyOf(command, args, st) ==
    CASE command = "DGRAM_BT_COMMAND" -> Statistics(st.bytesTransfered, args)
      [] command = "DGRAM_BR_COMMAND" -> Statistics(st.bytesRecieved, args)
      [] command = "DGRAM_HC_COMMAND" -> Statistics(st.historic, args)
      [] command = "DGRAM_CC_COMMAND" -> Statistics(st.concurrent, args)
      [] command = "DGRAM_LU_COMMAND" ->
           [Status(200, args) EXCEPT !.lines = ListUsers(users)]
      [] command = "DGRAM_LC_COMMAND" -> [Status(200, args) EXCEPT !.lines = Capabilities]
      [] command \in {"DGRAM_AU_COMMAND", "DGRAM_DU_COMMAND"} -> Status(200, args)
      [] command = "DGRAM_MP_COMMAND" ->
           Status(IF UserExists(users, args.username) THEN 200 ELSE 102, args)
      [] command = "DGRAMBADAUTH" -> Status(103, args)
      [] command = "DGRAM_INVALID_COMMAND" -> Status(104, args)
      [] command = "INVALID_VERSION" -> Status(101, args)
      [] command = "INVALID_AUTHKEY" -> Status(100, args)
      [] OTHER -> [NoReply EXCEPT !.status = 999]

\* mutant: MP adds a user that does not exist
UsersAfterAdding(command, args) ==
    CASE command \in {"DGRAM_AU_COMMAND", "DGRAM_MP_COMMAND"} ->
           ModifyUserPassword(InsertUserNode(users, args.username, args.password),
                              args.username, args.password)
      [] command = "DGRAM_DU_COMMAND" -> DeleteUserNode(users, args.username)
      [] OTHER -> users

\* What the strategy does to the list: addUserStrategy falls back on the change of
\* the password when the user exists.
UsersAfter(command, args) ==
    LET inserted == InsertUserNode(users, args.username, args.password)
        modified == ModifyUserPassword(users, args.username, args.password)
    IN  CASE command = "DGRAM_AU_COMMAND" -> IF inserted # users THEN inserted ELSE modified
          [] command = "DGRAM_MP_COMMAND" -> modified
          [] command = "DGRAM_DU_COMMAND" -> DeleteUserNode(users, args.username)
          [] OTHER -> users

\* One datagram: counted, parsed, executed, answered.  The reply is counted unless
\* sendto fails; a discarded datagram has none.
HandleUdpRequest(r) ==
    /\ phase = "serving"
    /\ exchange = <<>>
    /\ stats.bytesRecieved < MaxRequests
    /\ \E parsed \in {ParseDatagram(Render(r), residue, onSuccess) : residue \in Residues} :
         LET counted == AddRecievedBytes(stats, 1)
         IN  /\ onSuccess' = parsed.onSuccess
             /\ \/ /\ parsed.command = "DGRAMERROR"
                   /\ exchange' = <<r, NoReply>>
                   /\ stats' = counted
                   /\ UNCHANGED <<phase, users>>
                \/ /\ parsed.command = "ABORT"
                   /\ phase' = "aborted"
                   /\ exchange' = <<r, NoReply>>
                   /\ stats' = counted
                   /\ users' = RemoveAllUserNodes
                \/ /\ parsed.command \notin {"DGRAMERROR", "ABORT"}
                   /\ exchange' = <<r, ReplyOf(parsed.command, parsed.data, counted)>>
                   /\ users' = UsersAfter(parsed.command, parsed.data)
                   /\ \E sent \in {0, 1} : stats' = AddTransferedBytes(counted, sent)
                   /\ UNCHANGED phase
    /\ UNCHANGED argv

\* The reply is sent, its datagram forgotten: only the static variable stays.
EndOfRequest ==
    /\ phase = "serving" /\ exchange # <<>>
    /\ exchange' = <<>>
    /\ UNCHANGED <<phase, argv, users, stats, onSuccess>>

-----------------------------------------------------------------------------
(* The sessions and the signal *)

\* checkValidPassword: the flag of a user is set by a valid PASS that finds it clear.
LogIn(u) ==
    /\ phase = "serving" /\ exchange = <<>>
    /\ \E p \in Passwords : ValidPassword(users, u, p)
    /\ ~ UserIsConnected(users, u)
    /\ users' = ToggleUserConnected(users, u, TRUE)
    /\ UNCHANGED <<phase, argv, stats, onSuccess, exchange>>

\* closeClient clears the flag of whatever name the slot holds.
CloseSession(u) ==
    /\ phase = "serving" /\ exchange = <<>>
    /\ users' = ToggleUserConnected(users, u, FALSE)
    /\ UNCHANGED <<phase, argv, stats, onSuccess, exchange>>

\* acceptConnection counts a connection, the EOF of a client takes one off.
CountConnection ==
    /\ phase = "serving" /\ exchange = <<>>
    /\ \/ stats.historic < MaxConnections /\ stats' = AddConcurrentConnection(stats)
       \/ stats.concurrent > 0 /\ stats' = RemoveConcurrentConnection(stats)
    /\ UNCHANGED <<phase, argv, users, onSuccess, exchange>>

Terminate ==
    /\ phase = "serving" /\ exchange = <<>>
    /\ phase' = "stopped"
    /\ users' = RemoveAllUserNodes
    /\ UNCHANGED <<argv, stats, onSuccess, exchange>>

Next ==
    \/ Start \/ FillList
    \/ \E r \in Requests : HandleUdpRequest(r)
    \/ EndOfRequest
    \/ \E u \in Users : LogIn(u) \/ CloseSession(u)
    \/ CountConnection
    \/ Terminate

Spec == Init /\ [][Next]_vars

-----------------------------------------------------------------------------
(* The protocol, stated without the automaton *)

IsWord(text, n) == Len(text) = n /\ \A i \in DOMAIN text : text[i] \in Alnum

\* "V", digits, a dot and one digit.
IsVersion(v) ==
    /\ Len(v) >= 4 /\ v[1] = "V" /\ v[Len(v) - 1] = "."
    /\ \A i \in DOMAIN v \ {1, Len(v) - 1} : v[i] \in Digits

IsArgument(text) == text # <<>> /\ \A i \in DOMAIN text : text[i] \in WordChars

\* The user and the password of a command line: the words behind its first space.
WordsOf(line) ==
    LET second == SelectInSubSeq(line, 4, Len(line), LAMBDA c : c = Space)
    IN  IF second = 0 THEN <<SubSeq(line, 4, Len(line))>>
        ELSE <<SubSeq(line, 4, second - 1), SubSeq(line, second + 1, Len(line))>>

CommandOf(line) == IF Len(line) < 2 THEN <<>> ELSE SubSeq(line, 1, 2)
TakesArguments(line) ==
    CASE CommandOf(line) \in {<<"A", "U">>, <<"M", "P">>} -> 2
      [] CommandOf(line) = <<"D", "U">> -> 1
      [] OTHER -> 0

Plain == {<<"B", "T">>, <<"B", "R">>, <<"C", "C">>, <<"H", "C">>, <<"L", "U">>, <<"L", "C">>}

IsCommand(line) ==
    \/ line \in Plain
    \/ /\ TakesArguments(line) > 0
       /\ Len(line) > 3 /\ line[3] = Space
       /\ Len(WordsOf(line)) = TakesArguments(line)
       /\ \A i \in DOMAIN WordsOf(line) : IsArgument(WordsOf(line)[i])

\* A key that is one, and whose line ends; a key line that ends and fits its array.
HasKey(r) == r.newlines = 3 /\ IsWord(r.key, IDLENGTH)
KeyFits(r) == r.newlines = 3 /\ Len(r.key) < AUTHORIZATION

\* A datagram is answered unless its first two lines are wrong, or more follows the
\* NUL that ends a complete command.
IsDiscarded(r) ==
    \/ r.magic # <<"M", "P", "3", "P", Space>> \/ ~ IsVersion(r.version)
    \/ ~ IsWord(r.id, IDLENGTH) \/ r.newlines < 2
    \/ /\ HasKey(r)
       /\ \E i \in DOMAIN r.line : r.line[i] = NUL /\ IsCommand(SubSeq(r.line, 1, i - 1))

IsExecuted(r) ==
    /\ ~ IsDiscarded(r) /\ HasKey(r)
    /\ IsCommand(r.line) /\ r.version = VERSION /\ r.key = AUTHKEY

\* The version and the arguments of a command fit their arrays: what becomes of longer
\* ones is not followed.
ASSUME FieldsAssumption ==
    \A r \in Requests :
        /\ Len(r.version) < VERSIONSIZE
        /\ IsCommand(r.line) /\ TakesArguments(r.line) > 0 =>
             /\ Len(WordsOf(r.line)[1]) < USERNAMESIZE
             /\ Len(Last(WordsOf(r.line))) < PASSWORDSIZE

\* And names and passwords fit those of a node, from the command line too.
ASSUME NodesAssumption == \A text \in Users \cup Passwords : Len(text) < USERDATASIZE

HasUser(u) == \E i \in DOMAIN users : users[i].name = u

\* The reply a datagram must get from the list and the counters it finds.  The order of
\* the refusals is the code's: a command that is not one gets 104 with any version and
\* any key, where src/README.md has 101 and 100 for every wrong version and key.
Expected(r) ==
    LET answer == [status |-> 200, id |-> r.id, number |-> 0, lines |-> <<>>]
        failed(code) == [answer EXCEPT !.status = code]
        counts(n) == [answer EXCEPT !.number = n]
        is(c) == CommandOf(r.line) = c
    IN  CASE IsDiscarded(r) -> NoReply
          [] ~ IsDiscarded(r) /\ ~ IsExecuted(r) ->
               failed(CASE ~ HasKey(r) -> 103
                        [] HasKey(r) /\ ~ IsCommand(r.line) -> 104
                        [] HasKey(r) /\ IsCommand(r.line) ->
                             IF r.version # VERSION THEN 101 ELSE 100)
          [] IsExecuted(r) ->
               CASE is(<<"B", "T">>) -> counts(stats.bytesTransfered)
                 [] is(<<"B", "R">>) -> counts(stats.bytesRecieved + 1)
                 [] is(<<"H", "C">>) -> counts(stats.historic)
                 [] is(<<"C", "C">>) -> counts(stats.concurrent)
                 [] is(<<"L", "C">>) -> [answer EXCEPT !.lines = Capabilities]
                 [] is(<<"L", "U">>) -> [answer EXCEPT !.lines =
                        [i \in DOMAIN users |-> <<users[i].name, users[i].password>>]]
                 [] is(<<"M", "P">>) /\ ~ HasUser(WordsOf(r.line)[1]) -> failed(102)
                 [] OTHER -> answer

-----------------------------------------------------------------------------
(* Properties *)

EntryOf(list, u) ==
    LET places == {i \in DOMAIN list : list[i].name = u}
    IN  IF places = {} THEN [password |-> NoPassword, connected |-> FALSE]
        ELSE LET i == CHOOSE i \in places : \A j \in places : i <= j
             IN  [password |-> list[i].password, connected |-> list[i].connected]

\* Every variable holds a value of its type; the flags and counters are what they
\* are at the start until the process serves.
TypeOK ==
    /\ phase \in {"starting", "parsed", "serving", "exited", "crashed", "aborted", "stopped"}
    /\ \A i \in DOMAIN users :
         users[i] \in [name : Users, password : Passwords, connected : BOOLEAN]
    /\ stats \in [historic : 0 .. MaxConnections, concurrent : 0 .. MaxConnections,
                  bytesTransfered : 0 .. MaxRequests, bytesRecieved : 0 .. MaxRequests]
    /\ onSuccess \in StaticValues
    /\ phase \in {"starting", "parsed", "exited", "crashed"} =>
         users = <<>> /\ stats = CreateStatsInstance /\ exchange = <<>>

\* The automaton of mp3pFunctions.c accepts the protocol and nothing else, and says
\* what is wrong with the rest: each datagram whose key line ends and fits its array
\* gets the reply that the text of its lines calls for, with its own id, computed from
\* the list and the counters it found, whatever lies behind it in the buffer.  A
\* datagram with another key line is refused with the status 103 of that reply or
\* discarded like one that fits, but the refusal may carry another id, or the process
\* may end instead.  The static variable that an earlier datagram left behind never
\* decides which command is executed, and no datagram ends in a state without a strategy.
RepliesAreRight ==
    [][stats'.bytesRecieved # stats.bytesRecieved =>
         LET r     == exchange'[1]
             reply == exchange'[2]
         IN  /\ phase' = "aborted" \/ reply = [Expected(r) EXCEPT !.id = reply.id]
             /\ KeyFits(r) \/ IsDiscarded(r) => phase' = "serving" /\ reply = Expected(r)]_vars

\* The operator's changes: a user appears, disappears or gets another password while
\* the server is serving only by a complete AU, MP or DU of the right version and
\* key, and only the user that it names, with the password that it carries.
ChangesAreCommanded ==
    [][\A u \in Users :
         phase = "serving" /\ phase' = "serving"
             /\ EntryOf(users, u).password # EntryOf(users', u).password =>
           /\ exchange' # <<>>
           /\ LET r == exchange'[1] IN
                /\ IsExecuted(r)
                /\ TakesArguments(r.line) > 0
                /\ WordsOf(r.line)[1] = u
                /\ IF TakesArguments(r.line) = 1
                   THEN EntryOf(users', u).password = NoPassword
                   ELSE /\ EntryOf(users', u).password = WordsOf(r.line)[2]
                        /\ CommandOf(r.line) = <<"M", "P">> => HasUser(u)]_vars

\* The password check searches for a name and a password together, the other
\* operations of users.c stop at the first node of the name: they mean the same user
\* because no sequence of operations gives a name a second node.
PasswordIsTheUsers ==
    \A u \in Users, p \in Passwords :
        ValidPassword(users, u, p) <=> EntryOf(users, u).password = p

IsUserArgument(a) ==
    \E i \in 2 .. Len(a) - 1 : \A j \in DOMAIN a : a[j] = Colon <=> i = j

NameIn(a) == SubSeq(a, 1, SelectInSeq(a, LAMBDA c : c = Colon) - 1)
PasswordIn(a) == SubSeq(a, SelectInSeq(a, LAMBDA c : c = Colon) + 1, Len(a))

\* A command line whose -u arguments all are a name and a password starts the server
\* with exactly these users, the first argument for a name being the one that counts
\* (README.md, "-u <usuario1>:<contrasena1> ...").
ArgumentsBecomeUsers ==
    [][phase = "parsed" /\ (\A n \in DOMAIN argv : IsUserArgument(argv[n])) =>
         /\ phase' = "serving"
         /\ \A u \in Users :
              LET given == SelectInSeq(argv, LAMBDA a : NameIn(a) = u)
              IN  EntryOf(users', u).password =
                    IF given = 0 THEN NoPassword ELSE PasswordIn(argv[given])]_vars

Registry == INSTANCE UserRegistry WITH
    registry <- [u \in Users |-> EntryOf(users, u)],
    stage    <- CASE phase = "serving" -> "open"
                  [] phase \in {"stopped", "aborted"} -> "over"
                  [] OTHER -> "closed"

\* The linked list is a table of users to its three clients: no operation loses,
\* doubles or uncovers the node of another name.
RegistrySpec == Registry!RegistrySpec
=============================================================================
