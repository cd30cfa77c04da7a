----------------------------- MODULE Arguments -----------------------------
(***************************************************************************)
(* The start of the server: the command line it accepts (parseArgs in      *)
(* server/serverUtils.c) and the list of users it makes of it              *)
(* (initializeUserSingleton in users/users.c).                             *)
(*                                                                         *)
(* An argument is the sequence of its characters, the first one, the port, *)
(* the integer that atoi reads in it.                                      *)
(***************************************************************************)
EXTENDS UserList

CONSTANT MAXUSERS   \* most users of a command line (500)

Colon == ":"
DashU == <<"-", "u">>

\* checkUserAndPasswordFormat: a second colon is refused, and so is one that ends
\* the argument; no colon, or nothing in front of it, is accepted.
CheckUserAndPasswordFormat(str) ==
    LET colons == {i \in DOMAIN str : str[i] = Colon}
    IN  \A i \in colons : colons = {i} /\ i # Len(str)

-----------------------------------------------------------------------------
(* parseArgs *)

\* What the loop over argv has read: the arguments of -u, whether the next argument
\* is one of them, whether a format was refused (the loop stops there).
ReadArgument(read, arg) ==
    CASE read.error -> read
      [] ~ read.error /\ read.expects ->
           [users |-> Append(read.users, arg), expects |-> FALSE,
            error |-> ~ CheckUserAndPasswordFormat(arg)]
      [] ~ read.error /\ ~ read.expects ->
           [read EXCEPT !.expects = arg = DashU]

ReadArguments(options) ==
    FoldLeft(ReadArgument, [users |-> <<>>, expects |-> FALSE, error |-> FALSE], options)

\* argv has the program's name too: argc is Len(argv) + 1.
ArgumentsAccepted(argv) ==
    /\ Len(argv) >= 2
    /\ argv[1] >= 1024
    /\ LET read == ReadArguments(Tail(argv))
       IN  /\ ~ read.error
           /\ ~ read.expects             \* a -u with nothing behind it
           /\ Len(read.users) <= MAXUSERS

ParseArgs(argv) == ReadArguments(Tail(argv)).users

-----------------------------------------------------------------------------
(* initializeUserSingleton *)

\* The tokens of strtok with the delimiter ":": the runs of other characters.
Tokens(str) ==
    LET starts == {i \in DOMAIN str :
                      str[i] # Colon /\ (i > 1 => str[i - 1] = Colon)}
        nth(n) == CHOOSE i \in starts : Cardinality({j \in starts : j <= i}) = n
        run(i) == {j \in i .. Len(str) : \A k \in i .. j : str[k] # Colon}
    IN  [n \in 1 .. Cardinality(starts) |->
            SubSeq(str, nth(n), nth(n) + Cardinality(run(nth(n))) - 1)]

\* mutant: the last argument for a name wins
AddArgumentLastWins(filled, arg) ==
    LET tokens == Tokens(arg) IN
    IF filled.crashed \/ Len(tokens) < 2 THEN [filled EXCEPT !.crashed = TRUE]
    ELSE [filled EXCEPT !.list =
            ModifyUserPassword(InsertUserNode(@, tokens[1], tokens[2]), tokens[1], tokens[2])]

\* One iteration: a missing token is NULL, and strcmp or strcpy of NULL ends the
\* process; the password is only copied for a name that has no node yet.
AddArgument(filled, arg) ==
    LET tokens  == Tokens(arg)
        exists  == tokens # <<>> /\ UserExists(filled.list, tokens[1])
        crashes == filled.crashed \/ tokens = <<>> \/ (Len(tokens) = 1 /\ ~ exists)
    IN  IF crashes THEN [filled EXCEPT !.crashed = TRUE]
        ELSE [filled EXCEPT !.list = InsertUserNode(@, tokens[1], Last(tokens))]

InitializeUserSingleton(names) ==
    FoldLeft(AddArgument, [list |-> <<>>, crashed |-> FALSE], names)
=============================================================================
