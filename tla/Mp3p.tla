-------------------------------- MODULE Mp3p --------------------------------
(***************************************************************************)
(* The monitoring protocol over UDP: the client of Client-interface/main.c *)
(* sends one command at a time, again after a second without an answer or  *)
(* after an answer with another request id, ten times at most              *)
(* (sendDatagram); the server executes every datagram it receives and      *)
(* answers it (handleUdpRequest, mp3pFunctions.c).                         *)
(*                                                                         *)
(* Datagrams may be lost, delayed and reordered.  An answer that arrives   *)
(* after its command is over stays in the socket and is read by the next.  *)
(* The request id is drawn after srand(time(NULL)), so it is the second in *)
(* which the command was entered.                                          *)
(***************************************************************************)
EXTENDS Naturals, SequencesExt

CONSTANTS
    Users, Passwords, NoPassword,
    MAX_RETRY,        \* 10
    MaxCommands,      \* bound: commands the operator enters
    CommandsPerSecond \* bound: of them, entered in one second

ASSUME RetryAssumption == MAX_RETRY \in Nat \ {0}
ASSUME BoundAssumption == MaxCommands \in Nat /\ CommandsPerSecond \in Nat \ {0}

VARIABLES
    commands,   \* the commands entered, each with its request id
    waiting,    \* the last one is in the loop of sendDatagram
    retry,
    requests,   \* command -> its datagrams on the way to the server
    answers,    \* <<command, status>> -> its datagrams on the way back
    accepted,   \* command -> the answer printed for it
    computed,   \* command -> the statuses the server has answered it with
    registry    \* user -> password

vars == <<commands, waiting, retry, requests, answers, accepted, computed, registry>>

Numbers == 1 .. MaxCommands
Statuses == {200, 102}
Operations == ({"AU", "MP"} \X Users \X Passwords) \cup ({"DU"} \X Users \X {NoPassword})
Current == Len(commands)
NoAnswer == <<0, 0>>

Init ==
    /\ commands = <<>> /\ waiting = FALSE /\ retry = 0
    /\ requests = [n \in Numbers |-> 0]
    /\ answers = [a \in Numbers \X Statuses |-> 0]
    /\ accepted = [n \in Numbers |-> NoAnswer]
    /\ computed = [n \in Numbers |-> {}]
    /\ registry = [u \in Users |-> NoPassword]

-----------------------------------------------------------------------------
(* The client *)

\* generateRandomString: the id of the second; the clock may or may not have
\* moved since the last command.
RequestIds ==
    IF commands = <<>> THEN {1}
    ELSE LET last == Last(commands).id
         IN  {last + 1} \cup
             {i \in {last} : Cardinality({n \in DOMAIN commands : commands[n].id = last})
                                < CommandsPerSecond}

\* A command is entered, and sent for the first time.
EnterCommand ==
    /\ ~ waiting
    /\ Current < MaxCommands
    /\ \E op \in Operations, id \in RequestIds :
         commands' = Append(commands, [op |-> op, id |-> id])
    /\ waiting' = TRUE /\ retry' = 0
    /\ requests' = [requests EXCEPT ![Current + 1] = 1]
    /\ UNCHANGED <<answers, accepted, computed, registry>>

\* mutant: the attempt is not counted
RetryUncounted ==
    /\ requests' = [requests EXCEPT ![Current] = 1]
    /\ UNCHANGED <<waiting, retry>>

\* mutant: one attempt too many
RetryOnceMore ==
    /\ retry' = retry + 1
    /\ waiting' = (retry' <= MAX_RETRY)
    /\ requests' = IF retry' <= MAX_RETRY THEN [requests EXCEPT ![Current] = @ + 1]
                                          ELSE requests

\* An attempt is over: the datagram is sent again, or the loop ends.
Retry ==
    /\ retry' = retry + 1
    /\ waiting' = (retry' < MAX_RETRY)
    /\ requests' = IF retry' < MAX_RETRY THEN [requests EXCEPT ![Current] = @ + 1]
                                         ELSE requests

\* recv returns nothing for a second.
Timeout ==
    /\ waiting
    /\ Retry
    /\ UNCHANGED <<commands, answers, accepted, computed, registry>>

\* mutant: the id of the answer is not looked at
AnyRequestId(n) == TRUE

\* checkValidRequestId, for an answer to the n-th command.
ValidRequestId(n) == commands[n].id = commands[Current].id

\* recv returns the answer a.
Receive(a) ==
    /\ waiting
    /\ answers[a] > 0
    /\ answers' = [answers EXCEPT ![a] = @ - 1]
    /\ IF ValidRequestId(a[1])
       THEN /\ accepted' = [accepted EXCEPT ![Current] = a]
            /\ waiting' = FALSE
            /\ UNCHANGED <<retry, requests>>
       ELSE Retry /\ UNCHANGED accepted
    /\ UNCHANGED <<commands, computed, registry>>

-----------------------------------------------------------------------------
(* The server *)

\* The command strategies: what the command does to the list of users, and the
\* status it is answered with.  DU is answered with 200 whether there was such a
\* user or not, AU also when it has only changed a password.
NewPassword(op) ==
    IF op[1] = "MP" /\ registry[op[2]] = NoPassword THEN NoPassword ELSE op[3]

Status(op) == IF op[1] = "MP" /\ registry[op[2]] = NoPassword THEN 102 ELSE 200

\* handleUdpRequest: the datagram is taken, executed and answered.
HandleUdpRequest(n) ==
    /\ requests[n] > 0
    /\ requests' = [requests EXCEPT ![n] = @ - 1]
    /\ LET op == commands[n].op
           a  == <<n, Status(op)>>
       IN  /\ registry' = [registry EXCEPT ![op[2]] = NewPassword(op)]
           /\ answers' = [answers EXCEPT ![a] = @ + 1]
           /\ computed' = [computed EXCEPT ![n] = @ \cup {a[2]}]
    /\ UNCHANGED <<commands, waiting, retry, accepted>>

-----------------------------------------------------------------------------
(* The network *)

LoseRequest(n) ==
    /\ requests[n] > 0
    /\ requests' = [requests EXCEPT ![n] = @ - 1]
    /\ UNCHANGED <<commands, waiting, retry, answers, accepted, computed, registry>>

LoseAnswer(a) ==
    /\ answers[a] > 0
    /\ answers' = [answers EXCEPT ![a] = @ - 1]
    /\ UNCHANGED <<commands, waiting, retry, requests, accepted, computed, registry>>

Next ==
    \/ EnterCommand \/ Timeout
    \/ \E n \in Numbers : HandleUdpRequest(n) \/ LoseRequest(n)
    \/ \E a \in Numbers \X Statuses : Receive(a) \/ LoseAnswer(a)

\* The only thing the client needs is its own clock.
Spec == Init /\ [][Next]_vars /\ WF_vars(Timeout)

-----------------------------------------------------------------------------
(* Properties *)

\* A command is on the way, or has been executed, as often as it may be sent: the
\* loop stops at MAX_RETRY attempts, whatever ended each of them.
TypeOK ==
    /\ retry \in 0 .. MAX_RETRY
    /\ waiting => retry < MAX_RETRY
    /\ \A n \in Numbers :
         /\ requests[n] + answers[<<n, 200>>] + answers[<<n, 102>>] <= MAX_RETRY
         /\ n > Current => requests[n] = 0 /\ computed[n] = {}
    /\ registry \in [Users -> Passwords \cup {NoPassword}]

\* An answer is printed for the command it answers, not for an earlier one that
\* was given up or answered twice, and its status is one the server computed by
\* executing that very command; only commands of one second, which have the same
\* id, can be taken for each other.
AnswerBelongsToCommand ==
    \A n \in Numbers : accepted[n] # NoAnswer =>
        LET answered == accepted[n][1]
        IN  /\ answered <= n /\ commands[answered].id = commands[n].id
            /\ accepted[n][2] \in computed[answered]

\* sendDatagram returns, however much is lost or comes late.
SendDatagramEnds == waiting ~> ~ waiting
=============================================================================
