----------------------------- MODULE Mp3pProofs -----------------------------
(***************************************************************************)
(* The monitoring protocol, for any number of commands and of attempts:    *)
(* the bound on the datagrams of a command, and the command an answer is   *)
(* printed for.                                                            *)
(*                                                                         *)
(* Every datagram is counted where it is (OnTheWay); the loop of           *)
(* sendDatagram pays for each of them with an attempt (Paid), and a        *)
(* datagram on the way back says what the server has computed (Computed).  *)
(***************************************************************************)
EXTENDS Mp3p, SequenceTheorems, TLAPS

Commands == [op : Operations, id : Nat]

Types ==
    /\ commands \in Seq(Commands)
    /\ Current <= MaxCommands
    /\ waiting \in BOOLEAN
    /\ retry \in 0 .. MAX_RETRY
    /\ requests \in [Numbers -> Nat]
    /\ answers \in [Numbers \X Statuses -> Nat]
    /\ accepted \in [Numbers -> (Numbers \X Statuses) \cup {NoAnswer}]
    /\ computed \in [Numbers -> SUBSET Statuses]
    /\ registry \in [Users -> Passwords \cup {NoPassword}]

\* The datagrams of the n-th command on the way, in both directions.
OnTheWay(n) == requests[n] + answers[<<n, 200>>] + answers[<<n, 102>>]

\* Nothing is known of a command before it is entered.
Entered(n) == n > Current => requests[n] = 0 /\ computed[n] = {} /\ accepted[n] = NoAnswer

\* The command in the loop has no more datagrams on the way than attempts begun.
Paid ==
    /\ waiting => Current > 0 /\ retry < MAX_RETRY
    /\ \A n \in Numbers : OnTheWay(n) <= MAX_RETRY
    /\ \A n \in Numbers : waiting /\ n = Current => OnTheWay(n) <= retry + 1

Computed == \A n \in Numbers, st \in Statuses : answers[<<n, st>>] > 0 => st \in computed[n]

IInv ==
    /\ Types
    /\ \A n \in Numbers : Entered(n)
    /\ Paid
    /\ Computed
    /\ AnswerBelongsToCommand

LEMMA Counts ==
  ASSUME Types, NEW n \in Numbers
  PROVE  /\ requests[n] \in Nat
         /\ <<n, 200>> \in Numbers \X Statuses /\ answers[<<n, 200>>] \in Nat
         /\ <<n, 102>> \in Numbers \X Statuses /\ answers[<<n, 102>>] \in Nat
  BY DEF Types, Statuses

LEMMA InitInv == Init => IInv
  <1> SUFFICES ASSUME Init PROVE IInv
    OBVIOUS
  <1>1. Types
    <2>1. commands \in Seq(Commands) /\ Current = 0
      BY DEF Init, Current
    <2>2. /\ requests \in [Numbers -> Nat] /\ answers \in [Numbers \X Statuses -> Nat]
          /\ accepted \in [Numbers -> (Numbers \X Statuses) \cup {NoAnswer}]
          /\ computed \in [Numbers -> SUBSET Statuses]
          /\ registry \in [Users -> Passwords \cup {NoPassword}]
      BY DEF Init
    <2>3. waiting \in BOOLEAN
      BY DEF Init
    <2>4. retry \in 0 .. MAX_RETRY
      BY RetryAssumption DEF Init
    <2> QED BY <2>1, <2>2, <2>3, <2>4, BoundAssumption DEF Types
  <1>2. \A n \in Numbers : Entered(n) /\ OnTheWay(n) = 0
    <2> SUFFICES ASSUME NEW n \in Numbers PROVE Entered(n) /\ OnTheWay(n) = 0
      OBVIOUS
    <2>1. requests[n] = 0 /\ answers[<<n, 200>>] = 0 /\ answers[<<n, 102>>] = 0
      BY <1>1, Counts DEF Init
    <2> QED BY <2>1 DEF Init, Entered, OnTheWay
  <1> QED BY <1>1, <1>2, RetryAssumption
          DEF Init, IInv, Paid, Computed, AnswerBelongsToCommand

\* What is printed stays right while the client prints nothing.
LEMMA PrintedStays ==
  ASSUME IInv, UNCHANGED <<commands, accepted>>,
         \A n \in Numbers : computed[n] \subseteq computed'[n]
  PROVE  AnswerBelongsToCommand'
  <1> SUFFICES ASSUME NEW n \in Numbers, accepted[n] # NoAnswer
               PROVE  /\ accepted[n][1] <= n
                      /\ commands[accepted[n][1]].id = commands[n].id
                      /\ accepted[n][2] \in computed'[accepted[n][1]]
    BY DEF AnswerBelongsToCommand
  <1>1. accepted[n][1] \in Numbers
    BY DEF IInv, Types
  <1> QED BY <1>1 DEF IInv, AnswerBelongsToCommand

-----------------------------------------------------------------------------
(* The client *)

LEMMA EnterCommandInv == IInv /\ EnterCommand => IInv'
  <1> SUFFICES ASSUME IInv, EnterCommand PROVE IInv'
    OBVIOUS
  <1> USE DEF IInv
  <1>1. PICK op \in Operations, id \in RequestIds :
          commands' = Append(commands, [op |-> op, id |-> id])
    BY DEF EnterCommand
  <1>2. PICK next \in Numbers : next = Current + 1 /\ Current \in Nat /\ next <= MaxCommands
    BY BoundAssumption DEF EnterCommand, Types, Current, Numbers
  <1>3. id \in Nat
    <2>1. CASE commands = <<>>
      BY <2>1 DEF RequestIds
    <2>2. CASE commands # <<>>
      <3>1. Len(commands) > 0
        BY <2>2, EmptySeq DEF Types
      <3>2. Last(commands) \in Commands
        BY <3>1, ElementOfSeq DEF Types, Last
      <3> QED BY <2>2, <3>2 DEF RequestIds, Commands
    <2> QED BY <2>1, <2>2
  <1>4. /\ commands' \in Seq(Commands)
        /\ Current' = next
        /\ \A n \in 1 .. Current : commands'[n] = commands[n]
    <2>1. [op |-> op, id |-> id] \in Commands
      BY <1>3 DEF Commands
    <2> QED BY <1>1, <1>2, <2>1 DEF Types, Current
  <1>5. Types'
    BY <1>2, <1>4, RetryAssumption DEF Types, EnterCommand
  <1>6. \A n \in Numbers : Entered(n)'
    BY <1>2, <1>4 DEF EnterCommand, Entered, Types, Numbers
  <1>7. OnTheWay(next)' = 1
    <2>1. Entered(next) /\ answers' = answers /\ requests' = [requests EXCEPT ![next] = 1]
      BY <1>2 DEF EnterCommand
    <2>2. computed[next] = {} /\ requests'[next] = 1
      BY <1>2, <2>1 DEF Entered, Types
    <2>3. answers[<<next, 200>>] = 0 /\ answers[<<next, 102>>] = 0
      BY <1>2, <2>2, Counts DEF Computed, Statuses
    <2> QED BY <2>1, <2>2, <2>3 DEF OnTheWay
  <1>8. \A n \in Numbers : n # next => OnTheWay(n)' = OnTheWay(n)
    BY <1>2 DEF EnterCommand, OnTheWay, Types
  <1>9. Paid'
    BY <1>2, <1>4, <1>7, <1>8, RetryAssumption DEF EnterCommand, Paid
  <1>10. AnswerBelongsToCommand'
    <2> SUFFICES ASSUME NEW n \in Numbers, accepted[n] # NoAnswer
                 PROVE  /\ accepted[n][1] <= n
                        /\ commands'[accepted[n][1]].id = commands'[n].id
                        /\ accepted[n][2] \in computed[accepted[n][1]]
      BY DEF EnterCommand, AnswerBelongsToCommand
    <2>1. accepted[n][1] \in Numbers /\ n \in 1 .. Current
      BY <1>2 DEF Types, Entered, Numbers
    <2>2. accepted[n][1] <= n
      BY DEF AnswerBelongsToCommand
    <2>3. accepted[n][1] \in 1 .. Current
      BY <1>2, <2>1, <2>2 DEF Numbers
    <2> QED BY <1>4, <2>1, <2>3 DEF AnswerBelongsToCommand
  <1> QED BY <1>5, <1>6, <1>9, <1>10 DEF Computed, EnterCommand

\* Another attempt, whatever ended the last one: a timeout, or an answer read
\* from the socket.
LEMMA RetryInv ==
  ASSUME IInv, waiting, Retry,
         UNCHANGED <<commands, accepted, computed, registry>>,
         answers' \in [Numbers \X Statuses -> Nat],
         \A a \in Numbers \X Statuses : answers'[a] <= answers[a]
  PROVE  IInv'
  <1> USE DEF IInv
  <1>1. /\ Current \in Numbers /\ Current' = Current
        /\ retry' = retry + 1 /\ retry' <= MAX_RETRY
    BY RetryAssumption, BoundAssumption DEF Retry, Paid, Types, Current, Numbers
  <1>2. requests' \in [Numbers -> Nat]
    BY <1>1 DEF Retry, Types
  <1>3. Types'
    BY <1>1, <1>2, RetryAssumption DEF Types, Retry, Current
  <1>4. \A n \in Numbers : Entered(n)'
    BY <1>1 DEF Retry, Entered, Types, Numbers
  <1>5. \A n \in Numbers : n # Current => OnTheWay(n)' <= OnTheWay(n)
    <2> SUFFICES ASSUME NEW n \in Numbers, n # Current PROVE OnTheWay(n)' <= OnTheWay(n)
      OBVIOUS
    <2>1. requests'[n] = requests[n]
      BY <1>1 DEF Retry, Types
    <2>2. answers'[<<n, 200>>] <= answers[<<n, 200>>] /\ answers'[<<n, 102>>] <= answers[<<n, 102>>]
      BY Counts
    <2>3. answers'[<<n, 200>>] \in Nat /\ answers'[<<n, 102>>] \in Nat
      BY <1>3, Counts DEF Statuses
    <2> QED BY <2>1, <2>2, <2>3, Counts DEF OnTheWay
  <1>6. /\ OnTheWay(Current)' <= MAX_RETRY
        /\ waiting' => OnTheWay(Current)' <= retry' + 1
    <2>1. requests'[Current] = IF retry' < MAX_RETRY THEN requests[Current] + 1
                                                      ELSE requests[Current]
      BY <1>1 DEF Retry, Types
    <2>2. /\ answers'[<<Current, 200>>] <= answers[<<Current, 200>>]
          /\ answers'[<<Current, 102>>] <= answers[<<Current, 102>>]
      BY <1>1, Counts
    <2>3. answers'[<<Current, 200>>] \in Nat /\ answers'[<<Current, 102>>] \in Nat
      BY <1>1 DEF Statuses
    <2>4. OnTheWay(Current)' = requests'[Current] + answers'[<<Current, 200>>]
                                                  + answers'[<<Current, 102>>]
      BY <1>1 DEF OnTheWay
    <2>5. requests[Current] + answers[<<Current, 200>>] + answers[<<Current, 102>>] <= retry + 1
      BY <1>1 DEF Paid, OnTheWay
    <2>6. waiting' = (retry' < MAX_RETRY)
      BY DEF Retry
    <2>7. /\ requests[Current] \in Nat /\ answers[<<Current, 200>>] \in Nat
          /\ answers[<<Current, 102>>] \in Nat /\ retry \in Nat
      BY <1>1, Counts DEF Types
    <2> HIDE DEF IInv
    <2> QED BY <1>1, <2>1, <2>2, <2>3, <2>4, <2>5, <2>6, <2>7, RetryAssumption
  <1>7. Paid'
    <2>1. \A n \in Numbers : OnTheWay(n) \in Nat /\ OnTheWay(n)' \in Nat
      <3> SUFFICES ASSUME NEW n \in Numbers PROVE OnTheWay(n) \in Nat /\ OnTheWay(n)' \in Nat
        OBVIOUS
      <3>1. requests'[n] \in Nat /\ answers'[<<n, 200>>] \in Nat /\ answers'[<<n, 102>>] \in Nat
        BY <1>2 DEF Statuses
      <3> QED BY <3>1, Counts DEF OnTheWay
    <2>2. waiting' => Current' > 0 /\ retry' < MAX_RETRY
      <3>1. Current > 0
        BY <1>1, BoundAssumption DEF Numbers
      <3>2. waiting' = (retry' < MAX_RETRY)
        BY DEF Retry
      <3> QED BY <1>1, <3>1, <3>2
    <2> QED BY <1>1, <1>5, <1>6, <2>1, <2>2, RetryAssumption DEF Paid
  <1>8. Computed'
    <2> SUFFICES ASSUME NEW n \in Numbers, NEW st \in Statuses, answers'[<<n, st>>] > 0
                 PROVE  st \in computed[n]
      BY DEF Computed
    <2>1. answers[<<n, st>>] > 0
      BY DEF Types
    <2> QED BY <2>1 DEF Computed
  <1> QED BY <1>3, <1>4, <1>7, <1>8, PrintedStays

LEMMA ReceiveInv ==
  ASSUME IInv, NEW a \in Numbers \X Statuses, Receive(a)
  PROVE  IInv'
  <1> USE DEF IInv
  <1>1. /\ answers' \in [Numbers \X Statuses -> Nat]
        /\ \A b \in Numbers \X Statuses : answers'[b] <= answers[b]
    BY DEF Receive, Types
  <1>2. PICK m \in Numbers, st \in Statuses : a = <<m, st>>
    OBVIOUS
  <1>3. CASE ~ ValidRequestId(a[1])
    BY <1>1, <1>3, RetryInv DEF Receive
  <1>4. CASE ValidRequestId(a[1])
    <2>1. /\ accepted' = [accepted EXCEPT ![Current] = a] /\ waiting' = FALSE
          /\ UNCHANGED <<retry, requests, commands, computed, registry>>
      BY <1>4 DEF Receive
    <2>2. Current \in Numbers /\ Current' = Current
      BY <2>1, BoundAssumption DEF Receive, Paid, Types, Current, Numbers
    <2>3. Types'
      BY <1>1, <2>1, <2>2 DEF Types
    <2>4. st \in computed[m] /\ m <= Current
      BY <1>2, <2>2 DEF Receive, Computed, Entered, Numbers
    <2>5. \A n \in Numbers : Entered(n)'
      BY <2>1, <2>2 DEF Entered, Types, Numbers
    <2>6. \A n \in Numbers :
            OnTheWay(n)' <= OnTheWay(n) /\ OnTheWay(n)' \in Nat /\ OnTheWay(n) \in Nat
      <3> SUFFICES ASSUME NEW n \in Numbers
                   PROVE  OnTheWay(n)' <= OnTheWay(n) /\ OnTheWay(n)' \in Nat /\ OnTheWay(n) \in Nat
        OBVIOUS
      <3>1. /\ answers'[<<n, 200>>] <= answers[<<n, 200>>] /\ answers'[<<n, 200>>] \in Nat
            /\ answers'[<<n, 102>>] <= answers[<<n, 102>>] /\ answers'[<<n, 102>>] \in Nat
        BY <1>1, Counts
      <3> QED BY <2>1, <3>1, Counts DEF OnTheWay
    <2>7. Paid'
      BY <2>1, <2>6, RetryAssumption DEF Paid
    <2>8. Computed'
      <3> SUFFICES ASSUME NEW n \in Numbers, NEW s \in Statuses, answers'[<<n, s>>] > 0
                   PROVE  s \in computed[n]
        BY <2>1 DEF Computed
      <3>1. answers[<<n, s>>] > 0
        BY <1>1 DEF Types
      <3> QED BY <3>1 DEF Computed
    <2>9. AnswerBelongsToCommand'
      <3> SUFFICES ASSUME NEW n \in Numbers, accepted'[n] # NoAnswer
                   PROVE  /\ accepted'[n][1] <= n
                          /\ commands[accepted'[n][1]].id = commands[n].id
                          /\ accepted'[n][2] \in computed[accepted'[n][1]]
        BY <2>1 DEF AnswerBelongsToCommand
      <3>1. CASE n = Current
        BY <1>2, <1>4, <2>1, <2>4, <3>1 DEF Types, ValidRequestId
      <3>2. CASE n # Current
        BY <2>1, <3>2 DEF Types, AnswerBelongsToCommand
      <3> QED BY <3>1, <3>2
    <2> QED BY <2>3, <2>5, <2>7, <2>8, <2>9
  <1> QED BY <1>3, <1>4

-----------------------------------------------------------------------------
(* The server and the network *)

LEMMA HandleUdpRequestInv ==
  ASSUME IInv, NEW n \in Numbers, HandleUdpRequest(n)
  PROVE  IInv'
  <1> USE DEF IInv
  <1> DEFINE op == commands[n].op
             a  == <<n, Status(op)>>
  <1>1. n \in 1 .. Current /\ op \in Operations
    <2>1. n \in 1 .. Current
      <3>1. ~ n > Current
        BY DEF HandleUdpRequest, Entered
      <3>2. n \in Nat /\ n >= 1 /\ Current \in Nat
        BY BoundAssumption DEF Numbers, Types, Current
      <3> QED BY <3>1, <3>2
    <2>2. commands[n] \in Commands
      BY <2>1, ElementOfSeq DEF Types, Current
    <2> QED BY <2>1, <2>2 DEF Commands
  <1>2. op[2] \in Users /\ op[3] \in Passwords \cup {NoPassword} /\ Status(op) \in Statuses
    BY <1>1 DEF Operations, Status, Statuses
  <1>3. a \in Numbers \X Statuses
    BY <1>2
  <1>4. /\ requests[n] > 0 /\ requests' = [requests EXCEPT ![n] = @ - 1]
        /\ registry' = [registry EXCEPT ![op[2]] = NewPassword(op)]
        /\ answers' = [answers EXCEPT ![a] = @ + 1]
        /\ computed' = [computed EXCEPT ![n] = @ \cup {Status(op)}]
        /\ UNCHANGED <<commands, waiting, retry, accepted>>
    BY DEF HandleUdpRequest
  <1> HIDE DEF op
  <1>5. Types'
    <2>1. requests' \in [Numbers -> Nat] /\ answers' \in [Numbers \X Statuses -> Nat]
      BY <1>3, <1>4 DEF Types
    <2>2. computed' \in [Numbers -> SUBSET Statuses]
      BY <1>2, <1>4 DEF Types
    <2>3. NewPassword(op) \in Passwords \cup {NoPassword}
      BY <1>2 DEF NewPassword
    <2>4. registry' \in [Users -> Passwords \cup {NoPassword}]
      BY <1>2, <1>4, <2>3 DEF Types
    <2> QED BY <1>4, <2>1, <2>2, <2>4 DEF Types, Current
  <1>6. \A k \in Numbers : Entered(k)'
    BY <1>1, <1>4 DEF Entered, Types, Current, Numbers
  <1>7. \A k \in Numbers : OnTheWay(k)' = OnTheWay(k)
    <2> SUFFICES ASSUME NEW k \in Numbers PROVE OnTheWay(k)' = OnTheWay(k)
      OBVIOUS
    <2>1. CASE k # n
      <3>1. <<k, 200>> # a /\ <<k, 102>> # a
        BY <2>1
      <3> QED BY <1>3, <1>4, <2>1, <3>1, Counts DEF OnTheWay, Types
    <2>2. CASE k = n
      <3>1. requests'[n] = requests[n] - 1
        BY <1>4 DEF Types
      <3>2. \/ /\ answers'[<<n, 200>>] = answers[<<n, 200>>] + 1
               /\ answers'[<<n, 102>>] = answers[<<n, 102>>]
            \/ /\ answers'[<<n, 102>>] = answers[<<n, 102>>] + 1
               /\ answers'[<<n, 200>>] = answers[<<n, 200>>]
        <4>1. <<n, 200>> # <<n, 102>>
          OBVIOUS
        <4>2. a = <<n, 200>> \/ a = <<n, 102>>
          BY <1>2 DEF Statuses
        <4>3. \A b \in Numbers \X Statuses :
                answers'[b] = IF b = a THEN answers[b] + 1 ELSE answers[b]
          BY <1>3, <1>4 DEF Types
        <4>4. <<n, 200>> \in Numbers \X Statuses /\ <<n, 102>> \in Numbers \X Statuses
          BY Counts
        <4> HIDE DEF IInv, a
        <4> QED BY <4>1, <4>2, <4>3, <4>4
      <3> QED BY <2>2, <3>1, <3>2, Counts DEF OnTheWay
    <2> QED BY <2>1, <2>2
  <1>8. Paid'
    BY <1>4, <1>7 DEF Paid, Current
  <1>9. Computed'
    <2> SUFFICES ASSUME NEW k \in Numbers, NEW st \in Statuses, answers'[<<k, st>>] > 0
                 PROVE  st \in computed'[k]
      BY DEF Computed
    <2>1. CASE <<k, st>> = a
      BY <1>4, <2>1 DEF Types
    <2>2. CASE <<k, st>> # a
      BY <1>3, <1>4, <2>2 DEF Types, Computed
    <2> QED BY <2>1, <2>2
  <1>10. \A k \in Numbers : computed[k] \subseteq computed'[k]
    BY <1>4 DEF Types
  <1> QED BY <1>4, <1>5, <1>6, <1>8, <1>9, <1>10, PrintedStays

\* A datagram is lost.
LEMMA LossInv ==
  ASSUME IInv, UNCHANGED <<commands, waiting, retry, accepted, computed, registry>>,
         requests' \in [Numbers -> Nat], answers' \in [Numbers \X Statuses -> Nat],
         \A n \in Numbers : requests'[n] <= requests[n],
         \A a \in Numbers \X Statuses : answers'[a] <= answers[a]
  PROVE  IInv'
  <1> USE DEF IInv
  <1>1. Types' /\ Current' = Current
    BY DEF Types, Current
  <1>2. \A n \in Numbers :
            OnTheWay(n)' <= OnTheWay(n) /\ OnTheWay(n)' \in Nat /\ OnTheWay(n) \in Nat
    <2> SUFFICES ASSUME NEW n \in Numbers
                 PROVE  OnTheWay(n)' <= OnTheWay(n) /\ OnTheWay(n)' \in Nat /\ OnTheWay(n) \in Nat
      OBVIOUS
    <2>1. /\ answers'[<<n, 200>>] <= answers[<<n, 200>>] /\ answers'[<<n, 200>>] \in Nat
          /\ answers'[<<n, 102>>] <= answers[<<n, 102>>] /\ answers'[<<n, 102>>] \in Nat
      BY Counts
    <2>2. requests'[n] <= requests[n] /\ requests'[n] \in Nat
      OBVIOUS
    <2> QED BY <2>1, <2>2, Counts DEF OnTheWay
  <1>3. Paid'
    BY <1>1, <1>2, RetryAssumption DEF Paid, Types
  <1>4. \A n \in Numbers : Entered(n)'
    BY <1>1 DEF Entered, Types
  <1>5. Computed'
    <2> SUFFICES ASSUME NEW n \in Numbers, NEW st \in Statuses, answers'[<<n, st>>] > 0
                 PROVE  st \in computed[n]
      BY DEF Computed
    <2>1. answers[<<n, st>>] > 0
      BY DEF Types
    <2> QED BY <2>1 DEF Computed
  <1> QED BY <1>1, <1>3, <1>4, <1>5, PrintedStays

LEMMA NextInv == IInv /\ [Next]_vars => IInv'
  <1> SUFFICES ASSUME IInv, [Next]_vars PROVE IInv'
    OBVIOUS
  <1>1. CASE EnterCommand
    BY <1>1, EnterCommandInv
  <1>2. CASE Timeout
    BY <1>2, RetryInv DEF Timeout, IInv, Types
  <1>3. CASE \E n \in Numbers : HandleUdpRequest(n)
    BY <1>3, HandleUdpRequestInv
  <1>4. CASE \E n \in Numbers : LoseRequest(n)
    BY <1>4, LossInv DEF LoseRequest, IInv, Types
  <1>5. CASE \E a \in Numbers \X Statuses : Receive(a)
    BY <1>5, ReceiveInv
  <1>6. CASE \E a \in Numbers \X Statuses : LoseAnswer(a)
    BY <1>6, LossInv DEF LoseAnswer, IInv, Types
  <1>7. CASE UNCHANGED vars
    BY <1>7, LossInv DEF vars, IInv, Types
  <1> QED BY <1>1, <1>2, <1>3, <1>4, <1>5, <1>6, <1>7 DEF Next

LEMMA InvType == IInv => TypeOK
  BY DEF IInv, Types, Paid, Entered, OnTheWay, TypeOK

LEMMA Invariance == Spec => []IInv
  BY InitInv, NextInv, PTL DEF Spec

\* No command is on the way more than MAX_RETRY times, in both directions together,
\* whatever ends the attempts of sendDatagram and whatever is lost or late, for any
\* number of commands and attempts.
THEOREM AttemptsAreBounded == Spec => []TypeOK
  BY Invariance, InvType, PTL

\* The answer printed for a command was computed by the server for a command with
\* the same request id, entered no later, for any number of commands and attempts.
THEOREM AnswersBelong == Spec => []AnswerBelongsToCommand
  <1>1. IInv => AnswerBelongsToCommand
    BY DEF IInv
  <1> QED BY <1>1, Invariance, PTL
=============================================================================
