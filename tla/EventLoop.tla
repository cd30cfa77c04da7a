----------------------------- MODULE EventLoop -----------------------------
(***************************************************************************)
(* The main loop (server/main.c): build the sets, wait in select, serve    *)
(* the two passive sockets, then every client that is ready, and test      *)
(* serverRunning again.  The handlers are the actions of Pop3Server; here  *)
(* they only run when the loop gets to them.                               *)
(*                                                                         *)
(* What the peers do counts when the loop waits in select: data or an end  *)
(* of a file that arrives during a round is seen by the next select.       *)
(***************************************************************************)
EXTENDS Pop3Server

VARIABLES
    pc,        \* "test", "prepare", "select", "accept", "monitor", "clients", "ended"
    passive,   \* the passive sockets that are ready and not served yet
    readFds,   \* slots in readFds: to be waited for, then ready and not served yet
    writeFds,  \* the same for writeFds
    caught,    \* "no" while serverRunning; a signal came "before select" or "elsewhere"
    peer,      \* slot -> "open", "eof" (it closed its end), "reset"
    full       \* slot -> it is written to and its socket takes no more bytes

loopVars == <<pc, passive, readFds, writeFds, caught, peer, full>>
allVars == <<vars, loopVars>>

\* Bound: the loop starts with every user registered and every maildir full; runs of
\* Pop3Server begin with any of them.
LoopInit ==
    /\ Init
    /\ \A u \in Users : Registered(registry, u) /\ maildir[u] = Mails
    /\ pc = "test" /\ passive = {} /\ readFds = {} /\ writeFds = {}
    /\ caught = "no"
    /\ peer = [s \in Slots |-> "open"]
    /\ full = [s \in Slots |-> FALSE]

GoTo(place) == status = "running" /\ pc' = IF status' = "running" THEN place ELSE "ended"

-----------------------------------------------------------------------------
(* The round *)

\* Every ready slot has been served, or select has failed.
RoundIsOver == pc = "test" \/ (pc = "clients" /\ readFds \cup writeFds = {})

\* while (serverRunning); behind the loop, everything is closed and freed.
TestRunning ==
    /\ RoundIsOver
    /\ IF caught = "no"
       THEN UNCHANGED vars /\ GoTo("prepare")
       ELSE Terminate /\ GoTo("ended")
    /\ UNCHANGED <<passive, readFds, writeFds, caught, peer, full>>

\* mutant: the search ends at the first free slot
SocketsUpToFirstFree(state) ==
    {s \in Slots : /\ \A t \in 0 .. s : client[t].allocated
                   /\ client[s].io = state}

\* mutant: the state of the client is not looked at
SocketsInAnyState(state) == {s \in Slots : client[s].allocated}

\* The loop of addClientsSocketsToSet: a client is waited for in its state only.
ClientsSockets(state) == {s \in Slots : client[s].allocated /\ client[s].io = state}

Prepare ==
    /\ pc = "prepare"
    /\ readFds' = ClientsSockets("READING")
    /\ writeFds' = ClientsSockets("WRITING")
    /\ UNCHANGED <<vars, passive, caught, peer, full>>
    /\ GoTo("select")

\* What select must report: the end of a peer, and room in a socket.
MustRead == {s \in readFds : peer[s] # "open"}
MustWrite == {s \in writeFds : ~ full[s] \/ peer[s] = "reset"}
SomethingReady == MustRead \cup MustWrite # {}

\* The part of the round that comes next: an if whose socket is not ready is passed.
NextPart(sockets) ==
    CASE "tcp" \in sockets -> "accept"
      [] sockets = {"udp"} -> "monitor"
      [] OTHER -> "clients"

\* select returns: what must be ready, and maybe data, a connection, a datagram.
SelectReturns ==
    /\ pc = "select"
    /\ \E data \in SUBSET readFds, sockets \in SUBSET {"tcp", "udp"} :
         /\ MustRead \cup data \cup MustWrite # {} \/ sockets # {}
         /\ "tcp" \in sockets => historic < MaxAccepts
         /\ readFds' = MustRead \cup data
         /\ passive' = sockets
    /\ writeFds' = MustWrite
    /\ UNCHANGED <<vars, caught, peer, full>>
    /\ GoTo(NextPart(passive'))

ServeAccept ==
    /\ pc = "accept"
    /\ RefuseConnection \/ AcceptFails \/ \E s \in Slots : AcceptConnection(s)
    /\ passive' = passive \ {"tcp"}
    /\ UNCHANGED <<readFds, writeFds, caught, peer, full>>
    /\ GoTo(NextPart(passive'))

\* handleUdpRequest; most datagrams leave the user list as it is.
ServeMonitor ==
    /\ pc = "monitor"
    /\ UNCHANGED vars \/ Monitor
    /\ passive' = {}
    /\ UNCHANGED <<readFds, writeFds, caught, peer, full>>
    /\ GoTo("clients")

\* mutant: an error closes the slot, uncounted
ReadErrorCloses(s) ==
    /\ peer[s] = "reset"
    /\ CloseClient(s, client[s], registry)
    /\ peer' = [peer EXCEPT ![s] = "open"]
    /\ UNCHANGED <<maildir, historic, concurrent, status, full>>

\* recv fails on a connection that was reset, and readFromClient leaves the slot as it
\* is.  The error is reported once: the next recv says end of file.
ReadError(s) ==
    /\ peer[s] = "reset"
    /\ peer' = [peer EXCEPT ![s] = "eof"]
    /\ UNCHANGED <<vars, full>>

\* What a handler leaves of the connection: a slot that is written to may find its
\* socket full at the next select, a free slot has no peer.
Settled(s) ==
    /\ peer' = [peer EXCEPT ![s] = IF client'[s].allocated THEN @ ELSE "open"]
    /\ \E f \in BOOLEAN : full' = [full EXCEPT ![s] = f /\ client'[s].io = "WRITING"]

ReadFromClient(s) ==
    \/ ReadError(s)
    \/ peer[s] = "open" /\ ReadCommands(s) /\ Settled(s)
    \/ peer[s] = "eof" /\ ReadEOF(s) /\ Settled(s)

ServeClient(s) == (Serve(s) \/ QuitInterrupted(s)) /\ Settled(s)

\* handleClients, one ready slot after the other.
HandleClient(s) ==
    /\ pc = "clients"
    /\ s \in readFds \cup writeFds
    /\ \A t \in readFds \cup writeFds : s <= t
    /\ \/ s \in readFds /\ ReadFromClient(s)
       \/ s \notin readFds /\ ServeClient(s)
    /\ readFds' = readFds \ {s}
    /\ writeFds' = writeFds \ {s}
    /\ UNCHANGED <<passive, caught>>
    /\ GoTo("clients")

-----------------------------------------------------------------------------
(* The peers and the signal *)

Arrives == pc = "select" /\ UNCHANGED <<vars, pc, passive, readFds, writeFds, caught>>

PeerCloses(s) ==
    /\ client[s].allocated /\ peer[s] = "open"
    /\ \E how \in {"eof", "reset"} : peer' = [peer EXCEPT ![s] = how]
    /\ UNCHANGED full
    /\ Arrives

PeerReads(s) ==
    /\ full[s] /\ peer[s] = "open"
    /\ full' = [full EXCEPT ![s] = FALSE]
    /\ UNCHANGED peer
    /\ Arrives

\* mutant: select is entered again
SignalRestartsSelect ==
    /\ RoundIsOver \/ pc \in {"prepare", "select"}
    /\ caught = "no"
    /\ caught' = IF pc = "prepare" THEN "before select" ELSE "elsewhere"
    /\ UNCHANGED <<vars, pc, passive, readFds, writeFds, peer, full>>

\* SIGTERM or SIGINT: the handler clears serverRunning; select fails with EINTR, and
\* the loop is continued.  A signal between select and the test counts at the test,
\* the next place where it makes a difference.
Signal ==
    /\ RoundIsOver \/ pc \in {"prepare", "select"}
    /\ caught = "no"
    /\ caught' = IF pc = "prepare" THEN "before select" ELSE "elsewhere"
    /\ IF pc = "select"
       THEN pc' = "test" /\ readFds' = {} /\ writeFds' = {}
       ELSE UNCHANGED <<pc, readFds, writeFds>>
    /\ UNCHANGED <<vars, passive, peer, full>>

-----------------------------------------------------------------------------
LoopStep ==
    \/ TestRunning \/ Prepare \/ SelectReturns \/ ServeAccept \/ ServeMonitor
    \/ (\E s \in Slots : HandleClient(s))

LoopNext ==
    \/ LoopStep
    \/ \E s \in Slots : PeerCloses(s) \/ PeerReads(s)
    \/ Signal

\* The process runs, and select returns when something is ready: nothing is assumed of
\* the peers, the operator or the signals.
LoopSpec ==
    /\ LoopInit /\ [][LoopNext]_allVars
    /\ WF_allVars((pc = "select" => SomethingReady) /\ LoopStep)

-----------------------------------------------------------------------------
(* Properties *)

\* Every variable of the loop holds a value of its type, and no slot is in both sets.
LoopTypeOK ==
    /\ pc \in {"test", "prepare", "select", "accept", "monitor", "clients", "ended"}
    /\ passive \subseteq {"tcp", "udp"}
    /\ readFds \subseteq Slots /\ writeFds \subseteq Slots /\ readFds \cap writeFds = {}
    /\ caught \in {"no", "before select", "elsewhere"}
    /\ peer \in [Slots -> {"open", "eof", "reset"}]
    /\ full \in [Slots -> BOOLEAN]

\* What select said of a slot still holds when handleClients gets to it, behind
\* accept, a datagram and the handlers of the slots before it: the slot has its
\* connection, and is in the state it was waited for in.  In particular a slot that
\* was taken in the same round is not served on the word of an earlier connection.
ReadinessIsCurrent ==
    pc \in {"accept", "monitor", "clients"} =>
        /\ \A s \in readFds : client[s].allocated /\ client[s].io = "READING"
        /\ \A s \in writeFds : client[s].allocated /\ client[s].io = "WRITING"

\* The loop runs the handlers as Pop3Server says: each of its steps is one handler
\* call, or leaves the server alone.
HandlersSpec == Spec

KeepsReading(s) == []<> ~ full[s]

\* A peer that goes on reading, or breaks the connection off, gets its whole batch of
\* commands answered, whatever the other connections do, also when they never read:
\* the slot goes back to READING, is closed, or the process ends.
BatchIsAnswered ==
    \A s \in Slots : KeepsReading(s) =>
        (client[s].io = "WRITING" ~> client[s].io = "READING" \/ status # "running")

\* And a QUIT is followed by the close of the connection, whatever was pipelined
\* around it and however little each send takes.
QuitCloses ==
    \A s \in Slots : KeepsReading(s) =>
        (client[s].session = "UPDATE" ~> ~ client[s].allocated \/ status # "running")

\* The slot of a connection that was reset is free again in the end, though the recv
\* that reports it changes nothing (clients.c:53-56).
ResetIsReleased ==
    \A s \in Slots : peer[s] = "reset" ~> peer[s] = "open" \/ status # "running"

Idle == pc = "select" /\ ~ SomethingReady

\* A signal ends the process, except one that is caught between the test of
\* serverRunning and select: that one may find the loop waiting, with nothing to
\* wake it, until a peer does something.
SignalIsActedOn ==
    caught # "no" ~> status # "running" \/ (caught = "before select" /\ Idle)
=============================================================================
