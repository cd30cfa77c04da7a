----------------------------- MODULE Pop3Server -----------------------------
(***************************************************************************)
(* The POP3 server as one single-threaded process: the table of client     *)
(* slots (usersData in server/main.c), the list of registered users, the   *)
(* maildirs on disk, the connection counters and the exits of the process. *)
(*                                                                         *)
(* The main loop calls one handler after the other and nothing runs        *)
(* between two statements of a handler, so every action below is one whole *)
(* handler call: acceptConnection, handleUdpRequest, and the read or the   *)
(* write branch of handleClients for one slot.  Any subset of the sockets  *)
(* may be ready in a round of select, so any order of handler calls is an  *)
(* execution of the server.                                                *)
(*                                                                         *)
(* Data is abstracted to what the control depends on: an output buffer is  *)
(* the number of units it holds, a batch of pipelined commands is the      *)
(* number of them not yet executed (what each one is gets chosen when it   *)
(* is executed), a mail is the name of its file.                           *)
(***************************************************************************)
EXTENDS Naturals, FiniteSets

CONSTANTS
    MAX_CONNECTIONS,           \* slots of usersData (500)
    BUFFERSIZE,                \* capacity of an output buffer (512)
    MAX_SINGLE_LINE_RESPONSE,  \* most units of a one-line reply (128)
    Users,                     \* names a user can be registered under
    NoUser,                    \* the empty user name
    Passwords,
    NoPassword,                \* the password field of a name not registered
    Mails,                     \* names of mail files
    MonitorCommands,           \* the MP3P commands the operator uses
    MaxAccepts,                \* bound: connections accepted in a behaviour
    MaxPipeline,               \* bound: commands of one recv
    MaxBody                    \* bound: units of one mail

ASSUME SlotsAssumption == MAX_CONNECTIONS \in Nat \ {0}
ASSUME BufferAssumption ==
    /\ BUFFERSIZE \in Nat
    /\ MAX_SINGLE_LINE_RESPONSE \in Nat \ {0}
    /\ MAX_SINGLE_LINE_RESPONSE < BUFFERSIZE
ASSUME NamesAssumption == NoUser \notin Users /\ NoPassword \notin Passwords
ASSUME MailsAssumption == IsFiniteSet(Mails)
ASSUME BoundsAssumption ==
    /\ MaxAccepts \in Nat
    /\ MaxPipeline \in Nat
    /\ MaxBody \in Nat

VARIABLES
    client,      \* slot -> user_data
    registry,    \* name -> its node of the user list
    maildir,     \* name -> the files in ./mails/<name>
    historic,    \* historicConnections
    concurrent,  \* concurrentConnections
    status       \* "running", or why the process ended

vars == <<client, registry, maildir, historic, concurrent, status>>

Slots == 0 .. MAX_CONNECTIONS - 1
Replies == 1 .. MAX_SINGLE_LINE_RESPONSE
Names == Users \cup {NoUser}

-----------------------------------------------------------------------------
(* The data of a slot *)

Caches == [owner : Names, listed : SUBSET Mails, marked : SUBSET Mails]
NoCache == [owner |-> NoUser, listed |-> {}, marked |-> {}]

Clients ==
    [allocated : BOOLEAN,
     session   : {"ANY", "AUTHENTICATION", "TRANSACTION", "UPDATE"},
     io        : {"READING", "WRITING"},
     queued    : Nat,                      \* commands parsed, not executed
     command   : {"none", "LIST", "RETR"}, \* the PROCESSING command
     work      : Nat,                      \* lines or body units it still owes
     out       : Nat,                      \* units in output_buff
     username  : Names,
     cache     : Caches]

\* A slot after memset(client, 0, sizeof(user_data)): every field is zero, and
\* zero is ANY, READING and AVAILABLE.
FreeClient ==
    [allocated |-> FALSE, session |-> "ANY", io |-> "READING", queued |-> 0,
     command |-> "none", work |-> 0, out |-> 0, username |-> NoUser,
     cache |-> NoCache]

\* initClient: only these three fields are assigned.
InitClient(c) == [c EXCEPT !.allocated = TRUE, !.session = "AUTHENTICATION",
                           !.io = "WRITING"]

Entries == [password : Passwords \cup {NoPassword}, connected : BOOLEAN]
NotRegistered == [password |-> NoPassword, connected |-> FALSE]
Registered(reg, u) == u \in Users /\ reg[u].password # NoPassword

\* toggleUserConnected: nothing happens for a name that has no node.
Toggle(reg, u, connected) ==
    IF Registered(reg, u)
    THEN [reg EXCEPT ![u].connected = connected]
    ELSE reg

ValidPassword(u, p) == u \in Users /\ registry[u].password = p
UserIsConnected(u) == u \in Users /\ registry[u].connected

-----------------------------------------------------------------------------
(* The output buffer *)

Free(c) == BUFFERSIZE - c.out
HasRoomForOne(c) == c.out < BUFFERSIZE                    \* mutant
HasRoom(c) == c.out + MAX_SINGLE_LINE_RESPONSE < BUFFERSIZE

\* writeToOutputBuffer: a reply that does not fit is dropped.
Put(c, n) == IF c.out + n <= BUFFERSIZE THEN [c EXCEPT !.out = @ + n] ELSE c

\* writeDataToBuffer called without a check: an overflow ends the process.
PutUnchecked(c, n) == [c EXCEPT !.out = @ + n]

\* mutant: unsent output is forgotten
SettleUnsent(c) ==
    IF c.queued = 0 /\ c.command = "none" THEN [c EXCEPT !.io = "READING"] ELSE c

\* The last test of writeToClient: the server reads again only once it owes
\* nothing.
Settle(c) ==
    IF c.out = 0 /\ c.queued = 0 /\ c.command = "none"
    THEN [c EXCEPT !.io = "READING"]
    ELSE c

\* mutant: the flag stays set
CloseKeepingFlag(s, c, reg) ==
    client' = [client EXCEPT ![s] = FreeClient] /\ registry' = reg

\* mutant: no memset
CloseWithoutReset(s, c, reg) ==
    /\ client' = [client EXCEPT ![s] = [c EXCEPT !.allocated = FALSE]]
    /\ registry' = Toggle(reg, c.username, FALSE)

CloseClient(s, c, reg) ==
    /\ client' = [client EXCEPT ![s] = FreeClient]
    /\ registry' = Toggle(reg, c.username, FALSE)

\* mutant: no test for UPDATE behind writeToClient
WriteAndForget(s, c, reg) ==
    /\ status' = IF c.out > BUFFERSIZE THEN "bufferFull" ELSE status
    /\ \/ c.out > 0 /\ CloseClient(s, c, reg)
       \/ \E sent \in 0 .. c.out :
            /\ sent = 0 <=> c.out = 0
            /\ client' = [client EXCEPT ![s] = Settle([c EXCEPT !.out = @ - sent])]
            /\ registry' = reg
    /\ UNCHANGED <<historic, concurrent>>

\* writeToClient for a slot that execution left as c (and the user list as
\* reg), and the test behind it in handleClients: send takes some of the bytes,
\* or fails and the slot is closed; an UPDATE session that owes nothing more is
\* closed.
WriteToClient(s, c, reg) ==
    /\ status' = IF c.out > BUFFERSIZE THEN "bufferFull" ELSE status
    /\ \/ c.out > 0 /\ CloseClient(s, c, reg)
       \/ \E sent \in 0 .. c.out :
            /\ sent = 0 <=> c.out = 0
            /\ LET d == Settle([c EXCEPT !.out = @ - sent])
               IN  IF d.io = "READING" /\ d.session = "UPDATE"
                   THEN CloseClient(s, d, reg)
                   ELSE /\ client' = [client EXCEPT ![s] = d]
                        /\ registry' = reg
    /\ UNCHANGED <<historic, concurrent>>

-----------------------------------------------------------------------------
(* Connections *)

Init ==
    /\ client = [s \in Slots |-> FreeClient]
    /\ registry \in {r \in [Users -> Entries] : \A u \in Users : ~ r[u].connected}
    /\ maildir \in [Users -> SUBSET Mails]
    /\ historic = 0
    /\ concurrent = 0
    /\ status = "running"

\* mutant: the connection is counted only in the history
AcceptUncounted(s) ==
    /\ status = "running" /\ historic < MaxAccepts /\ ~ client[s].allocated
    /\ client' = [client EXCEPT ![s] = PutUnchecked(InitClient(@), 1)]
    /\ historic' = historic + 1
    /\ UNCHANGED <<registry, maildir, concurrent, status>>

\* mutant: a slot that is taken is taken again
AcceptIntoAnySlot(s) ==
    /\ status = "running" /\ historic < MaxAccepts
    /\ client' = [client EXCEPT ![s] = PutUnchecked(InitClient(@), 1)]
    /\ historic' = historic + 1
    /\ concurrent' = concurrent + 1
    /\ UNCHANGED <<registry, maildir, status>>

\* acceptConnection takes the first free slot and leaves the greeting in its
\* output buffer.
AcceptConnection(s) ==
    /\ status = "running"
    /\ historic < MaxAccepts
    /\ ~ client[s].allocated
    /\ \A t \in Slots : t < s => client[t].allocated
    /\ \E greeting \in Replies :
         client' = [client EXCEPT ![s] = PutUnchecked(InitClient(@), greeting)]
    /\ historic' = historic + 1
    /\ concurrent' = concurrent + 1
    /\ UNCHANGED <<registry, maildir, status>>

\* A connection that finds every slot taken ends the process.
RefuseConnection ==
    /\ status = "running"
    /\ historic < MaxAccepts
    /\ \A s \in Slots : client[s].allocated
    /\ status' = "slotsFull"
    /\ UNCHANGED <<client, registry, maildir, historic, concurrent>>

\* accept fails, because the connection is gone or the process is out of
\* descriptors: acceptConnection exits.
AcceptFails ==
    /\ status = "running"
    /\ status' = "acceptFailed"
    /\ UNCHANGED <<client, registry, maildir, historic, concurrent>>

\* readFromClient: the bytes received complete some number of commands, maybe
\* none, and the server turns to writing either way.
ReadCommands(s) ==
    /\ status = "running"
    /\ client[s].allocated /\ client[s].io = "READING"
    /\ \E n \in 0 .. MaxPipeline :
         client' = [client EXCEPT ![s].queued = @ + n, ![s].io = "WRITING"]
    /\ UNCHANGED <<registry, maildir, historic, concurrent, status>>

\* mutant: the close is counted by closeClient and by its caller
ReadEOFCountedTwice(s) ==
    /\ status = "running"
    /\ client[s].allocated /\ client[s].io = "READING"
    /\ CloseClient(s, client[s], registry)
    /\ concurrent' = concurrent - 2
    /\ UNCHANGED <<maildir, historic, status>>

\* mutant: the end of the connection is not acted on
ReadEOFIgnored(s) ==
    /\ status = "running"
    /\ client[s].allocated /\ client[s].io = "READING"
    /\ UNCHANGED vars

\* readFromClient: the client closed its end.
ReadEOF(s) ==
    /\ status = "running"
    /\ client[s].allocated /\ client[s].io = "READING"
    /\ CloseClient(s, client[s], registry)
    /\ concurrent' = concurrent - 1
    /\ UNCHANGED <<maildir, historic, status>>

-----------------------------------------------------------------------------
(* The write branch of handleClients: executeFirstCommand, then writeToClient *)

Writable(s) ==
    status = "running" /\ client[s].allocated /\ client[s].io = "WRITING"

\* executeFirstCommand takes the oldest command off the list.
TakesCommand(s) ==
    /\ Writable(s)
    /\ HasRoom(client[s])
    /\ client[s].command = "none"
    /\ client[s].queued > 0

Dequeued(s) == [client[s] EXCEPT !.queued = @ - 1]

\* No room for a line, or nothing to execute: the handler only sends.
SendOnly(s) ==
    /\ Writable(s)
    /\ HasRoom(client[s]) => client[s].queued = 0 /\ client[s].command = "none"
    /\ WriteToClient(s, client[s], registry)
    /\ UNCHANGED maildir

\* "-ERR Invalid command", or "-ERR Invalid state".
Reject(s) ==
    /\ TakesCommand(s)
    /\ \E r \in Replies : WriteToClient(s, PutUnchecked(Dequeued(s), r), registry)
    /\ UNCHANGED maildir

\* mutant: USER allowed in ANY state
UserAnytime(s) ==
    /\ TakesCommand(s)
    /\ \E u \in Names, r \in Replies :
         WriteToClient(s, PutUnchecked([Dequeued(s) EXCEPT !.username = u], r),
                       registry)
    /\ UNCHANGED maildir

\* USER stores its argument, whoever it names; without an argument, nothing.
User(s) ==
    /\ TakesCommand(s)
    /\ client[s].session = "AUTHENTICATION"
    /\ \E u \in Names, r \in Replies :
         WriteToClient(s, PutUnchecked([Dequeued(s) EXCEPT !.username = u], r),
                       registry)
    /\ UNCHANGED maildir

\* mutant: PASS allowed in ANY state
PassAnytime(s) ==
    /\ TakesCommand(s)
    /\ LET u == client[s].username IN
         /\ \E p \in Passwords : ValidPassword(u, p)
         /\ ~ UserIsConnected(u)
         /\ WriteToClient(s, Put([Dequeued(s) EXCEPT !.session = "TRANSACTION"], 1),
                          Toggle(registry, u, TRUE))
    /\ UNCHANGED maildir

\* PASS with the password of a user whose flag is clear: the flag is set, the
\* maildir is listed, and the session is in the TRANSACTION state.
PassAccepted(s) ==
    /\ TakesCommand(s)
    /\ client[s].session = "AUTHENTICATION"
    /\ LET u == client[s].username IN
         /\ \E p \in Passwords : ValidPassword(u, p)
         /\ ~ UserIsConnected(u)
         /\ \E r \in Replies :
              LET c == [Dequeued(s) EXCEPT
                          !.session = "TRANSACTION",
                          !.cache = [owner |-> u, listed |-> maildir[u],
                                     marked |-> {}]]
              IN  WriteToClient(s, PutUnchecked(c, r), Toggle(registry, u, TRUE))
    /\ UNCHANGED maildir

\* PASS with a wrong password, for an unknown name, or for a connected user.
PassRefused(s) ==
    /\ TakesCommand(s)
    /\ client[s].session = "AUTHENTICATION"
    /\ LET u == client[s].username
       IN  UserIsConnected(u) \/ \E p \in Passwords : ~ ValidPassword(u, p)
    /\ \E r \in Replies : WriteToClient(s, Put(Dequeued(s), r), registry)
    /\ UNCHANGED maildir

\* CAPA in any state; NOOP, STAT and LIST n in TRANSACTION; DELE n or RETR n for a
\* number that is not valid; a RETR whose first read fails: one line is answered
\* and nothing changes.
Inform(s) ==
    /\ TakesCommand(s)
    /\ \E r \in Replies : WriteToClient(s, Put(Dequeued(s), r), registry)
    /\ UNCHANGED maildir

InTransaction(s) == TakesCommand(s) /\ client[s].session = "TRANSACTION"

\* The mails a session can name: listed at login and not marked since.
ValidMails(c) == c.cache.listed \ c.cache.marked

\* mutant: DELE unlinks the file at once
DeleAtOnce(s) ==
    /\ InTransaction(s)
    /\ \E m \in ValidMails(client[s]) :
         /\ WriteToClient(s, Put(Dequeued(s), 1), registry)
         /\ maildir' = [maildir EXCEPT ![client[s].cache.owner] = @ \ {m}]

Dele(s) ==
    /\ InTransaction(s)
    /\ \E m \in ValidMails(client[s]), r \in Replies :
         WriteToClient(s, Put([Dequeued(s) EXCEPT !.cache.marked = @ \cup {m}], r),
                       registry)
    /\ UNCHANGED maildir

Rset(s) ==
    /\ InTransaction(s)
    /\ \E r \in Replies :
         WriteToClient(s, Put([Dequeued(s) EXCEPT !.cache.marked = {}], r), registry)
    /\ UNCHANGED maildir

\* mutant: every listed mail is unlinked
QuitRemovingListed(s) ==
    /\ TakesCommand(s)
    /\ WriteToClient(s, Put([Dequeued(s) EXCEPT !.session = "UPDATE"], 1), registry)
    /\ maildir' = IF client[s].session = "TRANSACTION"
                  THEN [maildir EXCEPT ![client[s].cache.owner] =
                            @ \ client[s].cache.listed]
                  ELSE maildir

\* deleteMarkedMails: the marked mails of a session are unlinked one after the other;
\* an unlink that fails is not noticed, and its file stays.
UnlinkMarked(s) ==
    \E kept \in SUBSET client[s].cache.marked :
        maildir' = [maildir EXCEPT ![client[s].cache.owner] =
                       @ \ (client[s].cache.marked \ kept)]

\* QUIT unlinks the marked mails of a TRANSACTION session, in any state it makes
\* the session an UPDATE one.  The answer is +OK whatever the unlinks did.
Quit(s) ==
    /\ TakesCommand(s)
    /\ \E r \in Replies :
         WriteToClient(s, Put([Dequeued(s) EXCEPT !.session = "UPDATE"], r), registry)
    /\ IF client[s].session = "TRANSACTION" THEN UnlinkMarked(s) ELSE UNCHANGED maildir

\* The process is killed between two unlinks of a QUIT: the files unlinked until then
\* are gone, and with the process everything that it held in memory.
QuitInterrupted(s) ==
    /\ InTransaction(s)
    /\ UnlinkMarked(s)
    /\ client' = [t \in Slots |-> FreeClient]
    /\ registry' = [u \in Users |-> NotRegistered]
    /\ status' = "killed"
    /\ UNCHANGED <<historic, concurrent>>

\* continueList: lines of one unit while there is room for a longer one, and the
\* terminator behind the last.
ContinueList(c) ==
    LET room  == IF HasRoom(c) THEN Free(c) - MAX_SINGLE_LINE_RESPONSE ELSE 0
        lines == IF room < c.work THEN room ELSE c.work
        d     == [c EXCEPT !.out = @ + lines, !.work = @ - lines]
    IN  IF d.work > 0 THEN [d EXCEPT !.command = "LIST"]
                      ELSE Put([d EXCEPT !.command = "none"], 1)

\* The lines LIST prints: one for each valid mail; when the last mails of the
\* array are marked, hasNext promises one more and next prints a stale one.
ListLengths(c) ==
    LET n == Cardinality(ValidMails(c))
    IN  IF c.cache.marked = {} THEN {n} ELSE {n, n + 1}

List(s) ==
    /\ InTransaction(s)
    /\ \E n \in ListLengths(client[s]), r \in Replies :
         WriteToClient(s, ContinueList([Put(Dequeued(s), r) EXCEPT !.work = n]), registry)
    /\ UNCHANGED maildir

ResumeList(s) ==
    /\ Writable(s) /\ HasRoom(client[s])
    /\ client[s].command = "LIST"
    /\ WriteToClient(s, ContinueList(client[s]), registry)
    /\ UNCHANGED maildir

\* continueRetr: as much of the body as the buffer takes.  The end of the file is
\* seen only when fewer characters were left than the buffer could take.
ContinueRetr(c) ==
    IF ~ HasRoom(c) THEN [c EXCEPT !.command = "RETR"]
    ELSE IF c.work < Free(c)
    THEN Put([c EXCEPT !.out = @ + c.work, !.work = 0, !.command = "none"], 1)
    ELSE [c EXCEPT !.out = BUFFERSIZE, !.work = @ - Free(c), !.command = "RETR"]

\* openMail finds the file of a valid number, and RETR sends its first part.
Retr(s) ==
    /\ InTransaction(s)
    /\ \E m \in ValidMails(client[s]) : m \in maildir[client[s].cache.owner]
    /\ \E n \in 0 .. MaxBody, r \in Replies :
         WriteToClient(s, ContinueRetr([Put(Dequeued(s), r) EXCEPT !.work = n]), registry)
    /\ UNCHANGED maildir

ResumeRetr(s) ==
    /\ Writable(s) /\ HasRoom(client[s])
    /\ client[s].command = "RETR"
    /\ WriteToClient(s, ContinueRetr(client[s]), registry)
    /\ UNCHANGED maildir

\* A read error in the middle of the mail: the command ends, unterminated.
AbandonRetr(s) ==
    /\ Writable(s) /\ HasRoom(client[s])
    /\ client[s].command = "RETR"
    /\ WriteToClient(s, [client[s] EXCEPT !.command = "none", !.work = 0], registry)
    /\ UNCHANGED maildir

\* The file of a valid number is gone: openMail logs FATAL, which exits.
RetrMissingMail(s) ==
    /\ InTransaction(s)
    /\ \E m \in ValidMails(client[s]) : m \notin maildir[client[s].cache.owner]
    /\ status' = "openFailed"
    /\ UNCHANGED <<client, registry, maildir, historic, concurrent>>

-----------------------------------------------------------------------------
(* The monitor (handleUdpRequest), the mail system and the signals *)

\* AU inserts a node at the head of the list, or changes the password of one.
AddUser(u, p) ==
    /\ status = "running" /\ "AU" \in MonitorCommands
    /\ registry' = IF Registered(registry, u)
                   THEN [registry EXCEPT ![u].password = p]
                   ELSE [registry EXCEPT ![u] = [password |-> p, connected |-> FALSE]]
    /\ UNCHANGED <<client, maildir, historic, concurrent, status>>

ModifyPassword(u, p) ==
    /\ status = "running" /\ "MP" \in MonitorCommands
    /\ Registered(registry, u)
    /\ registry' = [registry EXCEPT ![u].password = p]
    /\ UNCHANGED <<client, maildir, historic, concurrent, status>>

DeleteUser(u) ==
    /\ status = "running" /\ "DU" \in MonitorCommands
    /\ registry' = [registry EXCEPT ![u] = NotRegistered]
    /\ UNCHANGED <<client, maildir, historic, concurrent, status>>

\* The mail system puts a file into a maildir.
MailArrives(u, m) ==
    /\ status = "running"
    /\ m \notin maildir[u]
    /\ maildir' = [maildir EXCEPT ![u] = @ \cup {m}]
    /\ UNCHANGED <<client, registry, historic, concurrent, status>>

\* SIGTERM or SIGINT: the loop ends, every client is closed, the list is freed.  (A
\* kill between two handlers leaves nothing else.)
Terminate ==
    /\ status = "running"
    /\ client' = [s \in Slots |-> FreeClient]
    /\ registry' = [u \in Users |-> NotRegistered]
    /\ status' = "stopped"
    /\ UNCHANGED <<maildir, historic, concurrent>>

-----------------------------------------------------------------------------
Execute(s) ==
    \/ Reject(s) \/ User(s) \/ PassAccepted(s) \/ PassRefused(s) \/ Inform(s)
    \/ Dele(s) \/ Rset(s) \/ Quit(s)
    \/ List(s) \/ ResumeList(s)
    \/ Retr(s) \/ ResumeRetr(s) \/ AbandonRetr(s) \/ RetrMissingMail(s)

\* The write branch of handleClients for one slot.
Serve(s) == SendOnly(s) \/ Execute(s)

Monitor == \E u \in Users :
    \/ DeleteUser(u)
    \/ \E p \in Passwords : AddUser(u, p) \/ ModifyPassword(u, p)

Next ==
    \/ \E s \in Slots :
         \/ AcceptConnection(s) \/ ReadCommands(s) \/ ReadEOF(s)
         \/ Serve(s) \/ QuitInterrupted(s)
    \/ RefuseConnection \/ AcceptFails
    \/ Monitor
    \/ \E u \in Users, m \in Mails : MailArrives(u, m)
    \/ Terminate

Spec == Init /\ [][Next]_vars

-----------------------------------------------------------------------------
(* Properties *)

\* Every field holds a value of its type, and no counter is below zero.
TypeOK ==
    /\ client \in [Slots -> Clients]
    /\ registry \in [Users -> Entries]
    /\ maildir \in [Users -> SUBSET Mails]
    /\ historic \in Nat
    /\ concurrent \in Nat
    /\ status \in {"running", "stopped", "slotsFull", "acceptFailed", "openFailed",
                  "bufferFull", "killed"}

\* closeClient is complete: a free slot is exactly what memset leaves, so that a
\* new connection inherits no name, mailbox, reply or command of an earlier one.
FreeSlotsAreClean ==
    \A s \in Slots : ~ client[s].allocated => client[s] = FreeClient

\* The three things a slot knows of its session agree, over every order of USER,
\* PASS, QUIT and closing: a session has a mailbox listing once it has been
\* authenticated and not before, it is the listing of the user it is logged in
\* as, and only mails of that listing are marked.
SessionOwnsCache ==
    \A s \in Slots :
        LET c == client[s] IN
        /\ c.session = "AUTHENTICATION" => c.cache = NoCache
        /\ c.session = "TRANSACTION" => c.cache.owner \in Users
        /\ c.cache.owner \in Users =>
              /\ c.allocated
              /\ c.username = c.cache.owner
              /\ c.cache.marked \subseteq c.cache.listed

\* The server waits for a client only when it owes it nothing: a slot in READING
\* has no reply left to send, no command left to execute and none half done.
\* Otherwise client and server would wait for each other for ever.
ReadingOwesNothing ==
    \A s \in Slots : client[s].io = "READING" =>
        client[s].out = 0 /\ client[s].queued = 0 /\ client[s].command = "none"

\* The guard of handleClients is enough: whatever a command writes, and whatever
\* part of it send leaves behind, writeDataToBuffer never meets a full buffer
\* (it logs "this shouldnt happen" and exits).
BufferNeverOverflows ==
    /\ status # "bufferFull"
    /\ \A s \in Slots : client[s].out <= BUFFERSIZE

\* The connected flag is never left behind: while it is set, some session is
\* logged in as that user, and closing it will clear the flag.  Otherwise the
\* user could not log in again before the server is restarted.
ConnectedHasHolder ==
    \A u \in Users : registry[u].connected =>
        \E s \in Slots : client[s].allocated /\ client[s].cache.owner = u

Occupied == {s \in Slots : client[s].allocated}

\* The connection count of the monitor (CC) never falls behind the connections
\* there are, and never exceeds those there have been.  It may stay ahead of them:
\* only an EOF takes a connection off, a QUIT or a failed send does not.
ConcurrentCoversOccupied ==
    /\ Cardinality(Occupied) <= concurrent
    /\ concurrent <= historic

\* The step ends a TRANSACTION session of u that has marked m, by QUIT.
QuitRemoves(u, m) ==
    \E s \in Slots :
        /\ client[s].session = "TRANSACTION"
        /\ client[s].username = u
        /\ m \in client[s].cache.marked
        /\ client'[s].session \in {"UPDATE", "ANY"}

\* A file leaves a maildir only when a session of its owner, in TRANSACTION, quits
\* having marked it: a disconnection, a failed send, an RSET, the monitor or
\* another session remove nothing.
MailRemovedOnlyByQuit ==
    [][\A u \in Users : \A m \in maildir[u] \ maildir'[u] : QuitRemoves(u, m)]_vars

\* The step leaves the session of s where it is, brings it forward, or is the first or
\* the last one of its slot.
Advances(s) ==
    LET old == client[s].session
        new == client'[s].session
    IN  \/ ~ client[s].allocated \/ ~ client'[s].allocated \/ new = old
        \/ old = "AUTHENTICATION" /\ new \in {"TRANSACTION", "UPDATE"}
        \/ old = "TRANSACTION" /\ new = "UPDATE"

\* A session moves from AUTHENTICATION to TRANSACTION to UPDATE and never back,
\* whatever is pipelined behind a QUIT; only closing the slot ends it.
SessionOnlyAdvances == [][\A s \in Slots : Advances(s)]_vars

\* A session has its maildrop open from PASS to QUIT; QUIT commits it.
InSession(s) == client[s].session = "TRANSACTION"

Drops == INSTANCE Maildrop WITH
    Sessions <- Slots,
    holds    <- [s \in Slots |-> IF InSession(s) THEN client[s].cache.owner ELSE NoUser],
    seen     <- [s \in Slots |-> IF InSession(s) THEN client[s].cache.listed ELSE {}],
    marked   <- [s \in Slots |-> IF InSession(s) THEN client[s].cache.marked ELSE {}],
    maildrop <- maildir

\* Seen from the mail, the server is a set of sessions that each see a maildrop as
\* it was at login, and remove nothing but what they saw and marked, in the one step
\* that ends them by QUIT: pipelining, send failures, disconnections, the monitor and
\* the exits add no other step.  A marked mail may survive the QUIT, though it is
\* answered +OK (mailsCache.c:195-201), or a kill in the middle of it.
MaildropSpec == Drops!MaildropSpec

\* What pop/popFunctions.c:98 says ("-ERR This user is already connected"): two
\* sessions are never logged in as the same user.
MaildirIsExclusive ==
    \A s, t \in Slots :
        client[s].cache.owner \in Users /\ client[s].cache.owner = client[t].cache.owner
            => s = t

\* What pop/popFunctions.c:268-273 is written for: a mail that cannot be opened is
\* answered with "-ERR That email doesn't seem to exist", the server goes on.
MissingMailIsAnswered == status # "openFailed"

=============================================================================
