# A verification of the POP3 server

This directory holds TLA+ models of the POP3 server and of its monitoring client,
the TLC configurations that check them on small instances, and proofs for every
instance. Paths below are those of the repository: `src/...` is the server,
`Client-interface/main.c` the monitoring client.

## 1. The system

The server is one process with one thread. `main` (`src/server/main.c`) builds the
list of users from its arguments, opens a TCP socket for POP3 and a UDP socket for
the monitor, and runs a `select` loop until SIGTERM or SIGINT. In a round it may
accept one connection, execute one datagram of the monitor, and then goes once
through the table of 500 slots: a slot that waits for input (`READING`) is read
from, one that owes output (`WRITING`) executes at most one command and sends once.

| Component | State | Operations |
|---|---|---|
| connection table (`clients.c`, `serverUtils.c`) | `usersData[500]`: socket, session and I/O state, command list, output buffer, user name, command in progress, mail cache | `acceptConnection`, `readFromClient`, `executeFirstCommand`, `writeToClient`, `closeClient`, `closeAllClients` |
| POP3 commands (`popFunctions.c`) | fields of the slot | USER PASS STAT LIST RETR DELE NOOP RSET QUIT CAPA; LIST and RETR in as many calls as the output takes |
| command parser (`commandParser.c`) | list of `full_command` nodes, the last one possibly unfinished | `addData`, `availableCommands`, `getFirstCommand` |
| output buffer (`circularBuffer.c`) | 512 bytes, count, two indices | `writeDataToBuffer`, `readDataFromBuffer` |
| mail cache (`mailsCache.c`) | array of mails with sizes and flags, count of flags, LIST iterator, open file | listing at login, mark, reset, unlink, next, open, read |
| byte stuffing (`byteStuff.c`) | a buffer, a four-state automaton | fill, take processed characters |
| user list (`users.c`) | linked list of name, password, connected flag | look up, insert, modify, delete, toggle the flag |
| statistics (`stats.c`) | four counters | add, remove, read |
| monitor (`mp3pFunctions.c`) | the static `onSuccessCommandState` | an automaton over a datagram; AU MP DU LU LC BT BR CC HC |
| main loop (`server/main.c`) | `serverRunning`, the sets of `select` | test, build the sets, `select`, serve; the signal handler |
| start-up (`serverUtils.c`, `users.c`) | the arguments | `parseArgs`, `checkUserAndPasswordFormat`, `initializeUserSingleton`; the sockets |
| monitoring client (`Client-interface/main.c`) | the command it waits for, a retry count | `sendDatagram` |

**Interactions.** The handlers call each other directly; what they share is the
table, the user list and the counters. A slot refers to its user by name only, so
a change of the list by the monitor, or by another slot's `closeClient`, takes
effect behind the back of a session. The mail itself is in the file system, which
the mail delivery and every session of the same user change. The monitor's client
and the server meet over UDP, where datagrams are lost, delayed and reordered.

**What is hard.** Nothing runs in parallel inside the server, but everything is
interleaved at the grain of a handler: pipelined commands, partial sends, LIST and
RETR in pieces, disconnections at any point, slots used again, the user list
changing under a session, the maildir under its listing. The byte stream arrives in
arbitrary pieces. Buffers have edges (full, wrapped, less than a terminator left).
The process exits in several places. What `select` reported is used after other
handlers have run, and a signal may come at any place of the loop. The monitor's
automaton keeps a static variable between datagrams. The monitor's client times out
and retries.

**What makes each component correct.** Table: a free slot is clean, a reading slot
owes nothing, no buffer overflows, every batch is answered, QUIT closes. Sessions:
name, state and listing agree, states only advance, the connected flag is neither
lost nor leaked. Mail: it disappears only by the QUIT of a session that marked it.
Parser: the commands executed are the lines sent, however TCP cut them. Buffer: a
queue of bytes. RETR: the file, stuffed, with a terminator at its end and nowhere
else. Cache: counts agree with flags, LIST is complete. Monitor: a datagram gets
the answer the protocol calls for, and only complete, authorised commands change the
list; an answer is printed for its own command, and the retry loop ends. User list: a
table with one entry for a name. Loop: what `select` said of a slot still holds when
it is served, broken connections are released, a signal ends the process.

## 2. The modules

Every module is one component; data is abstracted to what its control depends on,
and each handler call, or each round of a loop where the loop is the subject, is one
action.

| Module | Models | State and actions |
|---|---|---|
| `Pop3Server` | the whole server at the grain of handler calls | `client` is `usersData`, `registry` the user list, `maildir` the files, `historic` and `concurrent` the counters, `status` whether and why the process ended. `AcceptConnection`, `RefuseConnection`, `AcceptFails`, `ReadCommands`, `ReadEOF`, and one action per command, each of which is the whole write branch of `handleClients`: execute, send, maybe close; `QuitInterrupted` is a kill between two unlinks of a QUIT |
| `EventLoop` | the loop of `main` around the handlers of `Pop3Server`, which it extends | `pc` is where the loop is, `readFds` and `writeFds` the sets, `passive` the two listening sockets, `caught` the signal, `peer` and `full` the other end of a connection and the room in its socket. `TestRunning`, `Prepare`, `SelectReturns`, `ServeAccept`, `ServeMonitor`, `HandleClient`; `PeerCloses`, `PeerReads`, `Signal` |
| `Maildrop` | abstract: what the server promises about mail | sessions that open a maildrop, mark, and commit or drop; a commit may leave some marked mails behind |
| `CircularBuffer` | `circularBuffer.c` byte by byte, with the read-all, send, write-back of `writeToClient` | one action per round of the two loops |
| `ByteQueue` | abstract: what an output buffer promises | enqueue, send from the front, give up only when too much was written |
| `CommandParser` | `commandParser.c` character by character | `Recv` is `readFromClient` (all of `addData`), `GetFirstCommand` |
| `RetrTransfer` | one RETR: `retr`, `continueRetr`, `getNCharsFromMail`, `byteStuff.c`, `writeToClient` | one action per handler call and per round of the copying loop; `text` is the file as `strncpy` passed it on, `ReadFails` a read error |
| `MailCache` | the two passes of the login, flags, count and LIST iterator | `InitMailArray`, DELE, RSET, and LIST line by line, paused at any line |
| `Mp3p` | `sendDatagram` and `handleUdpRequest` over a lossy network | enter, time out, receive, execute, lose |
| `UserList` | `users.c`: the list as the sequence of its nodes | one operator per function |
| `Arguments` | `parseArgs` and `initializeUserSingleton` | the loop over the arguments and over the users as folds; extends `UserList` |
| `Datagram` | `mp3pFunctions.c` up to the choice of the strategy | the automaton as a table of transitions, `CopyDgramData` with the sizes of the arrays it copies to, `ParseDatagram` with the static variable in and out, and what lies behind the datagram in the buffer (`residue`) |
| `MonitorServer` | the start, `handleUdpRequest` with all strategies, `stats.c`; what sessions do to the list and the counters | composes `Arguments` and `Datagram`: `Start`, `FillList`, `HandleUdpRequest` (which may end the process, phase `"aborted"`), `LogIn`, `CloseSession`, `CountConnection`, `Terminate` |
| `UserRegistry` | abstract: what the list of users promises | at most one entry for a name; an operation concerns one name |
| `SequenceInduction` | no code: induction for the proofs about loops over sequences | the body of the loop as a constant |
| `...Proofs` | no code: the theorems about the module they are named after, section 4 (those about `EventLoop` are in `Pop3ServerProofs`) | |

`Pop3Server` stands on the others: it takes a batch of commands as a number because
`CommandParser` shows what the list holds, an output buffer as a number of units
because `CircularBuffer` implements a queue, a body as a number of units because
`RetrTransfer` shows which characters they are, a listing as a set because
`MailCache` shows what LIST prints. `Pop3Server!Drops` is the refinement mapping to
`Maildrop` (a session has its maildrop open while it is in TRANSACTION);
`CircularBuffer!Queue` the one to `ByteQueue` (what is being sent, what is stored,
what is still to be stored, in this order); `MonitorServer!Registry` the one to
`UserRegistry` (the first node of a name is its entry), which is the function
`Pop3Server` and `Mp3p` use; `EventLoop!HandlersSpec` says that the loop is an
execution of `Pop3Server`, so what is proved of the handlers in any order holds of
the loop.

Operators marked `mutant` are wrong variants of the definition below them; each
shows that one property would notice that mistake. They are part of no
specification.

### Choices of the models

* In `Pop3Server` handler calls interleave freely. `EventLoop` has the rounds: sets
  built from the table, a subset of them ready, `accept`, the datagram, then the slots
  by number. What a peer does counts when the loop waits in `select`; a signal between
  `select` and the test counts at the test, the next place that looks at it.
* A reset connection is an error at the first `recv` and an end of file at the next.
* `MonitorServer` handles texts character by character, but short: ids and keys of two
  characters, arrays of a few, one-letter names. A datagram counts as one byte in the statistics. A
  user name that is missing after `strtok` ends the process.
* A login whose second pass over the maildir finds more entries than the first writes
  behind its array; what follows is left open (`MailCache`, `"overrun"`).
* `copyDgramData` looks for the end of the key line in a buffer where the automaton may
  have stopped before one. It is found in what earlier calls left behind the datagram
  (`Residues`), or the copy leaves the buffer or the structure it writes to: the server
  is built with AddressSanitizer, so the process ends. A key line that fits the structure
  but not its array is written over the id.
* `send` accepts at least one byte of a writable socket or fails; it fails only with
  something to send.
* A reply is 1 to `MAX_SINGLE_LINE_RESPONSE` units, any of them, so every fill level
  of the buffer occurs.
* QUIT unlinks one marked mail after the other and looks at no result, so any of them
  may stay (`Pop3Server!UnlinkMarked`) and the answer is `+OK` all the same. What a kill
  between two unlinks leaves is in `QuitInterrupted`; a kill at any other place leaves
  what `Terminate` leaves. The branch of `quit` that answers `-ERR` is for a session
  without a cache, which one in TRANSACTION never is.
* The characters of a mail are classes. `strncpy`, which fills up with zeros, is applied
  to what each `fread` returned (`RetrTransfer!Strncpy`).
* The build uses AddressSanitizer: a read past the end of the receive array stops the
  process and is not explored further; a read behind the NUL and inside the array is
  a choice of `CommandParser!Recv`. The `mailInfo` that `listWithNoArguments` gets
  from `malloc` may hold anything.
* `Known` in `CommandParser`: characters are classes, so a name is known when it
  has the length of the names in the table. An unknown name of that length ends the
  same way as a name that is too short: `COMPLETEINVALID`.
* `Mp3p`: requests with the same id come from the same second; that two seconds draw
  the same 32 characters is left out.

## 3. What is checked

Runs that pass:

| Run | Instance | What it shows |
|---|---|---|
| `buffers` | 2 slots, 1 user, 1 mail, buffer of 4 units, replies of 1-2, bodies up to 5, 2 commands per batch, 3 connections, the whole monitor | a free slot is clean; a reading slot owes nothing; no buffer overflows; the connection count never falls behind; sessions only advance |
| `sessions` | 2 slots, 2 users, 2 mails, 3 connections, AU and DU | name, state and listing agree; a set flag has a session behind it; a mail leaves only by the QUIT of a session that marked it; the server implements `Maildrop` |
| `loop` | 2 slots, 1 user, 2 connections, buffer of 2 units, bodies up to 1, 2 commands per batch, peers that stop reading, close or reset, one signal | what `select` reported still holds when it is used; the loop implements `Pop3Server`; a batch is answered and QUIT closes though another peer never reads; a reset connection is released; a signal ends the process unless it comes between test and `select` with nothing to wake the loop |
| `queue` | 3 cells, 2 bytes, calls of up to 4 bytes | the indices agree with the count; the buffer implements `ByteQueue` |
| `streams` | up to 2 lines out of 16 kinds, names of 2 characters, arguments of 1, receive buffers of 8 | strings stay in their buffers; only the last node is open; the commands are the lines sent unless bytes behind the NUL were parsed; what is parsed never changes |
| `text` | mails of up to 4 pieces out of 8, with 8-bit characters and NULs, buffer of 9, 0-1 units of earlier replies, read errors | the body arrives once, in order and stuffed, less the characters the code loses; no early terminator; the transfer ends |
| `cache` | 5 mails at the first pass, 0 to 6 at the second | after a login whose passes agree, counts agree with flags and LIST is complete |
| `retries` | 3 commands of 3 kinds on one user, up to 2 in a second, 2 attempts | nothing is sent more often than allowed; an answer is printed for its command; `sendDatagram` returns |
| `monitor` | 114 command lines; 154 datagrams, some stopping in their first line, id or key, keys longer than their array and than the structure, 5 things to lie behind them, 2 datagrams per behaviour; ids and keys of 2 characters, arrays of 3 to 6; 2 users, 3 passwords | a datagram whose key line ends and fits gets the reply that a definition of the protocol without states gives, the others a refusal or none, or end the process; only complete and authorised commands change the list; the password check means the entry of the name; arguments become the users they give; the list implements `UserRegistry` |

Runs that find a violation state what a comment or a reply of the code says, and TLC
shows a behaviour of the code that contradicts it:

| Run | Claim | What happens |
|---|---|---|
| `exclusive` | "This user is already connected": one session per user | closing a connection clears the flag of any name it said in USER |
| `missing` | a mail that cannot be opened is answered with -ERR | the FATAL log entry exits the server |
| `terminator` | there is room for the terminator | the body may fill the buffer; the terminator is dropped |

Other behaviour that may surprise is part of the models, and the passing properties
say what holds in spite of it:

* DU and AU of a connected user make a new node whose flag is clear, so the user can
  log in a second time (`Pop3Server!DeleteUser`, `AddUser`); `ConnectedHasHolder` is
  the direction that remains.
* The count of current connections goes down only when `recv` returns 0, not at QUIT
  or a failed `send`; `ConcurrentCoversOccupied` is an inequality.
* A dot is doubled only when it is alone on its line; `BodyIsStuffed` is about those
  lines, and `NoEarlyEnd` shows that this is what a reader of the body needs to find
  its end.
* A character that is negative as a `char`, or NUL, is not sent (`CopyCharacter`), and a
  NUL takes with it all that the same `fread` returned behind it (`Strncpy`): how much
  of a mail with a NUL arrives depends on how fast the client reads. `BodyIsStuffed`
  says that no more is lost (`LostOnlyBehindNul`), and that a mail of positive
  characters arrives whole. At the beginning of a line a lost character hides what
  follows from the processor, so a dot that is alone behind it is sent as the end of
  the mail: `NoEarlyEnd` is about the other mails (`LostInsideLines`).
* A read error, as in a mail that is a directory, ends RETR behind `+OK` without a
  terminator (`ReadFails`); the slot then owes nothing, and `BatchIsAnswered` counts the
  command as answered.
* QUIT is answered `+OK` also when marked mails could not be removed; `MaildropSpec` and
  `MailRemovedOnlyByQuit` say that no others are.
* A LIST after the last mails of the array were marked prints one line more than it
  announced; `ListIsComplete` is about the lines it announced.
* A line with a third space is executed or rejected depending on where `recv` cuts it
  (`CommandParser!Wrong`): a cut behind that space makes it an invalid one.
* CR, any character and LF end a line whose CR is the first thing wrong with it
  (`CommandParser!IsEnd`), because `receivedCR` stays set. So a cut behind a third space
  can also move the end of the line.
* When `recv` cuts an invalid line, `discardUntilCRLF` returns the position behind the
  NUL and the parser goes on with what the receive array holds there
  (`CommandParser!Recv`); `ParsedUnlessOverread` is about the other executions, and
  `ParsedOnlyGrows` about all.
* An argument without a colon, or with nothing in front of it, passes the check and
  ends the process when the list is filled, unless its name is in the list already
  (`Arguments!AddArgument`); `ArgumentsBecomeUsers` is about the others.
* A datagram that stops in its key line is refused only if a newline happens to lie
  behind it in the buffer, and a key of `AUTHORIZATION` characters or more is refused with
  a part of it in place of the id; either may end the process instead.
  `RepliesAreRight` promises the datagrams whose key line ends and fits their exact
  reply, and that the others, unless the process ends, get no status but 103.
* A datagram that is malformed behind its id is answered for that, whatever its
  version and key: with `-WV` and `-BA` the README announces 101 and 100 for every
  command (`README.md:43-45`), but an unknown command gets 104, and a wrong version is
  reported before a wrong key. `Expected`, and with it `RepliesAreRight`, follows the
  order of the code here, not that text.
* `sendDatagram` writes the NUL behind what it received before it looks whether anything
  was (`Client-interface/main.c:242`): on a timeout that is the byte in front of the
  array. The client is built without AddressSanitizer; `Mp3p` takes the write to have
  no effect, and `SendDatagramEnds` depends on that.
* Request ids repeat within a second, so an answer may be printed for the other
  command of that second; `AnswerBelongsToCommand` excludes every other confusion.
* A copy of AU that arrives after a later DU adds the user again
  (`Mp3p!HandleUdpRequest` takes any copy at any time).

**Bounds.** `MaxAccepts`, `MaxPipeline`, `MaxBody`, `MaxRequests`, `MaxConnections`, `MaxLines`, `MaxPieces`,
`MaxPending`, `MaxWrite`, `MaxCommands` and `CommandsPerSecond` are bounds of the
models; the code has no such limits. Two slots are enough for one session to disturb
another, and three connections for a slot to be used again while the other is in
use; the proofs cover any number. The buffers are small but keep the proportions the
code relies on: a buffer larger than the longest line, a body longer than the buffer,
a receive buffer shorter than a line. `CircularBuffer` with three cells has every
combination of wrapped and unwrapped indices. Mails of four pieces put dots, CRs and
line ends on both sides of every cut. Two datagrams are enough for one to find what
another left in the static variable and in the list. `loop` starts with every user
registered and every maildir full (`LoopInit`); the runs of `Pop3Server` start with
any of them, and have the monitor and longer bodies.

`CHECK_DEADLOCK FALSE` is set where the model really stops: the process has ended,
the input is used up, or the commands are.

**Symmetry** (users, passwords and mails) is used only in the run `sessions`, whose
properties are invariants, an action property and a specification without fairness.

**Fairness.** `EventLoop!LoopSpec` has weak fairness of the steps of the loop, in
`select` only while something must be reported: a reset or closed connection that is
waited for, or a socket with room that is written to. That is what `select` and a
running process guarantee. Nothing is assumed of the peers, the signals or the
operator: `BatchIsAnswered` and `QuitCloses` say for themselves that the peer in
question goes on reading (`KeepsReading`), and hold whatever the other peers do.
`RetrTransfer` has weak fairness of
`Next`: one slot whose peer reads. `Mp3p` has weak fairness of the timeout
only, which is the client's own clock (`SO_RCVTIMEO`); datagrams may all be lost.

## 4. What is proved

Each theorem holds for every value of the constants that the named assumptions of
its module allow: any number of slots, users, mails, commands and datagrams, any
buffer sizes, any mails, streams and command lines, and any datagrams whose version,
user and password fit the arrays they are copied to (`FieldsAssumption`); what longer
ones do is not followed, nor are users of the command line whose name or password
outgrows a node of the list (`NodesAssumption`).

| Theorem | Property |
|---|---|
| `Pop3ServerProofs!TypeCorrect`, `CleanSlots`, `CacheOwnership`, `NothingOwed`, `NoOverflow`, `NoLockLeak`, `CountCovers` | every state invariant of the runs `buffers` and `sessions` |
| `Pop3ServerProofs!SessionsAdvance`, `OnlyQuitRemoves` | the action properties `SessionOnlyAdvances` and `MailRemovedOnlyByQuit` |
| `Pop3ServerProofs!ServerIsMaildrop` | `MaildropSpec`: the server implements `Maildrop` |
| `Pop3ServerProofs!LoopImplementsHandlers`, `LoopTypeCorrect`, `ReadinessStaysCurrent` | `HandlersSpec`, `LoopTypeOK`, `ReadinessIsCurrent`: the loop implements `Pop3Server`, and with `LoopKeepsInvariants` all its invariants hold of the loop |
| `CircularBufferProofs!Pointers`, `BufferIsQueue` | `PointersAgree`; the buffer implements `ByteQueue` |
| `CommandParserProofs!BuffersHold`, `NothingWaitsBehindOpen`, `FinishedIsSettled` | `TypeOK`, `OnlyLastIsOpen`, `ParsedOnlyGrows`: for any stream, any cuts of it and anything in the array behind the NUL |
| `CommandParserProofs!CommandsAreTheLines` | `ParsedUnlessOverread`: the commands are the lines of the stream |
| `MailCacheProofs!CacheTyped`, `CountsStayAgreed`, `ListsAreComplete` | `TypeOK`, `CountsAgree`, `ListIsComplete` |
| `RetrTransferProofs!TransferTyped`, `BodyReachesClient`, `TerminatorOnlyAtEnd` | `TypeOK`, `BodyIsStuffed`, `NoEarlyEnd` |
| `Mp3pProofs!AttemptsAreBounded`, `AnswersBelong` | `TypeOK`, `AnswerBelongsToCommand` |
| `MonitorServerProofs!ListIsTyped`, `OnePasswordPerUser`, `ListIsRegistry` | `TypeOK`, `PasswordIsTheUsers`; the linked list implements `UserRegistry` |
| `MonitorServerProofs!CommandLineBecomesUsers` | `ArgumentsBecomeUsers`: what `-u` makes of the command line |
| `MonitorServerProofs!RepliesAreTheProtocol`, `ChangesAreTheOperators` | `RepliesAreRight`, `ChangesAreCommanded`: the automaton accepts exactly the protocol, datagrams whose key line ends and fits get their exact reply, and the list changes by the protocol's commands only |

**The mail service.** `Pop3ServerProofs` assumes only the named assumptions of
`Pop3Server`: at least one
slot, `0 < MAX_SINGLE_LINE_RESPONSE < BUFFERSIZE`, `NoUser` and `NoPassword` apart
from the names and passwords, finitely many mails, natural bounds. Its inductive
invariant `Inv` joins a condition on each slot alone (`Good`), a condition on the user
list (only a registered name is flagged), `ConnectedHasHolder` and the counts. They
need each other: that a flag has a holder survives `closeClient` only because the
name in a slot is the owner of its listing (`Good`), and that the count covers the
open connections survives `ReadEOF` only because a closing slot was an open one.
Every command ends in `WriteToClient`; `WriteKeepsInv` proves once what that
preserves, and each command is left to show that it hands over a slot fit to be
written and leaves no flag without a holder.

For the action properties and the refinement, `SessionStepIsMaildropStep` says what
each handler may do to what `Maildrop` sees of a slot: PASS opens, DELE marks, RSET
unmarks, QUIT commits (or is cut by a kill, `CommitCut`), every other end drops, the
rest is a stutter. A step of one
slot leaves the view of the others alone (`ViewOfOneSlot`), so two sessions on one
maildir need no argument of their own. The refinement needs `Good`: a command that
closes a slot outside TRANSACTION is a stutter only because such a slot has no listing.

**The loop.** Its theorems need no assumption beyond those of `Pop3Server`, and stand
behind them in `Pop3ServerProofs`. `LoopStepIsNext` maps
each step of the loop to a handler or a stutter. For the readiness, `ReadinessIsCurrent`
is not inductive, as it says nothing while the loop waits in `select`: `LoopInv` has it
from `Prepare` on (`SetsAreCurrent`). It survives the handlers because each changes its
own slot only (`OnlyOwnSlot`), which leaves the sets as it is served, and it survives
`accept` because the slot taken was free, so in no set. `LoopInv` includes `Inv`, which
`LoopStepIsNext` carries over.

**The output buffer.** `CircularBufferProofs` rests on `WriteIndexIsFree` (no stored
byte is at the write
index), from which follow that a store appends to the contents and a fetch takes
their head (`StoreAppends`, `FetchTakes`). The refinement then has one step per
action: moving a byte between the call in progress and the buffer is a stutter, a
call that starts enqueues, a send takes from the front, and the process gives up only
with a full buffer and more to store.

**The mail cache.** The counts are those of the set of flagged mails, with the facts
about finite sets. `ListIsComplete` is about a LIST that has ended; its invariant
`ListingInv` says of one in progress that what was printed are the unmarked mails
below the iterator, in order, unless marked mails end the array and the last round has
printed a line more than announced (`ExtraLine`).

**The transfer of a mail.** The invariant `IInv` of `RetrTransferProofs` says which
character of the file the processor has reached (`Position`: what fread has returned
less what waits in the processor), what its state knows of the line there, that the text
is still the file behind what was read (`text`, less `LostOnlyBehindNul`), and that the
reply is the stuffed text of the characters up to it, less the dot that a lone dot
there is still owed (`Body`). That dot needs care at the end of the file: it is missing
only if the buffer was full when the loop stopped, and then the terminator does not fit
either (`NothingOwedAtTheEnd`). From `IInv` follow `TypeOK` and `BodyIsStuffed`.
`NoEarlyEnd` has an invariant of its own, `GuardInv`: no line of the reply that is ended
is a lone dot, and one that is still open is known to the processor, whichever call of
the handler copied its first part. It needs that no character that is lost joins two
parts of a line beginning (`LostInsideLines`), and the theorem says so: the other
mails can send an early terminator. `MailsAssumption` only says that mails are sequences of
classes of characters; `SizeAssumption` that the sizes are numbers, that the first line
of the reply fits what the handler keeps free for a line, and that the earlier replies
fit in the buffer.

**Loops over sequences.** `addData`, `parseArgs`, `initializeUserSingleton` and
`parseDatagram` are folds or recursive functions of an index in the models. The
induction theorems of the library take an operator as a parameter, which the provers
here cannot instantiate; `SequenceInduction` has the body of the loop as a CONSTANT
instead, and each module of proofs instantiates it with its own
(`AddLoop == INSTANCE SequenceInduction WITH op <- AddChar`). It shows that the function
such a definition chooses exists (`FoldExists`, `IterationExists`), by induction over a
set of natural numbers (`SetInduction`), and that a set which has the start and is
closed under the body has the result (`FoldKeeps`, `IterationKeeps`). So a property of
a loop is proved as an invariant of one round, for inputs of any length.

**The parser.** `Grown(done)` is the set of lists that begin with the finished nodes
`done` and have no unfinished node but the last; a character keeps it (`AddCharGrows`),
so a `recv` does, and the first three theorems follow. For `CommandsAreTheLines` the
invariant `UInv` (`Understood`) says that the commands executed and the finished nodes
divide the stream into lines, with the reading of each line as the answer to it, and that
the unfinished node is `Partial` to the text behind the last of them: its buffers, field
and status are those of a text that may still become a command, or it is `INVALID`, the
text is wrong for good, and its `receivedCR` says whether an LF would end the line. One
character keeps that or ends the line (`NodeStep`, a lemma for each kind of node); the NUL
turns a text with a third space into a wrong one (`NulStep`); a loop over the characters
of a `recv` follows with an invariant that counts the rounds (`FoldReaches`). The property
reads the stream with a recursive function (`Meanings`) that takes the first end of a line
each time; that such a function exists, and that the division is one of its results, is
shown from the end of the stream backwards (`MeaningsExist`, `UnderstoodMeans`).
`StreamAssumption` only says that lines are sequences of the classes of characters,
`SizeAssumption` that sizes are numbers.

**The monitoring client.** `Mp3pProofs` counts the datagrams of a command wherever they
are (`OnTheWay`): the command in the loop of `sendDatagram` has no more of them than
attempts begun (`Paid`). An answer under way says what the server computed (`Computed`), and for a
command that was entered; that its id is the one waited for is what the client tests,
so together they give `AnswerBelongsToCommand`. `CommandsPerSecond` is any positive
number, so it includes ids that repeat.

**The user list.** `Table` is the set of lists of nodes in which no name occurs twice.
For each operator of `UserList` one lemma says that it keeps `Table` and what it does to
the entry of every name; from them a command of the monitor, a login, a close and the
fill at the start are steps of `UserRegistry`. `PasswordIsTheUsers` needs that there is
one node of a name. For the counters, `TypeOK` is not inductive: `Counted` adds that
no more connections are open than were counted, and no more datagrams answered than
received. `ArgumentsAssumption` and `RequestsAssumption` say that inputs are texts, and
that `Users` and `Passwords` contain every name and password that occurs in one of
them: they are the sets the model quantifies over, and do not restrict the inputs.

**The command line.** `Tokens` of a text with one colon, not at an end, are the two
texts on its sides (`TwoTokens`). The fill is a loop over the arguments: behind the
first k, the entry of a name is the one that the first of these k arguments for it gives
(`FilledBy`, `ArgumentAdded`), and no round of it ends the process.

**The protocol of the monitor.** `RepliesAreRight` compares two descriptions: the
automaton with its transitions and counters, and the texts that `IsVersion`, `IsWord` and
`IsCommand` accept. The proof reads a datagram as its parts, one behind the other
(`Places`), and cuts the loop over its characters where a part ends (`FirstLineRead`,
`IdRead`, `KeyRead`, `LineRead`). For each part a set of automata says what k characters
of it must be for the automaton to be in a state (`InHeader`, `InId`, `InKey`, `InLine`,
from `HeaderAt`, `ReadingAt` and `CompleteAt`). Behind k + 1 characters the automaton is
in the set for k + 1: each state has one table of what its characters say of a longer
text (`HeaderGrows`, `StateGrows`), each transition is an entry of it, and a character
without a transition is a refusal, which ends the loop (`RefusalStays`). Behind the last
character of a part, the set says whether the part is right. A complete command is the
one state that a further character discards, which is why `IsDiscarded` asks for a NUL
inside the line (`PastEnd`). The static variable is part of `InLine`: from the two
letters of a command on it holds what they set, so that what an earlier datagram left is
never used. `copyDgramData` then finds the parts at their places when the key line ends and fits,
whatever lies behind the datagram (`FieldsAreLines`), and
the words of the command behind its spaces (`WordsCopied`), and the strategy selected is
the one of the two letters (`ExecutedCommand`). A key of another length is refused by
the automaton before anything is copied, so where the lines are not found nothing is
executed (`KeysFit`, `RefusalRight`); only the id of the refusal is open. `ChangesAreCommanded` follows with what
each strategy does to the list (`CommandReplaces`).

These two theorems add four assumptions. `KeyAssumption`: the server's key is `IDLENGTH`
letters or digits, as `AUTHKEY` in `mp3pFunctions.c` is. `IsParted`: the parts of a
request are the lines of the datagram, no part but the command holding a newline and the
first line being parted behind its first space; it fixes which parts stand for a
datagram, and how many newlines it has (`Render`), and excludes none. `SizeAssumption`:
the arrays have room for an id and for a key. `FieldsAssumption`: version, user and
password fit theirs.

**Only model-checked**, and why: the liveness properties `BatchIsAnswered`, `QuitCloses`,
`ResetIsReleased`, `SignalIsActedOn`, `TransferEnds` and `SendDatagramEnds`. TLAPS has no
rule for them that the installed provers can use, and none for ENABLED.

## 5. What is not modelled

* The set-up of the sockets (`setupTCPServerSocket`, `setupUDPServerSocket`): system
  calls in a row, before any state exists.
* Contents: names of files, sizes of mails and so STAT's sum, the text of replies, a
  NUL in the input of the parser, the lengths of names, of fields and of the reply
  to LU in bytes.
* What the process does after it has written outside of an object, in a build without
  AddressSanitizer: a datagram whose key line leaves its structure, versions, users and
  passwords that outgrow their arrays.
* The prompt and the options of the monitoring client; the numbers of sockets.
* The logger, `util.c`, the Makefiles, the sample mails and the manual test clients.

The hazards of the code that no property covers are in `PROJECT.json` with a note.

## 6. Plan

Done, in this order: `Pop3Server` with its proofs, `Maildrop`, `CircularBuffer` and
`ByteQueue` with their proofs, `CommandParser`, `RetrTransfer`, `MailCache` with its
proofs, `Mp3p`; then `UserList`, `Arguments`, `Datagram`, `MonitorServer` and
`UserRegistry`, the two passes of the login in `MailCache`, `EventLoop` with the
proofs of its safety; then the action properties and the refinement of `Pop3Server`,
`ListIsComplete`, and the proofs of `Mp3p`, `CommandParser`, `RetrTransfer` and
`MonitorServer`, the protocol of the monitor last. With these, every property that the
passing runs check is a theorem, except those of liveness. To come: STAT and the sizes
of mails.
