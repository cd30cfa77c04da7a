---------------------------- MODULE RetrTransfer ----------------------------
(***************************************************************************)
(* The transfer of one mail by RETR: the character processor of            *)
(* mailsCache/byteStuff.c between the file and the output buffer           *)
(* (getNCharsFromMail), the handler that fills what is free of the buffer  *)
(* (continueRetr, retr), and writeToClient, which sends any part of it.    *)
(*                                                                         *)
(* A character is its class: "dot", "cr", "lf", "nul", "hi" for those that *)
(* are negative as a char, "x" for any other.                              *)
(***************************************************************************)
EXTENDS Naturals, SequencesExt

CONSTANTS
    BUFFERSIZE,                \* of the output buffer and of the processor (512)
    MAX_SINGLE_LINE_RESPONSE,  \* what has to be more than free (128)
    Mails,                     \* the files: sequences of characters
    MaxPending                 \* bound: units of earlier replies in the buffer

Characters == {"dot", "cr", "lf", "x", "hi", "nul"}

\* What readFromBuffer cannot tell from having nothing to read.
Lost == {"hi", "nul"}

Pending(n) == [i \in 1 .. n |-> "reply"]
Header == <<"+OK", "cr", "lf">>
Terminator == <<"cr", "lf", "dot", "cr", "lf">>

ASSUME SizeAssumption ==
    /\ BUFFERSIZE \in Nat /\ MAX_SINGLE_LINE_RESPONSE \in Nat
    /\ Len(Header) <= MAX_SINGLE_LINE_RESPONSE
    /\ MaxPending \in 0 .. BUFFERSIZE
ASSUME MailsAssumption == Mails \subseteq Seq(Characters)

VARIABLES
    mail,       \* the file
    text,       \* the file as the processor gets it: differs from it behind a NUL
    offset,     \* how much of it fread has returned
    feof,       \* its end-of-file indicator
    processor,  \* charactersProcessor
    command,    \* "queued", "processing", "executed" or "failed"
    handler,    \* "idle", "copying" (getNProcessedCharacters) or "sending"
    toCopy,     \* characters the loop of getNProcessedCharacters still wants
    out,        \* output_buff; the characters copied so far are its last ones
    sent        \* what send has accepted

vars == <<mail, text, offset, feof, processor, command, handler, toCopy, out, sent>>

-----------------------------------------------------------------------------
(* byteStuff.c *)

\* resetCharactersProcessor
ResetProcessor == [buffer |-> <<>>, state |-> "NEWLINE", eofReached |-> FALSE]

NextState(state, c) ==
    CASE c = "cr" -> "CR"
      [] c = "lf" -> "NEWLINE"
      [] c = "dot" /\ state = "NEWLINE" -> "DOT"
      [] OTHER -> "NORMAL"

\* mutant: a lone dot is not recognised at the end of the file
OwesDotBeforeCR(p) == p.state = "DOT" /\ p.buffer # <<>> /\ Head(p.buffer) = "cr"

\* A dot alone on its line is owed another one: the CR behind it is seen, or the
\* end of the file.
OwesDot(p) ==
    /\ p.state = "DOT"
    /\ IF p.buffer = <<>> THEN p.eofReached ELSE Head(p.buffer) = "cr"

-----------------------------------------------------------------------------
(* The handler *)

Room(o) == Len(o) + MAX_SINGLE_LINE_RESPONSE < BUFFERSIZE

Init ==
    /\ mail \in Mails /\ text = mail
    /\ offset = 0 /\ feof = FALSE /\ processor = ResetProcessor
    /\ command = "queued" /\ handler = "idle" /\ toCopy = 0
    /\ out \in {Pending(n) : n \in 0 .. MaxPending}
    /\ sent = <<>>

\* strncpy: zeros from the first NUL on.
Strncpy(chunk) ==
    [i \in DOMAIN chunk |-> IF \E j \in 1 .. i : chunk[j] = "nul" THEN "nul" ELSE chunk[i]]

\* addCharactersToProcess with what fread has returned, the characters of the file up
\* to next.
AddCharactersToProcess(next, eof) ==
    LET chunk == Strncpy(SubSeq(mail, offset + 1, next)) IN
    /\ processor' = [processor EXCEPT !.buffer = @ \o chunk, !.eofReached = eof]
    /\ text' = [i \in DOMAIN text |->
                  IF i \in offset + 1 .. next THEN chunk[i - offset] ELSE text[i]]
    /\ offset' = next
    /\ feof' = eof

\* mutant: fread is asked for n characters, whatever is left of the last ones
FillWithoutLeftOver(n) ==
    AddCharactersToProcess(Min({Len(mail), offset + n}), feof \/ offset + n > Len(mail))

\* The first half of getNCharsFromMail: the processor gets as many characters as
\* it lacks of n.  fread sets the end-of-file indicator only when it is asked for
\* more than there is.
Fill(n) ==
    LET lacks == n - Len(processor.buffer) IN
    IF lacks > 0
    THEN AddCharactersToProcess(Min({Len(mail), offset + lacks}),
                                feof \/ offset + lacks > Len(mail))
    ELSE UNCHANGED <<processor, text, offset, feof>>

\* continueRetr with o in the output buffer.
ContinueRetr(o) ==
    /\ command' = "processing"
    /\ out' = o
    /\ IF Room(o)
       THEN /\ Fill(BUFFERSIZE - Len(o))
            /\ toCopy' = BUFFERSIZE - Len(o)
            /\ handler' = "copying"
       ELSE /\ handler' = "sending"
            /\ UNCHANGED <<processor, text, offset, feof, toCopy>>
    /\ UNCHANGED <<mail, sent>>

\* continueRetr where fread meets an error (the file may be a directory): FAILED ends
\* the command, nothing that was processed is written, and no terminator.  What is
\* left in the processor is never read: openMail resets it.
ReadFails(o) ==
    /\ Room(o) /\ ~ feof /\ Len(processor.buffer) < BUFFERSIZE - Len(o)
    /\ command' = "failed"
    /\ out' = o
    /\ handler' = "sending"
    /\ UNCHANGED <<mail, text, offset, feof, processor, toCopy, sent>>

Retr ==
    /\ handler = "idle" /\ command = "queued" /\ Room(out)
    /\ ContinueRetr(out \o Header) \/ ReadFails(out \o Header)

ResumeRetr ==
    /\ handler = "idle" /\ command = "processing" /\ Room(out)
    /\ ContinueRetr(out) \/ ReadFails(out)

\* readFromBuffer adds the dot that is owed.
CopyDot ==
    /\ handler = "copying" /\ toCopy > 0
    /\ OwesDot(processor)
    /\ processor' = [processor EXCEPT !.state = "NORMAL"]
    /\ out' = Append(out, "dot")
    /\ toCopy' = toCopy - 1
    /\ UNCHANGED <<mail, text, offset, feof, command, handler, sent>>

\* readFromBuffer takes a character; one that is not positive ends the loop.
CopyCharacter ==
    /\ handler = "copying" /\ toCopy > 0
    /\ ~ OwesDot(processor) /\ processor.buffer # <<>>
    /\ LET c == Head(processor.buffer) IN
         /\ processor' = [buffer |-> Tail(processor.buffer),
                           state |-> NextState(processor.state, c),
                           eofReached |-> processor.eofReached]
         /\ out' = IF c \in Lost THEN out ELSE Append(out, c)
         /\ toCopy' = IF c \in Lost THEN 0 ELSE toCopy - 1
    /\ UNCHANGED <<mail, text, offset, feof, command, handler, sent>>

\* mutant: finished as soon as the file is, whatever the processor still holds
FinishedAtEof == feof

\* FINISHED, as getNCharsFromMail decides it.
Finished == feof /\ processor.buffer = <<>>

\* sendTerminationCRLF: dropped if it does not fit.
Terminated(o) == IF Len(o) + Len(Terminator) <= BUFFERSIZE THEN o \o Terminator ELSE o

\* The loop ends; if the transfer has, the terminator follows.
EndCopying ==
    /\ handler = "copying"
    /\ toCopy = 0 \/ (processor.buffer = <<>> /\ ~ OwesDot(processor))
    /\ handler' = "sending" /\ toCopy' = 0
    /\ command' = IF Finished THEN "executed" ELSE command
    /\ out' = IF Finished THEN Terminated(out) ELSE out
    /\ UNCHANGED <<mail, text, offset, feof, processor, sent>>

Over == command \in {"executed", "failed"}

\* mutant: a slot that has something to execute is not sent to
SkipWhenExecuted ==
    /\ handler = "idle" /\ Over /\ out # <<>>
    /\ handler' = "sending"
    /\ UNCHANGED <<mail, text, offset, feof, processor, command, toCopy, out, sent>>

\* Nothing to execute, or no room for a line: handleClients only sends.
SkipExecution ==
    /\ handler = "idle"
    /\ IF Over THEN out # <<>> ELSE ~ Room(out)
    /\ handler' = "sending"
    /\ UNCHANGED <<mail, text, offset, feof, processor, command, toCopy, out, sent>>

\* writeToClient: send takes some of it.
Send ==
    /\ handler = "sending"
    /\ \E k \in 0 .. Len(out) :
         /\ k = 0 <=> out = <<>>
         /\ sent' = sent \o SubSeq(out, 1, k)
         /\ out' = SubSeq(out, k + 1, Len(out))
    /\ handler' = "idle"
    /\ UNCHANGED <<mail, text, offset, feof, processor, command, toCopy>>

Next == Retr \/ ResumeRetr \/ CopyDot \/ CopyCharacter \/ EndCopying
        \/ SkipExecution \/ Send

\* The client goes on reading: its socket is writable again and again, and every
\* send takes something.
Spec == Init /\ [][Next]_vars /\ WF_vars(Next)

-----------------------------------------------------------------------------
(* What a client should receive *)

LoneDot(m, i) ==
    /\ m[i] = "dot"
    /\ i = 1 \/ m[i - 1] = "lf"
    /\ i = Len(m) \/ m[i + 1] = "cr"

\* What is sent for the character at i: a lone dot twice, a lost one not at all.
Stuffing(m, i) ==
    IF LoneDot(m, i) THEN <<"dot", "dot">> ELSE IF m[i] \in Lost THEN <<>> ELSE <<m[i]>>

Stuffed(m) == FlattenSeq([i \in DOMAIN m |-> Stuffing(m, i)])

\* How many units of earlier replies s begins with.
Earlier(s) ==
    CHOOSE n \in 0 .. Len(s) :
        (\A i \in 1 .. n : s[i] = "reply") /\ (n < Len(s) => s[n + 1] # "reply")

\* All that was, or is going to be, sent behind the earlier replies.
Reply == LET all == sent \o out IN SubSeq(all, Earlier(all) + 1, Len(all))

\* The file reaches the processor but for what stands behind a NUL in the part that one
\* fread returned, which strncpy makes NUL too.
LostOnlyBehindNul ==
    \A i \in DOMAIN mail : text[i] # mail[i] =>
        /\ text[i] = "nul"
        /\ \E j \in 1 .. i - 1 : i - j < BUFFERSIZE /\ mail[j] = "nul"

\* Where a lost character stands directly behind the end of a line, or behind a dot
\* that does, the two parts of the line are joined and a lone dot is sent as it is.
\* This says that m has none there.
LostInsideLines(m) ==
    \A i \in DOMAIN m : m[i] \in Lost =>
        /\ i > 1 /\ m[i - 1] # "lf"
        /\ m[i - 1] = "dot" => i > 2 /\ m[i - 2] # "lf"

-----------------------------------------------------------------------------
(* Properties *)

TypeOK ==
    /\ offset \in 0 .. Len(mail)
    /\ Len(processor.buffer) <= BUFFERSIZE
    /\ Len(out) <= BUFFERSIZE
    /\ command \in {"queued", "processing", "executed", "failed"}
    /\ handler \in {"idle", "copying", "sending"}
    /\ toCopy \in 0 .. BUFFERSIZE - Len(out)

\* However the file is cut by fread, by the room in the buffer and by send, the
\* client gets its bytes in order, each once, with a dot added to every lone dot and
\* nowhere else: but for those that are negative, for NUL, and for what stands behind
\* a NUL and was read together with it.  A mail without NUL loses nothing else.  The
\* dot owed at the end of the file may be left out, but only together with the
\* terminator, which never follows a part of the mail.
BodyIsStuffed ==
    LET body == Header \o Stuffed(text) IN
    /\ LostOnlyBehindNul
    /\ \/ IsPrefix(Reply, body) /\ (command = "executed" => Len(Reply) >= Len(body) - 1)
       \/ command = "executed" /\ Reply = body \o Terminator

\* The terminator is not met before the end: no CRLF.CRLF is sent inside the mail,
\* also where it is cut between two calls of the handler.
NoEarlyEnd ==
    \A i \in 1 .. Len(Reply) - Len(Terminator) :
        SubSeq(Reply, i, i + Len(Terminator) - 1) # Terminator

\* The command ends, with FAILED where the file cannot be read, and all it wrote is
\* sent.
TransferEnds == <>(Over /\ out = <<>>)

\* What the comment of continueRetr says of its guard ("so that the output buffer
\* has at least MAX_SINGLE_LINE_RESPONSE to write a final string (like a
\* \r\n.\r\n)"): the reply ends with the terminator.
EndsWithTerminator ==
    command = "executed" => IsSuffix(Terminator, Reply)
=============================================================================
