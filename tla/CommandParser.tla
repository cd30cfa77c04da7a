---------------------------- MODULE CommandParser ----------------------------
(***************************************************************************)
(* parsers/commandParser.c and its use by readFromClient: the list of      *)
(* full_command nodes that the bytes of one connection are parsed into,    *)
(* whatever parts of the stream the calls of recv deliver.                 *)
(*                                                                         *)
(* A character is its class: "x" for a printable one, "sp", "cr", "lf",    *)
(* and "ctl" for any other.  The three string buffers of a node are the    *)
(* number of characters in each, and a command name is known to getCommand *)
(* when it has MAXCOMMANDSIZE characters, as all of the table have.        *)
(*                                                                         *)
(* addData gets an array on the stack: the bytes received, a NUL, and      *)
(* behind it whatever the stack held.  discardUntilCRLF returns a position *)
(* behind the NUL, so those bytes can be parsed as if they had been sent;  *)
(* they are a choice of the action Recv.  (The build has AddressSanitizer, *)
(* which stops a read behind the array, not one behind the NUL.)           *)
(***************************************************************************)
EXTENDS Naturals, SequencesExt

CONSTANTS
    MAXCOMMANDSIZE,    \* characters of a command name (4)
    MAXARGSIZE,        \* characters of an argument (40)
    MAXCOMMANDLENGTH,  \* bytes of one recv (255)
    Lines,             \* pieces of input: sequences of character classes
    MaxLines,          \* bound: pieces a client sends
    StaleTails         \* what may be behind the NUL, up to the zero bytes that
                       \* stop the parser

\* The classes of characters.
Classes == {"x", "sp", "cr", "lf", "ctl"}

ASSUME SizeAssumption ==
    MAXCOMMANDSIZE \in Nat /\ MAXARGSIZE \in Nat /\ MAXCOMMANDLENGTH \in Nat
ASSUME StreamAssumption ==
    /\ MaxLines \in Nat
    /\ Lines \subseteq Seq(Classes) /\ StaleTails \subseteq Seq(Classes)

VARIABLES
    input,      \* all the client is going to send
    received,   \* how much of it recv has returned
    list,       \* command_list
    executed,   \* what getFirstCommand has returned
    overread    \* bytes behind the NUL have been parsed

vars == <<input, received, list, executed, overread>>

-----------------------------------------------------------------------------
(* A node of the list *)

MaxSize(field) == IF field = 1 THEN MAXCOMMANDSIZE ELSE MAXARGSIZE
Known(length) == length = MAXCOMMANDSIZE

\* "SURPLUS" is INVALID in the code, set by a third space: for the rest of this
\* recv the loop of processWriting goes on as in WRITINGARG2.
Statuses == {"WRITING", "SURPLUS", "INVALID", "COMPLETE", "COMPLETEINVALID"}

NewNode == [status |-> "WRITING", field |-> 1, lens |-> <<0, 0, 0>>, receivedCR |-> FALSE]
Finished(node) == node.status \in {"COMPLETE", "COMPLETEINVALID"}

\* discardUntilCRLF
Discard(node, c) ==
    IF c = "lf" /\ node.receivedCR
    THEN [node EXCEPT !.status = "COMPLETEINVALID"]
    ELSE [node EXCEPT !.receivedCR = (c = "cr")]

\* The character that makes a command invalid is left to discardUntilCRLF.
Invalidate(node, c) == Discard([node EXCEPT !.status = "INVALID"], c)

\* A space behind the second argument.
NextField(node) ==
    IF node.field = 3 THEN [node EXCEPT !.status = "SURPLUS"]
                      ELSE [node EXCEPT !.field = @ + 1]

\* mutant: one character too many is stored
StoreOneMore(node, c) ==
    IF c # "x" \/ node.lens[node.field] > MaxSize(node.field)
    THEN Invalidate(node, c)
    ELSE [node EXCEPT !.lens[node.field] = @ + 1]

\* A character goes into the buffer of its field if it is printable and fits.
Store(node, c) ==
    IF c # "x" \/ node.lens[node.field] >= MaxSize(node.field)
    THEN Invalidate(node, c)
    ELSE [node EXCEPT !.lens[node.field] = @ + 1]

\* The character behind a CR; a command that is complete is looked up.
AfterCR(node, c) ==
    IF c # "lf" THEN [node EXCEPT !.status = "INVALID"]
    ELSE IF Known(node.lens[1]) THEN [node EXCEPT !.status = "COMPLETE"]
    ELSE [node EXCEPT !.status = "COMPLETEINVALID"]

\* mutant: a CR is not remembered from one recv to the next
WriteForgettingCR(node, c) ==
    IF node.receivedCR THEN AfterCR(node, c)
    ELSE IF c = "sp" THEN NextField(node)
    ELSE IF c = "cr" THEN [node EXCEPT !.receivedCR = (node.field = 1)]
    ELSE Store(node, c)

\* One round of the loop of processWriting.
Write(node, c) ==
    IF node.receivedCR THEN AfterCR(node, c)
    ELSE IF c = "sp" THEN NextField(node)
    ELSE IF c = "cr" THEN [node EXCEPT !.receivedCR = TRUE]
    ELSE Store(node, c)

ProcessNode(node, c) ==
    IF node.status = "INVALID" THEN Discard(node, c) ELSE Write(node, c)

-----------------------------------------------------------------------------
(* The list *)

\* mutant: a node is left behind as soon as it is invalid
AddCharAfterInvalid(nodes, c) ==
    LET open == IF nodes = <<>> \/ Last(nodes).status # "WRITING"
                THEN Append(nodes, NewNode) ELSE nodes
    IN  [open EXCEPT ![Len(open)] = ProcessNode(@, c)]

\* addData for one character: a finished node is followed by a new one.
AddChar(nodes, c) ==
    LET open == IF nodes = <<>> \/ Finished(Last(nodes))
                THEN Append(nodes, NewNode) ELSE nodes
    IN  [open EXCEPT ![Len(open)] = ProcessNode(@, c)]

\* At the NUL processWriting returns, and SURPLUS is only INVALID from then on.
AtNul(nodes) ==
    IF Last(nodes).status = "SURPLUS"
    THEN [nodes EXCEPT ![Len(nodes)].status = "INVALID"]
    ELSE nodes

AddData(nodes, data) == AtNul(FoldLeft(AddChar, nodes, data))

\* discardUntilCRLF met the NUL, and the loop of addData goes on behind it, if
\* what is there and the NUL behind that are still in the array.
ReadsBeyond(nodes, data, stale) ==
    /\ Last(nodes).status = "INVALID" /\ stale # <<>>
    /\ Len(data) + Len(stale) < MAXCOMMANDLENGTH

AvailableCommands(nodes) == nodes # <<>> /\ Finished(Head(nodes))

\* What executeFirstCommand gets to know of a node: no callback, or the strings.
Command(node) == IF node.status = "COMPLETE" THEN node.lens ELSE <<>>

-----------------------------------------------------------------------------
Inputs == {FlattenSeq(lines) : lines \in UNION {[1 .. n -> Lines] : n \in 1 .. MaxLines}}

Init ==
    /\ input \in Inputs
    /\ received = 0 /\ list = <<>> /\ executed = <<>>
    /\ overread = FALSE

\* readFromClient, called once every available command is executed.
Recv ==
    /\ ~ AvailableCommands(list)
    /\ \E n \in 1 .. MAXCOMMANDLENGTH, stale \in StaleTails :
         LET data   == SubSeq(input, received + 1, received + n)
             nodes  == AddData(list, data)
             beyond == ReadsBeyond(nodes, data, stale)
         IN  /\ received + n <= Len(input)
             /\ received' = received + n
             /\ list' = IF beyond THEN AddData(nodes, stale) ELSE nodes
             /\ overread' = (overread \/ beyond)
    /\ UNCHANGED <<input, executed>>

\* mutant: the newest command is taken
GetLastCommand ==
    /\ AvailableCommands(list)
    /\ executed' = Append(executed, Command(Last(list)))
    /\ list' = Front(list)
    /\ UNCHANGED <<input, received, overread>>

GetFirstCommand ==
    /\ AvailableCommands(list)
    /\ executed' = Append(executed, Command(Head(list)))
    /\ list' = Tail(list)
    /\ UNCHANGED <<input, received, overread>>

Next == Recv \/ GetFirstCommand

Spec == Init /\ [][Next]_vars

-----------------------------------------------------------------------------
(* What a stream means, whatever pieces it arrives in *)

Positions(s, classes) == {i \in DOMAIN s : s[i] \in classes}

Spaces(text) == Cardinality(Positions(text, {"sp"}))

\* The field of what follows text: a third space and those behind it change nothing.
Field(text) == IF Spaces(text) > 2 THEN 3 ELSE Spaces(text) + 1

FieldLength(text, k) ==
    Cardinality({i \in Positions(text, {"x"}) : Field(SubSeq(text, 1, i - 1)) = k})

\* A text that may still become a command when a CR follows it.
Stands(text) ==
    /\ Positions(text, {"cr", "lf", "ctl"}) = {}
    /\ \A k \in 1 .. 3 : FieldLength(text, k) <= MaxSize(k)

\* The INVALID that a third space sets lasts only if recv cuts the line behind it.
Wrong(text, cut) == ~ Stands(text) \/ (cut /\ Spaces(text) > 2)

\* What a line, without its last two characters, is taken for.
Reading(line, cut) ==
    IF Wrong(line, cut) \/ ~ Known(FieldLength(line, 1))
    THEN <<>> ELSE [k \in 1 .. 3 |-> FieldLength(line, k)]

\* A line ends behind CR and LF, or behind a CR, one other character and LF if the CR
\* was the first thing wrong with the line.
IsEnd(text, cut) ==
    LET n == Len(text)
    IN  /\ text[n] = "lf"
        /\ \/ n > 1 /\ text[n - 1] = "cr"
           \/ n > 2 /\ text[n - 2] = "cr" /\ ~ Wrong(SubSeq(text, 1, n - 3), cut)

\* The places where a line that starts at i may end.
Ends(s, i, cut) == {j \in i .. Len(s) : IsEnd(SubSeq(s, i, j), cut)}

\* The commands that s may be taken for: one for each of its lines, in order.
Meanings(s) ==
    LET from[i \in 1 .. Len(s) + 1] ==
            UNION { LET ends == Ends(s, i, cut)
                        end  == Min(ends)
                    IN  IF ends = {} THEN {<<>>}
                        ELSE {<<Reading(SubSeq(s, i, end - 2), cut)>> \o rest :
                                  rest \in from[end + 1]}
                  : cut \in BOOLEAN }
    IN  from[1]

-----------------------------------------------------------------------------
(* Properties *)

\* No string of a node outgrows its buffer: the strcpy of getFirstCommand and the
\* comparison of getCommand stay within them.
TypeOK ==
    /\ received \in 0 .. Len(input)
    /\ \A i \in DOMAIN list :
         /\ list[i].status \in Statuses \ {"SURPLUS"}
         /\ \A k \in 1 .. 3 : list[i].lens[k] \in 0 .. MaxSize(k)

\* Every node but the last is finished, whatever was received, and so the server
\* never waits for input while the list holds a command behind an unfinished one.
OnlyLastIsOpen == \A i \in DOMAIN list : i < Len(list) => Finished(list[i])

\* The nodes that getFirstCommand is going to return: those in front of the first
\* unfinished one.
Available(nodes) ==
    LET open == SelectInSeq(nodes, LAMBDA node : ~ Finished(node))
    IN  IF open = 0 THEN nodes ELSE SubSeq(nodes, 1, open - 1)

Parsed == executed \o [i \in DOMAIN Available(list) |-> Command(Available(list)[i])]

\* What a comment says of addData ("receives client input as a NULL terminated
\* string and parses it into a list of full_command"): the commands are the lines
\* of the bytes received, one for each, in order.
ParsedAsSent == Parsed \in Meanings(SubSeq(input, 1, received))

\* However the stream is cut by recv - inside a name, between CR and LF, behind a CR
\* that is no line end, in a line that is thrown away, several lines at once - the
\* commands executed are its lines, in order, as long as the parser kept to the bytes
\* it was given.  A cut decides no more than whether a line with a third space is an
\* invalid one from there on.
ParsedUnlessOverread == ~ overread => ParsedAsSent

\* What the client will be answered is settled line by line: whatever arrives
\* later, and whatever is parsed behind the NUL, a command that has been finished
\* is neither changed, dropped nor executed twice.
ParsedOnlyGrows == [][IsPrefix(Parsed, Parsed')]_vars
=============================================================================
