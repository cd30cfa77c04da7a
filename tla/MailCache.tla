------------------------------ MODULE MailCache ------------------------------
(***************************************************************************)
(* The mailCache of one session (mailsCache/mailsCache.c): the array of    *)
(* mails numbered at login, their deletion flags, the count of the flags,  *)
(* and the iterator a LIST leaves behind between two calls of its handler  *)
(* (popFunctions.c, listWithNoArguments and continueList).                 *)
(*                                                                         *)
(* The number of lines a call of the handler prints depends on the room in *)
(* the output buffer: it may stop after any of them.                       *)
(*                                                                         *)
(* The directory is read twice at login: getMailCount counts its entries   *)
(* (mailCount), the array is made for that many, and initMailArray reads   *)
(* the directory again.  Mail may arrive or be fetched in between.         *)
(***************************************************************************)
EXTENDS Naturals, FiniteSets, Sequences

CONSTANT mailCount   \* entries of the first pass

ASSUME CountAssumption == mailCount \in Nat

VARIABLES
    entries,         \* entries of the second pass
    toDelete,        \* mail number -> its flag
    markedToDelete,
    iterator,
    listing,         \* "login", "overrun", or the LIST command: "none", "running", "paused"
    announced,       \* the number of messages in its first line
    lines,           \* the mail numbers of the lines it has printed
    mailInfo         \* the number in the struct next fills

listVars == <<iterator, listing, announced, lines, mailInfo>>
vars == <<entries, toDelete, markedToDelete, iterator, listing, announced, lines, mailInfo>>

Numbers == 1 .. mailCount
Valid == {n \in Numbers : ~ toDelete[n]}
Later == {n \in Valid : n > iterator}

\* mutant: a mail that is marked can be marked again
ExistingMailNo(n) == n \in Numbers

validMailNo(n) == n \in Numbers /\ ~ toDelete[n]

getAmountOfMails == mailCount - markedToDelete

\* initCache up to the second pass: the record is from calloc, the array from malloc,
\* so its flags may be anything.
Init ==
    /\ entries = 0
    /\ toDelete \in [Numbers -> BOOLEAN]
    /\ markedToDelete = 0
    /\ iterator = 0 /\ listing = "login" /\ announced = 0 /\ lines = <<>>
    /\ mailInfo = 0

\* initMailArray clears the flag of every entry it finds.  It does not compare their
\* number with mailCount: one too many is written behind the array, and what the
\* process does then is left open; of those that are missing the flags stay.
InitMailArray ==
    /\ listing = "login"
    /\ \E found \in 0 .. mailCount + 1 :
         /\ entries' = found
         /\ toDelete' = [n \in Numbers |-> n > found /\ toDelete[n]]
         /\ listing' = IF found > mailCount THEN "overrun" ELSE "none"
    /\ UNCHANGED <<markedToDelete, iterator, announced, lines, mailInfo>>

\* DELE of a valid number; any other number changes nothing.
MarkMailToDelete(n) ==
    /\ listing = "none"
    /\ validMailNo(n)
    /\ toDelete' = [toDelete EXCEPT ![n] = TRUE]
    /\ markedToDelete' = markedToDelete + 1
    /\ UNCHANGED <<entries, listVars>>

ResetToDelete ==
    /\ listing = "none"
    /\ toDelete' = [n \in Numbers |-> FALSE]
    /\ markedToDelete' = 0
    /\ UNCHANGED <<entries, listVars>>

\* next: the first valid mail behind the iterator is put into mailInfo; without
\* one it returns FAILED and leaves mailInfo (info) as it was.
NextMail(info) ==
    IF Later # {}
    THEN \E n \in Later :
           /\ \A m \in Later : n <= m
           /\ mailInfo' = n /\ iterator' = n
    ELSE mailInfo' = info /\ iterator' = mailCount

\* One round of the loop of continueList.  FAILED is 2, and a line is printed for
\* every result that is not negative.
PrintLine(info) ==
    /\ iterator < mailCount
    /\ NextMail(info)
    /\ lines' = Append(lines, mailInfo')
    /\ listing' = "running"
    /\ UNCHANGED <<entries, toDelete, markedToDelete, announced>>

\* LIST without an argument.  mailInfo comes from malloc: it may hold anything.
ListStarts ==
    /\ listing = "none"
    /\ listing' = "running" /\ iterator' = 0 /\ lines' = <<>>
    /\ announced' = getAmountOfMails
    /\ mailInfo' \in 0 .. mailCount
    /\ UNCHANGED <<entries, toDelete, markedToDelete>>

ListContinues == listing = "running" /\ PrintLine(mailInfo)

\* No room for another line: NOT_FINISHED.
ListPauses ==
    /\ listing = "running" /\ iterator < mailCount
    /\ listing' = "paused"
    /\ UNCHANGED <<entries, toDelete, markedToDelete, iterator, announced, lines, mailInfo>>

\* mutant: toBegin also in the calls that continue a LIST
ListStartsOver ==
    /\ listing = "paused"
    /\ listing' = "running" /\ iterator' = 0
    /\ UNCHANGED <<entries, toDelete, markedToDelete, announced, lines, mailInfo>>

\* The handler is called again once there is room, with another mailInfo.
ListResumes ==
    /\ listing = "paused"
    /\ \E junk \in 0 .. mailCount : PrintLine(junk)

ListEnds ==
    /\ listing = "running" /\ iterator >= mailCount
    /\ listing' = "none"
    /\ UNCHANGED <<entries, toDelete, markedToDelete, iterator, announced, lines, mailInfo>>

Next ==
    \/ InitMailArray
    \/ \E n \in Numbers : MarkMailToDelete(n)
    \/ ResetToDelete
    \/ ListStarts \/ ListContinues \/ ListPauses \/ ListResumes \/ ListEnds

Spec == Init /\ [][Next]_vars

-----------------------------------------------------------------------------
(* Properties *)

TypeOK ==
    /\ entries \in Nat
    /\ toDelete \in [Numbers -> BOOLEAN]
    /\ markedToDelete \in 0 .. mailCount
    /\ iterator \in 0 .. mailCount
    /\ listing \in {"login", "overrun", "none", "running", "paused"}
    /\ lines \in Seq(0 .. mailCount)
    /\ mailInfo \in 0 .. mailCount

\* Both passes of the login found the same number of entries.
LoginIsExact == listing # "login" /\ entries = mailCount

\* The count that STAT and LIST answer with is kept apart from the flags that DELE,
\* RETR and QUIT go by; after a login whose two passes agree it never drifts from
\* them, whatever is deleted twice, reset, or deleted again.
CountsAgree ==
    LoginIsExact =>
        /\ markedToDelete = Cardinality({n \in Numbers : toDelete[n]})
        /\ getAmountOfMails = Cardinality(Valid)

\* The lines in the order of the mails.
Ascending(s) == \A i, j \in DOMAIN s : i < j => s[i] < s[j]
Listed(s) == {s[i] : i \in DOMAIN s}

\* A LIST cut into any number of handler calls prints every mail that is not marked
\* once, in order, and as many as its first line said ("+OK There are %d messages
\* available"), after a login whose two passes agree; only behind them may one more
\* line follow, and only when the last mail of the array is marked.
ListIsComplete ==
    LoginIsExact /\ listing = "running" /\ iterator = mailCount =>
        LET body == SubSeq(lines, 1, announced)
        IN  /\ Len(lines) >= announced
            /\ Ascending(body) /\ Listed(body) = Valid
            /\ Len(lines) > announced => toDelete[mailCount] /\ Len(lines) = announced + 1
=============================================================================
