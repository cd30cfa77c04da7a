------------------------------ MODULE Maildrop ------------------------------
(***************************************************************************)
(* What the server promises about the mail itself, without sockets,        *)
(* buffers, replies or users' passwords: a session opens a maildrop, marks *)
(* mails it saw there, takes the marks back, and ends in one of two ways.  *)
(* Committed, it removes marked mails in that one step, and nothing else;  *)
(* dropped, it removes nothing.  That a commit removes all of the marked   *)
(* mails is not promised: one that cannot be removed stays.  Pop3Server    *)
(* implements it (see Pop3Server!MaildropSpec).                            *)
(*                                                                         *)
(* It does not promise that a maildrop has one session at a time: the code *)
(* means to, and does not (see Pop3Server!MaildirIsExclusive).             *)
(***************************************************************************)
CONSTANTS Sessions, Users, NoUser, Mails

VARIABLES
    holds,     \* session -> the maildrop it has open, or NoUser
    seen,      \* session -> the mails that were there when it opened it
    marked,    \* session -> the mails it asked to delete
    maildrop   \* user -> the mails there are

maildropVars == <<holds, seen, marked, maildrop>>

MaildropInit ==
    /\ holds = [s \in Sessions |-> NoUser]
    /\ seen = [s \in Sessions |-> {}]
    /\ marked = [s \in Sessions |-> {}]
    /\ maildrop \in [Users -> SUBSET Mails]

\* The session s has nothing open any more.
Ends(s) ==
    /\ holds' = [holds EXCEPT ![s] = NoUser]
    /\ seen' = [seen EXCEPT ![s] = {}]
    /\ marked' = [marked EXCEPT ![s] = {}]

Open(s, u) ==
    /\ holds[s] = NoUser
    /\ holds' = [holds EXCEPT ![s] = u]
    /\ seen' = [seen EXCEPT ![s] = maildrop[u]]
    /\ UNCHANGED <<marked, maildrop>>

Mark(s, m) ==
    /\ holds[s] # NoUser
    /\ m \in seen[s] \ marked[s]
    /\ marked' = [marked EXCEPT ![s] = @ \cup {m}]
    /\ UNCHANGED <<holds, seen, maildrop>>

Unmark(s) ==
    /\ holds[s] # NoUser
    /\ marked' = [marked EXCEPT ![s] = {}]
    /\ UNCHANGED <<holds, seen, maildrop>>

\* Marked mails leave the maildrop; those that cannot be removed stay.
Removes(s) ==
    \E kept \in SUBSET marked[s] :
        maildrop' = [maildrop EXCEPT ![holds[s]] = @ \ (marked[s] \ kept)]

Commit(s) ==
    /\ holds[s] # NoUser
    /\ Removes(s)
    /\ Ends(s)

Drop(s) ==
    /\ holds[s] # NoUser
    /\ Ends(s)
    /\ UNCHANGED maildrop

Arrive(u, m) ==
    /\ maildrop' = [maildrop EXCEPT ![u] = @ \cup {m}]
    /\ UNCHANGED <<holds, seen, marked>>

AllEnd ==
    /\ holds' = [s \in Sessions |-> NoUser]
    /\ seen' = [s \in Sessions |-> {}]
    /\ marked' = [s \in Sessions |-> {}]

\* The server stops: every session is dropped.
DropAll == AllEnd /\ UNCHANGED maildrop

\* The server is killed while it commits a session: the others are dropped.
CommitCut(s) ==
    /\ holds[s] # NoUser
    /\ Removes(s)
    /\ AllEnd

MaildropNext ==
    \/ \E s \in Sessions :
        \/ \E u \in Users : Open(s, u)
        \/ \E m \in Mails : Mark(s, m)
        \/ Unmark(s) \/ Commit(s) \/ CommitCut(s) \/ Drop(s)
    \/ \E u \in Users, m \in Mails : Arrive(u, m)
    \/ DropAll

MaildropSpec == MaildropInit /\ [][MaildropNext]_maildropVars
=============================================================================
