------------------------------ MODULE ByteQueue ------------------------------
(***************************************************************************)
(* What an output buffer promises its client: the bytes written to it are  *)
(* handed to the socket in the order they were written, none twice and     *)
(* none left out, however much of them each send accepts; and the process  *)
(* is given up only when more is written than the buffer can hold.         *)
(***************************************************************************)
EXTENDS Naturals, SequencesExt

CONSTANTS Capacity, Byte

VARIABLES
    queue,   \* bytes written and not yet accepted by the socket
    last,    \* the bytes the last send accepted
    failed   \* the process has been given up

queueVars == <<queue, last, failed>>

QueueInit == queue = <<>> /\ last = <<>> /\ failed = FALSE

\* Any bytes are written behind those that are there.
Enqueue ==
    /\ ~ failed
    /\ queue' \in Seq(Byte)
    /\ IsPrefix(queue, queue')
    /\ UNCHANGED <<last, failed>>

\* Send k bytes from the front.
SendFront ==
    /\ ~ failed
    /\ \E k \in 0 .. Len(queue) :
         /\ last' = SubSeq(queue, 1, k)
         /\ queue' = SubSeq(queue, k + 1, Len(queue))
    /\ UNCHANGED failed

GiveUp ==
    /\ Len(queue) > Capacity
    /\ failed' = TRUE
    /\ UNCHANGED <<queue, last>>

QueueNext == Enqueue \/ SendFront \/ GiveUp

QueueSpec == QueueInit /\ [][QueueNext]_queueVars
=============================================================================
