--------------------------- MODULE CircularBuffer ---------------------------
(***************************************************************************)
(* buffer/circularBuffer.c and its use by writeToClient, byte by byte.     *)
(*                                                                         *)
(* One call is in progress at a time: writeDataToBuffer with the bytes     *)
(* still to copy in todo, or the readDataFromBuffer of writeToClient with  *)
(* the bytes copied so far in dest.  writeToClient takes everything out,   *)
(* sends, and writes the part that was not sent back in.                   *)
(***************************************************************************)
EXTENDS Naturals, Sequences

CONSTANTS BUFFERSIZE, Byte, MaxWrite   \* bound: bytes of one call

ASSUME SizeAssumption == BUFFERSIZE \in Nat \ {0}
ASSUME WriteAssumption == MaxWrite \in Nat

VARIABLES
    buffer,    \* 0 .. BUFFERSIZE-1 -> byte
    count, readPtr, writePtr,
    call,      \* "none", "write", "read" or "exited"
    todo, dest,
    last       \* what the last send accepted

bufferVars == <<buffer, count, readPtr, writePtr>>
vars == <<buffer, count, readPtr, writePtr, call, todo, dest, last>>

Cells == 0 .. BUFFERSIZE - 1
SeqsUpTo(n) == UNION {[1 .. k -> Byte] : k \in 0 .. n}

isBufferFull == count = BUFFERSIZE
isBufferEmpty == count = 0

Init ==
    /\ buffer \in [Cells -> Byte]
    /\ count = 0 /\ readPtr = 0 /\ writePtr = 0
    /\ call = "none" /\ todo = <<>> /\ dest = <<>> /\ last = <<>>

CallWrite ==
    /\ call = "none"
    /\ \E src \in SeqsUpTo(MaxWrite) : todo' = src
    /\ call' = "write"
    /\ UNCHANGED <<bufferVars, dest, last>>

\* mutant: the write index is not wrapped
WriteByteUnwrapped ==
    /\ call = "write" /\ todo # <<>> /\ ~ isBufferFull
    /\ buffer' = [buffer EXCEPT ![writePtr] = Head(todo)]
    /\ writePtr' = writePtr + 1
    /\ count' = count + 1
    /\ todo' = Tail(todo)
    /\ UNCHANGED <<readPtr, call, dest, last>>

\* One round of the loop of writeDataToBuffer.
WriteByte ==
    /\ call = "write" /\ todo # <<>> /\ ~ isBufferFull
    /\ buffer' = [buffer EXCEPT ![writePtr] = Head(todo)]
    /\ writePtr' = (writePtr + 1) % BUFFERSIZE
    /\ count' = count + 1
    /\ todo' = Tail(todo)
    /\ UNCHANGED <<readPtr, call, dest, last>>

\* "Buffer is full, this shouldnt happen"
WriteFails ==
    /\ call = "write" /\ todo # <<>> /\ isBufferFull
    /\ call' = "exited"
    /\ UNCHANGED <<bufferVars, todo, dest, last>>

WriteReturns ==
    /\ call = "write" /\ todo = <<>>
    /\ call' = "none"
    /\ UNCHANGED <<bufferVars, todo, dest, last>>

\* writeToClient asks for all there is.
CallRead ==
    /\ call = "none" /\ ~ isBufferEmpty
    /\ call' = "read"
    /\ UNCHANGED <<bufferVars, todo, dest, last>>

\* One round of the loop of readDataFromBuffer.
ReadByte ==
    /\ call = "read" /\ ~ isBufferEmpty
    /\ dest' = Append(dest, buffer[readPtr])
    /\ readPtr' = (readPtr + 1) % BUFFERSIZE
    /\ count' = count - 1
    /\ UNCHANGED <<buffer, writePtr, call, todo, last>>

\* mutant: the bytes that were sent are written back
SendRepeated ==
    /\ call = "read" /\ isBufferEmpty
    /\ \E sent \in 1 .. Len(dest) :
         /\ last' = SubSeq(dest, 1, sent)
         /\ todo' = SubSeq(dest, 1, Len(dest) - sent)
    /\ call' = "write" /\ dest' = <<>>
    /\ UNCHANGED bufferVars

\* send accepts a part; the rest is written back.
SendReturns ==
    /\ call = "read" /\ isBufferEmpty
    /\ \E sent \in 1 .. Len(dest) :
         /\ last' = SubSeq(dest, 1, sent)
         /\ todo' = SubSeq(dest, sent + 1, Len(dest))
    /\ call' = "write" /\ dest' = <<>>
    /\ UNCHANGED bufferVars

Next == \/ CallWrite \/ WriteByte \/ WriteFails \/ WriteReturns
        \/ CallRead \/ ReadByte \/ SendReturns

Spec == Init /\ [][Next]_vars

-----------------------------------------------------------------------------
\* The bytes in the buffer, oldest first.
Contents == [i \in 1 .. count |-> buffer[(readPtr + i - 1) % BUFFERSIZE]]

\* The two indices and the count say the same thing, however often the indices
\* went round: no byte is overwritten before it is read, none is read twice.
PointersAgree ==
    /\ count \in 0 .. BUFFERSIZE
    /\ readPtr \in Cells
    /\ writePtr = (readPtr + count) % BUFFERSIZE

\* The buffer is a queue of bytes: the socket is handed what was written, in
\* order, across wrapping and partial sends.
Queue == INSTANCE ByteQueue WITH
    Capacity <- BUFFERSIZE,
    queue    <- dest \o Contents \o todo,
    failed   <- call = "exited"

QueueSpec == Queue!QueueSpec
=============================================================================
