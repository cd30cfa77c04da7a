------------------------ MODULE CircularBufferProofs ------------------------
(***************************************************************************)
(* For every size of the buffer: the indices always agree with the count,  *)
(* a byte stored or fetched is a byte appended to, or taken from the front *)
(* of, the contents, and therefore the buffer implements a byte queue.     *)
(***************************************************************************)
EXTENDS CircularBuffer, SequenceTheorems, TLAPS

Inv ==
    /\ buffer \in [Cells -> Byte]
    /\ PointersAgree
    /\ todo \in Seq(Byte) /\ dest \in Seq(Byte)

\* What % does to the sums of two cells that the code forms.
LEMMA Wrap ==
  ASSUME NEW r \in Cells, NEW k \in 0 .. BUFFERSIZE
  PROVE  /\ (r + k) % BUFFERSIZE \in Cells
         /\ (r + k) % BUFFERSIZE = IF r + k < BUFFERSIZE THEN r + k ELSE r + k - BUFFERSIZE
  <1>1. CASE r + k < BUFFERSIZE
    BY <1>1, SizeAssumption DEF Cells
  <1>2. CASE ~ (r + k < BUFFERSIZE)
    <2> DEFINE x == r + k - BUFFERSIZE
    <2>1. x \in 0 .. BUFFERSIZE - 1 /\ r + k = x + BUFFERSIZE
      BY <1>2, SizeAssumption DEF Cells
    <2> HIDE DEF x
    <2>2. (x + BUFFERSIZE) % BUFFERSIZE = x
      BY <2>1, SizeAssumption
    <2>3. (r + k) % BUFFERSIZE = x
      BY <2>1, <2>2
    <2> QED BY <1>2, <2>1, <2>3 DEF Cells, x
  <1> QED BY <1>1, <1>2

\* The cell of the i-th byte of the contents.
CellOfContents ==
    \A i \in 1 .. count :
        /\ (readPtr + i - 1) % BUFFERSIZE \in Cells
        /\ (readPtr + i - 1) % BUFFERSIZE =
             IF readPtr + i - 1 < BUFFERSIZE THEN readPtr + i - 1
                                             ELSE readPtr + i - 1 - BUFFERSIZE

LEMMA ContentsCell == Inv => CellOfContents
  <1> SUFFICES ASSUME Inv, NEW i \in 1 .. count
               PROVE  /\ (readPtr + i - 1) % BUFFERSIZE \in Cells
                      /\ (readPtr + i - 1) % BUFFERSIZE =
                           IF readPtr + i - 1 < BUFFERSIZE THEN readPtr + i - 1
                                                           ELSE readPtr + i - 1 - BUFFERSIZE
    BY DEF CellOfContents
  <1>1. i - 1 \in 0 .. BUFFERSIZE /\ readPtr \in Cells
    BY SizeAssumption DEF Inv, PointersAgree
  <1>2. readPtr + i - 1 = readPtr + (i - 1)
    BY <1>1 DEF Cells
  <1> QED BY <1>1, <1>2, Wrap

LEMMA ContentsTyped == Inv => Contents \in Seq(Byte) /\ Len(Contents) = count
  <1> SUFFICES ASSUME Inv PROVE Contents \in Seq(Byte) /\ Len(Contents) = count
    OBVIOUS
  <1>1. count \in Nat
    BY DEF Inv, PointersAgree
  <1>2. \A i \in 1 .. count : buffer[(readPtr + i - 1) % BUFFERSIZE] \in Byte
    BY ContentsCell DEF Inv, CellOfContents
  <1> QED BY <1>1, <1>2 DEF Contents

\* The write index points behind the contents: at no cell that is still to be read.
LEMMA WriteIndexIsFree ==
  ASSUME Inv, count < BUFFERSIZE
  PROVE  /\ writePtr \in Cells
         /\ \A i \in 1 .. count : (readPtr + i - 1) % BUFFERSIZE # writePtr
  <1>1. count \in 0 .. BUFFERSIZE /\ readPtr \in Cells
    BY DEF Inv, PointersAgree
  <1>2. /\ writePtr \in Cells
        /\ writePtr = IF readPtr + count < BUFFERSIZE THEN readPtr + count
                                                     ELSE readPtr + count - BUFFERSIZE
    BY <1>1, Wrap DEF Inv, PointersAgree
  <1>3. ASSUME NEW i \in 1 .. count
        PROVE  (readPtr + i - 1) % BUFFERSIZE # writePtr
    BY <1>1, <1>2, <1>3, ContentsCell, SizeAssumption DEF Cells, CellOfContents
  <1> QED BY <1>2, <1>3

\* Storing a byte appends it to the contents.
LEMMA StoreAppends ==
  ASSUME Inv, Inv', WriteByte
  PROVE  Contents' = Append(Contents, Head(todo))
  <1>1. /\ count \in Nat /\ count < BUFFERSIZE /\ count' = count + 1
        /\ readPtr' = readPtr /\ readPtr \in Cells
        /\ buffer' = [buffer EXCEPT ![writePtr] = Head(todo)]
        /\ Head(todo) \in Byte
    BY SizeAssumption DEF WriteByte, Inv, PointersAgree, isBufferFull
  <1>2. Contents \in Seq(Byte) /\ Len(Contents) = count
    BY ContentsTyped
  <1>3. Contents' \in Seq(Byte) /\ Len(Contents') = count + 1
    <2>1. (Inv => Contents \in Seq(Byte) /\ Len(Contents) = count)'
      BY ContentsTyped, PTL
    <2> QED BY <1>1, <2>1
  <1>4. \A i \in 1 .. count : Contents'[i] = Contents[i]
    <2>1. ASSUME NEW i \in 1 .. count
          PROVE  Contents'[i] = Contents[i]
      <3> DEFINE k == (readPtr + i - 1) % BUFFERSIZE
      <3>1. k \in Cells /\ k # writePtr
        BY <1>1, WriteIndexIsFree, ContentsCell DEF CellOfContents
      <3>2. buffer'[k] = buffer[k]
        BY <1>1, <3>1 DEF Inv
      <3>3. Contents[i] = buffer[k] /\ Contents'[i] = buffer'[k]
        BY <1>1 DEF Contents
      <3> QED BY <3>2, <3>3
    <2> QED BY <2>1
  <1>5. Contents'[count + 1] = Head(todo)
    <2>1. count + 1 \in 1 .. count' /\ readPtr' + (count + 1) - 1 = readPtr + count
      BY <1>1 DEF Cells
    <2>2. Contents'[count + 1] = buffer'[writePtr]
      BY <1>1, <2>1 DEF Contents, Inv, PointersAgree
    <2> QED BY <1>1, <2>2, WriteIndexIsFree DEF Inv
  <1> DEFINE t == Append(Contents, Head(todo))
  <1>6. /\ t \in Seq(Byte) /\ Len(t) = count + 1 /\ t[count + 1] = Head(todo)
        /\ \A i \in 1 .. count : t[i] = Contents[i]
    BY <1>1, <1>2
  <1> HIDE DEF t
  <1>7. \A i \in 1 .. Len(t) : Contents'[i] = t[i]
    BY <1>1, <1>4, <1>5, <1>6
  <1>8. Contents' = t
    BY <1>3, <1>6, <1>7, SeqEqual
  <1> QED BY <1>8 DEF t

\* Fetching a byte takes the first of the contents.
LEMMA FetchTakes ==
  ASSUME Inv, Inv', ReadByte
  PROVE  /\ Contents # <<>>
         /\ dest' = Append(dest, Head(Contents))
         /\ Contents' = Tail(Contents)
  <1>1. /\ count \in 1 .. BUFFERSIZE /\ count' = count - 1 /\ buffer' = buffer
        /\ readPtr \in Cells /\ readPtr' = (readPtr + 1) % BUFFERSIZE
        /\ 1 \in 0 .. BUFFERSIZE
    BY SizeAssumption DEF ReadByte, Inv, PointersAgree, isBufferEmpty
  <1>2. Contents \in Seq(Byte) /\ Len(Contents) = count
    BY ContentsTyped
  <1>3. Contents' \in Seq(Byte) /\ Len(Contents') = count - 1
    <2>1. (Inv => Contents \in Seq(Byte) /\ Len(Contents) = count)'
      BY ContentsTyped, PTL
    <2> QED BY <1>1, <2>1
  <1>4. Contents[1] = buffer[readPtr]
    <2>1. readPtr + 1 - 1 = readPtr /\ readPtr < BUFFERSIZE
      BY <1>1, SizeAssumption DEF Cells
    <2>2. (readPtr + 1 - 1) % BUFFERSIZE = readPtr
      BY <1>1, <2>1, ContentsCell DEF CellOfContents
    <2> QED BY <1>1, <2>2 DEF Contents
  <1>5. ASSUME NEW i \in 1 .. count - 1
        PROVE  Contents'[i] = Contents[i + 1]
    <2>1. i + 1 \in 1 .. count /\ i \in 1 .. count'
      BY <1>1
    <2>2. (readPtr' + i - 1) % BUFFERSIZE =
            IF readPtr' + i - 1 < BUFFERSIZE THEN readPtr' + i - 1
                                             ELSE readPtr' + i - 1 - BUFFERSIZE
      <3>1. (Inv => CellOfContents)'
        BY ContentsCell, PTL
      <3> QED BY <2>1, <3>1 DEF CellOfContents
    <2>3. (readPtr + (i + 1) - 1) % BUFFERSIZE =
            IF readPtr + (i + 1) - 1 < BUFFERSIZE THEN readPtr + (i + 1) - 1
                                                  ELSE readPtr + (i + 1) - 1 - BUFFERSIZE
      BY <2>1, ContentsCell DEF CellOfContents
    <2>4. readPtr' = IF readPtr + 1 < BUFFERSIZE THEN readPtr + 1 ELSE readPtr + 1 - BUFFERSIZE
      BY <1>1, Wrap
    <2>5. (readPtr' + i - 1) % BUFFERSIZE = (readPtr + (i + 1) - 1) % BUFFERSIZE
      BY <1>1, <2>2, <2>3, <2>4, SizeAssumption DEF Cells
    <2> QED BY <1>1, <2>1, <2>5 DEF Contents
  <1> DEFINE t == Tail(Contents)
  <1>6. /\ t \in Seq(Byte) /\ Len(t) = count - 1
        /\ \A i \in 1 .. count - 1 : t[i] = Contents[i + 1]
    BY <1>1, <1>2, HeadTailProperties
  <1> HIDE DEF t
  <1>7. \A i \in 1 .. Len(t) : Contents'[i] = t[i]
    BY <1>5, <1>6
  <1>8. Contents' = t
    BY <1>3, <1>6, <1>7, SeqEqual
  <1>9. Contents # <<>> /\ Head(Contents) = Contents[1]
    BY <1>1, <1>2
  <1> QED BY <1>4, <1>8, <1>9 DEF t, ReadByte

LEMMA InitInv == Init => Inv
  BY SizeAssumption DEF Init, Inv, PointersAgree, Cells

LEMMA NextInv == Inv /\ [Next]_vars => Inv'
  <1> SUFFICES ASSUME Inv, [Next]_vars PROVE Inv'
    OBVIOUS
  <1>1. CASE WriteByte
    <2>1. writePtr \in Cells /\ Head(todo) \in Byte /\ Tail(todo) \in Seq(Byte)
      BY <1>1, Wrap DEF Inv, PointersAgree, WriteByte
    <2>2. count' \in 0 .. BUFFERSIZE /\ readPtr' \in Cells
      BY <1>1, SizeAssumption DEF Inv, PointersAgree, WriteByte, isBufferFull
    <2>3. writePtr' = (readPtr' + count') % BUFFERSIZE
      <3>1. count \in 0 .. BUFFERSIZE /\ count < BUFFERSIZE /\ count + 1 \in 0 .. BUFFERSIZE
            /\ 1 \in 0 .. BUFFERSIZE /\ readPtr \in Cells
        BY <1>1, SizeAssumption DEF Inv, PointersAgree, WriteByte, isBufferFull
      <3>2. writePtr' = IF writePtr + 1 < BUFFERSIZE THEN writePtr + 1
                                                     ELSE writePtr + 1 - BUFFERSIZE
        BY <1>1, <2>1, <3>1, Wrap DEF WriteByte
      <3>3. writePtr = IF readPtr + count < BUFFERSIZE THEN readPtr + count
                                                       ELSE readPtr + count - BUFFERSIZE
        BY <3>1, Wrap DEF Inv, PointersAgree
      <3>4. (readPtr + (count + 1)) % BUFFERSIZE =
              IF readPtr + (count + 1) < BUFFERSIZE THEN readPtr + (count + 1)
                                                    ELSE readPtr + (count + 1) - BUFFERSIZE
        BY <3>1, Wrap
      <3>5. readPtr' = readPtr /\ count' = count + 1
        BY <1>1 DEF WriteByte
      <3> QED BY <3>1, <3>2, <3>3, <3>4, <3>5, SizeAssumption DEF Cells
    <2> QED BY <1>1, <2>1, <2>2, <2>3 DEF Inv, PointersAgree, WriteByte
  <1>2. CASE ReadByte
    <2>1. count \in 1 .. BUFFERSIZE /\ count - 1 \in 0 .. BUFFERSIZE /\ 1 \in 0 .. BUFFERSIZE
          /\ readPtr \in Cells /\ count' = count - 1 /\ readPtr' = (readPtr + 1) % BUFFERSIZE
      BY <1>2, SizeAssumption DEF Inv, PointersAgree, ReadByte, isBufferEmpty
    <2>2. readPtr' \in Cells
      BY <2>1, Wrap
    <2>3. writePtr = (readPtr' + count') % BUFFERSIZE
      <3>1. readPtr' = IF readPtr + 1 < BUFFERSIZE THEN readPtr + 1 ELSE readPtr + 1 - BUFFERSIZE
        BY <2>1, Wrap
      <3>2. (readPtr' + (count - 1)) % BUFFERSIZE =
              IF readPtr' + (count - 1) < BUFFERSIZE THEN readPtr' + (count - 1)
                                                     ELSE readPtr' + (count - 1) - BUFFERSIZE
        BY <2>1, <2>2, Wrap
      <3>3. writePtr = IF readPtr + count < BUFFERSIZE THEN readPtr + count
                                                       ELSE readPtr + count - BUFFERSIZE
        BY <2>1, Wrap DEF Inv, PointersAgree
      <3> QED BY <2>1, <2>2, <3>1, <3>2, <3>3, SizeAssumption DEF Cells
    <2>4. dest' \in Seq(Byte)
      BY <1>2, <2>1 DEF ReadByte, Inv
    <2> QED BY <1>2, <2>1, <2>2, <2>3, <2>4 DEF Inv, PointersAgree, ReadByte
  <1>3. CASE SendReturns
    <2>1. PICK sent \in 1 .. Len(dest) : todo' = SubSeq(dest, sent + 1, Len(dest))
      BY <1>3 DEF SendReturns
    <2>2. todo' \in Seq(Byte)
      BY <2>1, SubSeqProperties DEF Inv
    <2>3. dest' = <<>> /\ <<>> \in Seq(Byte)
      BY <1>3 DEF SendReturns
    <2> QED BY <1>3, <2>2, <2>3 DEF Inv, PointersAgree, SendReturns, bufferVars
  <1>4. CASE CallWrite
    <2>1. todo' \in Seq(Byte)
      BY <1>4, WriteAssumption DEF CallWrite, SeqsUpTo
    <2> QED BY <1>4, <2>1 DEF Inv, PointersAgree, CallWrite, bufferVars
  <1>5. CASE WriteFails \/ WriteReturns \/ CallRead \/ UNCHANGED vars
    BY <1>5 DEF Inv, PointersAgree, WriteFails, WriteReturns, CallRead, bufferVars, vars
  <1> QED BY <1>1, <1>2, <1>3, <1>4, <1>5 DEF Next

\* For every buffer size, writePtr = (readPtr + count) % BUFFERSIZE throughout the
\* byte loops of writeDataToBuffer and readDataFromBuffer.
THEOREM Pointers == Spec => []PointersAgree
  <1>1. Inv => PointersAgree
    BY DEF Inv
  <1> QED BY <1>1, InitInv, NextInv, PTL DEF Spec

-----------------------------------------------------------------------------
(* The buffer implements the byte queue *)

\* The call in progress owns todo or dest, never both.
CallInv ==
    /\ call \in {"none", "write", "read", "exited"}
    /\ call # "read" => dest = <<>>
    /\ call \in {"none", "read"} => todo = <<>>

LEMMA InitCall == Init => CallInv
  BY DEF Init, CallInv

LEMMA NextCall == CallInv /\ [Next]_vars => CallInv'
  BY DEF CallInv, Next, CallWrite, WriteByte, WriteFails, WriteReturns, CallRead,
         ReadByte, SendReturns, vars

\* Moving a byte between two neighbouring parts of the queue does not change it.
LEMMA MoveByte ==
  ASSUME NEW S, NEW s \in Seq(S), NEW t \in Seq(S), t # <<>>
  PROVE  s \o t = Append(s, Head(t)) \o Tail(t)
  <1> DEFINE h == Head(t)
             r == Tail(t)
             a == s \o t
             b == Append(s, h) \o r
  <1>1. /\ h \in S /\ r \in Seq(S) /\ Len(t) \in Nat \ {0} /\ Len(s) \in Nat
        /\ Len(r) = Len(t) - 1 /\ h = t[1]
        /\ \A i \in 1 .. Len(r) : r[i] = t[i + 1]
    BY HeadTailProperties, EmptySeq, LenProperties
  <1>2. /\ Append(s, h) \in Seq(S) /\ Len(Append(s, h)) = Len(s) + 1
        /\ Append(s, h)[Len(s) + 1] = h
        /\ \A i \in 1 .. Len(s) : Append(s, h)[i] = s[i]
    BY <1>1
  <1>3. /\ a \in Seq(S) /\ Len(a) = Len(s) + Len(t)
        /\ \A i \in 1 .. Len(s) + Len(t) : a[i] = IF i <= Len(s) THEN s[i] ELSE t[i - Len(s)]
    BY ConcatProperties
  <1> HIDE DEF h, r, a
  <1>4. /\ b \in Seq(S) /\ Len(b) = Len(s) + 1 + Len(r)
        /\ \A i \in 1 .. Len(s) + 1 + Len(r) :
             b[i] = IF i <= Len(s) + 1 THEN Append(s, h)[i] ELSE r[i - (Len(s) + 1)]
    <2> DEFINE q == Append(s, h)
    <2>1. q \in Seq(S) /\ r \in Seq(S) /\ Len(q) = Len(s) + 1
      BY <1>1, <1>2
    <2> HIDE DEF q
    <2>2. /\ q \o r \in Seq(S) /\ Len(q \o r) = Len(q) + Len(r)
          /\ \A i \in 1 .. Len(q) + Len(r) :
               (q \o r)[i] = IF i <= Len(q) THEN q[i] ELSE r[i - Len(q)]
      BY <2>1, ConcatProperties
    <2> QED BY <2>1, <2>2 DEF q
  <1> HIDE DEF b
  <1>5. ASSUME NEW i \in 1 .. Len(a) PROVE a[i] = b[i]
    <2>1. CASE i <= Len(s)
      BY <2>1, <1>1, <1>2, <1>3, <1>4
    <2>2. CASE i = Len(s) + 1
      <3>1. Len(s) + 1 \in 1 .. Len(s) + Len(t) /\ Len(s) + 1 \in 1 .. Len(s) + 1 + Len(r)
            /\ ~ (Len(s) + 1 <= Len(s)) /\ Len(s) + 1 - Len(s) = 1
        BY <1>1
      <3>2. a[Len(s) + 1] = t[1]
        BY <3>1, <1>3
      <3> DEFINE q == Append(s, h)
      <3>3. q[Len(s) + 1] = h
        BY <1>2
      <3>4. \A j \in 1 .. Len(s) + 1 + Len(r) :
              b[j] = IF j <= Len(s) + 1 THEN q[j] ELSE r[j - (Len(s) + 1)]
        BY <1>4
      <3> HIDE DEF q
      <3>5. b[Len(s) + 1] = q[Len(s) + 1]
        <4>1. Len(s) + 1 <= Len(s) + 1
          BY <1>1
        <4> QED BY <3>1, <3>4, <4>1
      <3> QED BY <2>2, <3>2, <3>3, <3>5, <1>1
    <2>3. CASE i > Len(s) + 1
      <3>1. i \in 1 .. Len(s) + Len(t) /\ i \in 1 .. Len(s) + 1 + Len(r)
            /\ ~ (i <= Len(s)) /\ ~ (i <= Len(s) + 1)
        BY <2>3, <1>1, <1>3
      <3>2. a[i] = t[i - Len(s)]
        BY <3>1, <1>3
      <3>3. b[i] = r[i - (Len(s) + 1)]
        BY <3>1, <1>4
      <3>4. i - (Len(s) + 1) \in 1 .. Len(r) /\ i - (Len(s) + 1) + 1 = i - Len(s)
        BY <2>3, <1>1, <1>3
      <3> QED BY <3>2, <3>3, <3>4, <1>1
    <2> QED BY <2>1, <2>2, <2>3, <1>1, <1>3
  <1>6. a = b
    <2>1. a \in Seq(S) /\ b \in Seq(S) /\ Len(a) = Len(b)
      BY <1>1, <1>3, <1>4
    <2> QED BY ONLY <1>5, <2>1, SeqEqual
  <1> QED BY <1>6 DEF a, b, h, r

QueueOf == dest \o Contents \o todo

\* Copying one byte in or out leaves the queue as it is.
LEMMA WriteByteStutters ==
  ASSUME Inv, Inv', CallInv, WriteByte
  PROVE  QueueOf' = QueueOf
  <1> DEFINE c == Contents
  <1>1. c \in Seq(Byte) /\ todo \in Seq(Byte) /\ todo # <<>> /\ dest \in Seq(Byte)
    BY ContentsTyped DEF WriteByte, Inv
  <1>2. dest' = dest /\ todo' = Tail(todo) /\ Contents' = Append(c, Head(todo))
    BY StoreAppends DEF WriteByte
  <1>3. Append(c, Head(todo)) \in Seq(Byte) /\ Tail(todo) \in Seq(Byte)
    BY <1>1, HeadTailProperties
  <1> HIDE DEF c
  <1>4. c \o todo = Append(c, Head(todo)) \o Tail(todo)
    BY <1>1, MoveByte
  <1>5. (dest \o c) \o todo = dest \o (c \o todo)
    <2>1. dest \in Seq(Byte) /\ c \in Seq(Byte) /\ todo \in Seq(Byte)
      BY <1>1
    <2> QED BY <2>1, ConcatAssociative, SMTT(30)
  <1> DEFINE d == Append(c, Head(todo))
             r == Tail(todo)
  <1>6. dest \in Seq(Byte) /\ d \in Seq(Byte) /\ r \in Seq(Byte)
    BY <1>1, <1>3
  <1> HIDE DEF d, r
  <1>7. (dest \o d) \o r = dest \o (d \o r)
    BY <1>6, ConcatAssociative, SMTT(30)
  <1> QED BY <1>2, <1>4, <1>5, <1>7 DEF QueueOf, c, d, r

LEMMA ReadByteStutters ==
  ASSUME Inv, Inv', CallInv, ReadByte
  PROVE  QueueOf' = QueueOf
  <1> DEFINE c == Contents
  <1>1. c \in Seq(Byte) /\ dest \in Seq(Byte) /\ c # <<>>
    BY ContentsTyped, FetchTakes DEF Inv
  <1>2. dest' = Append(dest, Head(c)) /\ Contents' = Tail(c) /\ todo' = todo
    BY FetchTakes DEF ReadByte
  <1> HIDE DEF c
  <1>3. dest \o c = Append(dest, Head(c)) \o Tail(c)
    BY <1>1, MoveByte
  <1> QED BY <1>2, <1>3 DEF QueueOf, c

\* Every step of the byte loops is a step of the queue, or none.
LEMMA StepRefines ==
  ASSUME Inv, Inv', CallInv, CallInv', [Next]_vars
  PROVE  [Queue!QueueNext]_(Queue!queueVars)
  <1> USE DEF Queue!QueueNext, Queue!queueVars
  <1> DEFINE c == Contents
  <1>1. c \in Seq(Byte) /\ Len(c) = count /\ todo \in Seq(Byte) /\ dest \in Seq(Byte)
        /\ count \in 0 .. BUFFERSIZE
    BY ContentsTyped DEF Inv, PointersAgree
  <1>2. CASE CallWrite
    <2>1. dest = <<>> /\ todo = <<>> /\ dest' = <<>> /\ Contents' = c /\ todo' \in Seq(Byte)
          /\ last' = last /\ call = "none" /\ call' = "write"
      BY <1>2, <1>1 DEF CallInv, CallWrite, Inv, bufferVars, Contents
    <2> HIDE DEF c
    <2> DEFINE n == todo'
               q == c \o n
    <2>2. n \in Seq(Byte)
      BY <2>1
    <2> HIDE DEF n
    <2>3. dest \o c \o todo = c /\ dest' \o Contents' \o todo' = q
      BY <1>1, <2>1, ConcatEmptySeq DEF n
    <2>4. /\ q \in Seq(Byte) /\ Len(q) = Len(c) + Len(n) /\ Len(c) \in Nat /\ Len(n) \in Nat
          /\ \A i \in 1 .. Len(c) : q[i] = c[i]
      <3>1. /\ q \in Seq(Byte) /\ Len(q) = Len(c) + Len(n)
            /\ \A i \in 1 .. Len(c) + Len(n) : q[i] = IF i <= Len(c) THEN c[i] ELSE n[i - Len(c)]
        BY <1>1, <2>2, ConcatProperties
      <3>2. Len(c) \in Nat /\ Len(n) \in Nat
        BY <1>1, <2>2, LenProperties
      <3> HIDE DEF q
      <3>3. ASSUME NEW i \in 1 .. Len(c) PROVE q[i] = c[i]
        <4>1. i \in 1 .. Len(c) + Len(n) /\ i <= Len(c)
          BY <3>2
        <4> QED BY <4>1, <3>1
      <3> QED BY <3>1, <3>2, <3>3
    <2> HIDE DEF q
    <2>5. SubSeq(c, 1, Len(c)) = c
      BY <1>1, SubSeqFull
    <2>6. /\ SubSeq(q, 1, Len(c)) \in Seq(Byte) /\ Len(SubSeq(q, 1, Len(c))) = Len(c)
          /\ \A i \in 1 .. Len(c) : SubSeq(q, 1, Len(c))[i] = q[i]
      BY <2>4
    <2>7. SubSeq(q, 1, Len(c)) = c
      <3> DEFINE z == SubSeq(q, 1, Len(c))
      <3>1. z \in Seq(Byte) /\ Len(z) = Len(c) /\ \A i \in 1 .. Len(z) : z[i] = c[i]
        BY <2>4, <2>6
      <3> HIDE DEF z
      <3>2. z = c
        BY <3>1, <1>1, SeqEqual
      <3> QED BY <3>2 DEF z
    <2>8. Queue!IsPrefix(c, q)
      BY <2>4, <2>5, <2>7 DEF Queue!IsPrefix
    <2>9. Queue!Enqueue
      BY <2>1, <2>3, <2>4, <2>8 DEF Queue!Enqueue, c
    <2> QED BY <2>9
  <1>3. CASE WriteByte
    <2>1. QueueOf' = QueueOf /\ last' = last /\ call' = call
      BY <1>3, WriteByteStutters DEF WriteByte
    <2> QED BY <2>1 DEF QueueOf
  <1>4. CASE ReadByte
    <2>1. QueueOf' = QueueOf /\ last' = last /\ call' = call
      BY <1>4, ReadByteStutters DEF ReadByte
    <2> QED BY <2>1 DEF QueueOf
  <1>5. CASE WriteFails
    <2>1. /\ dest = <<>> /\ Len(c) = BUFFERSIZE /\ todo # <<>>
          /\ Contents' = c /\ dest' = dest /\ todo' = todo /\ last' = last
          /\ call' = "exited"
      BY <1>5, <1>1 DEF WriteFails, CallInv, isBufferFull, bufferVars, Contents
    <2> HIDE DEF c
    <2>2. dest \o c = c
      BY <2>1, <1>1, ConcatEmptySeq
    <2>3. Len(c \o todo) = Len(c) + Len(todo) /\ Len(todo) \in Nat \ {0}
      BY <1>1, <2>1, ConcatProperties, EmptySeq
    <2>4. Len(dest \o c \o todo) > BUFFERSIZE
      BY <1>1, <2>1, <2>2, <2>3
    <2>5. Queue!GiveUp
      BY <2>1, <2>4 DEF Queue!GiveUp, c
    <2> QED BY <2>5
  <1>6. CASE SendReturns
    <2>1. /\ call = "read" /\ call' = "write" /\ todo = <<>> /\ count = 0
          /\ Contents' = c /\ dest' = <<>>
      BY <1>6 DEF SendReturns, CallInv, isBufferEmpty, bufferVars, Contents
    <2>2. c = <<>>
      BY <1>1, <2>1, EmptySeq
    <2>3. dest \o c \o todo = dest
      BY <1>1, <2>1, <2>2, ConcatEmptySeq
    <2>4. PICK sent \in 1 .. Len(dest) :
            last' = SubSeq(dest, 1, sent) /\ todo' = SubSeq(dest, sent + 1, Len(dest))
      BY <1>6 DEF SendReturns
    <2>5. todo' \in Seq(Byte)
      BY DEF Inv
    <2>6. dest' \o Contents' \o todo' = todo'
      BY <2>1, <2>2, <2>5, ConcatEmptySeq
    <2>7. sent \in 0 .. Len(dest)
      BY <1>1
    <2> HIDE DEF c
    <2>8. Queue!SendFront
      BY <2>1, <2>3, <2>4, <2>6, <2>7 DEF Queue!SendFront, c
    <2> QED BY <2>8
  <1>7. CASE WriteReturns \/ CallRead \/ UNCHANGED vars
    <2>1. /\ Contents' = Contents /\ dest' = dest /\ todo' = todo /\ last' = last
          /\ call = "exited" <=> call' = "exited"
      BY <1>7 DEF WriteReturns, CallRead, bufferVars, vars, Contents
    <2> QED BY <2>1
  <1> QED BY <1>2, <1>3, <1>4, <1>5, <1>6, <1>7 DEF Next

\* For every buffer size and every alphabet, the circular buffer and the writeback
\* of writeToClient implement the byte queue: what the socket is handed is what was
\* written, in order, none lost, none twice.
THEOREM BufferIsQueue == Spec => QueueSpec
  <1>1. Init => Queue!QueueInit
    <2> SUFFICES ASSUME Init PROVE Queue!QueueInit
      OBVIOUS
    <2>1. Contents \in Seq(Byte) /\ Len(Contents) = 0
      BY InitInv, ContentsTyped DEF Init
    <2>2. Contents = <<>>
      BY <2>1, EmptySeq
    <2>3. <<>> \o Contents \o <<>> = <<>>
      BY <2>2, <2>1, ConcatEmptySeq
    <2> QED BY <2>3 DEF Init, Queue!QueueInit
  <1>2. Inv /\ Inv' /\ CallInv /\ CallInv' /\ [Next]_vars
            => [Queue!QueueNext]_(Queue!queueVars)
    BY StepRefines
  <1> QED BY <1>1, <1>2, InitInv, NextInv, InitCall, NextCall, PTL
          DEF Spec, QueueSpec, Queue!QueueSpec
=============================================================================
