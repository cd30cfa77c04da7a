------------------------- MODULE RetrTransferProofs -------------------------
(***************************************************************************)
(* The transfer of a mail sends the stuffed file, and no end of a mail     *)
(* inside of it: for every file, every size of the output buffer, whatever *)
(* is in it when the transfer begins, and whatever send takes each time.   *)
(*                                                                         *)
(* The reply is at each moment the stuffed text of the characters that the *)
(* processor has let go (StuffedTo of Position), but for the dot that a    *)
(* lone dot at the end of them is still owed.  What fread brings changes   *)
(* nothing of that: the first character that it brings is never changed.   *)
(***************************************************************************)
EXTENDS RetrTransfer, SequenceTheorems, TLAPS

\* The body of the loop of FlattenSeq.
Join(s, t) == s \o t
JoinLoop == INSTANCE SequenceInduction WITH op <- Join

Units == Characters \cup {"+OK"}
States == {"NEWLINE", "DOT", "CR", "NORMAL"}

\* How many characters of the text the processor has let go.
Position == offset - Len(processor.buffer)

\* The stuffed text of the first k characters of m.
StuffedTo(m, k) == FlattenSeq([i \in 1 .. k |-> Stuffing(m, i)])

\* A dot is missing in the reply.
Owed == processor.state = "DOT" /\ LoneDot(text, Position)

-----------------------------------------------------------------------------
(* The invariant *)

\* What has been read differs from the file in runs of NULs only, each behind one.
TextInv ==
    /\ mail \in Mails /\ mail \in Seq(Characters) /\ Len(text) = Len(mail)
    /\ \A i \in offset + 1 .. Len(mail) : text[i] = mail[i]
    /\ LostOnlyBehindNul
    /\ \A i \in DOMAIN mail : text[i] # mail[i] => i > 1 /\ text[i - 1] = "nul"

ProcessorInv ==
    /\ text \in Seq(Characters)
    /\ offset \in 0 .. Len(text) /\ feof \in BOOLEAN
    /\ feof => offset = Len(text)
    /\ processor \in [buffer : Seq(Characters), state : States, eofReached : {feof}]
    /\ Len(processor.buffer) <= BUFFERSIZE
    /\ Position \in Nat
    /\ \A i \in 1 .. Len(processor.buffer) : processor.buffer[i] = text[Position + i]
    /\ processor.state = "NEWLINE" <=> Position = 0 \/ text[Position] = "lf"
    /\ processor.state = "DOT" =>
         /\ Position > 0 /\ text[Position] = "dot"
         /\ Position = 1 \/ text[Position - 1] = "lf"

HandlerInv ==
    /\ command \in {"queued", "processing", "executed", "failed"}
    /\ handler \in {"idle", "copying", "sending"}
    /\ sent \in Seq(Units \cup {"reply"}) /\ out \in Seq(Units \cup {"reply"})
    /\ Len(out) <= BUFFERSIZE
    /\ toCopy \in 0 .. BUFFERSIZE - Len(out)
    /\ handler = "copying" => /\ command = "processing"
                              /\ \/ toCopy + Len(out) = BUFFERSIZE
                                 \/ toCopy = 0 /\ processor.state = "NORMAL"
    /\ handler # "copying" => toCopy = 0
    /\ command = "queued" => offset = 0 /\ processor.state = "NEWLINE"
    /\ command = "executed" => Finished

\* r is what is to be sent of the mail so far.
Body(r) == IF Owed THEN r \o <<"dot">> = Header \o StuffedTo(text, Position)
                   ELSE r = Header \o StuffedTo(text, Position)

ReplyInv ==
    /\ \E n \in 0 .. MaxPending : sent \o out = Pending(n) \o Reply
    /\ Reply \in Seq(Units)
    /\ \/ command = "queued" /\ Reply = <<>>
       \/ command # "queued" /\ Body(Reply)
       \/ command = "executed" /\ Reply = Header \o Stuffed(text) \o Terminator

IInv == TextInv /\ ProcessorInv /\ HandlerInv /\ ReplyInv

\* No line of r that is ended is a lone dot, and an open one is known to the processor.
Guarded(r) ==
    /\ \A i \in 1 .. Len(r) - 2 : ~ (r[i] = "lf" /\ r[i + 1] = "dot" /\ r[i + 2] = "cr")
    /\ \A i \in 1 .. Len(r) :
         i = Len(r) /\ r[i] = "lf" => processor.state = "NEWLINE"
    /\ \A i \in 1 .. Len(r) - 1 :
         i = Len(r) - 1 /\ r[i] = "lf" /\ r[i + 1] = "dot" =>
             processor.state = "DOT"

GuardInv ==
    \/ Guarded(Reply)
    \/ /\ command = "executed" /\ processor.state # "DOT"
       /\ \E n \in 0 .. Len(Reply) :
            Reply = SubSeq(Reply, 1, n) \o Terminator /\ Guarded(SubSeq(Reply, 1, n))

-----------------------------------------------------------------------------
(* FlattenSeq *)

\* The function that FlattenSeq chooses.
Flattening(seqs, f) ==
    f = [i \in 1 .. Len(seqs) |-> IF i = 1 THEN seqs[i] ELSE f[i - 1] \o seqs[i]]

LEMMA FlattenIs ==
  ASSUME NEW E, NEW seqs \in Seq(Seq(E)), Len(seqs) > 0
  PROVE  \E f : Flattening(seqs, f) /\ FlattenSeq(seqs) = f[Len(seqs)]
  <1> DEFINE n == Len(seqs)
             f == CHOOSE g : g = [i \in 1 .. Len(seqs) |->
                                    IF i = 1 THEN seqs[i] ELSE g[i - 1] \o seqs[i]]
  <1>1. n \in Nat /\ n >= 1
    OBVIOUS
  <1>2. FlattenSeq(seqs) = f[n]
    BY <1>1 DEF FlattenSeq
  <1>3. \E g : g = [i \in 1 .. Len(seqs) |-> IF i = 1 THEN seqs[i] ELSE g[i - 1] \o seqs[i]]
    <2>1. PICK g : JoinLoop!Iterates(g, seqs[1], seqs, 1, n)
      BY <1>1, JoinLoop!IterationExists
    <2>2. g = [i \in 1 .. n |-> IF i = 1 THEN seqs[1] ELSE g[i - 1] \o seqs[i]]
      BY <2>1 DEF JoinLoop!Iterates, Join
    <2>3. g = [i \in 1 .. n |-> IF i = 1 THEN seqs[i] ELSE g[i - 1] \o seqs[i]]
      BY <2>2
    <2> QED BY <2>3
  <1>4. Flattening(seqs, f)
    BY <1>3 DEF Flattening
  <1> HIDE DEF f
  <1> QED BY <1>2, <1>4

LEMMA FlatteningRounds ==
  ASSUME NEW seqs, NEW n \in Nat, n >= 1, Len(seqs) = n, NEW f, Flattening(seqs, f)
  PROVE  f[1] = seqs[1] /\ \A i \in 1 .. n - 1 : f[i + 1] = f[i] \o seqs[i + 1]
  <1>1. f[1] = seqs[1]
    BY DEF Flattening
  <1>2. ASSUME NEW i \in 1 .. n - 1 PROVE f[i + 1] = f[i] \o seqs[i + 1]
    <2>1. i + 1 \in 1 .. n /\ i + 1 # 1 /\ (i + 1) - 1 = i
      OBVIOUS
    <2> QED BY <2>1 DEF Flattening
  <1> QED BY <1>1, <1>2

\* One sequence more.
LEMMA FlattenAppend ==
  ASSUME NEW E, NEW s \in Seq(Seq(E)), NEW t \in Seq(Seq(E)), Len(t) = Len(s) + 1,
         \A i \in 1 .. Len(s) : t[i] = s[i]
  PROVE  FlattenSeq(t) = FlattenSeq(s) \o t[Len(t)]
  <1> DEFINE n == Len(s)
  <1>1. n \in Nat /\ Len(t) = n + 1 /\ n + 1 \in Nat /\ n + 1 >= 1 /\ (n + 1) - 1 = n
    OBVIOUS
  <1>2. PICK g : Flattening(t, g) /\ FlattenSeq(t) = g[Len(t)]
    <2>1. Len(t) > 0 /\ t \in Seq(Seq(E))
      BY <1>1
    <2> QED BY ONLY <2>1, FlattenIs
  <1>3. g[1] = t[1] /\ \A i \in 1 .. n : g[i + 1] = g[i] \o t[i + 1]
    <2>1. g[1] = t[1] /\ \A i \in 1 .. (n + 1) - 1 : g[i + 1] = g[i] \o t[i + 1]
      BY ONLY <1>1, <1>2, FlatteningRounds
    <2> QED BY <1>1, <2>1
  <1>4. CASE n = 0
    <2>1. FlattenSeq(s) = <<>>
      BY <1>4 DEF FlattenSeq
    <2>2. t[1] \in Seq(E)
      BY <1>1, ElementOfSeq
    <2> QED BY <1>1, <1>2, <1>3, <1>4, <2>1, <2>2
  <1>5. CASE n > 0
    <2>1. PICK f : Flattening(s, f) /\ FlattenSeq(s) = f[n]
      <3>1. Len(s) > 0 /\ s \in Seq(Seq(E))
        BY <1>1, <1>5
      <3> QED BY ONLY <3>1, FlattenIs
    <2>2. f[1] = s[1] /\ \A i \in 1 .. n - 1 : f[i + 1] = f[i] \o s[i + 1]
      <3>1. n \in Nat /\ n >= 1 /\ Len(s) = n
        BY <1>1, <1>5
      <3> QED BY ONLY <3>1, <2>1, FlatteningRounds
    <2> DEFINE S == {k \in Nat : k + 1 <= n => f[k + 1] = g[k + 1]}
    <2>3. 0 \in S
      BY <1>1, <1>3, <1>5, <2>2
    <2> HIDE DEF n
    <2>4. \A k \in Nat : k \in S => k + 1 \in S
      <3> SUFFICES ASSUME NEW k \in Nat, k \in S, (k + 1) + 1 <= n
                   PROVE  f[(k + 1) + 1] = g[(k + 1) + 1]
        OBVIOUS
      <3>1. f[k + 1] = g[k + 1] /\ k + 1 \in 1 .. n - 1 /\ k + 1 \in 1 .. n
        BY <1>1
      <3>2. t[(k + 1) + 1] = s[(k + 1) + 1]
        BY <1>1, <3>1 DEF n
      <3> HIDE DEF S
      <3> QED BY <1>3, <2>2, <3>1, <3>2
    <2> HIDE DEF S
    <2>5. n - 1 \in S
      <3>1. n - 1 \in Nat
        BY <1>1, <1>5
      <3>2. Nat \subseteq S
        BY ONLY <2>3, <2>4, JoinLoop!SetInduction
      <3> QED BY <3>1, <3>2
    <2>6. f[n] = g[n]
      <3>1. (n - 1) + 1 = n
        BY <1>1
      <3> QED BY <1>1, <2>5, <3>1 DEF S
    <2>7. n \in 1 .. n
      BY <1>1, <1>5
    <2> QED BY <1>1, <1>2, <1>3, <2>1, <2>6, <2>7
  <1> QED BY <1>1, <1>4, <1>5

-----------------------------------------------------------------------------
(* The stuffed text *)

LEMMA StuffingType ==
  ASSUME NEW m \in Seq(Characters), NEW i \in 1 .. Len(m)
  PROVE  Stuffing(m, i) \in Seq(Characters)
  <1>1. m[i] \in Characters
    BY ElementOfSeq
  <1>2. <<m[i]>> \in Seq(Characters) /\ <<>> \in Seq(Characters)
    BY <1>1
  <1>3. <<"dot", "dot">> \in Seq(Characters)
    BY DEF Characters
  <1> QED BY <1>2, <1>3 DEF Stuffing

LEMMA StuffedStep ==
  ASSUME NEW m \in Seq(Characters), NEW k \in Nat, k < Len(m)
  PROVE  StuffedTo(m, k + 1) = StuffedTo(m, k) \o Stuffing(m, k + 1)
  <1> DEFINE s == [i \in 1 .. k |-> Stuffing(m, i)]
             t == [i \in 1 .. k + 1 |-> Stuffing(m, i)]
  <1>1. Len(m) \in Nat
    OBVIOUS
  <1>2. \A i \in 1 .. k + 1 : Stuffing(m, i) \in Seq(Characters)
    BY <1>1, StuffingType
  <1>3. s \in Seq(Seq(Characters)) /\ Len(s) = k
    BY <1>2
  <1>4. t \in Seq(Seq(Characters)) /\ Len(t) = k + 1 /\ t[k + 1] = Stuffing(m, k + 1)
    BY <1>2
  <1>5. \A i \in 1 .. k : t[i] = s[i]
    OBVIOUS
  <1> HIDE DEF s, t
  <1>6. FlattenSeq(t) = FlattenSeq(s) \o t[Len(t)]
    <2>1. Len(t) = Len(s) + 1 /\ \A i \in 1 .. Len(s) : t[i] = s[i]
      BY <1>3, <1>4, <1>5
    <2> QED BY ONLY <1>3, <1>4, <2>1, FlattenAppend
  <1> QED BY <1>4, <1>6 DEF StuffedTo, s, t

LEMMA StuffedStart == ASSUME NEW m PROVE StuffedTo(m, 0) = <<>>
  BY DEF StuffedTo, FlattenSeq

LEMMA StuffedEnd ==
  ASSUME NEW m \in Seq(Characters) PROVE StuffedTo(m, Len(m)) = Stuffed(m)
  BY DEF StuffedTo, Stuffed

LEMMA StuffedType ==
  ASSUME NEW m \in Seq(Characters)
  PROVE  \A k \in 0 .. Len(m) : StuffedTo(m, k) \in Seq(Characters)
  <1> DEFINE S == {k \in Nat : k <= Len(m) => StuffedTo(m, k) \in Seq(Characters)}
  <1>1. 0 \in S
    BY StuffedStart, EmptySeq
  <1>2. \A k \in Nat : k \in S => k + 1 \in S
    <2> SUFFICES ASSUME NEW k \in Nat, k \in S, k + 1 <= Len(m)
                 PROVE  StuffedTo(m, k + 1) \in Seq(Characters)
      OBVIOUS
    <2>1. StuffedTo(m, k) \in Seq(Characters) /\ k < Len(m) /\ k + 1 \in 1 .. Len(m)
      OBVIOUS
    <2>2. Stuffing(m, k + 1) \in Seq(Characters)
      BY <2>1, StuffingType
    <2> QED BY <2>1, <2>2, StuffedStep, ConcatProperties
  <1> HIDE DEF S
  <1>3. Nat \subseteq S
    BY ONLY <1>1, <1>2, JoinLoop!SetInduction
  <1> QED BY <1>3 DEF S

\* The text of some characters is a prefix of the text of all of them.
LEMMA StuffedPrefix ==
  ASSUME NEW m \in Seq(Characters), NEW k \in 0 .. Len(m)
  PROVE  \E rest \in Seq(Characters) : Stuffed(m) = StuffedTo(m, k) \o rest
  <1> DEFINE P(d) == \E rest \in Seq(Characters) :
                         StuffedTo(m, k + d) = StuffedTo(m, k) \o rest
             S == {d \in Nat : k + d <= Len(m) => P(d)}
  <1>1. StuffedTo(m, k) \in Seq(Characters)
    BY StuffedType
  <1>2. 0 \in S
    <2>1. StuffedTo(m, k) = StuffedTo(m, k) \o <<>> /\ <<>> \in Seq(Characters) /\ k + 0 = k
      BY <1>1
    <2> QED BY <2>1
  <1>3. ASSUME NEW d \in Nat, P(d), k + (d + 1) <= Len(m)
        PROVE  P(d + 1)
    <2>1. PICK rest \in Seq(Characters) : StuffedTo(m, k + d) = StuffedTo(m, k) \o rest
      BY <1>3
    <2>2. k + d \in Nat /\ k + d < Len(m) /\ k + (d + 1) = (k + d) + 1
          /\ (k + d) + 1 \in 1 .. Len(m)
      BY <1>3
    <2> DEFINE c == Stuffing(m, (k + d) + 1)
    <2>3. c \in Seq(Characters)
      BY <2>2, StuffingType
    <2>4. StuffedTo(m, (k + d) + 1) = StuffedTo(m, k + d) \o c
      BY <2>2, StuffedStep
    <2> HIDE DEF c
    <2>5. StuffedTo(m, k + (d + 1)) = StuffedTo(m, k) \o (rest \o c)
      <3>1. (StuffedTo(m, k) \o rest) \o c = StuffedTo(m, k) \o (rest \o c)
        BY ONLY <1>1, <2>3, rest \in Seq(Characters), ConcatAssociative
      <3> QED BY <2>1, <2>2, <2>4, <3>1
    <2> QED BY <2>3, <2>5, ConcatProperties
  <1> HIDE DEF P
  <1>6. \A d \in Nat : d \in S => d + 1 \in S
    <2> SUFFICES ASSUME NEW d \in Nat, d \in S, k + (d + 1) <= Len(m) PROVE P(d + 1)
      OBVIOUS
    <2> QED BY <1>3
  <1> HIDE DEF S
  <1>4. Nat \subseteq S
    BY ONLY <1>2, <1>6, JoinLoop!SetInduction
  <1>5. Len(m) - k \in S /\ k + (Len(m) - k) = Len(m)
    BY <1>4
  <1> QED BY <1>5, StuffedEnd, SMTT(30) DEF S, P

-----------------------------------------------------------------------------
(* The reply *)

Shape == (\E n \in 0 .. MaxPending : sent \o out = Pending(n) \o Reply) /\ Reply \in Seq(Units)

\* The reply is what follows the earlier ones.
LEMMA ReplyIs ==
  ASSUME NEW n \in Nat, NEW r \in Seq(Units), NEW s, s = Pending(n) \o r
  PROVE  SubSeq(s, Earlier(s) + 1, Len(s)) = r
  <1> DEFINE All == Units \cup {"reply"}
  <1>1. /\ Pending(n) \in Seq(All) /\ Len(Pending(n)) = n
        /\ \A i \in 1 .. n : Pending(n)[i] = "reply"
    BY DEF Pending
  <1>2. r \in Seq(All) /\ Len(r) \in Nat
    OBVIOUS
  <1>3. /\ s \in Seq(All) /\ Len(s) = n + Len(r)
        /\ \A i \in 1 .. n + Len(r) : s[i] = IF i <= n THEN Pending(n)[i] ELSE r[i - n]
    <2> DEFINE p == Pending(n)
    <2> HIDE DEF p, All
    <2>1. p \in Seq(All) /\ r \in Seq(All) /\ Len(p) = n
      BY <1>1, <1>2 DEF p
    <2>2. /\ p \o r \in Seq(All) /\ Len(p \o r) = n + Len(r)
          /\ \A i \in 1 .. n + Len(r) : (p \o r)[i] = IF i <= n THEN p[i] ELSE r[i - n]
      <3>1. /\ p \o r \in Seq(All) /\ Len(p \o r) = Len(p) + Len(r)
            /\ \A i \in 1 .. Len(p) + Len(r) :
                 (p \o r)[i] = IF i <= Len(p) THEN p[i] ELSE r[i - Len(p)]
        BY ONLY <2>1, ConcatProperties
      <3> QED BY <2>1, <3>1
    <2> QED BY <2>2 DEF p
  <1>4. \A i \in 1 .. Len(r) : s[n + i] = r[i] /\ r[i] # "reply"
    <2> SUFFICES ASSUME NEW i \in 1 .. Len(r) PROVE s[n + i] = r[i] /\ r[i] # "reply"
      OBVIOUS
    <2>1. n + i \in 1 .. n + Len(r) /\ ~ (n + i <= n) /\ (n + i) - n = i
      BY <1>2
    <2>2. r[i] \in Units
      BY ElementOfSeq
    <2> QED BY <1>3, <2>1, <2>2 DEF Units, Characters
  <1>5. \A i \in 1 .. n : s[i] = "reply"
    BY <1>1, <1>2, <1>3
  <1>6. Earlier(s) = n
    <2> DEFINE P(k) == (\A i \in 1 .. k : s[i] = "reply") /\ (k < Len(s) => s[k + 1] # "reply")
    <2>1. n \in 0 .. Len(s) /\ P(n)
      <3>1. n < Len(s) => s[n + 1] # "reply"
        BY <1>2, <1>3, <1>4
      <3> QED BY <1>2, <1>3, <1>5, <3>1
    <2>2. ASSUME NEW k \in 0 .. Len(s), P(k) PROVE k = n
      <3>1. CASE k < n
        BY <1>2, <1>3, <1>5, <2>2, <3>1
      <3>2. CASE k > n
        <4>1. n + 1 \in 1 .. k /\ 1 \in 1 .. Len(r)
          BY <1>2, <1>3, <3>2
        <4> QED BY <1>4, <2>2, <4>1
      <3> QED BY <3>1, <3>2
    <2> QED BY <2>1, <2>2 DEF Earlier
  <1> DEFINE t == SubSeq(s, n + 1, Len(s))
  <1>7. t \in Seq(All) /\ Len(t) = Len(r) /\ \A i \in 1 .. Len(r) : t[i] = r[i]
    <2>1. n + 1 \in Int /\ Len(s) \in Int /\ Len(s) - (n + 1) + 1 = Len(r)
      BY <1>2, <1>3
    <2>2. \A i \in n + 1 .. Len(s) : s[i] \in All
      BY <1>2, <1>3, ElementOfSeq
    <2>3. t \in Seq(All) /\ Len(t) = (IF n + 1 <= Len(s) THEN Len(s) - (n + 1) + 1 ELSE 0)
          /\ \A i \in 1 .. Len(s) - (n + 1) + 1 : t[i] = s[(n + 1) + i - 1]
      BY <2>1, <2>2, SubSeqProperties
    <2>4. \A i \in 1 .. Len(r) : t[i] = s[n + i]
      <3> SUFFICES ASSUME NEW i \in 1 .. Len(r) PROVE t[i] = s[n + i]
        OBVIOUS
      <3>1. (n + 1) + i - 1 = n + i
        OBVIOUS
      <3> QED BY <2>1, <2>3, <3>1
    <2> HIDE DEF t, All
    <2>5. Len(t) = Len(r)
      <3>1. ~ (n + 1 <= Len(s)) => Len(r) = 0
        BY <1>2, <1>3
      <3> QED BY <2>1, <2>3, <3>1
    <2>6. \A i \in 1 .. Len(r) : t[i] = r[i]
      BY <1>4, <2>4
    <2> QED BY <2>3, <2>5, <2>6
  <1> HIDE DEF t
  <1>8. t = r
    BY <1>2, <1>7, SeqEqual
  <1> QED BY <1>6, <1>8 DEF t

LEMMA ReplyUnchanged ==
  ASSUME Shape, sent' \o out' = sent \o out
  PROVE  Shape' /\ Reply' = Reply
  <1>1. Reply' = Reply
    BY DEF Reply
  <1> QED BY <1>1 DEF Shape

LEMMA ReplyAppend ==
  ASSUME Shape, NEW c \in Seq(Units), sent' \o out' = (sent \o out) \o c,
         MaxPending \in Nat
  PROVE  Shape' /\ Reply' = Reply \o c
  <1>1. PICK n \in 0 .. MaxPending : sent \o out = Pending(n) \o Reply
    BY DEF Shape
  <1> DEFINE All == Units \cup {"reply"}
             r == Reply \o c
  <1>2. Reply \in Seq(Units) /\ n \in Nat
    BY DEF Shape
  <1>3. r \in Seq(Units)
    BY <1>2, ConcatProperties
  <1>4. sent' \o out' = Pending(n) \o r
    <2>1. Pending(n) \in Seq(All)
      BY <1>2 DEF Pending
    <2>2. Reply \in Seq(All) /\ c \in Seq(All)
      BY <1>2
    <2>3. (Pending(n) \o Reply) \o c = Pending(n) \o (Reply \o c)
      BY ONLY <2>1, <2>2, ConcatAssociative, SMTT(30)
    <2> QED BY <1>1, <2>3
  <1> HIDE DEF r
  <1>5. Reply' = r
    <2>1. SubSeq(sent' \o out', Earlier(sent' \o out') + 1, Len(sent' \o out')) = r
      BY ONLY <1>2, <1>3, <1>4, ReplyIs
    <2> QED BY <2>1 DEF Reply
  <1> QED BY <1>3, <1>4, <1>5 DEF Shape, r

-----------------------------------------------------------------------------
(* The processor *)

LEMMA MinOfTwo ==
  ASSUME NEW a \in Nat, NEW b \in Nat
  PROVE  Min({a, b}) = IF a <= b THEN a ELSE b
  BY DEF Min

\* Texts that agree on k characters and the one behind them are stuffed alike so far.
LEMMA StuffedAgree ==
  ASSUME NEW m, NEW t, NEW k \in Nat, k <= Len(m), Len(t) = Len(m), Len(m) \in Nat,
         \A i \in 1 .. Len(m) : i <= k + 1 => t[i] = m[i]
  PROVE  /\ StuffedTo(t, k) = StuffedTo(m, k)
         /\ k > 0 => (LoneDot(t, k) <=> LoneDot(m, k))
  <1>1. ASSUME NEW i \in 1 .. k PROVE LoneDot(t, i) <=> LoneDot(m, i)
    <2>1. t[i] = m[i] /\ (i # 1 => t[i - 1] = m[i - 1])
          /\ (i # Len(m) => t[i + 1] = m[i + 1])
      OBVIOUS
    <2> QED BY <2>1 DEF LoneDot
  <1>2. \A i \in 1 .. k : Stuffing(t, i) = Stuffing(m, i)
    BY <1>1 DEF Stuffing
  <1>3. [i \in 1 .. k |-> Stuffing(t, i)] = [i \in 1 .. k |-> Stuffing(m, i)]
    BY <1>2
  <1> QED BY <1>1, <1>3 DEF StuffedTo

LEMMA StrncpyIs ==
  ASSUME NEW chunk \in Seq(Characters)
  PROVE  /\ Strncpy(chunk) \in Seq(Characters) /\ Len(Strncpy(chunk)) = Len(chunk)
         /\ \A i \in 1 .. Len(chunk) :
              Strncpy(chunk)[i] = IF \E j \in 1 .. i : chunk[j] = "nul" THEN "nul" ELSE chunk[i]
  <1>1. Strncpy(chunk) = [i \in 1 .. Len(chunk) |->
                            IF \E j \in 1 .. i : chunk[j] = "nul" THEN "nul" ELSE chunk[i]]
    BY DEF Strncpy
  <1>2. \A i \in 1 .. Len(chunk) : chunk[i] \in Characters
    BY ElementOfSeq
  <1>3. "nul" \in Characters /\ Len(chunk) \in Nat
    BY DEF Characters
  <1> QED BY <1>1, <1>2, <1>3

\* Nothing is read.
LEMMA TextKept == TextInv /\ UNCHANGED <<mail, text, offset>> => TextInv'
  BY DEF TextInv, LostOnlyBehindNul

\* What the text becomes when the file is read up to next.
LEMMA TextRead ==
  ASSUME TextInv, text \in Seq(Characters), offset \in 0 .. Len(mail), BUFFERSIZE \in Nat,
         NEW next \in offset .. Len(mail), next - offset <= BUFFERSIZE,
         NEW chunk, chunk = Strncpy(SubSeq(mail, offset + 1, next)),
         text' = [i \in DOMAIN text |->
                   IF i \in offset + 1 .. next THEN chunk[i - offset] ELSE text[i]],
         offset' = next, mail' = mail
  PROVE  /\ TextInv' /\ text' \in Seq(Characters) /\ Len(text') = Len(text)
         /\ \A i \in 1 .. Len(text) : i <= offset + 1 => text'[i] = text[i]
         /\ chunk \in Seq(Characters) /\ Len(chunk) = next - offset
         /\ \A i \in 1 .. next - offset : text'[offset + i] = chunk[i]
  <1> DEFINE n == Len(mail)
             more == SubSeq(mail, offset + 1, next)
  <1>1. /\ mail \in Seq(Characters) /\ n \in Nat /\ Len(text) = n
        /\ \A i \in offset + 1 .. n : text[i] = mail[i]
        /\ \A i \in 1 .. n : text[i] # mail[i] =>
             /\ i > 1 /\ text[i - 1] = "nul" /\ text[i] = "nul"
             /\ \E j \in 1 .. i - 1 : i - j < BUFFERSIZE /\ mail[j] = "nul"
    <2>1. mail \in Seq(Characters) /\ DOMAIN mail = 1 .. Len(mail)
      BY DEF TextInv
    <2> QED BY <2>1 DEF TextInv, LostOnlyBehindNul
  <1>2. offset \in Nat /\ next \in Nat /\ offset <= next /\ next <= n
    BY <1>1
  <1>3. /\ more \in Seq(Characters) /\ Len(more) = next - offset
        /\ \A i \in 1 .. next - offset : more[i] = mail[offset + i]
    <2>1. \A i \in offset + 1 .. next : mail[i] \in Characters
      BY <1>1, <1>2, ElementOfSeq
    <2>2. /\ more \in Seq(Characters)
          /\ Len(more) = IF offset + 1 <= next THEN next - (offset + 1) + 1 ELSE 0
          /\ \A i \in 1 .. next - (offset + 1) + 1 : more[i] = mail[(offset + 1) + i - 1]
      BY <1>1, <1>2, <2>1, SubSeqProperties, SMTT(30)
    <2>3. next - (offset + 1) + 1 = next - offset
      BY <1>2
    <2>4. \A i \in 1 .. next - offset : (offset + 1) + i - 1 = offset + i
      BY <1>2
    <2> HIDE DEF more
    <2>5. Len(more) = next - offset
      BY <1>2, <2>2, <2>3
    <2>6. \A i \in 1 .. next - offset : more[i] = mail[offset + i]
      BY <2>2, <2>3, <2>4
    <2> QED BY <2>2, <2>5, <2>6
  <1> HIDE DEF more
  <1>4. /\ chunk \in Seq(Characters) /\ Len(chunk) = next - offset
        /\ \A i \in 1 .. next - offset :
             chunk[i] = IF \E j \in 1 .. i : more[j] = "nul" THEN "nul" ELSE more[i]
    <2>1. chunk = Strncpy(more)
      BY DEF more
    <2>2. /\ Strncpy(more) \in Seq(Characters) /\ Len(Strncpy(more)) = Len(more)
          /\ \A i \in 1 .. Len(more) :
               Strncpy(more)[i] = IF \E j \in 1 .. i : more[j] = "nul" THEN "nul" ELSE more[i]
      BY ONLY <1>3, StrncpyIs
    <2> QED BY <1>3, <2>1, <2>2
  <1>5. DOMAIN text = 1 .. n /\ \A i \in 1 .. n : text[i] \in Characters
    BY <1>1, ElementOfSeq
  <1>6. /\ text' = [i \in 1 .. n |-> IF i \in offset + 1 .. next THEN chunk[i - offset] ELSE text[i]]
        /\ \A i \in 1 .. n : i <= offset => text'[i] = text[i]
        /\ \A i \in 1 .. n : i > next => text'[i] = text[i]
        /\ \A i \in 1 .. n : i > offset /\ i <= next => text'[i] = chunk[i - offset]
    BY <1>2, <1>5
  <1>7. \A i \in offset + 1 .. next : i - offset \in 1 .. next - offset
    BY <1>2
  <1>8. text' \in Seq(Characters) /\ Len(text') = n
    <2>1. \A i \in 1 .. n : text'[i] \in Characters
      <3> SUFFICES ASSUME NEW i \in 1 .. n PROVE text'[i] \in Characters
        OBVIOUS
      <3>1. CASE i > offset /\ i <= next
        <4>1. i - offset \in 1 .. Len(chunk)
          BY <1>2, <1>4, <3>1
        <4> QED BY <1>4, <1>6, <3>1, <4>1, ElementOfSeq
      <3>2. CASE ~ (i > offset /\ i <= next)
        BY <1>2, <1>5, <1>6, <3>2
      <3> QED BY <3>1, <3>2
    <2> QED BY <1>1, <1>6, <2>1
  <1>9. \A i \in 1 .. next - offset : text'[offset + i] = chunk[i]
    <2> SUFFICES ASSUME NEW i \in 1 .. next - offset PROVE text'[offset + i] = chunk[i]
      OBVIOUS
    <2>1. offset + i \in 1 .. n /\ offset + i > offset /\ offset + i <= next
          /\ (offset + i) - offset = i
      BY <1>1, <1>2
    <2> QED BY <1>6, <2>1
  \* The first character that is read is the file's.
  <1>10. ASSUME NEW i \in 1 .. n, i <= offset + 1 PROVE text'[i] = text[i]
    <2>1. CASE i = offset + 1 /\ i <= next
      <3>1. 1 \in 1 .. next - offset /\ text[i] = mail[offset + 1] /\ i - offset = 1
        BY <1>1, <1>2, <2>1
      <3>2. more[1] = mail[offset + 1] /\ chunk[1] = more[1]
        BY <1>3, <1>4, <3>1
      <3> QED BY <1>6, <2>1, <3>1, <3>2
    <2>2. CASE i <= offset \/ i > next
      BY <1>6, <2>2
    <2> QED BY <1>2, <1>10, <2>1, <2>2
  \* The others are, or follow a NUL of the same part.
  <1>11. ASSUME NEW i \in 1 .. n, text'[i] # mail[i]
         PROVE  /\ i > 1 /\ text'[i - 1] = "nul" /\ text'[i] = "nul"
                /\ \E j \in 1 .. i - 1 : i - j < BUFFERSIZE /\ mail[j] = "nul"
    <2>1. CASE i <= offset
      <3>1. text[i] # mail[i]
        BY <1>6, <1>11, <2>1
      <3>2. i - 1 \in 1 .. n /\ i - 1 <= offset
        BY <1>1, <1>2, <2>1, <3>1
      <3>3. text'[i - 1] = text[i - 1]
        BY <1>6, <3>2
      <3> QED BY <1>1, <1>6, <2>1, <3>1, <3>3
    <2>2. CASE i > next
      <3>1. i \in offset + 1 .. n
        BY <1>2, <2>2
      <3> QED BY <1>1, <1>6, <1>11, <2>2, <3>1
    <2>3. CASE i > offset /\ i <= next
      <3> DEFINE l == i - offset
      <3>1. l \in 1 .. next - offset /\ offset + l = i /\ l \in Nat
        BY <1>2, <2>3
      <3>2. chunk[l] # more[l]
        BY <1>3, <1>6, <1>11, <2>3, <3>1
      <3>3. PICK j \in 1 .. l : more[j] = "nul"
        BY <1>4, <3>1, <3>2
      <3>4. chunk[l] = "nul" /\ j # l
        BY <1>4, <3>1, <3>2, <3>3
      <3>5. j \in 1 .. next - offset /\ j \in 1 .. l - 1 /\ l - 1 \in 1 .. next - offset
        BY <1>2, <3>1, <3>3, <3>4
      <3>6. chunk[l - 1] = "nul"
        BY <1>4, <3>3, <3>5
      <3>7. text'[i - 1] = "nul"
        <4>1. offset + (l - 1) = i - 1
          BY <1>2, <3>1
        <4> QED BY <1>9, <3>5, <3>6, <4>1
      <3>8. mail[offset + j] = "nul"
        BY <1>3, <3>3, <3>5
      <3>9. offset + j \in 1 .. i - 1 /\ i - (offset + j) < BUFFERSIZE /\ i > 1
        BY <1>2, <2>3, <3>1, <3>5
      <3> QED BY <1>6, <2>3, <3>4, <3>7, <3>8, <3>9
    <2> QED BY <1>2, <2>1, <2>2, <2>3
  <1>12. TextInv'
    <2>1. DOMAIN mail = 1 .. n
      BY <1>1
    <2>2. \A i \in next + 1 .. n : text'[i] = mail[i]
      BY <1>1, <1>2, <1>6
    <2>3. LostOnlyBehindNul'
      BY <1>11, <2>1 DEF LostOnlyBehindNul
    <2>4. mail \in Mails
      BY DEF TextInv
    <2> QED BY <1>1, <1>8, <1>11, <2>1, <2>2, <2>3, <2>4 DEF TextInv
  <1> QED BY <1>1, <1>4, <1>8, <1>9, <1>10, <1>12

\* Characters that fread brings are put behind those the processor has.
LEMMA FillKeeps ==
  ASSUME TextInv, ProcessorInv, NEW n \in 0 .. BUFFERSIZE, Fill(n), mail' = mail
  PROVE  /\ TextInv' /\ ProcessorInv' /\ Position' = Position
         /\ processor'.state = processor.state
         /\ StuffedTo(text', Position) = StuffedTo(text, Position) /\ (Owed' <=> Owed)
  <1> DEFINE b == processor.buffer
             lacks == n - Len(b)
             eof == feof \/ offset + lacks > Len(mail)
             next == Min({Len(mail), offset + lacks})
             chunk == Strncpy(SubSeq(mail, offset + 1, next))
  <1>1. /\ text \in Seq(Characters) /\ Len(text) \in Nat /\ offset \in 0 .. Len(text)
        /\ Len(mail) = Len(text)
        /\ b \in Seq(Characters) /\ Len(b) \in Nat /\ Len(b) <= BUFFERSIZE
        /\ BUFFERSIZE \in Nat /\ feof \in BOOLEAN /\ processor.state \in States
        /\ processor = [buffer |-> b, state |-> processor.state, eofReached |-> feof]
    BY SizeAssumption DEF ProcessorInv, TextInv
  <1>2. CASE lacks <= 0
    <2>1. UNCHANGED <<processor, text, offset, feof, mail>>
      BY <1>1, <1>2 DEF Fill
    <2> QED BY <2>1, TextKept DEF ProcessorInv, Position, Owed
  <1>3. CASE lacks > 0
    <2>1. /\ processor' = [buffer |-> b \o chunk, state |-> processor.state, eofReached |-> eof]
          /\ offset' = next /\ feof' = eof
          /\ text' = [i \in DOMAIN text |->
                       IF i \in offset + 1 .. next THEN chunk[i - offset] ELSE text[i]]
      BY <1>1, <1>3 DEF Fill, AddCharactersToProcess
    <2>2. /\ next \in offset .. Len(mail) /\ next - offset <= lacks
          /\ eof => next = Len(mail)
      <3>1. next = IF Len(mail) <= offset + lacks THEN Len(mail) ELSE offset + lacks
        <4>1. Len(mail) \in Nat /\ offset + lacks \in Nat
          BY <1>1, <1>3
        <4> QED BY ONLY <4>1, MinOfTwo
      <3>2. feof => offset = Len(mail)
        BY <1>1 DEF ProcessorInv
      <3> HIDE DEF next
      <3> QED BY <1>1, <1>3, <3>1, <3>2
    <2>3. next - offset <= BUFFERSIZE
      BY <1>1, <2>2
    <2> HIDE DEF next
    <2>4. /\ TextInv' /\ text' \in Seq(Characters) /\ Len(text') = Len(text)
          /\ \A i \in 1 .. Len(text) : i <= offset + 1 => text'[i] = text[i]
          /\ chunk \in Seq(Characters) /\ Len(chunk) = next - offset
          /\ \A i \in 1 .. next - offset : text'[offset + i] = chunk[i]
      <3>1. offset \in 0 .. Len(mail) /\ offset' = next /\ mail' = mail
        BY <1>1, <2>1
      <3> QED BY <1>1, <2>1, <2>2, <2>3, <3>1, TextRead
    <2> HIDE DEF chunk
    <2>5. /\ b \o chunk \in Seq(Characters) /\ Len(b \o chunk) = Len(b) + (next - offset)
          /\ \A i \in 1 .. Len(b) + (next - offset) :
               (b \o chunk)[i] = IF i <= Len(b) THEN b[i] ELSE chunk[i - Len(b)]
      <3>1. /\ b \o chunk \in Seq(Characters) /\ Len(b \o chunk) = Len(b) + Len(chunk)
            /\ \A i \in 1 .. Len(b) + Len(chunk) :
                 (b \o chunk)[i] = IF i <= Len(b) THEN b[i] ELSE chunk[i - Len(b)]
        <4>1. b \in Seq(Characters) /\ chunk \in Seq(Characters)
          BY <1>1, <2>4
        <4> HIDE DEF b
        <4> QED BY ONLY <4>1, ConcatProperties
      <3> QED BY <2>4, <3>1
    <2>6. Position' = Position /\ Position = offset - Len(b) /\ Position \in Nat
          /\ Position <= offset
      BY <1>1, <2>1, <2>2, <2>5 DEF Position, ProcessorInv
    <2>7. processor'.state = processor.state /\ processor'.buffer = b \o chunk
      BY <2>1
    <2>8. \A i \in 1 .. Len(processor'.buffer) : processor'.buffer[i] = text'[Position + i]
      <3> SUFFICES ASSUME NEW i \in 1 .. Len(b) + (next - offset)
                   PROVE  (b \o chunk)[i] = text'[Position + i]
        BY <2>5, <2>7
      <3>1. CASE i <= Len(b)
        <4>1. i \in 1 .. Len(b) /\ Position + i \in 1 .. Len(text) /\ Position + i <= offset + 1
          BY <1>1, <2>6, <3>1
        <4>2. b[i] = text[Position + i]
          BY <4>1 DEF ProcessorInv
        <4> QED BY <2>4, <2>5, <3>1, <4>1, <4>2
      <3>2. CASE i > Len(b)
        <4>1. i \in 1 .. Len(b) + (next - offset) /\ next \in Int /\ offset \in Int
              /\ Len(b) \in Int /\ Position = offset - Len(b)
          BY <1>1, <2>2, <2>6
        <4> HIDE DEF b
        <4>2. i - Len(b) \in 1 .. next - offset /\ offset + (i - Len(b)) = Position + i
          BY ONLY <4>1, <3>2
        <4>3. (b \o chunk)[i] = chunk[i - Len(b)] /\ text'[offset + (i - Len(b))] = chunk[i - Len(b)]
          BY <2>4, <2>5, <3>2, <4>2
        <4> QED BY ONLY <4>2, <4>3
      <3>3. i <= Len(b) \/ i > Len(b)
        BY <1>1, <2>2
      <3> QED BY <3>1, <3>2, <3>3
    <2>9. Len(b) + (next - offset) <= BUFFERSIZE
      BY <1>1, <1>3, <2>2
    <2>10. /\ offset' \in 0 .. Len(text') /\ feof' \in BOOLEAN /\ (feof' => offset' = Len(text'))
           /\ processor' \in [buffer : Seq(Characters), state : States, eofReached : {feof'}]
           /\ Len(processor'.buffer) <= BUFFERSIZE
      BY <1>1, <2>1, <2>2, <2>4, <2>5, <2>9
    <2>11. /\ Position > 0 => text'[Position] = text[Position]
           /\ Position > 1 => text'[Position - 1] = text[Position - 1]
      <3>1. Position > 0 => Position \in 1 .. Len(text) /\ Position <= offset + 1
        BY <1>1, <2>6
      <3>2. Position > 1 => Position - 1 \in 1 .. Len(text) /\ Position - 1 <= offset + 1
        BY <1>1, <2>6
      <3> QED BY <2>4, <3>1, <3>2
    <2>12. ProcessorInv'
      <3>1. /\ processor'.state = "NEWLINE" <=> Position' = 0 \/ text'[Position'] = "lf"
            /\ processor'.state = "DOT" =>
                 /\ Position' > 0 /\ text'[Position'] = "dot"
                 /\ Position' = 1 \/ text'[Position' - 1] = "lf"
        BY <2>6, <2>7, <2>11 DEF ProcessorInv
      <3> QED BY <2>4, <2>6, <2>8, <2>10, <3>1 DEF ProcessorInv
    <2>13. /\ StuffedTo(text', Position) = StuffedTo(text, Position)
           /\ Position > 0 => (LoneDot(text', Position) <=> LoneDot(text, Position))
      <3>1. Position <= Len(text) /\ \A i \in 1 .. Len(text) : i <= Position + 1 => text'[i] = text[i]
        BY <1>1, <2>4, <2>6
      <3> QED BY <1>1, <2>4, <2>6, <3>1, StuffedAgree
    <2>14. Owed' <=> Owed
      BY <2>6, <2>7, <2>13 DEF Owed, ProcessorInv
    <2> QED BY <2>4, <2>6, <2>7, <2>12, <2>13, <2>14
  <1> QED BY <1>1, <1>2, <1>3

\* The processor lets a character go.
LEMMA CharacterGoes ==
  ASSUME ProcessorInv, ~ OwesDot(processor), processor.buffer # <<>>,
         processor' = [buffer |-> Tail(processor.buffer),
                       state |-> NextState(processor.state, Head(processor.buffer)),
                       eofReached |-> processor.eofReached],
         UNCHANGED <<mail, text, offset, feof>>
  PROVE  /\ ProcessorInv' /\ ~ Owed
         /\ Position < Len(text) /\ Position' = Position + 1
         /\ Head(processor.buffer) = text[Position + 1]
         /\ processor'.state = NextState(processor.state, text[Position + 1])
         /\ text[Position + 1] \in Characters
  <1> DEFINE b == processor.buffer
  <1>1. /\ text \in Seq(Characters) /\ Len(text) \in Nat /\ offset \in 0 .. Len(text)
        /\ b \in Seq(Characters) /\ Len(b) \in Nat /\ Len(b) > 0 /\ Len(b) <= BUFFERSIZE
        /\ BUFFERSIZE \in Nat /\ feof \in BOOLEAN /\ processor.state \in States
        /\ processor = [buffer |-> b, state |-> processor.state, eofReached |-> feof]
    BY SizeAssumption, EmptySeq DEF ProcessorInv
  <1>2. Position = offset - Len(b) /\ Position \in Nat /\ Position < Len(text)
    BY <1>1 DEF Position, ProcessorInv
  <1>3. Head(b) = text[Position + 1] /\ text[Position + 1] \in Characters
    <2>1. Head(b) = b[1] /\ 1 \in 1 .. Len(b)
      BY <1>1
    <2> QED BY <1>1, <1>2, <2>1, ElementOfSeq DEF ProcessorInv
  <1> DEFINE c == text[Position + 1]
  <1>4. processor' = [buffer |-> Tail(b), state |-> NextState(processor.state, c),
                      eofReached |-> feof]
    <2>1. processor.eofReached = feof
      BY DEF ProcessorInv
    <2> QED BY <1>3, <2>1, Zenon
  <1>5. /\ Tail(b) \in Seq(Characters) /\ Len(Tail(b)) = Len(b) - 1
        /\ \A i \in 1 .. Len(b) - 1 : Tail(b)[i] = b[i + 1]
    BY <1>1, HeadTailProperties
  <1>6. Position' = Position + 1
    BY <1>1, <1>2, <1>4, <1>5 DEF Position
  <1>7. ~ Owed
    BY <1>1, <1>2, <1>3 DEF Owed, OwesDot, LoneDot
  <1>8. \A i \in 1 .. Len(b) - 1 : Tail(b)[i] = text[(Position + 1) + i]
    <2> SUFFICES ASSUME NEW i \in 1 .. Len(b) - 1 PROVE Tail(b)[i] = text[(Position + 1) + i]
      OBVIOUS
    <2>1. i + 1 \in 1 .. Len(b) /\ Position + (i + 1) = (Position + 1) + i
      BY <1>1, <1>2, SMTT(30)
    <2> QED BY <1>5, <2>1 DEF ProcessorInv
  <1>9. /\ NextState(processor.state, c) \in States
        /\ NextState(processor.state, c) = "NEWLINE" <=> c = "lf"
        /\ NextState(processor.state, c) = "DOT" =>
             c = "dot" /\ processor.state = "NEWLINE"
    BY <1>1 DEF NextState, States
  <1>10. processor.state = "NEWLINE" => Position = 0 \/ text[Position] = "lf"
    BY DEF ProcessorInv
  <1> HIDE DEF c
  <1>11. /\ processor'.state = "NEWLINE" <=> Position' = 0 \/ text[Position'] = "lf"
         /\ processor'.state = "DOT" =>
              /\ Position' > 0 /\ text[Position'] = "dot"
              /\ Position' = 1 \/ text[Position' - 1] = "lf"
    <2>1. processor'.state = NextState(processor.state, c) /\ text[Position'] = c
          /\ Position' # 0 /\ Position' > 0 /\ Position' - 1 = Position
          /\ (Position = 0 => Position' = 1)
      BY <1>2, <1>4, <1>6 DEF c
    <2> QED BY <1>9, <1>10, <2>1
  <1>12. processor'.buffer = Tail(b) /\ Len(processor'.buffer) <= BUFFERSIZE
         /\ processor' \in [buffer : Seq(Characters), state : States, eofReached : {feof'}]
         /\ processor'.state = NextState(processor.state, c)
    BY <1>1, <1>4, <1>5, <1>9
  <1>13. ProcessorInv'
    <2>1. \A i \in 1 .. Len(processor'.buffer) : processor'.buffer[i] = text'[Position' + i]
      BY <1>5, <1>6, <1>8, <1>12
    <2>2. Position' \in Nat /\ text' = text /\ offset' = offset /\ feof' = feof
      BY <1>2, <1>6
    <2> QED BY <1>11, <1>12, <2>1, <2>2 DEF ProcessorInv
  <1> QED BY <1>2, <1>3, <1>6, <1>7, <1>12, <1>13 DEF c

\* The processor adds the dot that is owed.
LEMMA DotGoes ==
  ASSUME ProcessorInv, OwesDot(processor),
         processor' = [processor EXCEPT !.state = "NORMAL"],
         UNCHANGED <<mail, text, offset, feof>>
  PROVE  ProcessorInv' /\ Owed /\ ~ Owed' /\ Position' = Position
  <1> DEFINE b == processor.buffer
  <1>1. /\ text \in Seq(Characters) /\ Len(text) \in Nat /\ offset \in 0 .. Len(text)
        /\ b \in Seq(Characters) /\ Len(b) \in Nat
        /\ processor = [buffer |-> b, state |-> processor.state, eofReached |-> feof]
        /\ processor.state = "DOT"
    BY EmptySeq DEF ProcessorInv, OwesDot
  <1>2. processor' = [buffer |-> b, state |-> "NORMAL", eofReached |-> feof]
    BY <1>1
  <1>3. Position' = Position /\ Position \in Nat /\ Position = offset - Len(b)
    BY <1>1, <1>2 DEF Position, ProcessorInv
  <1>4. Position > 0 /\ text[Position] = "dot" /\ (Position = 1 \/ text[Position - 1] = "lf")
    BY <1>1 DEF ProcessorInv
  <1>5. Position = Len(text) \/ text[Position + 1] = "cr"
    <2>1. CASE b = <<>>
      BY <1>1, <1>3, <2>1 DEF OwesDot, ProcessorInv
    <2>2. CASE b # <<>>
      <3>1. Head(b) = b[1] /\ 1 \in 1 .. Len(b)
        BY <1>1, <2>2, EmptySeq
      <3> QED BY <1>1, <2>2, <3>1 DEF OwesDot, ProcessorInv
    <2> QED BY <2>1, <2>2
  <1>6. Owed /\ ~ Owed'
    BY <1>1, <1>2, <1>4, <1>5 DEF Owed, LoneDot
  <1>7. ProcessorInv'
    <2>1. processor' \in [buffer : Seq(Characters), state : States, eofReached : {feof'}]
          /\ processor'.buffer = b /\ processor'.state = "NORMAL"
      BY <1>1, <1>2 DEF ProcessorInv, States
    <2> QED BY <1>3, <1>4, <2>1 DEF ProcessorInv
  <1> QED BY <1>3, <1>6, <1>7

-----------------------------------------------------------------------------
(* The steps *)

Bytes == Units \cup {"reply"}

\* Neither the reply nor where the processor stands in a line changes.
Still == /\ Reply' = Reply /\ processor'.state = processor.state /\ Position' = Position
         /\ command = "executed" => command' = "executed"

LEMMA Lengths ==
  ASSUME HandlerInv
  PROVE  /\ Len(out) \in Nat /\ BUFFERSIZE \in Nat /\ MAX_SINGLE_LINE_RESPONSE \in Nat
         /\ MaxPending \in Nat /\ MaxPending <= BUFFERSIZE
         /\ Header \in Seq(Units) /\ Len(Header) = 3 /\ 3 <= MAX_SINGLE_LINE_RESPONSE
         /\ Terminator \in Seq(Units) /\ Len(Terminator) = 5
         /\ \A s \in Seq(Units) : s \in Seq(Bytes)
  <1>1. Header \in Seq(Units) /\ Len(Header) = 3
    BY DEF Header, Units, Characters
  <1>2. Terminator \in Seq(Units) /\ Len(Terminator) = 5
    BY DEF Terminator, Units, Characters
  <1>3. \A s \in Seq(Units) : s \in Seq(Bytes)
    BY DEF Bytes
  <1> QED BY <1>1, <1>2, <1>3, SizeAssumption DEF HandlerInv

LEMMA InitInv == Init => IInv
  <1> SUFFICES ASSUME Init PROVE IInv
    OBVIOUS
  <1>1. text \in Seq(Characters) /\ Len(text) \in Nat /\ TextInv
    BY MailsAssumption DEF Init, TextInv, LostOnlyBehindNul
  <1>2. PICK n \in 0 .. MaxPending : out = Pending(n)
    BY DEF Init
  <1>3. /\ Pending(n) \in Seq(Bytes) /\ Len(Pending(n)) = n /\ n \in Nat /\ n <= BUFFERSIZE
        /\ BUFFERSIZE \in Nat
    BY SizeAssumption DEF Pending, Bytes
  <1>4. ProcessorInv
    <2>1. processor = [buffer |-> <<>>, state |-> "NEWLINE", eofReached |-> FALSE]
      BY DEF Init, ResetProcessor
    <2> offset = 0 /\ feof = FALSE
      BY DEF Init
    <2>2. processor.buffer = <<>> /\ Len(<<>>) = 0 /\ processor.state = "NEWLINE"
      BY <2>1
    <2>3. Position = 0
      <3>1. Len(processor.buffer) = 0
        BY <2>2
      <3> QED BY <3>1 DEF Position
    <2>4. processor \in [buffer : Seq(Characters), state : States, eofReached : {feof}]
      <3>1. <<>> \in Seq(Characters)
        OBVIOUS
      <3> QED BY <2>1, <3>1 DEF States
    <2>5. Len(processor.buffer) = 0 /\ 0 \in 0 .. Len(text) /\ 0 <= BUFFERSIZE
      BY <1>1, <1>3, <2>2
    <2>6. \A i \in 1 .. Len(processor.buffer) : processor.buffer[i] = text[Position + i]
      BY <2>5
    <2> QED BY <1>1, <2>2, <2>3, <2>4, <2>5, <2>6 DEF ProcessorInv
  <1>5. HandlerInv
    <2>1. processor.state = "NEWLINE" /\ <<>> \in Seq(Bytes)
      BY DEF Init, ResetProcessor
    <2> QED BY <1>2, <1>3, <2>1 DEF Init, HandlerInv, Bytes
  <1>6. ReplyInv
    <2>1. sent \o out = Pending(n) \o <<>> /\ <<>> \in Seq(Units)
      BY <1>2, <1>3 DEF Init
    <2>2. Reply = <<>>
      <3>1. SubSeq(sent \o out, Earlier(sent \o out) + 1, Len(sent \o out)) = <<>>
        BY ONLY <1>3, <2>1, ReplyIs
      <3> QED BY <3>1 DEF Reply
    <2> QED BY <2>1, <2>2 DEF ReplyInv, Init
  <1> QED BY <1>1, <1>4, <1>5, <1>6 DEF IInv

\* continueRetr but for what it does to the reply.
LEMMA ContinueStep ==
  ASSUME IInv, NEW o \in Seq(Bytes), Len(o) <= BUFFERSIZE, command # "executed",
         handler = "idle", ContinueRetr(o)
  PROVE  /\ TextInv' /\ ProcessorInv' /\ HandlerInv' /\ Position' = Position
         /\ processor'.state = processor.state /\ (Owed' <=> Owed)
         /\ StuffedTo(text', Position) = StuffedTo(text, Position)
  <1>1. /\ command' = "processing" /\ out' = o /\ mail' = mail /\ sent' = sent
        /\ Len(o) \in Nat /\ BUFFERSIZE \in Nat /\ MAX_SINGLE_LINE_RESPONSE \in Nat
    BY Lengths DEF ContinueRetr, IInv
  <1>2. TextInv /\ ProcessorInv /\ HandlerInv /\ toCopy = 0
    BY DEF IInv, HandlerInv
  <1>3. CASE Room(o)
    <2>1. Fill(BUFFERSIZE - Len(o)) /\ toCopy' = BUFFERSIZE - Len(o) /\ handler' = "copying"
      BY <1>3 DEF ContinueRetr
    <2>2. BUFFERSIZE - Len(o) \in 0 .. BUFFERSIZE
      BY <1>1
    <2>3. /\ TextInv' /\ ProcessorInv' /\ Position' = Position
          /\ processor'.state = processor.state
          /\ StuffedTo(text', Position) = StuffedTo(text, Position) /\ (Owed' <=> Owed)
      BY <1>1, <1>2, <2>1, <2>2, FillKeeps
    <2>5. HandlerInv'
      <3>1. toCopy' \in 0 .. BUFFERSIZE - Len(out') /\ toCopy' + Len(out') = BUFFERSIZE
        BY <1>1, <2>1
      <3> QED BY <1>1, <1>2, <2>1, <3>1 DEF HandlerInv, Bytes
    <2> QED BY <2>3, <2>5
  <1>4. CASE ~ Room(o)
    <2>1. handler' = "sending" /\ UNCHANGED <<mail, text, processor, offset, feof, toCopy>>
      BY <1>1, <1>4 DEF ContinueRetr
    <2>2. TextInv' /\ ProcessorInv' /\ Position' = Position /\ (Owed' <=> Owed)
      BY <1>2, <2>1, TextKept DEF ProcessorInv, Position, Owed
    <2>3. HandlerInv'
      BY <1>1, <1>2, <2>1 DEF HandlerInv, Bytes
    <2> QED BY <2>1, <2>2, <2>3
  <1> QED BY <1>3, <1>4

\* What an error of fread leaves.
LEMMA FailStep ==
  ASSUME IInv, NEW o \in Seq(Bytes), Len(o) <= BUFFERSIZE, handler = "idle", ReadFails(o)
  PROVE  /\ TextInv' /\ ProcessorInv' /\ HandlerInv' /\ Position' = Position
         /\ processor'.state = processor.state /\ (Owed' <=> Owed)
         /\ StuffedTo(text', Position) = StuffedTo(text, Position)
  <1>1. /\ command' = "failed" /\ out' = o /\ handler' = "sending"
        /\ UNCHANGED <<mail, text, offset, feof, processor, toCopy, sent>>
    BY DEF ReadFails
  <1>2. TextInv /\ ProcessorInv /\ HandlerInv /\ toCopy = 0 /\ BUFFERSIZE \in Nat
        /\ Len(o) \in Nat
    BY Lengths DEF IInv, HandlerInv
  <1>3. TextInv' /\ ProcessorInv' /\ Position' = Position /\ (Owed' <=> Owed)
    BY <1>1, <1>2, TextKept DEF ProcessorInv, Position, Owed
  <1>4. HandlerInv'
    BY <1>1, <1>2 DEF HandlerInv, Bytes
  <1> QED BY <1>1, <1>3, <1>4

\* s with t behind it, sent in any parts.
LEMMA AllAppended ==
  ASSUME NEW c \in Seq(Bytes), NEW s \in Seq(Bytes), NEW o \in Seq(Bytes)
  PROVE  s \o (o \o c) = (s \o o) \o c
  BY ConcatAssociative, SMTT(30)

LEMMA RetrStep == IInv /\ Retr => IInv' /\ Reply' = Header /\ processor'.state = "NEWLINE"
  <1> SUFFICES ASSUME IInv, Retr
               PROVE  IInv' /\ Reply' = Header /\ processor'.state = "NEWLINE"
    OBVIOUS
  <1> DEFINE o == out \o Header
  <1>1. /\ handler = "idle" /\ command = "queued" /\ Room(out)
        /\ ContinueRetr(o) \/ ReadFails(o)
        /\ out' = o /\ sent' = sent /\ command' \in {"processing", "failed"}
    BY DEF Retr, ContinueRetr, ReadFails
  <1>2. HandlerInv /\ sent \in Seq(Bytes) /\ out \in Seq(Bytes)
    BY DEF IInv, HandlerInv, Bytes
  <1>3. o \in Seq(Bytes) /\ Len(o) = Len(out) + 3 /\ Len(o) <= BUFFERSIZE
    <2>1. Len(o) = Len(out) + 3 /\ o \in Seq(Bytes)
      <3>1. Header \in Seq(Bytes) /\ Len(Header) = 3
        BY <1>2, Lengths
      <3>2. /\ out \o Header \in Seq(Bytes)
            /\ Len(out \o Header) = Len(out) + Len(Header)
        BY ONLY <1>2, <3>1, ConcatProperties
      <3> QED BY <3>1, <3>2
    <2> HIDE DEF o
    <2> QED BY <1>1, <1>2, <2>1, Lengths DEF Room
  <1>4. sent' \o out' = (sent \o out) \o Header
    BY <1>1, <1>2, Lengths, AllAppended
  <1>5. Shape /\ Reply = <<>>
    BY <1>1 DEF IInv, ReplyInv, Shape, Body
  <1>6. Shape' /\ Reply' = <<>> \o Header
    BY <1>2, <1>4, <1>5, Lengths, ReplyAppend
  <1> HIDE DEF o
  <1>7. /\ TextInv' /\ ProcessorInv' /\ HandlerInv' /\ Position' = Position
        /\ processor'.state = processor.state /\ (Owed' <=> Owed)
        /\ StuffedTo(text', Position) = StuffedTo(text, Position)
    <2>1. CASE ContinueRetr(o)
      BY <1>1, <1>3, <2>1, ContinueStep
    <2>2. CASE ReadFails(o)
      BY <1>1, <1>3, <2>2, FailStep
    <2> QED BY <1>1, <2>1, <2>2
  <1>8. Position = 0 /\ ~ Owed /\ processor.state = "NEWLINE"
    <2>1. offset = 0 /\ processor.state = "NEWLINE"
      BY <1>1, <1>2 DEF HandlerInv
    <2>2. Position = 0 - Len(processor.buffer) /\ Len(processor.buffer) \in Nat
          /\ Position \in Nat
      BY <2>1 DEF IInv, ProcessorInv, Position
    <2> QED BY <2>1, <2>2 DEF Owed
  <1>9. Header \o StuffedTo(text, 0) = Header /\ <<>> \o Header = Header
    <2>1. Header \in Seq(Units)
      BY <1>2, Lengths
    <2> QED BY <2>1, StuffedStart, ConcatEmptySeq
  <1>10. Body(Reply)'
    BY <1>1, <1>6, <1>7, <1>8, <1>9 DEF Body
  <1> QED BY <1>1, <1>6, <1>7, <1>8, <1>9, <1>10 DEF IInv, ReplyInv, Shape

LEMMA ResumeStep == IInv /\ ResumeRetr => IInv' /\ Still
  <1> SUFFICES ASSUME IInv, ResumeRetr PROVE IInv' /\ Still
    OBVIOUS
  <1>1. /\ handler = "idle" /\ command = "processing"
        /\ ContinueRetr(out) \/ ReadFails(out)
        /\ out' = out /\ sent' = sent /\ command' \in {"processing", "failed"}
    BY DEF ResumeRetr, ContinueRetr, ReadFails
  <1>2. out \in Seq(Bytes) /\ Len(out) <= BUFFERSIZE
    BY DEF IInv, HandlerInv, Bytes
  <1>3. /\ TextInv' /\ ProcessorInv' /\ HandlerInv' /\ Position' = Position
        /\ processor'.state = processor.state /\ (Owed' <=> Owed)
        /\ StuffedTo(text', Position) = StuffedTo(text, Position)
    <2>1. CASE ContinueRetr(out)
      BY <1>1, <1>2, <2>1, ContinueStep
    <2>2. CASE ReadFails(out)
      BY <1>1, <1>2, <2>2, FailStep
    <2> QED BY <1>1, <2>1, <2>2
  <1>4. Shape /\ Body(Reply)
    BY <1>1 DEF IInv, ReplyInv, Shape
  <1>5. Shape' /\ Reply' = Reply
    BY <1>1, <1>4, ReplyUnchanged
  <1>6. Body(Reply)'
    BY <1>1, <1>3, <1>4, <1>5 DEF Body
  <1> QED BY <1>1, <1>3, <1>5, <1>6 DEF IInv, ReplyInv, Shape, Still

\* A byte that is copied is put behind what is to be sent.
LEMMA ByteCopied ==
  ASSUME IInv, handler = "copying", toCopy > 0, NEW c \in Units,
         out' = Append(out, c), sent' = sent
  PROVE  /\ Shape' /\ Reply' = Reply \o <<c>> /\ Reply \in Seq(Units)
         /\ out' \in Seq(Bytes) /\ Len(out') = Len(out) + 1 /\ Len(out') <= BUFFERSIZE
         /\ toCopy - 1 \in 0 .. BUFFERSIZE - Len(out')
         /\ Body(Reply)
  <1>1. HandlerInv /\ Shape /\ Body(Reply) /\ Reply \in Seq(Units)
    BY DEF IInv, HandlerInv, ReplyInv, Shape
  <1>2. /\ out \in Seq(Bytes) /\ sent \in Seq(Bytes) /\ Len(out) \in Nat /\ BUFFERSIZE \in Nat
        /\ MaxPending \in Nat /\ toCopy \in 0 .. BUFFERSIZE - Len(out) /\ c \in Bytes
    BY <1>1, Lengths DEF HandlerInv, Bytes
  <1>3. /\ out' \in Seq(Bytes) /\ Len(out') = Len(out) + 1 /\ out' = out \o <<c>>
        /\ <<c>> \in Seq(Units) /\ <<c>> \in Seq(Bytes)
    BY <1>2
  <1>4. sent' \o out' = (sent \o out) \o <<c>>
    BY <1>2, <1>3, AllAppended
  <1>5. Shape' /\ Reply' = Reply \o <<c>>
    BY ONLY <1>1, <1>2, <1>3, <1>4, ReplyAppend
  <1>6. Len(out') <= BUFFERSIZE /\ toCopy - 1 \in 0 .. BUFFERSIZE - Len(out')
    BY <1>2, <1>3
  <1> QED BY <1>1, <1>3, <1>5, <1>6

LEMMA DotStep ==
  IInv /\ CopyDot => IInv' /\ command = "processing" /\ Reply' = Reply \o <<"dot">>
  <1> SUFFICES ASSUME IInv, CopyDot
               PROVE  IInv' /\ command = "processing" /\ Reply' = Reply \o <<"dot">>
    OBVIOUS
  <1>1. /\ handler = "copying" /\ toCopy > 0 /\ OwesDot(processor)
        /\ processor' = [processor EXCEPT !.state = "NORMAL"]
        /\ out' = Append(out, "dot") /\ toCopy' = toCopy - 1
        /\ UNCHANGED <<mail, text, offset, feof, command, handler, sent>>
    BY DEF CopyDot
  <1>2. ProcessorInv /\ HandlerInv /\ command = "processing"
    BY <1>1 DEF IInv, HandlerInv
  <1>3. ProcessorInv' /\ Owed /\ ~ Owed' /\ Position' = Position
    BY <1>1, <1>2, DotGoes
  <1>4. processor'.state = "NORMAL"
    BY <1>1, <1>2 DEF ProcessorInv
  <1>5. /\ Shape' /\ Reply' = Reply \o <<"dot">> /\ Reply \in Seq(Units)
        /\ out' \in Seq(Bytes) /\ Len(out') = Len(out) + 1 /\ Len(out') <= BUFFERSIZE
        /\ toCopy - 1 \in 0 .. BUFFERSIZE - Len(out') /\ Body(Reply)
    <2>1. "dot" \in Units
      BY DEF Units, Characters
    <2> QED BY <1>1, <2>1, ByteCopied
  <1>6. HandlerInv'
    <2>1. toCopy' + Len(out') = BUFFERSIZE
      BY <1>1, <1>2, <1>5, Lengths, SMTT(30) DEF HandlerInv
    <2> QED BY <1>1, <1>2, <1>4, <1>5, <2>1 DEF HandlerInv, Bytes
  <1>7. Body(Reply)'
    BY <1>1, <1>3, <1>5 DEF Body
  <1> QED BY <1>1, <1>2, <1>3, <1>5, <1>6, <1>7, TextKept DEF IInv, ReplyInv, Shape

\* The text of a character is what is copied of it, and of a lone dot also the dot
\* that is owed then.
LEMMA CharacterText ==
  ASSUME ProcessorInv, NEW r \in Seq(Units), Body(r), ~ Owed, Position < Len(text),
         text' = text, Position' = Position + 1,
         NEW c \in Characters, c = text[Position + 1],
         processor'.state = NextState(processor.state, c)
  PROVE  /\ c \in Lost => Body(r)'
         /\ c \notin Lost => Body(r \o <<c>>)'
  <1> DEFINE k == Position
             s == StuffedTo(text, k)
  <1>1. text \in Seq(Characters) /\ Len(text) \in Nat /\ k \in Nat /\ k \in 0 .. Len(text)
    BY DEF ProcessorInv
  <1>2. r = Header \o s
    BY DEF Body
  <1>3. StuffedTo(text, k + 1) = s \o Stuffing(text, k + 1)
    BY <1>1, StuffedStep
  <1>4. s \in Seq(Units) /\ Header \in Seq(Units) /\ <<c>> \in Seq(Units)
        /\ <<"dot">> \in Seq(Units) /\ <<>> \in Seq(Units)
    <2>1. s \in Seq(Characters)
      BY <1>1, StuffedType
    <2> QED BY <2>1 DEF Units, Header, Characters
  <1>5. LoneDot(text, k + 1) => c = "dot" /\ processor.state = "NEWLINE"
    BY <1>1 DEF LoneDot, ProcessorInv
  <1>6. Owed' <=> processor'.state = "DOT" /\ LoneDot(text, k + 1)
    BY DEF Owed
  <1>7. Position' = k + 1 /\ StuffedTo(text', Position') = StuffedTo(text, k + 1)
    OBVIOUS
  <1> HIDE DEF s, k
  <1>8. CASE c \in Lost
    <2>1. ~ LoneDot(text, k + 1) /\ Stuffing(text, k + 1) = <<>>
      BY <1>5, <1>8 DEF Stuffing, Lost, k
    <2>2. Header \o (s \o <<>>) = r
      BY <1>2, <1>4, ConcatEmptySeq
    <2> QED BY <1>3, <1>6, <1>7, <1>8, <2>1, <2>2 DEF Body
  <1>9. CASE c \notin Lost /\ LoneDot(text, k + 1)
    <2>1. c = "dot" /\ Stuffing(text, k + 1) = <<"dot", "dot">> /\ Owed'
      BY <1>5, <1>6, <1>9 DEF Stuffing, NextState
    <2>2. Header \o (s \o <<"dot", "dot">>) = (r \o <<"dot">>) \o <<"dot">>
      <3>1. <<"dot", "dot">> = <<"dot">> \o <<"dot">>
        OBVIOUS
      <3>2. s \o (<<"dot">> \o <<"dot">>) = (s \o <<"dot">>) \o <<"dot">>
        BY ONLY <1>4, ConcatAssociative
      <3>3. s \o <<"dot">> \in Seq(Units)
        BY <1>4
      <3>4. Header \o ((s \o <<"dot">>) \o <<"dot">>) = (Header \o (s \o <<"dot">>)) \o <<"dot">>
        BY ONLY <1>4, <3>3, ConcatAssociative
      <3>5. Header \o (s \o <<"dot">>) = (Header \o s) \o <<"dot">>
        BY ONLY <1>4, ConcatAssociative
      <3> QED BY <1>2, <3>1, <3>2, <3>4, <3>5, Zenon
    <2>3. Body(r \o <<"dot">>)'
      BY <1>3, <1>7, <2>1, <2>2 DEF Body
    <2> QED BY <1>9, <2>1, <2>3
  <1>10. CASE c \notin Lost /\ ~ LoneDot(text, k + 1)
    <2>1. Stuffing(text, k + 1) = <<c>> /\ ~ Owed'
      BY <1>6, <1>10 DEF Stuffing, k
    <2>2. Header \o (s \o <<c>>) = r \o <<c>>
      <3> QED BY ONLY <1>2, <1>4, ConcatAssociative
    <2> QED BY <1>3, <1>7, <1>10, <2>1, <2>2 DEF Body
  <1> QED BY <1>8, <1>9, <1>10

\* What copying the character c does.
Copied(c) ==
    /\ command = "processing" /\ Position < Len(text) /\ c = text[Position + 1]
    /\ Position' = Position + 1 /\ processor'.state = NextState(processor.state, c)
    /\ ~ (processor.state = "DOT" /\ c = "cr")
    /\ Reply' = IF c \in Lost THEN Reply ELSE Reply \o <<c>>

LEMMA CharacterStep == IInv /\ CopyCharacter => IInv' /\ \E c \in Characters : Copied(c)
  <1> SUFFICES ASSUME IInv, CopyCharacter PROVE IInv' /\ \E c \in Characters : Copied(c)
    OBVIOUS
  <1>1. /\ handler = "copying" /\ toCopy > 0 /\ ~ OwesDot(processor)
        /\ processor.buffer # <<>>
        /\ processor' = [buffer |-> Tail(processor.buffer),
                         state |-> NextState(processor.state, Head(processor.buffer)),
                         eofReached |-> processor.eofReached]
        /\ UNCHANGED <<mail, text, offset, feof, command, handler, sent>>
    BY DEF CopyCharacter
  <1>2. ProcessorInv /\ HandlerInv /\ command = "processing" /\ Shape /\ Body(Reply)
        /\ Reply \in Seq(Units)
    BY <1>1 DEF IInv, HandlerInv, ReplyInv, Shape
  <1>3. PICK c \in Characters : c = text[Position + 1]
    BY <1>1, <1>2, CharacterGoes
  <1>4. PICK r \in Seq(Units) : r = Reply
    BY <1>2
  <1>5. /\ ProcessorInv' /\ ~ Owed /\ Position < Len(text) /\ Position' = Position + 1
        /\ Head(processor.buffer) = c /\ processor'.state = NextState(processor.state, c)
    BY <1>1, <1>2, <1>3, CharacterGoes
  <1>6. Body(r) /\ text' = text
    BY <1>1, <1>2, <1>4
  <1>7. /\ c \in Lost => Body(r)'
        /\ c \notin Lost => Body(r \o <<c>>)'
    BY ONLY <1>2, <1>3, <1>5, <1>6, CharacterText
  <1>8. ASSUME c \in Lost PROVE IInv' /\ Reply' = r
    <2>1. out' = out /\ toCopy' = 0 /\ processor'.state = "NORMAL"
      BY <1>5, <1>8 DEF CopyCharacter, NextState, Lost
    <2>2. Shape' /\ Reply' = r
      BY <1>1, <1>2, <1>4, <2>1, ReplyUnchanged
    <2>3. HandlerInv'
      BY <1>1, <1>2, <2>1, Lengths DEF HandlerInv
    <2>4. Body(Reply)'
      BY <1>7, <1>8, <2>2 DEF Body
    <2> QED BY <1>1, <1>2, <1>4, <1>5, <1>8, <2>2, <2>3, <2>4, TextKept DEF IInv, ReplyInv, Shape
  <1>9. ASSUME c \notin Lost PROVE IInv' /\ Reply' = r \o <<c>>
    <2>1. out' = Append(out, c) /\ toCopy' = toCopy - 1 /\ c \in Units
      BY <1>3, <1>5, <1>9 DEF CopyCharacter, Units
    <2>2. /\ Shape' /\ Reply' = r \o <<c>>
          /\ out' \in Seq(Bytes) /\ Len(out') = Len(out) + 1 /\ Len(out') <= BUFFERSIZE
          /\ toCopy' \in 0 .. BUFFERSIZE - Len(out')
      BY <1>1, <1>4, <2>1, ByteCopied
    <2>3. HandlerInv'
      <3>1. toCopy' + Len(out') = BUFFERSIZE
        BY <1>1, <1>2, <2>1, <2>2, Lengths DEF HandlerInv
      <3> QED BY <1>1, <1>2, <2>1, <2>2, <3>1 DEF HandlerInv, Bytes
    <2>4. Body(Reply)'
      BY <1>7, <1>9, <2>2 DEF Body
    <2> QED BY <1>1, <1>2, <1>4, <1>5, <1>9, <2>2, <2>3, <2>4, TextKept DEF IInv, ReplyInv, Shape
  <1>10. ~ (processor.state = "DOT" /\ c = "cr")
    BY <1>1, <1>5 DEF OwesDot
  <1>11. Copied(c)
    BY <1>2, <1>3, <1>4, <1>5, <1>8, <1>9, <1>10 DEF Copied
  <1> QED BY <1>8, <1>9, <1>11

\* Where the terminator fits, nothing is owed: a dot that still is has filled the buffer.
LEMMA NothingOwedAtTheEnd ==
  ASSUME IInv, EndCopying, Finished, Len(out) + Len(Terminator) <= BUFFERSIZE
  PROVE  processor.state # "DOT" /\ ~ Owed
  <1>1. /\ handler = "copying" /\ feof /\ processor.buffer = <<>>
        /\ toCopy = 0 \/ ~ OwesDot(processor)
    BY DEF EndCopying, Finished
  <1>2. /\ toCopy + Len(out) = BUFFERSIZE \/ processor.state = "NORMAL"
        /\ Len(out) \in Nat /\ BUFFERSIZE \in Nat /\ Len(Terminator) = 5
    BY <1>1, Lengths DEF IInv, HandlerInv
  <1>3. toCopy = 0 => processor.state = "NORMAL"
    BY <1>2
  <1>4. processor.eofReached
    BY <1>1 DEF IInv, ProcessorInv
  <1> QED BY <1>1, <1>3, <1>4 DEF OwesDot, Owed

\* A mail that is finished has been let go whole.
LEMMA FinishedIsWhole ==
  ASSUME ProcessorInv, Finished
  PROVE  Position = Len(text) /\ StuffedTo(text, Position) = Stuffed(text)
         /\ Stuffed(text) \in Seq(Characters)
  <1>1. Position = offset - 0 /\ offset = Len(text) /\ Len(text) \in Nat
        /\ text \in Seq(Characters)
    BY EmptySeq DEF ProcessorInv, Finished, Position
  <1> QED BY <1>1, StuffedEnd, StuffedType

\* What sending the terminator does.
Ended == /\ command' = "executed" /\ processor.state # "DOT"
         /\ processor'.state = processor.state /\ Position' = Position
         /\ Reply' = Reply \o Terminator

LEMMA EndStep == IInv /\ EndCopying => IInv' /\ command = "processing" /\ (Still \/ Ended)
  <1> SUFFICES ASSUME IInv, EndCopying
               PROVE  IInv' /\ command = "processing" /\ (Still \/ Ended)
    OBVIOUS
  <1>1. /\ handler = "copying" /\ handler' = "sending" /\ toCopy' = 0
        /\ UNCHANGED <<mail, text, offset, feof, processor, sent>>
    BY DEF EndCopying
  <1>2. ProcessorInv /\ HandlerInv /\ command = "processing" /\ Shape /\ Body(Reply)
        /\ Reply \in Seq(Units)
    BY <1>1 DEF IInv, HandlerInv, ReplyInv, Shape
  <1>3. ProcessorInv' /\ (Owed' <=> Owed) /\ Position' = Position /\ (Finished' <=> Finished)
    BY <1>1, <1>2 DEF ProcessorInv, Owed, Position, Finished
  <1>4. /\ out \in Seq(Bytes) /\ sent \in Seq(Bytes) /\ Len(out) \in Nat /\ BUFFERSIZE \in Nat
        /\ Len(out) <= BUFFERSIZE /\ MaxPending \in Nat
        /\ Terminator \in Seq(Units) /\ Terminator \in Seq(Bytes) /\ Len(Terminator) = 5
    BY <1>2, Lengths DEF HandlerInv, Bytes
  <1>5. CASE ~ (Finished /\ Len(out) + Len(Terminator) <= BUFFERSIZE)
    <2>1. /\ out' = out /\ command' = IF Finished THEN "executed" ELSE "processing"
      BY <1>2, <1>5 DEF EndCopying, Terminated
    <2>2. Shape' /\ Reply' = Reply
      BY <1>1, <1>2, <2>1, ReplyUnchanged
    <2>3. HandlerInv'
      BY <1>1, <1>2, <1>3, <1>4, <2>1 DEF HandlerInv
    <2>4. Body(Reply)' /\ command' # "queued"
      BY <1>1, <1>2, <1>3, <2>1, <2>2 DEF Body
    <2>5. Still
      BY <1>1, <1>2, <1>3, <2>2 DEF Still
    <2> QED BY <1>1, <1>2, <1>3, <2>2, <2>3, <2>4, <2>5, TextKept DEF IInv, ReplyInv, Shape
  <1>6. CASE Finished /\ Len(out) + Len(Terminator) <= BUFFERSIZE
    <2>1. out' = out \o Terminator /\ command' = "executed"
      BY <1>6 DEF EndCopying, Terminated
    <2>2. out' \in Seq(Bytes) /\ Len(out') = Len(out) + Len(Terminator)
      <3>1. /\ out \o Terminator \in Seq(Bytes)
            /\ Len(out \o Terminator) = Len(out) + Len(Terminator)
        BY ONLY <1>4, ConcatProperties
      <3> QED BY <2>1, <3>1
    <2>3. Shape' /\ Reply' = Reply \o Terminator
      <3>1. sent' \o out' = (sent \o out) \o Terminator
        BY <1>1, <1>4, <2>1, AllAppended
      <3> QED BY ONLY <1>2, <1>4, <3>1, ReplyAppend
    <2>4. HandlerInv'
      <3>1. Len(out') <= BUFFERSIZE /\ 0 \in 0 .. BUFFERSIZE - Len(out')
        BY <1>4, <1>6, <2>2
      <3> QED BY <1>1, <1>2, <1>3, <1>6, <2>1, <2>2, <3>1 DEF HandlerInv, Bytes
    <2>5. Reply = Header \o Stuffed(text)
      BY <1>2, <1>6, NothingOwedAtTheEnd, FinishedIsWhole DEF Body
    <2>6. Reply' = Header \o Stuffed(text') \o Terminator
      BY <1>1, <2>3, <2>5
    <2>7. Ended
      BY <1>1, <1>3, <1>6, <2>1, <2>3, NothingOwedAtTheEnd DEF Ended
    <2> QED BY <1>1, <1>2, <1>3, <2>1, <2>3, <2>4, <2>6, <2>7, TextKept
           DEF IInv, ReplyInv, Shape
  <1> QED BY <1>5, <1>6

\* A step that neither reads nor copies.
LEMMA QuietStep ==
  ASSUME IInv, sent' \o out' = sent \o out, sent' \in Seq(Bytes), out' \in Seq(Bytes),
         Len(out') <= Len(out), handler # "copying", handler' \in {"idle", "sending"},
         UNCHANGED <<mail, text, offset, feof, processor, command, toCopy>>
  PROVE  IInv' /\ Still
  <1>1. ProcessorInv /\ HandlerInv /\ ReplyInv /\ Shape
    BY DEF IInv, ReplyInv, Shape
  <1>2. ProcessorInv' /\ (Owed' <=> Owed) /\ Position' = Position /\ (Finished' <=> Finished)
    BY <1>1 DEF ProcessorInv, Owed, Position, Finished
  <1>3. Shape' /\ Reply' = Reply
    BY <1>1, ReplyUnchanged
  <1>4. HandlerInv'
    <2>1. Len(out') \in Nat /\ Len(out) \in Nat /\ BUFFERSIZE \in Nat /\ toCopy = 0
      BY <1>1, Lengths DEF HandlerInv
    <2>2. Len(out') <= BUFFERSIZE /\ toCopy' \in 0 .. BUFFERSIZE - Len(out')
      BY <1>1, <2>1 DEF HandlerInv
    <2> QED BY <1>1, <1>2, <2>1, <2>2 DEF HandlerInv, Bytes
  <1>5. Body(Reply) => Body(Reply)'
    BY <1>2, <1>3 DEF Body
  <1> QED BY <1>1, <1>2, <1>3, <1>4, <1>5, TextKept DEF IInv, ReplyInv, Shape, Still

LEMMA SendStep == IInv /\ Send => IInv' /\ Still
  <1> SUFFICES ASSUME IInv, Send PROVE IInv' /\ Still
    OBVIOUS
  <1>1. PICK k \in 0 .. Len(out) : /\ sent' = sent \o SubSeq(out, 1, k)
                                   /\ out' = SubSeq(out, k + 1, Len(out))
    BY DEF Send
  <1>2. sent \in Seq(Bytes) /\ out \in Seq(Bytes) /\ Len(out) \in Nat
    BY Lengths DEF IInv, HandlerInv, Bytes
  <1>3. SubSeq(out, 1, k) \in Seq(Bytes) /\ SubSeq(out, k + 1, Len(out)) \in Seq(Bytes)
        /\ Len(SubSeq(out, k + 1, Len(out))) <= Len(out)
    <2>1. /\ \A i \in 1 .. k : out[i] \in Bytes
          /\ \A i \in k + 1 .. Len(out) : out[i] \in Bytes
      BY <1>2, ElementOfSeq
    <2>2. SubSeq(out, 1, k) \in Seq(Bytes)
      BY <1>2, <2>1, SubSeqProperties
    <2>3. /\ SubSeq(out, k + 1, Len(out)) \in Seq(Bytes)
          /\ Len(SubSeq(out, k + 1, Len(out))) =
               IF k + 1 <= Len(out) THEN Len(out) - (k + 1) + 1 ELSE 0
      BY <1>2, <2>1, SubSeqProperties
    <2>4. (IF k + 1 <= Len(out) THEN Len(out) - (k + 1) + 1 ELSE 0) <= Len(out)
      BY <1>2
    <2> QED BY <2>2, <2>3, <2>4
  <1>4. SubSeq(out, 1, k) \o SubSeq(out, k + 1, Len(out)) = out
    <2>1. 1 \in 1 .. Len(out) + 1 /\ k \in 1 - 1 .. Len(out) /\ Len(out) \in k .. Len(out)
      BY <1>2
    <2>2. SubSeq(out, 1, k) \o SubSeq(out, k + 1, Len(out)) = SubSeq(out, 1, Len(out))
      BY <1>2, <2>1, ConcatAdjacentSubSeq
    <2> QED BY <1>2, <2>2, SubSeqFull
  <1>5. sent' \o out' = sent \o out
    <2> DEFINE first == SubSeq(out, 1, k)
               rest == SubSeq(out, k + 1, Len(out))
    <2> HIDE DEF first, rest
    <2>1. first \in Seq(Bytes) /\ rest \in Seq(Bytes)
      BY <1>3 DEF first, rest
    <2>2. (sent \o first) \o rest = sent \o (first \o rest)
      BY ONLY <1>2, <2>1, ConcatAssociative, SMTT(30)
    <2>3. sent' = sent \o first /\ out' = rest
      BY <1>1 DEF first, rest
    <2>4. first \o rest = out
      BY <1>4 DEF first, rest
    <2> QED BY <2>2, <2>3, <2>4
  <1>6. sent' \in Seq(Bytes) /\ out' \in Seq(Bytes) /\ Len(out') <= Len(out)
    BY <1>1, <1>2, <1>3, ConcatProperties
  <1>7. handler # "copying" /\ handler' \in {"idle", "sending"}
        /\ UNCHANGED <<mail, text, offset, feof, processor, command, toCopy>>
    BY DEF Send
  <1> QED BY ONLY IInv, <1>5, <1>6, <1>7, QuietStep

LEMMA SkipStep == IInv /\ SkipExecution => IInv' /\ Still
  <1> SUFFICES ASSUME IInv, SkipExecution PROVE IInv' /\ Still
    OBVIOUS
  <1>1. /\ handler # "copying" /\ handler' \in {"idle", "sending"}
        /\ UNCHANGED <<mail, text, offset, feof, processor, command, toCopy, out, sent>>
    BY DEF SkipExecution
  <1>2. sent' \in Seq(Bytes) /\ out' \in Seq(Bytes) /\ Len(out') <= Len(out)
        /\ sent' \o out' = sent \o out
    BY <1>1, Lengths DEF IInv, HandlerInv, Bytes
  <1> QED BY ONLY IInv, <1>1, <1>2, QuietStep

LEMMA Stutter == IInv /\ UNCHANGED vars => IInv' /\ Still
  <1> SUFFICES ASSUME IInv, UNCHANGED vars PROVE IInv' /\ Still
    OBVIOUS
  <1>1. UNCHANGED <<mail, text, offset, feof, processor, command, handler, toCopy, out, sent>>
    BY DEF vars
  <1>2. ProcessorInv' /\ (Owed' <=> Owed) /\ Position' = Position /\ (Finished' <=> Finished)
    BY <1>1 DEF IInv, ProcessorInv, Owed, Position, Finished
  <1>3. HandlerInv'
    BY <1>1, <1>2 DEF IInv, HandlerInv
  <1>4. Shape' /\ Reply' = Reply
    BY <1>1, ReplyUnchanged DEF IInv, ReplyInv, Shape
  <1>5. Body(Reply) => Body(Reply)'
    BY <1>1, <1>2, <1>4 DEF Body
  <1> QED BY <1>1, <1>2, <1>3, <1>4, <1>5, TextKept DEF IInv, ReplyInv, Shape, Still

LEMMA NextInv == IInv /\ [Next]_vars => IInv'
  BY RetrStep, ResumeStep, DotStep, CharacterStep, EndStep, SkipStep, SendStep, Stutter DEF Next

LEMMA Invariance == Spec => []IInv
  BY InitInv, NextInv, PTL DEF Spec

-----------------------------------------------------------------------------
(* What the client receives *)

\* What a buffer of any size holds, and what is still to be copied, fits in it.
THEOREM TransferTyped == Spec => []TypeOK
  <1>1. IInv => TypeOK
    BY DEF IInv, TextInv, ProcessorInv, HandlerInv, TypeOK
  <1> QED BY <1>1, Invariance, PTL

LEMMA PrefixOf ==
  ASSUME NEW s \in Seq(Units), NEW t \in Seq(Units)
  PROVE  IsPrefix(s, s \o t) /\ Len(s \o t) = Len(s) + Len(t)
  <1>1. Len(s \o t) = Len(s) + Len(t) /\ Len(s) \in Nat /\ Len(t) \in Nat
    BY ConcatProperties
  <1>2. SubSeq(s \o t, 1, Len(s)) = s /\ SubSeq(s, 1, Len(s)) = s
    <2>1. CASE Len(s) = 0
      <3>1. s = <<>>
        BY <2>1, EmptySeq
      <3> QED BY <2>1, <3>1, SubSeqEmpty
    <2>2. CASE Len(s) # 0
      <3>1. 1 \in 1 .. Len(s) /\ Len(s) \in 1 .. Len(s)
        BY <1>1, <2>2
      <3> QED BY <3>1, SubSeqOfConcat1, SubSeqFull
    <2> QED BY <2>1, <2>2
  <1> QED BY <1>1, <1>2 DEF IsPrefix

LEMMA InvBody == IInv => BodyIsStuffed
  <1> SUFFICES ASSUME IInv PROVE BodyIsStuffed
    OBVIOUS
  <1>0. LostOnlyBehindNul
    BY DEF IInv, TextInv
  <1> DEFINE whole == Stuffed(text)
             body == Header \o whole
  <1>1. /\ ProcessorInv /\ HandlerInv /\ ReplyInv /\ Reply \in Seq(Units)
        /\ text \in Seq(Characters) /\ Position \in 0 .. Len(text) /\ Len(text) \in Nat
    <2>1. /\ ProcessorInv /\ HandlerInv /\ ReplyInv /\ Reply \in Seq(Units)
          /\ text \in Seq(Characters) /\ Len(text) \in Nat
      <3>1. ProcessorInv /\ HandlerInv /\ ReplyInv
        BY DEF IInv
      <3>2. Reply \in Seq(Units)
        BY <3>1 DEF ReplyInv
      <3>3. text \in Seq(Characters)
        BY <3>1 DEF ProcessorInv
      <3> QED BY <3>1, <3>2, <3>3
    <2>2. Position \in 0 .. Len(text)
      <3>1. Position \in Nat /\ offset \in 0 .. Len(text) /\ Len(processor.buffer) \in Nat
            /\ Position = offset - Len(processor.buffer)
        BY <2>1 DEF ProcessorInv, Position
      <3> QED BY <2>1, <3>1
    <2> QED BY <2>1, <2>2
  <1>2. Header \in Seq(Units) /\ whole \in Seq(Units) /\ body \in Seq(Units)
    <2>1. whole \in Seq(Characters)
      <3>1. Len(text) \in 0 .. Len(text)
        BY <1>1
      <3> QED BY <1>1, <3>1, StuffedType, StuffedEnd
    <2>2. whole \in Seq(Units)
      BY <2>1 DEF Units
    <2> HIDE DEF whole
    <2> QED BY <1>1, <2>2, Lengths, ConcatProperties
  <1>3. CASE command = "queued" /\ Reply = <<>>
    <2>1. IsPrefix(Reply, body)
      <3>1. <<>> \o body = body /\ <<>> \in Seq(Units)
        BY <1>2, ConcatEmptySeq
      <3> QED BY <1>2, <1>3, <3>1, PrefixOf
    <2> QED BY <1>0, <1>3, <2>1 DEF BodyIsStuffed
  <1>4. CASE Body(Reply)
    <2> DEFINE s == StuffedTo(text, Position)
    <2>1. PICK rest \in Seq(Characters) : whole = s \o rest
      BY <1>1, StuffedPrefix
    <2>2. s \in Seq(Units) /\ rest \in Seq(Units) /\ <<"dot">> \in Seq(Units)
      <3>1. s \in Seq(Characters)
        BY <1>1, StuffedType
      <3> QED BY <2>1, <3>1 DEF Units, Characters
    <2>3. command = "executed" => whole = s
      BY <1>1, FinishedIsWhole DEF HandlerInv
    <2> HIDE DEF s, whole
    <2>4. command = "executed" => rest = <<>>
      BY <2>1, <2>2, <2>3, ConcatEqualIffEmpty
    <2>5. body = (Header \o s) \o rest
      <3>1. Header \o (s \o rest) = (Header \o s) \o rest
        BY ONLY <1>2, <2>2, ConcatAssociative, SMTT(30)
      <3> QED BY <2>1, <3>1
    <2>6. PICK more \in Seq(Units) :
            body = Reply \o more /\ (command = "executed" => Len(more) <= 1)
      <3>1. CASE Owed
        <4>1. Header \o s = Reply \o <<"dot">>
          BY <1>4, <3>1 DEF Body, s
        <4>2. body = Reply \o (<<"dot">> \o rest)
          <5>1. (Reply \o <<"dot">>) \o rest = Reply \o (<<"dot">> \o rest)
            BY ONLY <1>1, <2>2, ConcatAssociative, SMTT(30)
          <5> QED BY <2>5, <4>1, <5>1
        <4>3. <<"dot">> \o rest \in Seq(Units)
          BY <2>2, ConcatProperties
        <4>4. command = "executed" => Len(<<"dot">> \o rest) = 1
          BY <2>4
        <4> DEFINE owed == <<"dot">> \o rest
        <4>5. /\ body = Reply \o owed /\ owed \in Seq(Units)
              /\ command = "executed" => Len(owed) <= 1
          BY <4>2, <4>3, <4>4
        <4> HIDE DEF owed, body
        <4> QED BY <4>5
      <3>2. CASE ~ Owed
        <4>1. Header \o s = Reply
          BY <1>4, <3>2 DEF Body, s
        <4> QED BY <2>2, <2>4, <2>5, <4>1
      <3> QED BY <3>1, <3>2
    <2>7. IsPrefix(Reply, body) /\ Len(body) = Len(Reply) + Len(more)
      BY <1>1, <2>6, PrefixOf
    <2>8. command = "executed" => Len(Reply) >= Len(body) - 1
      <3>1. Len(Reply) \in Nat /\ Len(more) \in Nat
        BY <1>1
      <3> QED BY <2>6, <2>7, <3>1
    <2> QED BY <1>0, <2>7, <2>8 DEF BodyIsStuffed, whole
  <1>5. CASE command = "executed" /\ Reply = Header \o Stuffed(text) \o Terminator
    BY <1>0, <1>5 DEF BodyIsStuffed
  <1> QED BY <1>1, <1>3, <1>4, <1>5 DEF ReplyInv

\* However the file, the buffer and the sends cut it, the client gets a prefix of the
\* stuffed text, and that whole when the command is executed but for a dot owed at the
\* very end; and the text is the file wherever no NUL stands less than a buffer before.
THEOREM BodyReachesClient == Spec => []BodyIsStuffed
  BY Invariance, InvBody, PTL


-----------------------------------------------------------------------------
(* No end of a mail inside of it *)

LEMMA InitGuard == Init => GuardInv
  <1> SUFFICES ASSUME Init PROVE GuardInv
    OBVIOUS
  <1>1. Reply = <<>>
    <2>1. IInv /\ command = "queued"
      BY InitInv DEF Init
    <2> QED BY <2>1 DEF IInv, ReplyInv
  <1> QED BY <1>1 DEF GuardInv, Guarded

LEMMA StillGuard == GuardInv /\ Still => GuardInv'
  <1> SUFFICES ASSUME GuardInv, Still PROVE GuardInv'
    OBVIOUS
  <1>1. CASE Guarded(Reply)
    <2>1. Guarded(Reply)'
      BY <1>1 DEF Guarded, Still
    <2> QED BY <2>1 DEF GuardInv
  <1>2. CASE ~ Guarded(Reply)
    <2>1. PICK n \in 0 .. Len(Reply) :
            Reply = SubSeq(Reply, 1, n) \o Terminator /\ Guarded(SubSeq(Reply, 1, n))
      BY <1>2 DEF GuardInv
    <2>2. command' = "executed" /\ processor'.state # "DOT" /\ Reply' = Reply
      BY <1>2 DEF GuardInv, Still
    <2>3. Guarded(SubSeq(Reply, 1, n))'
      BY <2>1, <2>2 DEF Guarded, Still
    <2> QED BY <2>1, <2>2, <2>3 DEF GuardInv
  <1> QED BY <1>1, <1>2

LEMMA RetrGuard == Reply' = Header /\ processor'.state = "NEWLINE" => GuardInv'
  <1> SUFFICES ASSUME Reply' = Header, processor'.state = "NEWLINE" PROVE Guarded(Reply)'
    BY DEF GuardInv
  <1>1. Len(Header) = 3 /\ Header[1] = "+OK" /\ Header[2] = "cr" /\ Header[3] = "lf"
    BY DEF Header
  <1> QED BY <1>1 DEF Guarded

\* While the command is executed the terminator is not there yet.
LEMMA GuardedWhileProcessing == GuardInv /\ command # "executed" => Guarded(Reply)
  BY DEF GuardInv

\* One unit more, that does not close a lone dot, and that the processor knows of.
LEMMA UnitGuarded ==
  ASSUME Reply \in Seq(Units), Guarded(Reply), NEW c \in Units, Reply' = Reply \o <<c>>,
         ~ (processor.state = "DOT" /\ c = "cr"),
         c = "lf" => processor'.state = "NEWLINE",
         c = "dot" /\ processor.state = "NEWLINE" => processor'.state = "DOT"
  PROVE  Guarded(Reply)'
  <1> DEFINE r == Reply
             t == Reply \o <<c>>
             n == Len(r)
  <1>1. /\ n \in Nat /\ Len(t) = n + 1 /\ t[n + 1] = c
        /\ \A i \in 1 .. n : t[i] = r[i]
    OBVIOUS
  <1>2. Reply' = t
    OBVIOUS
  <1> HIDE DEF t
  <1>3. ASSUME NEW i \in 1 .. Len(t) - 2, t[i] = "lf", t[i + 1] = "dot", t[i + 2] = "cr"
        PROVE  FALSE
    <2>1. i \in 1 .. n - 1 /\ i \in 1 .. n /\ i + 1 \in 1 .. n
      BY <1>1
    <2>2. CASE i + 2 <= n
      <3>1. i \in 1 .. n - 2 /\ i + 2 \in 1 .. n
        BY <1>1, <2>1, <2>2
      <3> QED BY <1>1, <1>3, <2>1, <3>1 DEF Guarded
    <2>3. CASE i + 2 = n + 1
      <3>1. i = n - 1 /\ r[i] = "lf" /\ r[i + 1] = "dot" /\ c = "cr"
        BY <1>1, <1>3, <2>1, <2>3
      <3> QED BY <2>1, <3>1 DEF Guarded
    <2> QED BY <1>1, <2>1, <2>2, <2>3
  <1>4. ASSUME NEW i \in 1 .. Len(t), i = Len(t), t[i] = "lf"
        PROVE  processor'.state = "NEWLINE"
    BY <1>1, <1>4
  <1>5. ASSUME NEW i \in 1 .. Len(t) - 1, i = Len(t) - 1, t[i] = "lf", t[i + 1] = "dot"
        PROVE  processor'.state = "DOT"
    <2>1. i = n /\ i \in 1 .. n /\ r[i] = "lf" /\ c = "dot"
      BY <1>1, <1>5
    <2> QED BY <2>1 DEF Guarded
  <1> QED BY <1>2, <1>3, <1>4, <1>5 DEF Guarded

LEMMA DotGuard == IInv /\ GuardInv /\ CopyDot => GuardInv'
  <1> SUFFICES ASSUME IInv, GuardInv, CopyDot PROVE GuardInv'
    OBVIOUS
  <1>1. command = "processing" /\ Reply' = Reply \o <<"dot">> /\ Reply \in Seq(Units)
    BY DotStep DEF IInv, ReplyInv
  <1>2. processor.state = "DOT"
    BY DEF CopyDot, OwesDot
  <1>3. Guarded(Reply)
    BY <1>1, GuardedWhileProcessing
  <1>4. "dot" \in Units
    BY DEF Units, Characters
  <1>5. Guarded(Reply)'
    BY <1>1, <1>2, <1>3, <1>4, UnitGuarded
  <1> QED BY <1>5 DEF GuardInv

\* The NULs that strncpy adds do not stand at the beginning of a line either.
LEMMA TextLostInsideLines ==
  ASSUME TextInv, text \in Seq(Characters), \A m \in Mails : LostInsideLines(m)
  PROVE  LostInsideLines(text)
  <1>1. /\ LostInsideLines(mail) /\ Len(mail) \in Nat /\ DOMAIN mail = 1 .. Len(mail)
        /\ DOMAIN text = 1 .. Len(mail)
        /\ \A i \in 1 .. Len(mail) :
             text[i] # mail[i] => text[i] = "nul" /\ i > 1 /\ text[i - 1] = "nul"
    <2>1. mail \in Seq(Characters) /\ mail \in Mails /\ Len(text) = Len(mail)
      BY DEF TextInv
    <2>2. DOMAIN mail = 1 .. Len(mail) /\ DOMAIN text = 1 .. Len(mail) /\ Len(mail) \in Nat
      BY <2>1
    <2> QED BY <2>1, <2>2 DEF TextInv, LostOnlyBehindNul
  <1> SUFFICES ASSUME NEW i \in 1 .. Len(mail), text[i] \in Lost
               PROVE  /\ i > 1 /\ text[i - 1] # "lf"
                      /\ text[i - 1] = "dot" => i > 2 /\ text[i - 2] # "lf"
    BY <1>1 DEF LostInsideLines
  <1>2. CASE text[i] # mail[i]
    BY <1>1, <1>2
  <1>3. CASE text[i] = mail[i]
    <2>1. /\ i > 1 /\ mail[i - 1] # "lf"
          /\ mail[i - 1] = "dot" => i > 2 /\ mail[i - 2] # "lf"
      BY <1>1, <1>3 DEF LostInsideLines
    <2>2. i - 1 \in 1 .. Len(mail) /\ (i > 2 => i - 2 \in 1 .. Len(mail))
      BY <1>1, <2>1
    <2>3. text[i - 1] = mail[i - 1] \/ text[i - 1] = "nul"
      BY <1>1, <2>2
    <2>4. i > 2 => text[i - 2] = mail[i - 2] \/ text[i - 2] = "nul"
      BY <1>1, <2>2
    <2> QED BY <2>1, <2>3, <2>4
  <1> QED BY <1>2, <1>3

LEMMA CharacterGuard ==
  ASSUME \A m \in Mails : LostInsideLines(m), IInv, GuardInv, NEW c \in Characters, Copied(c)
  PROVE  GuardInv'
  <1>1. /\ command = "processing" /\ Position < Len(text) /\ c = text[Position + 1]
        /\ Position' = Position + 1 /\ processor'.state = NextState(processor.state, c)
        /\ ~ (processor.state = "DOT" /\ c = "cr")
        /\ Reply' = IF c \in Lost THEN Reply ELSE Reply \o <<c>>
    BY DEF Copied
  <1>2. Reply \in Seq(Units) /\ Guarded(Reply) /\ ProcessorInv
    BY <1>1, GuardedWhileProcessing DEF IInv, ReplyInv
  <1>3. Position \in Nat /\ Len(text) \in Nat /\ LostInsideLines(text)
    BY <1>2, TextLostInsideLines DEF IInv, ProcessorInv
  <1>4. CASE c \notin Lost
    <2>1. c = "lf" => processor'.state = "NEWLINE"
      BY <1>1 DEF NextState
    <2>2. c = "dot" /\ processor.state = "NEWLINE" => processor'.state = "DOT"
      BY <1>1 DEF NextState
    <2>3. c \in Units /\ Reply' = Reply \o <<c>>
      BY <1>1, <1>4 DEF Units
    <2>4. Guarded(Reply)'
      BY <1>1, <1>2, <2>1, <2>2, <2>3, UnitGuarded
    <2> QED BY <2>4 DEF GuardInv
  <1>5. CASE c \in Lost
    <2> DEFINE i == Position + 1
    <2>1. /\ Reply' = Reply /\ i \in 1 .. Len(text) /\ DOMAIN text = 1 .. Len(text)
          /\ text[i] \in Lost /\ i - 1 = Position /\ i - 2 = Position - 1
      BY <1>1, <1>2, <1>3, <1>5 DEF ProcessorInv
    <2>2. /\ i > 1 /\ text[Position] # "lf"
          /\ text[Position] = "dot" => i > 2 /\ text[Position - 1] # "lf"
      BY <1>3, <2>1 DEF LostInsideLines
    <2>3. processor.state # "NEWLINE"
      BY <1>2, <1>3, <2>2 DEF ProcessorInv
    <2>4. processor.state # "DOT"
      BY <1>2, <1>3, <2>2 DEF ProcessorInv
    <2>5. Guarded(Reply)'
      BY <1>2, <2>1, <2>3, <2>4 DEF Guarded
    <2> QED BY <2>5 DEF GuardInv
  <1> QED BY <1>4, <1>5

LEMMA EndGuard == IInv /\ GuardInv /\ EndCopying => GuardInv'
  <1> SUFFICES ASSUME IInv, GuardInv, EndCopying PROVE GuardInv'
    OBVIOUS
  <1>1. command = "processing" /\ (Still \/ Ended)
    BY EndStep
  <1>2. CASE Still
    BY <1>2, StillGuard
  <1>3. CASE Ended
    <2>1. Reply \in Seq(Units) /\ Guarded(Reply)
      BY <1>1, GuardedWhileProcessing DEF IInv, ReplyInv
    <2>2. /\ command' = "executed" /\ processor'.state # "DOT"
          /\ processor'.state = processor.state /\ Position' = Position
          /\ Reply' = Reply \o Terminator
      BY <1>3 DEF Ended
    <2>3. /\ Terminator \in Seq(Units) /\ Len(Terminator) = 5
          /\ Len(Reply) \in Nat /\ Len(Reply') = Len(Reply) + 5
      BY <2>1, <2>2 DEF Terminator, Units, Characters
    <2>4. PICK n \in Nat : n = Len(Reply)
      BY <2>3
    <2>5. SubSeq(Reply', 1, n) = Reply
      <3>1. CASE n = 0
        <4>1. Reply = <<>>
          BY <2>1, <2>4, <3>1, EmptySeq
        <4> QED BY <3>1, <4>1, SubSeqEmpty
      <3>2. CASE n # 0
        <4>1. 1 \in 1 .. Len(Reply) /\ Len(Reply) \in 1 .. Len(Reply)
          BY <2>3, <2>4, <3>2
        <4> QED BY <2>1, <2>2, <2>3, <2>4, <4>1, SubSeqOfConcat1, SubSeqFull
      <3> QED BY <3>1, <3>2
    <2>6. Guarded(SubSeq(Reply, 1, n))'
      BY <2>1, <2>2, <2>5 DEF Guarded
    <2>7. /\ n \in 0 .. Len(Reply')
          /\ Reply' = SubSeq(Reply', 1, n) \o Terminator
      BY <2>2, <2>3, <2>4, <2>5
    <2> QED BY <2>2, <2>6, <2>7 DEF GuardInv
  <1> QED BY <1>1, <1>2, <1>3

LEMMA NextGuard ==
  ASSUME \A m \in Mails : LostInsideLines(m), IInv, GuardInv, [Next]_vars
  PROVE  GuardInv'
  <1>1. CASE Retr
    BY <1>1, RetrStep, RetrGuard
  <1>2. CASE ResumeRetr
    BY <1>2, ResumeStep, StillGuard
  <1>3. CASE CopyDot
    BY <1>3, DotGuard
  <1>4. CASE CopyCharacter
    BY <1>4, CharacterStep, CharacterGuard
  <1>5. CASE EndCopying
    BY <1>5, EndGuard
  <1>6. CASE SkipExecution
    BY <1>6, SkipStep, StillGuard
  <1>7. CASE Send
    BY <1>7, SendStep, StillGuard
  <1>8. CASE UNCHANGED vars
    BY <1>8, Stutter, StillGuard
  <1> QED BY <1>1, <1>2, <1>3, <1>4, <1>5, <1>6, <1>7, <1>8 DEF Next

\* What is guarded holds no terminator, and none that begins in it and ends in the real
\* one unless a lone dot is open.
LEMMA GuardedHasNoEnd ==
  ASSUME Reply \in Seq(Units), GuardInv
  PROVE  NoEarlyEnd
  <1> SUFFICES ASSUME NEW i \in 1 .. Len(Reply) - Len(Terminator),
                      SubSeq(Reply, i, i + Len(Terminator) - 1) = Terminator
               PROVE  FALSE
    BY DEF NoEarlyEnd
  <1>1. /\ Len(Terminator) = 5 /\ Terminator \in Seq(Units) /\ Len(Reply) \in Nat
        /\ Terminator[1] = "cr" /\ Terminator[2] = "lf" /\ Terminator[3] = "dot"
        /\ Terminator[4] = "cr"
    BY DEF Terminator, Units, Characters
  <1>2. i \in Nat /\ i >= 1 /\ i + 4 < Len(Reply) /\ i + Len(Terminator) - 1 = i + 4
    BY <1>1
  <1>3. Reply[i + 1] = "lf" /\ Reply[i + 2] = "dot" /\ Reply[i + 3] = "cr"
    <2>1. SubSeq(Reply, i, i + 4) = Terminator
      BY <1>2
    <2>2. \A k \in 1 .. 5 : SubSeq(Reply, i, i + 4)[k] = Reply[i + k - 1]
      BY <1>1, <1>2
    <2>3. /\ SubSeq(Reply, i, i + 4)[2] = Reply[i + 1]
          /\ SubSeq(Reply, i, i + 4)[3] = Reply[i + 2]
          /\ SubSeq(Reply, i, i + 4)[4] = Reply[i + 3]
      BY <1>2, <2>2
    <2> QED BY <1>1, <2>1, <2>3
  <1>4. CASE Guarded(Reply)
    <2>1. i + 1 \in 1 .. Len(Reply) - 2 /\ (i + 1) + 1 = i + 2 /\ (i + 1) + 2 = i + 3
      BY <1>1, <1>2
    <2> QED BY <1>3, <1>4, <2>1 DEF Guarded
  <1>5. CASE ~ Guarded(Reply)
    <2>1. PICK n \in 0 .. Len(Reply) :
            Reply = SubSeq(Reply, 1, n) \o Terminator /\ Guarded(SubSeq(Reply, 1, n))
      BY <1>5 DEF GuardInv
    <2> DEFINE s == SubSeq(Reply, 1, n)
    <2>2. /\ s \in Seq(Units) /\ Len(s) = n /\ n \in Nat
          /\ \A k \in 1 .. n : s[k] = Reply[k]
      BY <1>1, <2>1
    <2>3. Reply = s \o Terminator /\ Guarded(s) /\ processor.state # "DOT"
      BY <1>5, <2>1 DEF GuardInv
    <2> HIDE DEF s
    <2>4. /\ Len(Reply) = n + 5 /\ Reply[n + 1] = "cr" /\ Reply[n + 2] = "lf"
          /\ Reply[n + 3] = "dot"
      <3> DEFINE whole == s \o Terminator
      <3>1. /\ Len(whole) = n + 5
            /\ \A k \in 1 .. n + 5 : k > n => whole[k] = Terminator[k - n]
        <4>1. /\ Len(whole) = Len(s) + Len(Terminator)
              /\ \A k \in 1 .. Len(s) + Len(Terminator) : whole[k] =
                     IF k <= Len(s) THEN s[k] ELSE Terminator[k - Len(s)]
          BY ONLY <1>1, <2>2, ConcatProperties, ZenonT(30)
        <4>2. Len(s) + Len(Terminator) = n + 5 /\ Len(s) = n /\ n \in Nat
          BY <1>1, <2>2
        <4> HIDE DEF whole
        <4> QED BY ONLY <4>1, <4>2
      <3> HIDE DEF whole
      <3>2. /\ whole[n + 1] = Terminator[1] /\ whole[n + 2] = Terminator[2]
            /\ whole[n + 3] = Terminator[3]
        <4>1. /\ n + 1 \in 1 .. n + 5 /\ n + 1 > n /\ (n + 1) - n = 1
              /\ n + 2 \in 1 .. n + 5 /\ n + 2 > n /\ (n + 2) - n = 2
              /\ n + 3 \in 1 .. n + 5 /\ n + 3 > n /\ (n + 3) - n = 3
          BY <2>2
        <4>2. /\ whole[n + 1] = Terminator[(n + 1) - n] /\ whole[n + 2] = Terminator[(n + 2) - n]
              /\ whole[n + 3] = Terminator[(n + 3) - n]
          BY ONLY <3>1, <4>1
        <4> QED BY <4>1, <4>2
      <3>3. Reply = whole
        BY <2>3 DEF whole
      <3> QED BY <1>1, <3>1, <3>2, <3>3
    <2>5. CASE i + 3 <= n
      <3>1. i \in Nat /\ i >= 1 /\ n \in Nat /\ i + 3 <= n
        BY <1>2, <2>2, <2>5
      <3>2. /\ i + 1 \in 1 .. n - 2 /\ i + 1 \in 1 .. n /\ i + 2 \in 1 .. n /\ i + 3 \in 1 .. n
            /\ (i + 1) + 1 = i + 2 /\ (i + 1) + 2 = i + 3
        BY ONLY <3>1
      <3> QED BY <1>3, <2>2, <2>3, <3>2 DEF Guarded
    <2>6. CASE i + 3 = n + 1
      <3>1. i \in Nat /\ i >= 1 /\ n \in Nat /\ i + 3 = n + 1
        BY <1>2, <2>2, <2>6
      <3>2. /\ i + 1 \in 1 .. n - 1 /\ i + 1 = n - 1 /\ i + 1 \in 1 .. n /\ i + 2 \in 1 .. n
            /\ (i + 1) + 1 = i + 2
        BY ONLY <3>1
      <3> QED BY <1>3, <2>2, <2>3, <3>2 DEF Guarded
    <2>7. CASE i + 3 = n + 2 \/ i + 3 = n + 3
      BY <1>3, <2>4, <2>7
    <2> QED BY <1>2, <2>2, <2>4, <2>5, <2>6, <2>7
  <1> QED BY <1>4, <1>5

\* The client does not meet the end of the mail before its end, whatever buffer and sends
\* cut the reply into: for mails in which no character that is lost would join the two
\* parts of a line beginning (MCRetrTransfer checks that its mails are such).
THEOREM TerminatorOnlyAtEnd ==
  ASSUME \A m \in Mails : LostInsideLines(m)
  PROVE  Spec => []NoEarlyEnd
  <1>1. Init => GuardInv
    BY InitGuard
  <1>2. IInv /\ GuardInv /\ [Next]_vars => GuardInv'
    BY NextGuard
  <1>3. IInv /\ GuardInv => NoEarlyEnd
    BY GuardedHasNoEnd DEF IInv, ReplyInv
  <1> QED BY <1>1, <1>2, <1>3, Invariance, PTL DEF Spec

=============================================================================
