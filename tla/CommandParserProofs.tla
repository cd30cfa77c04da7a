------------------------ MODULE CommandParserProofs ------------------------
(***************************************************************************)
(* The list of commands of the parser, for any sizes of the buffers, any   *)
(* stream and any way in which recv cuts it, the bytes behind the NUL      *)
(* included.                                                               *)
(*                                                                         *)
(* The loop of addData is the fold of AddChar.  It works on the last node  *)
(* only: Grown(done) has the lists that begin with the finished nodes done *)
(* and have no unfinished node but the last, and no round leaves it.       *)
(*                                                                         *)
(* That the nodes are the lines of the stream is an invariant of its own,  *)
(* Understood: the finished nodes and what was executed divide the stream  *)
(* into lines, and the unfinished node is Partial to what follows them.    *)
(***************************************************************************)
EXTENDS CommandParser, SequenceTheorems, FiniteSetTheorems, TLAPS

\* The bodies of the loops: that of addData, and that of FlattenSeq, which makes
\* the stream.
Join(text, line) == text \o line

AddLoop == INSTANCE SequenceInduction WITH op <- AddChar
JoinLoop == INSTANCE SequenceInduction WITH op <- Join

Fields == 1 .. 3
Lens == {l \in [Fields -> Nat] : \A k \in Fields : l[k] <= MaxSize(k)}
Node == [status : Statuses, field : Fields, lens : Lens, receivedCR : BOOLEAN]

\* Only the last node is unfinished.
OpenLast(nodes) == \A i \in 1 .. Len(nodes) : i < Len(nodes) => Finished(nodes[i])

\* The list begins with the finished nodes done.
Extends(done, nodes) ==
    /\ Len(done) <= Len(nodes)
    /\ \A i \in 1 .. Len(done) : nodes[i] = done[i] /\ Finished(done[i])

Grown(done) == {nodes \in Seq(Node) : OpenLast(nodes) /\ Extends(done, nodes)}

\* Between two calls of addData no node is "SURPLUS".
Settled(nodes) == \A i \in 1 .. Len(nodes) : nodes[i].status # "SURPLUS"

Answers == Lens \cup {<<>>}

IInv ==
    /\ input \in Seq(Classes)
    /\ received \in 0 .. Len(input)
    /\ list \in Seq(Node) /\ OpenLast(list) /\ Settled(list)
    /\ executed \in Seq(Answers)

-----------------------------------------------------------------------------
(* One character *)

LEMMA NewNodeType == NewNode \in Node
  <1>1. <<0, 0, 0>> \in [Fields -> Nat] /\ \A k \in Fields : <<0, 0, 0>>[k] = 0
    BY DEF Fields
  <1>2. \A k \in Fields : MaxSize(k) \in Nat
    BY SizeAssumption DEF MaxSize
  <1>3. <<0, 0, 0>> \in Lens
    BY <1>1, <1>2 DEF Lens
  <1> QED BY <1>3 DEF NewNode, Node, Statuses, Fields

LEMMA ProcessNodeType ==
  ASSUME NEW node \in Node, NEW c
  PROVE  ProcessNode(node, c) \in Node
  <1> USE DEF Statuses
  <1>1. /\ node.status \in Statuses /\ node.field \in Fields /\ node.lens \in Lens
        /\ node.receivedCR \in BOOLEAN
    BY DEF Node
  <1>2. ASSUME NEW n \in Node PROVE Discard(n, c) \in Node
    BY <1>2 DEF Discard, Node
  <1>3. Invalidate(node, c) \in Node
    <2>1. [node EXCEPT !.status = "INVALID"] \in Node
      BY DEF Node
    <2> QED BY <1>2, <2>1 DEF Invalidate
  <1>4. NextField(node) \in Node
    BY DEF NextField, Node, Fields
  <1>5. Store(node, c) \in Node
    <2>1. CASE c # "x" \/ node.lens[node.field] >= MaxSize(node.field)
      BY <1>3, <2>1 DEF Store
    <2>2. CASE ~ (c # "x" \/ node.lens[node.field] >= MaxSize(node.field))
      <3> DEFINE l == [node.lens EXCEPT ![node.field] = @ + 1]
      <3>1. /\ node.lens \in [Fields -> Nat] /\ \A k \in Fields : node.lens[k] <= MaxSize(k)
            /\ node.field \in Fields
        BY <1>1 DEF Lens
      <3>2. MaxSize(node.field) \in Nat
        BY SizeAssumption DEF MaxSize
      <3>3. l \in Lens
        BY <2>2, <3>1, <3>2 DEF Lens
      <3>4. Store(node, c) = [node EXCEPT !.lens = l]
        BY <2>2 DEF Store, Node
      <3> HIDE DEF l
      <3> QED BY <3>3, <3>4 DEF Node
    <2> QED BY <2>1, <2>2
  <1>6. AfterCR(node, c) \in Node
    BY DEF AfterCR, Node
  <1>7. [node EXCEPT !.receivedCR = TRUE] \in Node
    BY DEF Node
  <1> QED BY <1>2, <1>4, <1>5, <1>6, <1>7 DEF ProcessNode, Write

\* addData for one character: the finished nodes stay where and as they are.
LEMMA AddCharGrows ==
  ASSUME NEW done, Len(done) \in Nat, NEW nodes \in Grown(done), NEW c
  PROVE  AddChar(nodes, c) \in Grown(done) /\ Len(AddChar(nodes, c)) > 0
  <1> DEFINE open == IF nodes = <<>> \/ Finished(Last(nodes))
                     THEN Append(nodes, NewNode) ELSE nodes
             new == ProcessNode(open[Len(open)], c)
             result == AddChar(nodes, c)
  <1>1. nodes \in Seq(Node) /\ OpenLast(nodes) /\ Extends(done, nodes)
    BY DEF Grown
  <1>2. Len(nodes) \in Nat /\ (nodes # <<>> => Len(nodes) > 0)
    BY <1>1, EmptySeq
  <1>3. open \in Seq(Node) /\ Len(open) > 0 /\ Len(open) >= Len(nodes)
    BY <1>1, <1>2, NewNodeType
  <1>4. \A i \in 1 .. Len(open) : i < Len(open) => Finished(open[i])
    <2>1. CASE nodes = <<>> \/ Finished(Last(nodes))
      BY <1>1, <1>2, <2>1, NewNodeType DEF OpenLast, Last
    <2>2. CASE ~ (nodes = <<>> \/ Finished(Last(nodes)))
      BY <1>1, <2>2 DEF OpenLast
    <2> QED BY <2>1, <2>2
  <1>5. \A i \in 1 .. Len(done) : i < Len(open) /\ open[i] = done[i] /\ Finished(done[i])
    <2> SUFFICES ASSUME NEW i \in 1 .. Len(done)
                 PROVE  i < Len(open) /\ open[i] = done[i] /\ Finished(done[i])
      OBVIOUS
    <2>1. i <= Len(nodes) /\ nodes[i] = done[i] /\ Finished(done[i])
      BY <1>1, <1>2 DEF Extends
    <2>2. CASE nodes = <<>> \/ Finished(Last(nodes))
      BY <1>1, <1>2, <2>1, <2>2, NewNodeType
    <2>3. CASE ~ (nodes = <<>> \/ Finished(Last(nodes)))
      <3>1. i # Len(nodes)
        BY <2>1, <2>3 DEF Last
      <3> QED BY <1>2, <2>1, <2>3, <3>1
    <2> QED BY <2>2, <2>3
  <1>6. open[Len(open)] \in Node
    BY <1>3, ElementOfSeq
  <1>7. result = [open EXCEPT ![Len(open)] = new] /\ new \in Node
    BY <1>6, ProcessNodeType DEF AddChar
  <1> HIDE DEF open, new, result
  <1>8. /\ result \in Seq(Node) /\ Len(result) = Len(open)
        /\ \A i \in 1 .. Len(open) : i # Len(open) => result[i] = open[i]
    BY <1>3, <1>7, ExceptSeq
  <1>9. OpenLast(result)
    BY <1>3, <1>4, <1>8 DEF OpenLast
  <1>10. Extends(done, result)
    <2>1. Len(done) <= Len(result)
      BY <1>1, <1>2, <1>3, <1>8 DEF Extends
    <2> QED BY <1>3, <1>5, <1>8, <2>1 DEF Extends
  <1> QED BY <1>3, <1>8, <1>9, <1>10 DEF Grown, result

-----------------------------------------------------------------------------
(* One call of addData *)

\* The loop over the characters.
LEMMA LoopGrows ==
  ASSUME NEW done, Len(done) \in Nat, NEW nodes \in Grown(done),
         NEW data \in Seq(Classes), Len(data) > 0
  PROVE  /\ FoldLeft(AddChar, nodes, data) \in Grown(done)
         /\ Len(FoldLeft(AddChar, nodes, data)) > 0
  <1>1. FoldLeft(AddChar, nodes, data) = AddLoop!FoldLeft(AddChar, nodes, data)
    BY Zenon DEF FoldLeft, AddLoop!FoldLeft, MapThenFoldSet, AddLoop!MapThenFoldSet,
                 Max, AddLoop!Max
  <1>2. \A x \in Grown(done), i \in 1 .. Len(data) : AddChar(x, data[i]) \in Grown(done)
    BY AddCharGrows
  <1>3. /\ AddLoop!FoldLeft(AddChar, nodes, data) \in Grown(done)
        /\ \E x \in Grown(done) :
             AddLoop!FoldLeft(AddChar, nodes, data) = AddChar(x, data[Len(data)])
    BY <1>2, AddLoop!FoldKeeps
  <1> QED BY <1>1, <1>3, AddCharGrows

LEMMA AtNulGrows ==
  ASSUME NEW done, Len(done) \in Nat, NEW nodes \in Grown(done), Len(nodes) > 0
  PROVE  AtNul(nodes) \in Grown(done) /\ Settled(AtNul(nodes))
  <1>1. nodes \in Seq(Node) /\ OpenLast(nodes) /\ Extends(done, nodes) /\ Len(nodes) \in Nat
    BY DEF Grown
  <1>2. \A i \in 1 .. Len(nodes) : i < Len(nodes) => nodes[i].status # "SURPLUS"
    BY <1>1 DEF OpenLast, Finished
  <1>3. CASE Last(nodes).status # "SURPLUS"
    BY <1>1, <1>2, <1>3 DEF AtNul, Last, Settled
  <1>4. CASE Last(nodes).status = "SURPLUS"
    <2> DEFINE new == [nodes[Len(nodes)] EXCEPT !.status = "INVALID"]
    <2>1. nodes[Len(nodes)] \in Node
      BY <1>1, ElementOfSeq
    <2>2. new \in Node /\ new.status = "INVALID"
      BY <2>1 DEF Node, Statuses
    <2>3. AtNul(nodes) = [nodes EXCEPT ![Len(nodes)] = new]
      BY <1>4 DEF AtNul
    <2> HIDE DEF new
    <2>4. /\ AtNul(nodes) \in Seq(Node) /\ Len(AtNul(nodes)) = Len(nodes)
          /\ AtNul(nodes)[Len(nodes)] = new
          /\ \A i \in 1 .. Len(nodes) : i # Len(nodes) => AtNul(nodes)[i] = nodes[i]
      BY <1>1, <2>2, <2>3, ExceptSeq
    <2>5. OpenLast(AtNul(nodes))
      BY <1>1, <2>4 DEF OpenLast
    <2>6. Settled(AtNul(nodes))
      BY <1>1, <1>2, <2>2, <2>4 DEF Settled
    <2>7. \A i \in 1 .. Len(done) : i # Len(nodes)
      BY <1>1, <1>4 DEF Extends, Finished, Last
    <2>8. Extends(done, AtNul(nodes))
      BY <1>1, <2>4, <2>7 DEF Extends
    <2> QED BY <2>4, <2>5, <2>6, <2>8 DEF Grown
  <1> QED BY <1>3, <1>4

LEMMA AddDataGrows ==
  ASSUME NEW done, Len(done) \in Nat, NEW nodes \in Grown(done),
         NEW data \in Seq(Classes), Len(data) > 0
  PROVE  AddData(nodes, data) \in Grown(done) /\ Settled(AddData(nodes, data))
  BY LoopGrows, AtNulGrows DEF AddData

\* readFromClient, with what may have been parsed behind the NUL.
LEMMA RecvGrows ==
  ASSUME IInv, Recv, NEW done, Len(done) \in Nat, list \in Grown(done)
  PROVE  /\ list' \in Grown(done) /\ Settled(list')
         /\ received' \in 0 .. Len(input)
  <1>1. PICK n \in 1 .. MAXCOMMANDLENGTH, stale \in StaleTails :
          LET data   == SubSeq(input, received + 1, received + n)
              nodes  == AddData(list, data)
              beyond == ReadsBeyond(nodes, data, stale)
          IN  /\ received + n <= Len(input)
              /\ received' = received + n
              /\ list' = IF beyond THEN AddData(nodes, stale) ELSE nodes
    BY DEF Recv
  <1> DEFINE data == SubSeq(input, received + 1, received + n)
             nodes == AddData(list, data)
  <1>2. input \in Seq(Classes) /\ Len(input) \in Nat /\ received \in Nat /\ n \in Nat /\ n > 0
    BY SizeAssumption DEF IInv
  <1>3. data \in Seq(Classes) /\ Len(data) = n
    <2>1. \A i \in received + 1 .. received + n : input[i] \in Classes
      BY <1>1, <1>2, ElementOfSeq
    <2> QED BY <1>2, <2>1, SubSeqProperties
  <1>4. nodes \in Grown(done) /\ Settled(nodes)
    BY <1>2, <1>3, AddDataGrows
  <1>5. ReadsBeyond(nodes, data, stale) =>
          AddData(nodes, stale) \in Grown(done) /\ Settled(AddData(nodes, stale))
    <2> SUFFICES ASSUME stale # <<>>
                 PROVE  AddData(nodes, stale) \in Grown(done) /\ Settled(AddData(nodes, stale))
      BY DEF ReadsBeyond
    <2>1. stale \in Seq(Classes) /\ Len(stale) > 0
      BY StreamAssumption, EmptySeq
    <2> HIDE DEF nodes
    <2> QED BY <1>4, <2>1, AddDataGrows
  <1> HIDE DEF nodes, data
  <1> QED BY <1>1, <1>2, <1>4, <1>5 DEF nodes, data

-----------------------------------------------------------------------------
(* The finished nodes *)

\* How many finished nodes a list begins with.
DoneLen(nodes) ==
    IF nodes = <<>> THEN 0
    ELSE IF Finished(Last(nodes)) THEN Len(nodes) ELSE Len(nodes) - 1

Done(nodes) == SubSeq(nodes, 1, DoneLen(nodes))

\* Only an unfinished last node is not going to be returned.
LEMMA DoneIsAvailable ==
  ASSUME NEW nodes \in Seq(Node), OpenLast(nodes)
  PROVE  Available(nodes) = Done(nodes)
  <1> DEFINE n == Len(nodes)
             I == {i \in 1 .. n : ~ Finished(nodes[i])}
  <1>1. n \in Nat /\ (nodes = <<>> <=> n = 0)
    BY EmptySeq
  <1>2. Available(nodes) = IF I # {} THEN IF Min(I) = 0 THEN nodes ELSE SubSeq(nodes, 1, Min(I) - 1)
                                     ELSE nodes
    BY DEF Available, SelectInSeq
  <1>3. CASE n = 0 \/ Finished(nodes[n])
    <2>1. I = {}
      BY <1>1, <1>3 DEF OpenLast
    <2>2. DoneLen(nodes) = n
      BY <1>1, <1>3 DEF DoneLen, Last
    <2>3. SubSeq(nodes, 1, n) = nodes
      BY SubSeqFull
    <2> QED BY <1>2, <2>1, <2>2, <2>3 DEF Done
  <1>4. CASE ~ (n = 0 \/ Finished(nodes[n]))
    <2>1. I = {n}
      BY <1>1, <1>4 DEF OpenLast
    <2>2. Min(I) = n
      BY <1>1, <2>1 DEF Min
    <2>3. DoneLen(nodes) = n - 1
      BY <1>1, <1>4 DEF DoneLen, Last
    <2> HIDE DEF I
    <2> QED BY <1>1, <1>2, <1>4, <2>1, <2>2, <2>3 DEF Done
  <1> QED BY <1>3, <1>4

LEMMA DoneProperties ==
  ASSUME NEW nodes \in Seq(Node), OpenLast(nodes)
  PROVE  /\ DoneLen(nodes) \in 0 .. Len(nodes)
         /\ Done(nodes) \in Seq(Node) /\ Len(Done(nodes)) = DoneLen(nodes)
         /\ DOMAIN Done(nodes) = 1 .. DoneLen(nodes)
         /\ \A i \in 1 .. DoneLen(nodes) : Done(nodes)[i] = nodes[i] /\ Finished(nodes[i])
         /\ nodes \in Grown(Done(nodes))
  <1>1. DoneLen(nodes) \in 0 .. Len(nodes)
    BY EmptySeq DEF DoneLen
  <1>2. /\ Done(nodes) \in Seq(Node) /\ Len(Done(nodes)) = DoneLen(nodes)
        /\ \A i \in 1 .. DoneLen(nodes) : Done(nodes)[i] = nodes[i]
    <2>1. \A i \in 1 .. DoneLen(nodes) : nodes[i] \in Node
      BY <1>1, ElementOfSeq
    <2> QED BY <1>1, <2>1, SubSeqProperties DEF Done
  <1>3. \A i \in 1 .. DoneLen(nodes) : Finished(nodes[i])
    BY <1>1, EmptySeq DEF DoneLen, OpenLast, Last
  <1>4. nodes \in Grown(Done(nodes))
    BY <1>1, <1>2, <1>3 DEF Grown, Extends
  <1> QED BY <1>1, <1>2, <1>3, <1>4

\* The finished nodes of a list that extends done begin with done.
LEMMA DoneGrows ==
  ASSUME NEW done, Len(done) \in Nat, NEW nodes \in Grown(done)
  PROVE  /\ Len(done) <= DoneLen(nodes)
         /\ \A i \in 1 .. Len(done) : nodes[i] = done[i]
  BY EmptySeq DEF Grown, Extends, DoneLen, Last

-----------------------------------------------------------------------------
(* The invariant *)

\* The stream is one of characters.
LEMMA InputType == \A in \in Inputs : in \in Seq(Classes)
  <1> SUFFICES ASSUME NEW n \in 1 .. MaxLines, NEW lines \in [1 .. n -> Lines]
               PROVE  FlattenSeq(lines) \in Seq(Classes)
    BY DEF Inputs
  <1> DEFINE f == CHOOSE g : g = [i \in 1 .. Len(lines) |->
                                    IF i = 1 THEN lines[i] ELSE g[i - 1] \o lines[i]]
  <1>1. n \in Nat /\ n >= 1 /\ Len(lines) = n /\ \A i \in 1 .. n : lines[i] \in Seq(Classes)
    BY StreamAssumption
  <1>2. FlattenSeq(lines) = f[n]
    BY <1>1 DEF FlattenSeq
  <1>3. \E g : JoinLoop!Iterates(g, lines[1], lines, 1, n)
    BY <1>1, JoinLoop!IterationExists
  <1>4. \E g : g = [i \in 1 .. Len(lines) |-> IF i = 1 THEN lines[i] ELSE g[i - 1] \o lines[i]]
    <2>1. PICK g : JoinLoop!Iterates(g, lines[1], lines, 1, n)
      BY <1>3
    <2>2. g = [i \in 1 .. n |-> IF i = 1 THEN lines[1] ELSE g[i - 1] \o lines[i]]
      BY <2>1 DEF JoinLoop!Iterates, Join
    <2>3. g = [i \in 1 .. n |-> IF i = 1 THEN lines[i] ELSE g[i - 1] \o lines[i]]
      BY <2>2
    <2> QED BY <1>1, <2>3
  <1>5. f = [i \in 1 .. Len(lines) |-> IF i = 1 THEN lines[i] ELSE f[i - 1] \o lines[i]]
    BY <1>4
  <1> HIDE DEF f
  <1>6. JoinLoop!Iterates(f, lines[1], lines, 1, n)
    BY <1>1, <1>5 DEF JoinLoop!Iterates, Join
  <1>7. \A x \in Seq(Classes), i \in 1 + 1 .. n : Join(x, lines[i]) \in Seq(Classes)
    BY <1>1, ConcatProperties DEF Join
  <1>8. f[n] \in Seq(Classes)
    <2>1. lines[1] \in Seq(Classes) /\ 1 \in Nat /\ 1 <= n /\ n \in Nat
      BY <1>1
    <2> QED BY ONLY <1>6, <1>7, <2>1, JoinLoop!IterationKeeps
  <1> QED BY <1>2, <1>8

LEMMA InitInv == Init => IInv
  <1> SUFFICES ASSUME Init PROVE IInv
    OBVIOUS
  <1>1. input \in Seq(Classes) /\ Len(input) \in Nat
    BY InputType DEF Init
  <1>2. <<>> \in Seq(Node) /\ <<>> \in Seq(Answers) /\ Len(<<>>) = 0
    BY EmptySeq
  <1> QED BY <1>1, <1>2 DEF Init, IInv, OpenLast, Settled

LEMMA CommandType ==
  ASSUME NEW node \in Node
  PROVE  Command(node) \in Answers
  BY DEF Command, Node, Answers

LEMMA NextInv == IInv /\ [Next]_vars => IInv'
  <1> SUFFICES ASSUME IInv, [Next]_vars PROVE IInv'
    OBVIOUS
  <1>1. CASE Recv
    <2>1. list' \in Grown(Done(list)) /\ Settled(list') /\ received' \in 0 .. Len(input)
      <3>1. Len(Done(list)) \in Nat /\ list \in Grown(Done(list))
        BY DoneProperties DEF IInv
      <3> QED BY <1>1, <3>1, RecvGrows
    <2> QED BY <1>1, <2>1 DEF IInv, Recv, Grown
  <1>2. CASE GetFirstCommand
    <2>1. /\ list \in Seq(Node) /\ list # <<>> /\ list' = Tail(list)
          /\ executed' = Append(executed, Command(Head(list)))
          /\ UNCHANGED <<input, received>>
      BY <1>2 DEF IInv, GetFirstCommand, AvailableCommands
    <2>2. /\ list' \in Seq(Node) /\ Len(list') = Len(list) - 1 /\ Head(list) \in Node
          /\ \A i \in 1 .. Len(list') : list'[i] = list[i + 1]
      BY <2>1, HeadTailProperties
    <2>3. OpenLast(list') /\ Settled(list')
      BY <2>1, <2>2 DEF IInv, OpenLast, Settled
    <2>4. executed' \in Seq(Answers)
      BY <2>1, <2>2, CommandType DEF IInv
    <2> QED BY <2>1, <2>2, <2>3, <2>4 DEF IInv
  <1>3. CASE UNCHANGED vars
    BY <1>3 DEF vars, IInv, OpenLast, Settled
  <1> QED BY <1>1, <1>2, <1>3 DEF Next

LEMMA Invariance == Spec => []IInv
  BY InitInv, NextInv, PTL DEF Spec

LEMMA InvType == IInv => TypeOK
  <1> SUFFICES ASSUME IInv PROVE TypeOK
    OBVIOUS
  <1>1. ASSUME NEW i \in DOMAIN list
        PROVE  /\ list[i].status \in Statuses \ {"SURPLUS"}
               /\ \A k \in 1 .. 3 : list[i].lens[k] \in 0 .. MaxSize(k)
    <2>1. i \in 1 .. Len(list) /\ list[i] \in Node
      BY LenProperties, ElementOfSeq DEF IInv
    <2>2. list[i].lens \in Lens /\ list[i].status \in Statuses \ {"SURPLUS"}
      BY <2>1 DEF IInv, Settled, Node
    <2>3. ASSUME NEW k \in 1 .. 3
          PROVE  list[i].lens[k] \in 0 .. MaxSize(k)
      BY <2>2, SizeAssumption DEF Lens, Fields, MaxSize
    <2> QED BY <2>2, <2>3
  <1> QED BY <1>1 DEF TypeOK, IInv

\* No string of a node outgrows its buffer, whatever is received and however it is
\* cut, for buffers of any size.
THEOREM BuffersHold == Spec => []TypeOK
  BY Invariance, InvType, PTL

\* Every node but the last is finished, for any stream: no command waits behind one
\* that is not complete.
THEOREM NothingWaitsBehindOpen == Spec => []OnlyLastIsOpen
  <1>1. IInv => OnlyLastIsOpen
    BY LenProperties DEF IInv, OpenLast, OnlyLastIsOpen
  <1> QED BY <1>1, Invariance, PTL

-----------------------------------------------------------------------------
(* The commands finished *)

\* Parsed, spelled out by its elements: what was executed, then the finished nodes.
ParsedSpelled ==
    /\ Parsed \in Seq(Answers)
    /\ Len(Parsed) = Len(executed) + DoneLen(list)
    /\ \A i \in 1 .. Len(executed) : Parsed[i] = executed[i]
    /\ \A i \in 1 .. DoneLen(list) : Parsed[Len(executed) + i] = Command(list[i])

LEMMA ParsedElements == IInv => ParsedSpelled
  <1> SUFFICES ASSUME IInv PROVE ParsedSpelled
    OBVIOUS
  <1> DEFINE n == DoneLen(list)
             answers == [i \in 1 .. n |-> Command(list[i])]
  <1>1. /\ list \in Seq(Node) /\ OpenLast(list) /\ executed \in Seq(Answers)
        /\ Len(executed) \in Nat
    BY DEF IInv
  <1>2. n \in 0 .. Len(list) /\ Len(list) \in Nat
    BY <1>1, DoneProperties
  <1>3. [i \in DOMAIN Available(list) |-> Command(Available(list)[i])] = answers
    <2>1. Available(list) = Done(list)
      BY <1>1, DoneIsAvailable
    <2>2. DOMAIN Done(list) = 1 .. n /\ \A i \in 1 .. n : Done(list)[i] = list[i]
      BY <1>1, DoneProperties
    <2> QED BY <2>1, <2>2
  <1>4. Parsed = executed \o answers
    BY <1>3, Zenon DEF Parsed
  <1>5. answers \in Seq(Answers) /\ Len(answers) = n
    <2>1. \A i \in 1 .. n : Command(list[i]) \in Answers
      BY <1>1, <1>2, ElementOfSeq, CommandType
    <2> QED BY <1>2, <2>1
  <1>6. \A i \in 1 .. n : answers[i] = Command(list[i])
    OBVIOUS
  <1> HIDE DEF answers, n
  <1>7. /\ Parsed \in Seq(Answers) /\ Len(Parsed) = Len(executed) + n
        /\ \A i \in 1 .. Len(executed) + n :
             Parsed[i] = IF i <= Len(executed) THEN executed[i] ELSE answers[i - Len(executed)]
    BY <1>1, <1>4, <1>5, ConcatProperties
  <1>8. \A i \in 1 .. Len(executed) : Parsed[i] = executed[i]
    BY <1>1, <1>2, <1>7 DEF n
  <1>9. \A i \in 1 .. n : Parsed[Len(executed) + i] = answers[i]
    <2> SUFFICES ASSUME NEW i \in 1 .. n PROVE Parsed[Len(executed) + i] = answers[i]
      OBVIOUS
    <2>1. /\ Len(executed) + i \in 1 .. Len(executed) + n /\ ~ (Len(executed) + i <= Len(executed))
          /\ (Len(executed) + i) - Len(executed) = i
      BY <1>1, <1>2 DEF n
    <2> QED BY <1>7, <2>1
  <1> QED BY <1>6, <1>7, <1>8, <1>9 DEF n, ParsedSpelled

LEMMA PrefixByElements ==
  ASSUME NEW s \in Seq(Answers), NEW t \in Seq(Answers), Len(s) <= Len(t),
         \A i \in 1 .. Len(s) : s[i] = t[i]
  PROVE  IsPrefix(s, t)
  <1>1. SubSeq(t, 1, Len(s)) = s /\ SubSeq(s, 1, Len(s)) = s
    OBVIOUS
  <1> QED BY <1>1 DEF IsPrefix

\* getFirstCommand takes one finished node.
LEMMA TailDone ==
  ASSUME NEW nodes \in Seq(Node), nodes # <<>>, Finished(Head(nodes))
  PROVE  /\ Head(nodes) = nodes[1] /\ Head(nodes) \in Node
         /\ Tail(nodes) \in Seq(Node) /\ Len(nodes) > 0 /\ Len(Tail(nodes)) = Len(nodes) - 1
         /\ \A i \in 1 .. Len(nodes) - 1 : Tail(nodes)[i] = nodes[i + 1]
         /\ DoneLen(nodes) > 0 /\ DoneLen(Tail(nodes)) = DoneLen(nodes) - 1
         /\ Tail(nodes) = <<>> => Finished(Last(nodes))
         /\ Tail(nodes) # <<>> => Last(Tail(nodes)) = Last(nodes)
  <1> DEFINE rest == Tail(nodes)
  <1>1. /\ Len(nodes) \in Nat /\ Len(nodes) > 0 /\ Head(nodes) = nodes[1] /\ Head(nodes) \in Node
        /\ rest \in Seq(Node) /\ Len(rest) = Len(nodes) - 1
        /\ \A i \in 1 .. Len(nodes) - 1 : rest[i] = nodes[i + 1]
    BY HeadTailProperties, EmptySeq
  <1> HIDE DEF rest
  <1>2. CASE Len(nodes) = 1
    <2>1. rest = <<>> /\ Finished(Last(nodes))
      BY <1>1, <1>2, EmptySeq DEF Last
    <2> QED BY <1>1, <1>2, <2>1 DEF DoneLen, rest
  <1>3. CASE Len(nodes) # 1
    <2>1. rest # <<>> /\ Last(rest) = Last(nodes)
      BY <1>1, <1>3, EmptySeq DEF Last
    <2> QED BY <1>1, <1>3, <2>1 DEF DoneLen, rest
  <1> QED BY <1>2, <1>3

LEMMA NextGrows == IInv /\ IInv' /\ [Next]_vars => IsPrefix(Parsed, Parsed')
  <1> SUFFICES ASSUME IInv, IInv', [Next]_vars PROVE IsPrefix(Parsed, Parsed')
    OBVIOUS
  <1>1. /\ list \in Seq(Node) /\ OpenLast(list) /\ executed \in Seq(Answers)
        /\ Len(executed) \in Nat /\ Len(list) \in Nat /\ DoneLen(list) \in 0 .. Len(list)
    BY DoneProperties DEF IInv
  <1>2. /\ Parsed \in Seq(Answers)
        /\ Len(Parsed) = Len(executed) + DoneLen(list)
        /\ \A i \in 1 .. Len(executed) : Parsed[i] = executed[i]
        /\ \A i \in 1 .. DoneLen(list) : Parsed[Len(executed) + i] = Command(list[i])
    BY ParsedElements DEF ParsedSpelled
  <1>3. /\ Parsed' \in Seq(Answers)
        /\ Len(Parsed') = Len(executed') + DoneLen(list')
        /\ \A i \in 1 .. Len(executed') : Parsed'[i] = executed'[i]
        /\ \A i \in 1 .. DoneLen(list') : Parsed'[Len(executed') + i] = Command(list'[i])
    <2>1. IInv' => ParsedSpelled'
      BY ParsedElements, PTL
    <2> QED BY <2>1 DEF ParsedSpelled
  <1>4. CASE Recv
    <2>1. Len(Done(list)) = DoneLen(list) /\ list \in Grown(Done(list))
          /\ \A i \in 1 .. DoneLen(list) : Done(list)[i] = list[i]
      BY <1>1, DoneProperties
    <2>2. list' \in Grown(Done(list))
      BY <1>1, <1>4, <2>1, RecvGrows
    <2>3. /\ DoneLen(list) <= DoneLen(list')
          /\ \A i \in 1 .. DoneLen(list) : list'[i] = list[i]
      BY <1>1, <2>1, <2>2, DoneGrows
    <2>4. executed' = executed /\ DoneLen(list') \in Nat
      <3>1. list' \in Seq(Node) /\ OpenLast(list')
        BY <2>2 DEF Grown
      <3> QED BY <1>4, <3>1, DoneProperties DEF Recv
    <2>5. ASSUME NEW i \in 1 .. Len(Parsed) PROVE Parsed[i] = Parsed'[i]
      <3>1. CASE i \in 1 .. Len(executed)
        BY <1>2, <1>3, <2>4, <3>1
      <3>2. CASE i \notin 1 .. Len(executed)
        <4>1. PICK j \in 1 .. DoneLen(list) : i = Len(executed) + j
          <5>1. i - Len(executed) \in 1 .. DoneLen(list) /\ i = Len(executed) + (i - Len(executed))
            BY <1>1, <1>2, <3>2
          <5> QED BY <5>1
        <4>2. Parsed[i] = Command(list[j])
          BY <1>2, <4>1
        <4>3. Parsed'[i] = Command(list'[j])
          <5>1. j \in 1 .. DoneLen(list') /\ i = Len(executed') + j
            BY <1>1, <2>3, <2>4, <4>1
          <5> QED BY <1>3, <5>1
        <4> QED BY <2>3, <4>2, <4>3
      <3> QED BY <3>1, <3>2
    <2>6. Len(Parsed) <= Len(Parsed') /\ Parsed \in Seq(Answers) /\ Parsed' \in Seq(Answers)
      BY <1>1, <1>2, <1>3, <2>3, <2>4
    <2> QED BY ONLY <2>5, <2>6, PrefixByElements
  <1>5. CASE GetFirstCommand
    <2>1. /\ list # <<>> /\ Finished(Head(list)) /\ list' = Tail(list)
          /\ executed' = Append(executed, Command(Head(list)))
      BY <1>5 DEF GetFirstCommand, AvailableCommands
    <2>2. /\ Len(list) > 0 /\ Head(list) = list[1]
          /\ \A i \in 1 .. Len(list) - 1 : list'[i] = list[i + 1]
      BY <1>1, <2>1, TailDone
    <2>3. DoneLen(list) > 0 /\ DoneLen(list') = DoneLen(list) - 1
      BY <1>1, <2>1, TailDone
    <2>4. /\ Len(executed') = Len(executed) + 1
          /\ \A i \in 1 .. Len(executed) : executed'[i] = executed[i]
          /\ executed'[Len(executed) + 1] = Command(list[1])
      BY <1>1, <2>1, <2>2
    <2>5. Len(Parsed') = Len(Parsed)
      BY <1>1, <1>2, <1>3, <2>3, <2>4
    <2>6. ASSUME NEW i \in 1 .. Len(Parsed) PROVE Parsed[i] = Parsed'[i]
      <3>1. CASE i \in 1 .. Len(executed)
        BY <1>1, <1>2, <1>3, <2>4, <3>1
      <3>2. CASE i = Len(executed) + 1
        <4>1. Parsed'[i] = Command(list[1])
          BY <1>1, <1>3, <2>4, <3>2
        <4>2. Parsed[i] = Command(list[1])
          BY <1>1, <1>2, <2>3, <3>2
        <4> QED BY <4>1, <4>2
      <3>3. CASE i \notin 1 .. Len(executed) + 1
        <4>1. PICK j \in 1 .. DoneLen(list) - 1 : i = (Len(executed) + 1) + j
          <5> DEFINE k == i - (Len(executed) + 1)
          <5>1. k \in 1 .. DoneLen(list) - 1 /\ i = (Len(executed) + 1) + k
            BY <1>1, <1>2, <3>3
          <5> QED BY <5>1
        <4>2. Parsed'[i] = Command(list'[j])
          BY <1>3, <2>3, <2>4, <4>1
        <4>3. list'[j] = list[j + 1]
          BY <1>1, <2>2, <4>1
        <4>4. Parsed[i] = Command(list[j + 1])
          <5>1. j + 1 \in 1 .. DoneLen(list) /\ i = Len(executed) + (j + 1)
            BY <1>1, <4>1
          <5> QED BY <1>2, <5>1
        <4> QED BY <4>2, <4>3, <4>4
      <3> QED BY <1>1, <3>1, <3>2, <3>3, <1>2
    <2> QED BY <1>1, <1>2, <1>3, <2>5, <2>6, PrefixByElements
  <1>6. CASE UNCHANGED vars
    <2>1. Parsed' = Parsed
      BY <1>6 DEF vars, Parsed
    <2> QED BY <1>1, <1>2, <2>1, PrefixByElements
  <1> QED BY <1>4, <1>5, <1>6 DEF Next

\* A command that is finished is neither changed, dropped nor executed twice, by any
\* cut of any stream and also by what is parsed behind the NUL.
THEOREM FinishedIsSettled == Spec => ParsedOnlyGrows
  <1>1. IInv /\ IInv' /\ [Next]_vars => [IsPrefix(Parsed, Parsed')]_vars
    BY NextGrows
  <1> QED BY <1>1, Invariance, PTL DEF Spec, ParsedOnlyGrows

-----------------------------------------------------------------------------
(* Texts, one character after the other *)

LEMMA TextAppend ==
  ASSUME NEW t \in Seq(Classes), NEW c \in Classes
  PROVE  /\ Append(t, c) \in Seq(Classes) /\ Len(Append(t, c)) = Len(t) + 1
         /\ Len(t) \in Nat /\ DOMAIN t = 1 .. Len(t) /\ DOMAIN Append(t, c) = 1 .. Len(t) + 1
         /\ \A i \in 1 .. Len(t) : Append(t, c)[i] = t[i]
         /\ Append(t, c)[Len(t) + 1] = c
         /\ \A i, j \in 0 .. Len(t) : i > 0 => SubSeq(Append(t, c), i, j) = SubSeq(t, i, j)
  OBVIOUS

LEMMA PositionsAppend ==
  ASSUME NEW t \in Seq(Classes), NEW c \in Classes, NEW classes
  PROVE  /\ IsFiniteSet(Positions(t, classes)) /\ Positions(t, classes) \subseteq 1 .. Len(t)
         /\ Positions(Append(t, c), classes) =
              IF c \in classes THEN Positions(t, classes) \cup {Len(t) + 1}
                               ELSE Positions(t, classes)
  <1>1. Positions(t, classes) \subseteq 1 .. Len(t) /\ IsFiniteSet(1 .. Len(t))
    <2>1. DOMAIN t = 1 .. Len(t) /\ 1 \in Int /\ Len(t) \in Int
      OBVIOUS
    <2>2. IsFiniteSet(1 .. Len(t))
      BY <2>1, FS_Interval
    <2> QED BY <2>1, <2>2 DEF Positions
  <1>2. IsFiniteSet(Positions(t, classes))
    BY <1>1, FS_Subset
  <1>3. Positions(Append(t, c), classes) =
          IF c \in classes THEN Positions(t, classes) \cup {Len(t) + 1}
                           ELSE Positions(t, classes)
    <2> DEFINE u == Append(t, c)
    <2>1. /\ DOMAIN u = 1 .. Len(t) + 1 /\ DOMAIN t = 1 .. Len(t) /\ Len(t) \in Nat
          /\ \A i \in 1 .. Len(t) : u[i] = t[i]
          /\ u[Len(t) + 1] = c
      BY TextAppend
    <2> HIDE DEF u
    <2>2. Positions(u, classes) =
            IF c \in classes THEN Positions(t, classes) \cup {Len(t) + 1}
                             ELSE Positions(t, classes)
      BY <2>1 DEF Positions
    <2> QED BY <2>2 DEF u
  <1> QED BY <1>1, <1>2, <1>3

\* A set of positions with one more.
LEMMA CountOneMore ==
  ASSUME NEW S, IsFiniteSet(S), NEW n \in Nat, S \subseteq 1 .. n
  PROVE  Cardinality(S) \in Nat /\ Cardinality(S \cup {n + 1}) = Cardinality(S) + 1
  <1>1. n + 1 \notin S
    OBVIOUS
  <1> QED BY <1>1, FS_CardinalityType, FS_AddElement

LEMMA SpacesAppend ==
  ASSUME NEW t \in Seq(Classes), NEW c \in Classes
  PROVE  /\ Spaces(t) \in Nat
         /\ Spaces(Append(t, c)) = IF c = "sp" THEN Spaces(t) + 1 ELSE Spaces(t)
  <1> DEFINE S == Positions(t, {"sp"})
  <1>1. /\ IsFiniteSet(S) /\ S \subseteq 1 .. Len(t) /\ Len(t) \in Nat
        /\ Positions(Append(t, c), {"sp"}) = IF c \in {"sp"} THEN S \cup {Len(t) + 1} ELSE S
    BY PositionsAppend, TextAppend
  <1> HIDE DEF S
  <1>2. Cardinality(S) \in Nat /\ Cardinality(S \cup {Len(t) + 1}) = Cardinality(S) + 1
    BY <1>1, CountOneMore
  <1> QED BY <1>1, <1>2 DEF Spaces, S

LEMMA FieldLengthAppend ==
  ASSUME NEW t \in Seq(Classes), NEW c \in Classes, NEW k
  PROVE  /\ FieldLength(t, k) \in Nat
         /\ FieldLength(Append(t, c), k) =
              IF c = "x" /\ Field(t) = k THEN FieldLength(t, k) + 1 ELSE FieldLength(t, k)
  <1> DEFINE u == Append(t, c)
             S == {i \in Positions(t, {"x"}) : Field(SubSeq(t, 1, i - 1)) = k}
             U == {i \in Positions(u, {"x"}) : Field(SubSeq(u, 1, i - 1)) = k}
             P == Positions(t, {"x"})
  <1>1. /\ IsFiniteSet(P) /\ P \subseteq 1 .. Len(t) /\ Len(t) \in Nat
        /\ Positions(u, {"x"}) = IF c \in {"x"} THEN P \cup {Len(t) + 1} ELSE P
    BY PositionsAppend, TextAppend
  <1>2. IsFiniteSet(S) /\ S \subseteq 1 .. Len(t)
    BY <1>1, FS_Subset
  <1>3. \A i \in P : SubSeq(u, 1, i - 1) = SubSeq(t, 1, i - 1)
    <2>1. \A i \in P : 1 \in 0 .. Len(t) /\ i - 1 \in 0 .. Len(t)
      BY <1>1
    <2> QED BY <2>1, TextAppend
  <1>4. SubSeq(u, 1, (Len(t) + 1) - 1) = t
    OBVIOUS
  <1>5. U = IF c = "x" /\ Field(t) = k THEN S \cup {Len(t) + 1} ELSE S
    <2> HIDE DEF u, P
    <2> QED BY <1>1, <1>3, <1>4 DEF P
  <1>6. Cardinality(S) \in Nat /\ Cardinality(S \cup {Len(t) + 1}) = Cardinality(S) + 1
    BY <1>1, <1>2, CountOneMore
  <1>7. FieldLength(t, k) = Cardinality(S) /\ FieldLength(u, k) = Cardinality(U)
    BY DEF FieldLength
  <1> HIDE DEF S, U, u
  <1> QED BY <1>5, <1>6, <1>7 DEF u

\* Characters of fields 1 to 3 only.
LEMMA FieldType ==
  ASSUME NEW t \in Seq(Classes)
  PROVE  Field(t) \in 1 .. 3 /\ MaxSize(Field(t)) \in Nat
  <1>1. Spaces(t) \in Nat
    BY SpacesAppend DEF Classes
  <1> QED BY <1>1, SizeAssumption DEF Field, MaxSize

LEMMA StandsAppend ==
  ASSUME NEW t \in Seq(Classes), NEW c \in Classes
  PROVE  Stands(Append(t, c)) <=>
           /\ Stands(t) /\ c \in {"x", "sp"}
           /\ c = "x" => FieldLength(t, Field(t)) < MaxSize(Field(t))
  <1> DEFINE u == Append(t, c)
             bad == {"cr", "lf", "ctl"}
  <1>1. Positions(u, bad) = {} <=> Positions(t, bad) = {} /\ c \notin bad
    <2>1. Positions(u, bad) = IF c \in bad THEN Positions(t, bad) \cup {Len(t) + 1}
                                           ELSE Positions(t, bad)
      <3> HIDE DEF bad
      <3> QED BY PositionsAppend
    <2> HIDE DEF u, bad
    <2> QED BY <2>1
  <1>2. c \notin bad <=> c \in {"x", "sp"}
    BY DEF Classes
  <1>3. \A k \in 1 .. 3 :
          /\ FieldLength(t, k) \in Nat
          /\ FieldLength(u, k) =
               IF c = "x" /\ Field(t) = k THEN FieldLength(t, k) + 1 ELSE FieldLength(t, k)
    BY FieldLengthAppend
  <1>4. Field(t) \in 1 .. 3 /\ \A k \in 1 .. 3 : MaxSize(k) \in Nat
    BY FieldType, SizeAssumption DEF MaxSize
  <1> HIDE DEF u
  <1>5. (\A k \in 1 .. 3 : FieldLength(u, k) <= MaxSize(k)) <=>
          /\ \A k \in 1 .. 3 : FieldLength(t, k) <= MaxSize(k)
          /\ c = "x" => FieldLength(t, Field(t)) < MaxSize(Field(t))
    <2>1. ASSUME NEW k \in 1 .. 3
          PROVE  FieldLength(u, k) <= MaxSize(k) <=>
                   /\ FieldLength(t, k) <= MaxSize(k)
                   /\ c = "x" /\ Field(t) = k => FieldLength(t, k) < MaxSize(k)
      BY <1>3, <1>4
    <2> QED BY <1>4, <2>1
  <1> QED BY <1>1, <1>2, <1>5 DEF Stands, u

\* What is wrong with a text stays wrong.
LEMMA WrongGrows ==
  ASSUME NEW t \in Seq(Classes), NEW c \in Classes, NEW cut \in BOOLEAN, Wrong(t, cut)
  PROVE  Wrong(Append(t, c), cut)
  BY SpacesAppend, StandsAppend DEF Wrong

LEMMA EmptyText ==
  /\ <<>> \in Seq(Classes) /\ Stands(<<>>) /\ Spaces(<<>>) = 0 /\ Field(<<>>) = 1
  /\ \A k : FieldLength(<<>>, k) = 0
  <1>1. \A classes : Positions(<<>>, classes) = {}
    BY DEF Positions
  <1>2. Cardinality({}) = 0
    BY FS_EmptySet
  <1>3. Spaces(<<>>) = 0 /\ \A k : FieldLength(<<>>, k) = 0
    BY <1>1, <1>2 DEF Spaces, FieldLength
  <1>4. \A k \in 1 .. 3 : 0 <= MaxSize(k)
    BY SizeAssumption DEF MaxSize
  <1> QED BY <1>1, <1>3, <1>4 DEF Stands, Field

\* Where a line ends, with its last character apart.
LEMMA EndOfAppend ==
  ASSUME NEW t \in Seq(Classes), NEW c \in Classes, NEW cut \in BOOLEAN
  PROVE  IsEnd(Append(t, c), cut) <=>
           /\ c = "lf"
           /\ \/ Len(t) > 0 /\ t[Len(t)] = "cr"
              \/ /\ Len(t) > 1 /\ t[Len(t) - 1] = "cr"
                 /\ ~ Wrong(SubSeq(t, 1, Len(t) - 2), cut)
  <1> DEFINE u == Append(t, c)
             n == Len(t)
  <1>1. n \in Nat /\ Len(u) = n + 1 /\ u[n + 1] = c /\ \A i \in 1 .. n : u[i] = t[i]
    BY TextAppend
  <1>2. n > 0 => u[(n + 1) - 1] = t[n]
    BY <1>1
  <1>3. n > 1 => u[(n + 1) - 2] = t[n - 1]
    BY <1>1
  <1>4. n > 1 => SubSeq(u, 1, (n + 1) - 3) = SubSeq(t, 1, n - 2)
    <2> SUFFICES ASSUME n > 1 PROVE SubSeq(u, 1, n - 2) = SubSeq(t, 1, n - 2)
      BY <1>1
    <2>1. 1 \in 0 .. n /\ n - 2 \in 0 .. n
      BY <1>1
    <2> QED BY <2>1, TextAppend
  <1>5. (n + 1 > 1 <=> n > 0) /\ (n + 1 > 2 <=> n > 1)
    BY <1>1
  <1> HIDE DEF u, n
  <1>6. IsEnd(u, cut) <=>
          /\ u[n + 1] = "lf"
          /\ \/ n + 1 > 1 /\ u[(n + 1) - 1] = "cr"
             \/ n + 1 > 2 /\ u[(n + 1) - 2] = "cr" /\ ~ Wrong(SubSeq(u, 1, (n + 1) - 3), cut)
    BY <1>1 DEF IsEnd
  <1>7. IsEnd(u, cut) <=>
          /\ c = "lf"
          /\ \/ n > 0 /\ t[n] = "cr"
             \/ n > 1 /\ t[n - 1] = "cr" /\ ~ Wrong(SubSeq(t, 1, n - 2), cut)
    BY <1>1, <1>2, <1>3, <1>4, <1>5, <1>6
  <1> QED BY <1>7 DEF u, n


-----------------------------------------------------------------------------
(* A node and the text of its line so far *)

\* The node of a text that may still become a command.
Fits(node, text) ==
    /\ Stands(text) /\ node.field = Field(text)
    /\ node.lens = [k \in 1 .. 3 |-> FieldLength(text, k)]
    /\ node.status = IF Spaces(text) > 2 THEN "SURPLUS" ELSE "WRITING"

\* A text without a CR at its end.
Core(text) == IF text # <<>> /\ Last(text) = "cr" THEN Front(text) ELSE text

\* What an unfinished node knows of the line so far.  One that is INVALID would end at an
\* LF if it has the CR that counts.
Partial(node, text, cut) ==
    \/ ~ cut /\ ~ node.receivedCR /\ Fits(node, text)
    \/ /\ ~ cut /\ node.receivedCR
       /\ \E t \in Seq(Classes) : text = Append(t, "cr") /\ Fits(node, t)
    \/ /\ node.status = "INVALID" /\ Wrong(Core(text), cut)
       /\ node.receivedCR <=> IsEnd(Append(text, "lf"), cut)

LEMMA NewNodeFits == Partial(NewNode, <<>>, FALSE)
  <1>1. NewNode.lens = [k \in 1 .. 3 |-> FieldLength(<<>>, k)]
    <2>1. [k \in 1 .. 3 |-> FieldLength(<<>>, k)] = [k \in 1 .. 3 |-> 0]
      BY EmptyText
    <2> QED BY <2>1 DEF NewNode
  <1> QED BY <1>1, EmptyText DEF NewNode, Partial, Fits

\* The answer to a line that is wrong.
LEMMA WrongReading ==
  ASSUME NEW line, NEW cut, Wrong(line, cut)
  PROVE  Reading(line, cut) = <<>>
  BY DEF Reading

LEMMA CoreAppend ==
  ASSUME NEW t \in Seq(Classes), NEW c \in Classes
  PROVE  Core(Append(t, c)) = IF c = "cr" THEN t ELSE Append(t, c)
  <1>1. Append(t, c) # <<>> /\ Last(Append(t, c)) = c /\ Front(Append(t, c)) = t
    <2>1. Len(Append(t, c)) = Len(t) + 1 /\ Len(t) \in Nat /\ Append(t, c)[Len(t) + 1] = c
      BY TextAppend
    <2>2. SubSeq(Append(t, c), 1, (Len(t) + 1) - 1) = t
      OBVIOUS
    <2> QED BY <2>1, <2>2 DEF Last, Front
  <1> QED BY <1>1 DEF Core

LEMMA CoreWrong ==
  ASSUME NEW t \in Seq(Classes), NEW cut \in BOOLEAN, Wrong(Core(t), cut)
  PROVE  Wrong(t, cut) /\ (Len(t) > 0 /\ t[Len(t)] = "cr" => Wrong(SubSeq(t, 1, Len(t) - 1), cut))
  <1>1. CASE t # <<>> /\ Last(t) = "cr"
    <2>1. /\ Front(t) \in Seq(Classes) /\ t = Append(Front(t), "cr")
          /\ Core(t) = Front(t) /\ Front(t) = SubSeq(t, 1, Len(t) - 1)
      <3>1. Len(t) \in Nat /\ Len(t) > 0 /\ t[Len(t)] = "cr"
        BY <1>1, EmptySeq DEF Last
      <3>2. t = Append(SubSeq(t, 1, Len(t) - 1), t[Len(t)])
            /\ SubSeq(t, 1, Len(t) - 1) \in Seq(Classes)
        BY <3>1
      <3> QED BY <1>1, <3>1, <3>2 DEF Core, Front
    <2>2. "cr" \in Classes
      BY DEF Classes
    <2>3. Wrong(Append(Front(t), "cr"), cut)
      BY <2>1, <2>2, WrongGrows
    <2> QED BY <2>1, <2>3
  <1>2. CASE ~ (t # <<>> /\ Last(t) = "cr")
    <2>1. Core(t) = t /\ ~ (Len(t) > 0 /\ t[Len(t)] = "cr")
      BY <1>2 DEF Core, Last
    <2> QED BY <2>1
  <1> QED BY <1>1, <1>2

\* What a character makes of the node: it is unfinished and knows the longer text, or the
\* line has ended and the answer to it is its reading.
Follows(new, text, cut) ==
    \/ ~ Finished(new) /\ Partial(new, text, cut) /\ ~ IsEnd(text, cut)
    \/ /\ Finished(new) /\ IsEnd(text, cut)
       /\ Command(new) = Reading(SubSeq(text, 1, Len(text) - 2), cut)

LEMMA StandsHasNoEnds ==
  ASSUME NEW t \in Seq(Classes), Stands(t), NEW i \in 1 .. Len(t)
  PROVE  t[i] \in {"x", "sp"}
  <1>1. i \in DOMAIN t /\ t[i] \in Classes
    OBVIOUS
  <1>2. t[i] \notin {"cr", "lf", "ctl"}
    BY <1>1 DEF Stands, Positions
  <1> QED BY <1>1, <1>2 DEF Classes

LEMMA OpenNodeStep ==
  ASSUME NEW node \in Node, NEW t \in Seq(Classes), NEW c \in Classes,
         NEW cut \in BOOLEAN, ~ cut, ~ node.receivedCR, Fits(node, t)
  PROVE  Follows(ProcessNode(node, c), Append(t, c), cut)
  <1> DEFINE u == Append(t, c)
             new == ProcessNode(node, c)
  <1>1. /\ node.status = IF Spaces(t) > 2 THEN "SURPLUS" ELSE "WRITING"
        /\ Stands(t) /\ node.field = Field(t)
        /\ node.lens = [k \in 1 .. 3 |-> FieldLength(t, k)]
    BY DEF Fits
  <1>2. new = Write(node, c) /\ ~ Finished(node)
    BY <1>1 DEF ProcessNode, Finished
  <1>3. /\ Len(t) \in Nat /\ u \in Seq(Classes) /\ Len(u) = Len(t) + 1 /\ u[Len(t) + 1] = c
        /\ \A i \in 1 .. Len(t) : u[i] = t[i]
    BY TextAppend
  <1>4. \A i \in 1 .. Len(t) : t[i] # "cr"
    BY <1>1, StandsHasNoEnds
  <1>5. ~ IsEnd(u, cut)
    <2>1. ~ (Len(t) > 0 /\ t[Len(t)] = "cr") /\ ~ (Len(t) > 1 /\ t[Len(t) - 1] = "cr")
      BY <1>3, <1>4
    <2> QED BY <2>1, EndOfAppend
  <1>6. /\ Spaces(t) \in Nat /\ Spaces(u) = IF c = "sp" THEN Spaces(t) + 1 ELSE Spaces(t)
        /\ \A k \in 1 .. 3 : /\ FieldLength(t, k) \in Nat
                             /\ FieldLength(u, k) = IF c = "x" /\ Field(t) = k
                                                    THEN FieldLength(t, k) + 1
                                                    ELSE FieldLength(t, k)
    BY SpacesAppend, FieldLengthAppend
  <1>7. Stands(u) <=> /\ Stands(t) /\ c \in {"x", "sp"}
                      /\ c = "x" => FieldLength(t, Field(t)) < MaxSize(Field(t))
    BY StandsAppend
  <1>8. Field(t) \in 1 .. 3 /\ MaxSize(Field(t)) \in Nat
    BY FieldType
  <1> HIDE DEF u, new
  <1>9. CASE c = "sp"
    <2>1. new = NextField(node)
      BY <1>2, <1>9 DEF Write
    <2>2. [k \in 1 .. 3 |-> FieldLength(u, k)] = [k \in 1 .. 3 |-> FieldLength(t, k)]
      BY <1>6, <1>9
    <2>3. Fits(new, u) /\ ~ new.receivedCR
      <3>1. CASE node.field = 3
        <4>1. new = [node EXCEPT !.status = "SURPLUS"]
          BY <2>1, <3>1 DEF NextField
        <4>2. /\ new.status = "SURPLUS" /\ new.field = 3 /\ new.lens = node.lens
              /\ ~ new.receivedCR
          BY <3>1, <4>1 DEF Node
        <4>3. Spaces(u) > 2
          BY <1>1, <1>6, <1>9, <3>1 DEF Field
        <4> QED BY <1>1, <1>7, <1>9, <2>2, <4>2, <4>3 DEF Fits, Field
      <3>2. CASE node.field # 3
        <4>1. new = [node EXCEPT !.field = @ + 1]
          BY <2>1, <3>2 DEF NextField
        <4>2. /\ new.status = node.status /\ new.field = node.field + 1
              /\ new.lens = node.lens /\ ~ new.receivedCR
          BY <4>1 DEF Node
        <4>3. Spaces(u) <= 2 /\ node.field = Spaces(t) + 1 /\ Spaces(u) = Spaces(t) + 1
              /\ node.status = "WRITING"
          BY <1>1, <1>6, <1>9, <3>2 DEF Field
        <4>4. Field(u) = new.field /\ ~ (Spaces(u) > 2)
          BY <1>6, <4>2, <4>3 DEF Field
        <4> QED BY <1>1, <1>7, <1>9, <2>2, <4>2, <4>3, <4>4 DEF Fits
      <3> QED BY <3>1, <3>2
    <2>4. ~ Finished(new)
      BY <2>3 DEF Fits, Finished
    <2> QED BY <1>5, <2>3, <2>4 DEF Follows, Partial, u, new
  <1>10. CASE c = "cr"
    <2>1. new = [node EXCEPT !.receivedCR = TRUE]
      BY <1>2, <1>10 DEF Write
    <2>2. /\ new.status = node.status /\ new.field = node.field /\ new.lens = node.lens
          /\ new.receivedCR
      BY <2>1 DEF Node
    <2>3. Fits(new, t)
      BY <1>1, <2>2 DEF Fits
    <2>4. ~ Finished(new)
      BY <2>3 DEF Fits, Finished
    <2>5. Partial(new, u, cut)
      BY <1>10, <2>2, <2>3 DEF Partial, u
    <2> QED BY <1>5, <2>4, <2>5 DEF Follows, u, new
  <1>11. CASE c = "x" /\ FieldLength(t, Field(t)) < MaxSize(Field(t))
    <2> DEFINE l == [node.lens EXCEPT ![node.field] = @ + 1]
    <2>1. node.lens[node.field] = FieldLength(t, Field(t))
      BY <1>1, <1>8
    <2>2. new = [node EXCEPT !.lens = l]
      <3>1. new = Store(node, c)
        BY <1>2, <1>11 DEF Write
      <3>2. ~ (node.lens[node.field] >= MaxSize(node.field))
        BY <1>1, <1>6, <1>8, <1>11, <2>1
      <3> QED BY <1>11, <3>1, <3>2 DEF Store, Node
    <2>3. l = [k \in 1 .. 3 |-> FieldLength(u, k)]
      BY <1>1, <1>6, <1>8, <1>11
    <2> HIDE DEF l
    <2>4. /\ new.status = node.status /\ new.field = node.field /\ new.lens = l
          /\ ~ new.receivedCR
      BY <2>2 DEF Node
    <2>5. Spaces(u) = Spaces(t) /\ Field(u) = Field(t)
      BY <1>6, <1>11 DEF Field
    <2>6. Fits(new, u)
      BY <1>1, <1>7, <1>11, <2>3, <2>4, <2>5 DEF Fits
    <2>7. ~ Finished(new)
      BY <2>6 DEF Fits, Finished
    <2> QED BY <1>5, <2>4, <2>6, <2>7 DEF Follows, Partial, u, new
  <1>12. CASE c \notin {"sp", "cr"} /\ ~ (c = "x" /\ FieldLength(t, Field(t)) < MaxSize(Field(t)))
    <2>1. node.lens[node.field] = FieldLength(t, Field(t))
      BY <1>1, <1>8
    <2>2. new = Invalidate(node, c)
      <3>1. new = Store(node, c)
        BY <1>2, <1>12 DEF Write
      <3>2. c # "x" \/ node.lens[node.field] >= MaxSize(node.field)
        BY <1>1, <1>6, <1>8, <1>12, <2>1
      <3> QED BY <3>1, <3>2 DEF Store
    <2>3. new.status = "INVALID" /\ ~ new.receivedCR
      BY <1>12, <2>2 DEF Invalidate, Discard, Node
    <2>4. Wrong(Core(u), cut)
      <3>1. ~ Stands(u)
        BY <1>7, <1>12
      <3> QED BY <1>12, <3>1, CoreAppend DEF Wrong, u
    <2>5. ~ IsEnd(Append(u, "lf"), cut)
      <3>1. /\ "lf" \in Classes /\ Len(u) - 1 = Len(t)
            /\ u[Len(u)] # "cr" /\ (Len(u) > 1 => u[Len(u) - 1] # "cr")
        BY <1>3, <1>4, <1>12 DEF Classes
      <3> QED BY <1>3, <3>1, EndOfAppend
    <2>6. ~ Finished(new) /\ Partial(new, u, cut)
      BY <2>3, <2>4, <2>5 DEF Finished, Partial
    <2> QED BY <1>5, <2>6 DEF Follows, u, new
  <1> QED BY <1>9, <1>10, <1>11, <1>12

LEMMA CRNodeStep ==
  ASSUME NEW node \in Node, NEW p \in Seq(Classes), NEW c \in Classes,
         NEW cut \in BOOLEAN, ~ cut, node.receivedCR, Fits(node, p)
  PROVE  Follows(ProcessNode(node, c), Append(Append(p, "cr"), c), cut)
  <1> DEFINE t == Append(p, "cr")
             u == Append(t, c)
             new == ProcessNode(node, c)
  <1>1. /\ node.status \in {"WRITING", "SURPLUS"} /\ Stands(p)
        /\ node.lens = [k \in 1 .. 3 |-> FieldLength(p, k)]
    BY DEF Fits
  <1>2. new = AfterCR(node, c)
    BY <1>1 DEF ProcessNode, Write
  <1>3. "cr" \in Classes /\ "lf" \in Classes
    BY DEF Classes
  <1>4. /\ Len(p) \in Nat /\ t \in Seq(Classes) /\ Len(t) = Len(p) + 1 /\ t[Len(t)] = "cr"
        /\ u \in Seq(Classes) /\ Len(u) = Len(p) + 2
        /\ u[Len(u)] = c /\ u[Len(u) - 1] = "cr" /\ Len(u) > 1 /\ Len(t) > 0
        /\ SubSeq(t, 1, Len(t) - 1) = p
    <2>1. /\ Len(p) \in Nat /\ t \in Seq(Classes) /\ Len(t) = Len(p) + 1
          /\ t[Len(p) + 1] = "cr" /\ SubSeq(t, 1, Len(p)) = p
      BY <1>3, TextAppend
    <2> HIDE DEF t
    <2>2. /\ u \in Seq(Classes) /\ Len(u) = Len(t) + 1 /\ u[Len(t) + 1] = c
          /\ u[Len(t)] = t[Len(t)]
      BY <2>1
    <2> HIDE DEF u
    <2> QED BY <2>1, <2>2
  <1>5. SubSeq(u, 1, Len(u) - 2) = p
    <2>1. 1 \in 0 .. Len(t) /\ Len(u) - 2 \in 0 .. Len(t) /\ Len(u) - 2 = Len(t) - 1 /\ 1 > 0
      BY <1>4
    <2>2. SubSeq(u, 1, Len(u) - 2) = SubSeq(t, 1, Len(u) - 2)
      BY <1>4, <2>1, TextAppend
    <2> QED BY <1>4, <2>1, <2>2
  <1>6. ~ Stands(t)
    BY <1>3, StandsAppend
  <1> HIDE DEF new
  <1>7. CASE c # "lf"
    <2>1. new.status = "INVALID" /\ new.receivedCR
      BY <1>2, <1>7 DEF AfterCR, Node
    <2>2. Wrong(Core(u), cut)
      <3>1. Wrong(t, cut) /\ Wrong(u, cut)
        BY <1>4, <1>6, WrongGrows DEF Wrong
      <3> QED BY <1>4, <3>1, CoreAppend
    <2>3. IsEnd(Append(u, "lf"), cut)
      <3>1. ~ Wrong(p, cut)
        BY <1>1 DEF Wrong
      <3> HIDE DEF u
      <3> QED BY <1>3, <1>4, <1>5, <3>1, EndOfAppend, ZenonT(30)
    <2>4. ~ IsEnd(u, cut)
      BY <1>4, <1>7, EndOfAppend
    <2>5. ~ Finished(new) /\ Partial(new, u, cut)
      BY <2>1, <2>2, <2>3 DEF Finished, Partial
    <2> QED BY <2>4, <2>5 DEF Follows, new
  <1>8. CASE c = "lf"
    <2>1. IsEnd(u, cut)
      BY <1>4, <1>8, EndOfAppend
    <2>2. Reading(p, cut) =
            IF Known(FieldLength(p, 1)) THEN [k \in 1 .. 3 |-> FieldLength(p, k)] ELSE <<>>
      BY <1>1 DEF Reading, Wrong
    <2>3. node.lens[1] = FieldLength(p, 1)
      BY <1>1
    <2>4. CASE Known(FieldLength(p, 1))
      <3>1. new.status = "COMPLETE" /\ new.lens = node.lens
        BY <1>2, <1>8, <2>3, <2>4 DEF AfterCR, Node
      <3>2. Finished(new) /\ Command(new) = Reading(p, cut)
        BY <1>1, <2>2, <2>4, <3>1 DEF Finished, Command
      <3> QED BY <1>5, <2>1, <3>2 DEF Follows, new
    <2>5. CASE ~ Known(FieldLength(p, 1))
      <3>1. new.status = "COMPLETEINVALID"
        BY <1>2, <1>8, <2>3, <2>5 DEF AfterCR, Node
      <3>2. Finished(new) /\ Command(new) = Reading(p, cut)
        BY <2>2, <2>5, <3>1 DEF Finished, Command
      <3> QED BY <1>5, <2>1, <3>2 DEF Follows, new
    <2> QED BY <2>4, <2>5
  <1> QED BY <1>7, <1>8

LEMMA InvalidNodeStep ==
  ASSUME NEW node \in Node, NEW t \in Seq(Classes), NEW c \in Classes,
         NEW cut \in BOOLEAN, node.status = "INVALID", Wrong(Core(t), cut),
         node.receivedCR <=> IsEnd(Append(t, "lf"), cut)
  PROVE  Follows(ProcessNode(node, c), Append(t, c), cut)
  <1> DEFINE u == Append(t, c)
             new == ProcessNode(node, c)
             n == Len(t)
  <1>1. new = Discard(node, c)
    BY DEF ProcessNode
  <1>2. "cr" \in Classes /\ "lf" \in Classes
    BY DEF Classes
  <1>3. /\ n \in Nat /\ u \in Seq(Classes) /\ Len(u) = n + 1 /\ u[n + 1] = c
        /\ \A i \in 1 .. n : u[i] = t[i]
        /\ SubSeq(u, 1, n) = t
        /\ n > 0 => SubSeq(u, 1, n - 1) = SubSeq(t, 1, n - 1)
    <2>1. /\ n \in Nat /\ u \in Seq(Classes) /\ Len(u) = n + 1 /\ u[n + 1] = c
          /\ \A i \in 1 .. n : u[i] = t[i]
          /\ SubSeq(u, 1, n) = t
      BY TextAppend
    <2>2. n > 0 => 1 \in 0 .. n /\ n - 1 \in 0 .. n
      BY <2>1
    <2>3. n > 0 => SubSeq(u, 1, n - 1) = SubSeq(t, 1, n - 1)
      BY <2>2, TextAppend
    <2> QED BY <2>1, <2>3
  <1>4. Wrong(t, cut) /\ (n > 0 /\ t[n] = "cr" => Wrong(SubSeq(t, 1, n - 1), cut))
    BY CoreWrong
  <1> HIDE DEF u, new, n
  <1>5. CASE c = "lf" /\ node.receivedCR
    <2>1. IsEnd(u, cut)
      BY <1>5 DEF u
    <2>2. Finished(new) /\ Command(new) = <<>>
      BY <1>1, <1>5 DEF Discard, Finished, Command, Node
    <2>3. n > 0 /\ Wrong(SubSeq(t, 1, n - 1), cut)
      <3>1. \/ n > 0 /\ t[n] = "cr"
            \/ n > 1 /\ t[n - 1] = "cr"
        BY <1>2, <1>5, EndOfAppend DEF n
      <3>2. CASE n > 0 /\ t[n] = "cr"
        BY <1>4, <3>2
      <3>3. CASE n > 1 /\ t[n - 1] = "cr"
        <4>1. /\ SubSeq(t, 1, n - 1) = Append(SubSeq(t, 1, n - 2), "cr")
              /\ SubSeq(t, 1, n - 2) \in Seq(Classes)
          BY <1>3, <3>3 DEF n
        <4>2. ~ Stands(Append(SubSeq(t, 1, n - 2), "cr"))
          <5> DEFINE q == SubSeq(t, 1, n - 2)
          <5>1. q \in Seq(Classes)
            BY <4>1
          <5> HIDE DEF q
          <5>2. ~ Stands(Append(q, "cr"))
            BY <1>2, <5>1, StandsAppend
          <5> QED BY <5>2 DEF q
        <4>3. ~ Stands(SubSeq(t, 1, n - 1))
          BY ONLY <4>1, <4>2, Zenon
        <4>4. n > 0
          BY <1>3, <3>3
        <4> QED BY <4>3, <4>4 DEF Wrong
      <3> QED BY <3>1, <3>2, <3>3
    <2>4. Reading(SubSeq(u, 1, Len(u) - 2), cut) = <<>>
      <3>1. Len(u) - 2 = n - 1
        BY <1>3
      <3> QED BY <1>3, <2>3, <3>1, WrongReading
    <2> QED BY <2>1, <2>2, <2>4 DEF Follows, u, new
  <1>6. CASE ~ (c = "lf" /\ node.receivedCR)
    <2>1. new.status = "INVALID" /\ (new.receivedCR <=> c = "cr")
      BY <1>1, <1>6 DEF Discard, Node
    <2>2. ~ IsEnd(u, cut)
      <3>1. c # "lf" => ~ IsEnd(u, cut)
        BY EndOfAppend DEF u
      <3> QED BY <1>6, <3>1 DEF u
    <2>3. Wrong(Core(u), cut)
      BY <1>4, WrongGrows, CoreAppend DEF u
    <2>4. IsEnd(Append(u, "lf"), cut) <=> c = "cr"
      <3>1. IsEnd(Append(u, "lf"), cut) <=>
              \/ Len(u) > 0 /\ u[Len(u)] = "cr"
              \/ /\ Len(u) > 1 /\ u[Len(u) - 1] = "cr"
                 /\ ~ Wrong(SubSeq(u, 1, Len(u) - 2), cut)
        BY <1>2, <1>3, EndOfAppend
      <3>2. Len(u) > 0 /\ u[Len(u)] = c /\ Len(u) - 1 = n /\ Len(u) - 2 = n - 1
            /\ (Len(u) > 1 <=> n > 0)
        BY <1>3
      <3>3. n > 0 => u[n] = t[n]
        BY <1>3
      <3> QED BY <1>3, <1>4, <3>1, <3>2, <3>3
    <2>5. ~ Finished(new) /\ Partial(new, u, cut)
      BY <2>1, <2>3, <2>4 DEF Finished, Partial
    <2> QED BY <2>2, <2>5 DEF Follows, u, new
  <1> QED BY <1>5, <1>6

LEMMA NodeStep ==
  ASSUME NEW node \in Node, NEW t \in Seq(Classes), NEW c \in Classes,
         NEW cut \in BOOLEAN, Partial(node, t, cut)
  PROVE  Follows(ProcessNode(node, c), Append(t, c), cut)
  <1>1. CASE ~ cut /\ ~ node.receivedCR /\ Fits(node, t)
    BY <1>1, OpenNodeStep
  <1>2. CASE ~ cut /\ node.receivedCR /\ \E p \in Seq(Classes) : t = Append(p, "cr") /\ Fits(node, p)
    BY <1>2, CRNodeStep
  <1>3. CASE /\ node.status = "INVALID" /\ Wrong(Core(t), cut)
             /\ node.receivedCR <=> IsEnd(Append(t, "lf"), cut)
    BY <1>3, InvalidNodeStep
  <1> QED BY <1>1, <1>2, <1>3 DEF Partial

\* The NUL behind a third space: the line is cut there.
LEMMA NulStep ==
  ASSUME NEW node \in Node, NEW t \in Seq(Classes), NEW cut \in BOOLEAN,
         Partial(node, t, cut), node.status = "SURPLUS"
  PROVE  ~ cut /\ Partial([node EXCEPT !.status = "INVALID"], t, TRUE)
  <1> DEFINE new == [node EXCEPT !.status = "INVALID"]
  <1>1. new.status = "INVALID" /\ new.receivedCR = node.receivedCR
    BY DEF Node
  <1>2. "cr" \in Classes /\ "lf" \in Classes
    BY DEF Classes
  <1> HIDE DEF new
  <1>3. CASE ~ cut /\ ~ node.receivedCR /\ Fits(node, t)
    <2>1. Stands(t) /\ Spaces(t) > 2
      BY <1>3 DEF Fits
    <2>2. \A i \in 1 .. Len(t) : t[i] # "cr"
      BY <2>1, StandsHasNoEnds
    <2>3. Len(t) \in Nat /\ ~ (Len(t) > 0 /\ t[Len(t)] = "cr")
          /\ ~ (Len(t) > 1 /\ t[Len(t) - 1] = "cr")
      BY <2>2
    <2>4. Wrong(Core(t), TRUE)
      BY <2>1, <2>3, EmptySeq DEF Core, Last, Wrong
    <2>5. ~ IsEnd(Append(t, "lf"), TRUE)
      BY <1>2, <2>3, EndOfAppend
    <2> QED BY <1>1, <1>3, <2>4, <2>5 DEF Partial, new
  <1>4. CASE ~ cut /\ node.receivedCR /\ \E p \in Seq(Classes) : t = Append(p, "cr") /\ Fits(node, p)
    <2>1. PICK p \in Seq(Classes) : t = Append(p, "cr") /\ Fits(node, p)
      BY <1>4
    <2>2. Core(t) = p /\ Spaces(p) > 2
      BY <1>2, <2>1, CoreAppend DEF Fits
    <2>3. IsEnd(Append(t, "lf"), TRUE)
      <3>1. Len(t) > 0 /\ t[Len(t)] = "cr"
        BY <1>2, <2>1
      <3> QED BY <1>2, <3>1, EndOfAppend
    <2> QED BY <1>1, <1>4, <2>2, <2>3 DEF Partial, Wrong, new
  <1> QED BY <1>3, <1>4 DEF Partial

-----------------------------------------------------------------------------
(* The nodes and the lines of the stream *)

Piece(i, j) == SubSeq(input, i, j)

\* No line ends from i up to j.
Silent(i, j, cut) == \A m \in i .. j : ~ IsEnd(Piece(i, m), cut)

\* The line from i ends at j, and what the client is told of it is its reading.
Line(i, j, answer) ==
    \E cut \in BOOLEAN :
      /\ IsEnd(Piece(i, j), cut) /\ Silent(i, j - 1, cut)
      /\ answer = Reading(Piece(i, j - 2), cut)

\* The commands finished, with those of the list nodes, and the answer to each.
Total(nodes) == Len(executed) + DoneLen(nodes)
Answer(nodes, k) == IF k <= Len(executed) THEN executed[k] ELSE Command(nodes[k - Len(executed)])

\* What follows the last line, which ends at i, is what the unfinished node knows.
Rest(nodes, i, r) ==
    IF nodes = <<>> \/ Finished(Last(nodes)) THEN i = r
    ELSE \E cut \in BOOLEAN : Partial(Last(nodes), Piece(i + 1, r), cut) /\ Silent(i + 1, r, cut)

\* The answers are those to the lines of the first r characters; b has their ends.
Divides(b, nodes, r) ==
    /\ b \in [0 .. Total(nodes) -> 0 .. r] /\ b[0] = 0
    /\ \A k \in 1 .. Total(nodes) :
         b[k - 1] < b[k] /\ Line(b[k - 1] + 1, b[k], Answer(nodes, k))
    /\ Rest(nodes, b[Total(nodes)], r)

Understood(nodes, r) == \E b : Divides(b, nodes, r)

\* addData for one character: the last node takes it.
LEMMA AddCharDone ==
  ASSUME NEW nodes \in Seq(Node), OpenLast(nodes), NEW c
  PROVE  LET open   == IF nodes = <<>> \/ Finished(Last(nodes)) THEN NewNode ELSE Last(nodes)
             new    == ProcessNode(open, c)
             result == AddChar(nodes, c)
         IN  /\ open \in Node /\ new \in Node
             /\ result \in Seq(Node) /\ OpenLast(result)
             /\ result # <<>> /\ Last(result) = new
             /\ DoneLen(nodes) \in Nat
             /\ DoneLen(result) = IF Finished(new) THEN DoneLen(nodes) + 1 ELSE DoneLen(nodes)
             /\ Finished(new) => result[DoneLen(nodes) + 1] = new
             /\ \A i \in 1 .. DoneLen(nodes) : result[i] = nodes[i]
  <1> DEFINE open == IF nodes = <<>> \/ Finished(Last(nodes)) THEN NewNode ELSE Last(nodes)
             new == ProcessNode(open, c)
             result == AddChar(nodes, c)
             longer == IF nodes = <<>> \/ Finished(Last(nodes))
                       THEN Append(nodes, NewNode) ELSE nodes
             d == DoneLen(nodes)
  <1>1. Len(nodes) \in Nat /\ (nodes # <<>> => Len(nodes) > 0)
    BY EmptySeq
  <1>2. d \in Nat /\ d = IF nodes = <<>> \/ Finished(Last(nodes)) THEN Len(nodes) ELSE Len(nodes) - 1
    BY <1>1, EmptySeq DEF DoneLen
  <1>3. /\ longer \in Seq(Node) /\ Len(longer) = d + 1 /\ longer[d + 1] = open
        /\ \A i \in 1 .. d : longer[i] = nodes[i]
    <2>1. CASE nodes = <<>> \/ Finished(Last(nodes))
      BY <1>1, <1>2, <2>1, NewNodeType
    <2>2. CASE ~ (nodes = <<>> \/ Finished(Last(nodes)))
      BY <1>1, <1>2, <2>2 DEF Last
    <2> QED BY <2>1, <2>2
  <1>4. open \in Node /\ new \in Node
    BY <1>2, <1>3, ElementOfSeq, ProcessNodeType
  <1>5. result = [longer EXCEPT ![d + 1] = new]
    BY <1>3 DEF AddChar
  <1>6. result \in Grown(Done(nodes))
    <2>1. nodes \in Grown(Done(nodes)) /\ Len(Done(nodes)) \in Nat
      BY DoneProperties
    <2> QED BY <2>1, AddCharGrows
  <1> HIDE DEF open, new, result, longer, d
  <1>7. /\ Len(result) = d + 1 /\ result[d + 1] = new
        /\ \A i \in 1 .. d + 1 : i # d + 1 => result[i] = longer[i]
    BY <1>2, <1>3, <1>4, <1>5, ExceptSeq
  <1>8. result \in Seq(Node) /\ OpenLast(result)
    BY <1>6 DEF Grown
  <1>9. result # <<>> /\ Last(result) = new
    BY <1>2, <1>7, <1>8, EmptySeq DEF Last
  <1>10. DoneLen(result) = IF Finished(new) THEN d + 1 ELSE d
    BY <1>2, <1>7, <1>9 DEF DoneLen
  <1>11. \A i \in 1 .. d : result[i] = nodes[i]
    BY <1>2, <1>3, <1>7
  <1> QED BY <1>2, <1>4, <1>7, <1>8, <1>9, <1>10, <1>11 DEF open, new, result, d


\* Pieces of the stream, one character more, and the beginning of one.
LEMMA PieceAppend ==
  ASSUME input \in Seq(Classes), NEW i \in Nat, NEW r \in Nat, i <= r, r < Len(input)
  PROVE  /\ Piece(i + 1, r) \in Seq(Classes) /\ Len(Piece(i + 1, r)) = r - i
         /\ input[r + 1] \in Classes
         /\ Piece(i + 1, r + 1) = Append(Piece(i + 1, r), input[r + 1])
  <1>1. Len(input) \in Nat /\ \A k \in 1 .. Len(input) : input[k] \in Classes
    BY ElementOfSeq
  <1>2. \A k \in (i + 1) .. r + 1 : input[k] \in Classes
    BY <1>1
  <1>3. /\ Piece(i + 1, r) \in Seq(Classes) /\ Len(Piece(i + 1, r)) = r - i
        /\ \A k \in 1 .. r - i : Piece(i + 1, r)[k] = input[i + k]
    <2>1. /\ Len(Piece(i + 1, r)) = r - i
          /\ \A k \in 1 .. r - i : Piece(i + 1, r)[k] = input[(i + 1) + k - 1]
      BY <1>1 DEF Piece
    <2>2. Piece(i + 1, r) \in Seq(Classes)
      BY <1>2, SubSeqProperties DEF Piece
    <2> QED BY <2>1, <2>2
  <1>4. /\ Piece(i + 1, r + 1) \in Seq(Classes) /\ Len(Piece(i + 1, r + 1)) = (r - i) + 1
        /\ \A k \in 1 .. (r - i) + 1 : Piece(i + 1, r + 1)[k] = input[i + k]
    <2>1. /\ Len(Piece(i + 1, r + 1)) = (r - i) + 1
          /\ \A k \in 1 .. (r - i) + 1 : Piece(i + 1, r + 1)[k] = input[(i + 1) + k - 1]
      BY <1>1 DEF Piece
    <2>2. Piece(i + 1, r + 1) \in Seq(Classes)
      BY <1>2, SubSeqProperties DEF Piece
    <2> QED BY <2>1, <2>2
  <1>5. input[r + 1] \in Classes
    BY <1>2
  <1>6. Piece(i + 1, r + 1) = Append(Piece(i + 1, r), input[r + 1])
    <2> DEFINE u == Append(Piece(i + 1, r), input[r + 1])
    <2>1. /\ u \in Seq(Classes) /\ Len(u) = (r - i) + 1 /\ u[(r - i) + 1] = input[r + 1]
          /\ \A k \in 1 .. r - i : u[k] = input[i + k]
      BY <1>3, <1>5, TextAppend
    <2> HIDE DEF u
    <2>2. \A k \in 1 .. (r - i) + 1 : u[k] = Piece(i + 1, r + 1)[k]
      BY <1>4, <2>1
    <2>3. u = Piece(i + 1, r + 1)
      BY <1>4, <2>1, <2>2, SeqEqual
    <2> QED BY <2>3 DEF u
  <1> QED BY <1>3, <1>5, <1>6

LEMMA PieceStart ==
  ASSUME input \in Seq(Classes), NEW i \in Nat, NEW r \in Nat, i < r, r <= Len(input),
         NEW n \in Nat, n <= r - i
  PROVE  SubSeq(Piece(i + 1, r), 1, n) = Piece(i + 1, i + n)
  <1>1. Len(input) \in Nat
    OBVIOUS
  <1>2. Len(Piece(i + 1, r)) = r - i
        /\ \A k \in 1 .. r - i : Piece(i + 1, r)[k] = input[i + k]
    <2>1. /\ Len(Piece(i + 1, r)) = r - i
          /\ \A k \in 1 .. r - i : Piece(i + 1, r)[k] = input[(i + 1) + k - 1]
      BY <1>1, SMTT(30) DEF Piece
    <2> QED BY <2>1
  <1>3. SubSeq(Piece(i + 1, r), 1, n) = [k \in 1 .. n |-> Piece(i + 1, r)[k]]
    OBVIOUS
  <1>4. Piece(i + 1, i + n) = [k \in 1 .. n |-> input[i + k]]
    <2>1. Piece(i + 1, i + n) = [k \in 1 .. n |-> input[(i + 1) + k - 1]]
      BY <1>1 DEF Piece
    <2>2. \A k \in 1 .. n : (i + 1) + k - 1 = i + k
      OBVIOUS
    <2> QED BY <2>1, <2>2
  <1>5. \A k \in 1 .. n : Piece(i + 1, r)[k] = input[i + k]
    BY <1>2
  <1> QED BY <1>3, <1>4, <1>5

\* The open node of a list knows what follows the last line; a new one knows nothing.
LEMMA OpenKnows ==
  ASSUME input \in Seq(Classes), NEW nodes, NEW i \in Nat, NEW r \in Nat, i <= r,
         r <= Len(input), Rest(nodes, i, r)
  PROVE  LET open == IF nodes = <<>> \/ Finished(Last(nodes)) THEN NewNode ELSE Last(nodes)
         IN  \E cut \in BOOLEAN : Partial(open, Piece(i + 1, r), cut) /\ Silent(i + 1, r, cut)
  <1>1. CASE nodes = <<>> \/ Finished(Last(nodes))
    <2>1. i = r
      BY <1>1 DEF Rest
    <2>2. Piece(i + 1, r) = <<>>
      BY <2>1 DEF Piece
    <2>3. Silent(i + 1, r, FALSE)
      BY <2>1 DEF Silent
    <2> QED BY <1>1, <2>2, <2>3, NewNodeFits
  <1>2. CASE ~ (nodes = <<>> \/ Finished(Last(nodes)))
    BY <1>2 DEF Rest
  <1> QED BY <1>1, <1>2

\* One character more: the line goes on, or it ends and has its answer.
LEMMA UnderstoodStep ==
  ASSUME input \in Seq(Classes), executed \in Seq(Answers), NEW nodes \in Seq(Node),
         OpenLast(nodes), NEW r \in Nat, r < Len(input), Understood(nodes, r)
  PROVE  Understood(AddChar(nodes, input[r + 1]), r + 1)
  <1> DEFINE c == input[r + 1]
             open == IF nodes = <<>> \/ Finished(Last(nodes)) THEN NewNode ELSE Last(nodes)
             new == ProcessNode(open, c)
             result == AddChar(nodes, c)
             N == Total(nodes)
             d == DoneLen(nodes)
  <1>1. /\ open \in Node /\ new \in Node /\ result # <<>> /\ Last(result) = new /\ d \in Nat
        /\ DoneLen(result) = IF Finished(new) THEN d + 1 ELSE d
        /\ Finished(new) => result[d + 1] = new
        /\ \A i \in 1 .. d : result[i] = nodes[i]
    BY AddCharDone
  <1>2. PICK b : Divides(b, nodes, r)
    BY DEF Understood
  <1>3. Len(executed) \in Nat /\ N = Len(executed) + d /\ N \in Nat
    BY <1>1 DEF Total
  <1>4. /\ b \in [0 .. N -> 0 .. r] /\ b[0] = 0 /\ Rest(nodes, b[N], r)
        /\ \A k \in 1 .. N : b[k - 1] < b[k] /\ Line(b[k - 1] + 1, b[k], Answer(nodes, k))
    BY <1>2 DEF Divides
  <1>5. b[N] \in Nat /\ b[N] <= r
    BY <1>3, <1>4
  <1> DEFINE i == b[N]
             t == Piece(i + 1, r)
             u == Piece(i + 1, r + 1)
  <1>6. /\ t \in Seq(Classes) /\ Len(t) = r - i /\ c \in Classes /\ u = Append(t, c)
    BY <1>5, PieceAppend
  <1>7. PICK cut \in BOOLEAN : Partial(open, t, cut) /\ Silent(i + 1, r, cut)
    <2>1. r <= Len(input)
      OBVIOUS
    <2> HIDE DEF N
    <2> QED BY <1>4, <1>5, <2>1, OpenKnows
  <1> HIDE DEF open, new, result, N, d, t, u, c
  <1>8. Follows(new, u, cut)
    BY <1>1, <1>6, <1>7, NodeStep DEF new
  <1>9. \A k \in 1 .. N : Answer(result, k) = Answer(nodes, k)
    <2> SUFFICES ASSUME NEW k \in 1 .. N, ~ (k <= Len(executed))
                 PROVE  result[k - Len(executed)] = nodes[k - Len(executed)]
      BY DEF Answer
    <2>1. k - Len(executed) \in 1 .. d
      BY <1>1, <1>3
    <2> QED BY <1>1, <2>1
  <1>10. CASE ~ Finished(new)
    <2>1. Total(result) = N
      BY <1>1, <1>3, <1>10 DEF Total
    <2>2. b \in [0 .. N -> 0 .. r + 1]
      BY <1>4
    <2>3. Partial(new, u, cut) /\ ~ IsEnd(u, cut)
      BY <1>8, <1>10 DEF Follows
    <2>4. Silent(i + 1, r + 1, cut)
      <3>1. \A m \in (i + 1) .. r + 1 : m \in (i + 1) .. r \/ m = r + 1
        BY <1>5
      <3> QED BY <1>7, <2>3, <3>1 DEF Silent, u
    <2>5. Rest(result, i, r + 1)
      BY <1>1, <1>10, <2>3, <2>4 DEF Rest, u
    <2>6. Divides(b, result, r + 1)
      BY <1>4, <1>9, <2>1, <2>2, <2>5 DEF Divides
    <2> QED BY <2>6 DEF Understood, result, c
  <1>11. CASE Finished(new)
    <2> DEFINE e == [k \in 0 .. N + 1 |-> IF k = N + 1 THEN r + 1 ELSE b[k]]
    <2>1. Total(result) = N + 1
      BY <1>1, <1>3, <1>11 DEF Total
    <2>2. e \in [0 .. N + 1 -> 0 .. r + 1] /\ e[0] = 0 /\ e[N + 1] = r + 1
          /\ \A k \in 0 .. N : e[k] = b[k]
      BY <1>3, <1>4
    <2> HIDE DEF e
    <2>3. IsEnd(u, cut) /\ Command(new) = Reading(SubSeq(u, 1, Len(u) - 2), cut)
      BY <1>8, <1>11 DEF Follows
    <2>4. Len(u) = (r + 1) - i /\ Len(u) >= 2
      <3>1. Len(u) = (r + 1) - i
        BY <1>5, <1>6, TextAppend
      <3>2. Len(t) > 0
        BY <1>6, <2>3, EndOfAppend
      <3> QED BY <1>5, <1>6, <3>1, <3>2
    <2>5. SubSeq(u, 1, Len(u) - 2) = Piece(i + 1, (r + 1) - 2)
      <3>1. /\ Len(u) - 2 \in Nat /\ Len(u) - 2 <= (r + 1) - i
            /\ i + (Len(u) - 2) = (r + 1) - 2 /\ i < r + 1
            /\ r + 1 <= Len(input) /\ r + 1 \in Nat
        BY <1>5, <2>4, SMTT(30)
      <3>2. SubSeq(u, 1, Len(u) - 2) = Piece(i + 1, i + (Len(u) - 2))
        BY <1>5, <3>1, PieceStart DEF u
      <3> QED BY <3>1, <3>2
    <2>6. Answer(result, N + 1) = Command(new)
      <3>1. ~ (N + 1 <= Len(executed)) /\ (N + 1) - Len(executed) = d + 1
        BY <1>1, <1>3
      <3> QED BY <1>1, <1>11, <3>1 DEF Answer
    <2>7. Line(i + 1, r + 1, Answer(result, N + 1))
      <3>1. (r + 1) - 1 = r
        OBVIOUS
      <3> QED BY <1>7, <2>3, <2>5, <2>6, <3>1 DEF Line, u
    <2>8. \A k \in 1 .. N + 1 : e[k - 1] < e[k] /\ Line(e[k - 1] + 1, e[k], Answer(result, k))
      <3> SUFFICES ASSUME NEW k \in 1 .. N + 1
                   PROVE  e[k - 1] < e[k] /\ Line(e[k - 1] + 1, e[k], Answer(result, k))
        OBVIOUS
      <3>1. CASE k \in 1 .. N
        <4>1. k - 1 \in 0 .. N /\ k \in 0 .. N
          BY <1>3, <3>1
        <4> QED BY <1>4, <1>9, <2>2, <3>1, <4>1
      <3>2. CASE k = N + 1
        <4>1. k - 1 = N /\ N \in 0 .. N
          BY <1>3, <3>2
        <4> QED BY <1>5, <2>2, <2>7, <3>2, <4>1
      <3> QED BY <1>3, <3>1, <3>2
    <2>9. Rest(result, e[N + 1], r + 1)
      BY <1>1, <1>11, <2>2 DEF Rest
    <2>10. Divides(e, result, r + 1)
      BY <2>1, <2>2, <2>8, <2>9 DEF Divides
    <2> QED BY <2>10 DEF Understood, result, c
  <1> QED BY <1>10, <1>11

\* The NUL: the unfinished line is cut where it may have a third space.
LEMMA NulUnderstood ==
  ASSUME input \in Seq(Classes), executed \in Seq(Answers), NEW nodes \in Seq(Node),
         OpenLast(nodes), nodes # <<>>, NEW r \in Nat, r <= Len(input), Understood(nodes, r)
  PROVE  Understood(AtNul(nodes), r)
  <1>1. CASE Last(nodes).status # "SURPLUS"
    BY <1>1 DEF AtNul
  <1>2. CASE Last(nodes).status = "SURPLUS"
    <2> DEFINE n == Len(nodes)
               new == [Last(nodes) EXCEPT !.status = "INVALID"]
               result == AtNul(nodes)
               N == Total(nodes)
               d == DoneLen(nodes)
    <2>1. n \in Nat /\ n > 0 /\ Last(nodes) = nodes[n] /\ Last(nodes) \in Node
      BY EmptySeq, ElementOfSeq DEF Last
    <2>2. new \in Node /\ new.status = "INVALID"
      BY <2>1 DEF Node, Statuses
    <2>3. result = [nodes EXCEPT ![n] = new]
      BY <1>2, <2>1 DEF AtNul
    <2>4. d = n - 1
      BY <1>2 DEF DoneLen, Finished
    <2> HIDE DEF new, result, n
    <2>5. /\ result \in Seq(Node) /\ Len(result) = n /\ result[n] = new
          /\ \A i \in 1 .. n : i # n => result[i] = nodes[i]
      BY <2>1, <2>2, <2>3, ExceptSeq DEF n
    <2>6. result # <<>> /\ Last(result) = new /\ ~ Finished(new)
      BY <2>1, <2>2, <2>5, EmptySeq DEF Last, Finished
    <2>7. DoneLen(result) = d
      BY <2>4, <2>5, <2>6 DEF DoneLen
    <2>8. PICK b : Divides(b, nodes, r)
      BY DEF Understood
    <2>9. Len(executed) \in Nat /\ N = Len(executed) + d /\ N \in Nat /\ Total(result) = N
      BY <2>1, <2>4, <2>7 DEF Total
    <2>10. /\ b \in [0 .. N -> 0 .. r] /\ b[0] = 0 /\ Rest(nodes, b[N], r)
           /\ \A k \in 1 .. N : b[k - 1] < b[k] /\ Line(b[k - 1] + 1, b[k], Answer(nodes, k))
      BY <2>8 DEF Divides
    <2> HIDE DEF N, d
    <2>11. \A k \in 1 .. N : Answer(result, k) = Answer(nodes, k)
      <3> SUFFICES ASSUME NEW k \in 1 .. N, ~ (k <= Len(executed))
                   PROVE  result[k - Len(executed)] = nodes[k - Len(executed)]
        BY DEF Answer
      <3>1. k - Len(executed) \in 1 .. n /\ k - Len(executed) # n
        BY <2>1, <2>4, <2>9
      <3> QED BY <2>5, <3>1
    <2> DEFINE i == b[N]
               t == Piece(i + 1, r)
    <2>12. i \in Nat /\ i <= r /\ t \in Seq(Classes)
      <3>1. i \in Nat /\ i <= r
        BY <2>9, <2>10
      <3>2. \A k \in (i + 1) .. r : input[k] \in Classes
        BY <3>1, ElementOfSeq
      <3> QED BY <3>1, <3>2, SubSeqProperties DEF Piece
    <2>13. PICK cut \in BOOLEAN : Partial(Last(nodes), t, cut) /\ Silent(i + 1, r, cut)
      <3>1. ~ (nodes = <<>> \/ Finished(Last(nodes)))
        BY <1>2 DEF Finished
      <3> QED BY <2>10, <3>1 DEF Rest
    <2> HIDE DEF i, t
    <2>14. ~ cut /\ Partial(new, t, TRUE)
      BY <1>2, <2>1, <2>12, <2>13, NulStep DEF new
    <2>15. Silent(i + 1, r, TRUE)
      <3>1. \A text : IsEnd(text, TRUE) => IsEnd(text, FALSE)
        BY DEF IsEnd, Wrong
      <3> QED BY <2>13, <2>14, <3>1 DEF Silent
    <2>16. Rest(result, i, r)
      BY <2>6, <2>14, <2>15 DEF Rest, t
    <2>17. Divides(b, result, r)
      BY <2>9, <2>10, <2>11, <2>16 DEF Divides, i
    <2> QED BY <2>17 DEF Understood, result
  <1> QED BY <1>1, <1>2

\* A call of addData: the characters of data are the next ones of the stream.
LEMMA AddDataUnderstood ==
  ASSUME input \in Seq(Classes), executed \in Seq(Answers), NEW nodes \in Seq(Node),
         OpenLast(nodes), NEW r \in Nat, NEW data \in Seq(Classes), Len(data) > 0,
         r + Len(data) <= Len(input), \A k \in 1 .. Len(data) : data[k] = input[r + k],
         Understood(nodes, r)
  PROVE  Understood(AddData(nodes, data), r + Len(data))
  <1> DEFINE n == Len(data)
             T == [k \in 0 .. n |-> {x \in Seq(Node) : /\ OpenLast(x) /\ Understood(x, r + k)
                                                       /\ k > 0 => x # <<>>}]
             result == FoldLeft(AddChar, nodes, data)
  <1>1. n \in Nat /\ Len(input) \in Nat
    OBVIOUS
  <1>2. nodes \in T[0]
    BY <1>1
  <1>3. ASSUME NEW k \in 1 .. n, NEW x \in T[k - 1]
        PROVE  AddChar(x, data[k]) \in T[k]
    <2>1. k - 1 \in 0 .. n /\ k \in 0 .. n /\ k > 0 /\ r + (k - 1) \in Nat
          /\ (r + (k - 1)) + 1 = r + k /\ r + (k - 1) < Len(input) /\ data[k] = input[r + k]
      <3>1. data[k] = input[r + k] /\ r + n <= Len(input)
        OBVIOUS
      <3> HIDE DEF n, T
      <3> QED BY <1>1, <3>1
    <2>2. x \in Seq(Node) /\ OpenLast(x) /\ Understood(x, r + (k - 1))
      BY <2>1
    <2> HIDE DEF T, n
    <2>3. Understood(AddChar(x, input[(r + (k - 1)) + 1]), (r + (k - 1)) + 1)
      BY <2>1, <2>2, UnderstoodStep
    <2>4. /\ AddChar(x, data[k]) \in Seq(Node) /\ OpenLast(AddChar(x, data[k]))
          /\ AddChar(x, data[k]) # <<>>
      BY <2>2, AddCharDone
    <2> QED BY <2>1, <2>3, <2>4 DEF T
  <1>4. result = AddLoop!FoldLeft(AddChar, nodes, data)
    BY Zenon DEF FoldLeft, AddLoop!FoldLeft, MapThenFoldSet, AddLoop!MapThenFoldSet,
                 Max, AddLoop!Max
  <1>5. result \in T[n]
    <2> HIDE DEF T, result
    <2> QED BY <1>2, <1>3, <1>4, AddLoop!FoldReaches DEF n
  <1>6. result \in Seq(Node) /\ OpenLast(result) /\ Understood(result, r + n) /\ result # <<>>
    <2> HIDE DEF result, n
    <2> QED BY <1>1, <1>5 DEF n
  <1>7. r + n \in Nat /\ r + n <= Len(input)
    BY <1>1
  <1> HIDE DEF T, result, n
  <1>8. Understood(AtNul(result), r + n)
    BY <1>6, <1>7, NulUnderstood
  <1> QED BY <1>8 DEF AddData, result, n

\* As long as the parser kept to the bytes it was given, the list and what was executed
\* are what the bytes received say.
UInv == ~ overread => Understood(list, received)

LEMMA InitUnderstood == Init => UInv
  <1> SUFFICES ASSUME Init PROVE Understood(list, received)
    BY DEF UInv
  <1> DEFINE b == [k \in 0 .. 0 |-> 0]
  <1>1. list = <<>> /\ executed = <<>> /\ received = 0
    BY DEF Init
  <1>2. Total(list) = 0
    BY <1>1 DEF Total, DoneLen
  <1>3. b \in [0 .. 0 -> 0 .. 0] /\ b[0] = 0 /\ Rest(list, 0, 0)
    BY <1>1 DEF Rest
  <1> HIDE DEF b
  <1>4. Divides(b, list, received)
    BY <1>1, <1>2, <1>3 DEF Divides
  <1> QED BY <1>4 DEF Understood

LEMMA RecvUnderstood == IInv /\ UInv /\ Recv => UInv'
  <1> SUFFICES ASSUME IInv, UInv, Recv, ~ overread' PROVE Understood(list, received)'
    BY DEF UInv
  <1>1. PICK n \in 1 .. MAXCOMMANDLENGTH, stale \in StaleTails :
          LET data   == SubSeq(input, received + 1, received + n)
              nodes  == AddData(list, data)
              beyond == ReadsBeyond(nodes, data, stale)
          IN  /\ received + n <= Len(input)
              /\ received' = received + n
              /\ list' = IF beyond THEN AddData(nodes, stale) ELSE nodes
              /\ overread' = (overread \/ beyond)
    BY DEF Recv
  <1> DEFINE data == SubSeq(input, received + 1, received + n)
  <1>2. /\ received' = received + n /\ received + n <= Len(input)
        /\ list' = AddData(list, data) /\ ~ overread
    BY <1>1
  <1>3. input \in Seq(Classes) /\ Len(input) \in Nat /\ received \in Nat /\ n \in Nat /\ n > 0
    BY SizeAssumption DEF IInv
  <1>4. /\ data \in Seq(Classes) /\ Len(data) = n
        /\ \A k \in 1 .. n : data[k] = input[received + k]
    <2>1. \A i \in received + 1 .. received + n : input[i] \in Classes
      BY <1>2, <1>3, ElementOfSeq
    <2>2. data \in Seq(Classes) /\ Len(data) = n
      BY <1>3, <2>1, SubSeqProperties
    <2>3. \A k \in 1 .. n : data[k] = input[(received + 1) + k - 1]
      BY <1>2, <1>3
    <2>4. \A k \in 1 .. n : (received + 1) + k - 1 = received + k
      BY <1>3
    <2> HIDE DEF data
    <2> QED BY <2>2, <2>3, <2>4
  <1>5. Understood(list, received)
    BY <1>2 DEF UInv
  <1> HIDE DEF data
  <1>6. Understood(AddData(list, data), received + n)
    BY <1>2, <1>3, <1>4, <1>5, AddDataUnderstood DEF IInv
  <1>7. PICK b : Divides(b, list', received')
    BY <1>2, <1>6 DEF Understood
  <1>8. Divides(b, list, received)'
    <2>1. input' = input /\ executed' = executed
      BY DEF Recv
    <2>2. Total(list)' = Total(list')
      BY <2>1 DEF Total
    <2>3. \A k : Answer(list, k)' = Answer(list', k)
      BY <2>1 DEF Answer
    <2>4. \A i, j, answer : Line(i, j, answer)' <=> Line(i, j, answer)
      BY <2>1 DEF Line, Silent, Piece
    <2>5. \A i : Rest(list, i, received)' <=> Rest(list', i, received')
      BY <2>1 DEF Rest, Silent, Piece
    <2> QED BY <1>7, <2>1, <2>2, <2>3, <2>4, <2>5 DEF Divides, Line, Silent, Piece
  <1> QED BY <1>8 DEF Understood

LEMMA GetFirstUnderstood == IInv /\ UInv /\ GetFirstCommand => UInv'
  <1> SUFFICES ASSUME IInv, UInv, GetFirstCommand, ~ overread' PROVE Understood(list, received)'
    BY DEF UInv
  <1>1. /\ list \in Seq(Node) /\ executed \in Seq(Answers) /\ Len(executed) \in Nat
        /\ list # <<>> /\ Finished(Head(list)) /\ list' = Tail(list)
        /\ executed' = Append(executed, Command(Head(list)))
        /\ UNCHANGED <<input, received, overread>>
    BY DEF IInv, GetFirstCommand, AvailableCommands
  <1>2. /\ Head(list) = list[1] /\ DoneLen(list) > 0 /\ DoneLen(list') = DoneLen(list) - 1
        /\ DoneLen(list) \in 0 .. Len(list) /\ Len(list) \in Nat
        /\ \A i \in 1 .. Len(list) - 1 : list'[i] = list[i + 1]
        /\ list' = <<>> => Finished(Last(list))
        /\ list' # <<>> => Last(list') = Last(list)
    BY <1>1, TailDone, DoneProperties DEF IInv
  <1>3. /\ Len(executed') = Len(executed) + 1
        /\ \A k \in 1 .. Len(executed) : executed'[k] = executed[k]
        /\ executed'[Len(executed) + 1] = Command(list[1])
    BY <1>1, <1>2
  <1>4. Total(list)' = Total(list)
    BY <1>1, <1>2, <1>3 DEF Total
  <1>5. ASSUME NEW k \in 1 .. Total(list)
        PROVE  Answer(list, k)' = Answer(list, k)
    <2>1. k \in Nat /\ k > 0 /\ k <= Len(executed) + DoneLen(list)
      BY <1>1, <1>2 DEF Total
    <2>2. CASE k <= Len(executed)
      BY <1>1, <1>3, <2>1, <2>2 DEF Answer
    <2>3. CASE k = Len(executed) + 1
      <3>1. k - Len(executed) = 1 /\ ~ (k <= Len(executed)) /\ k <= Len(executed')
        BY <1>1, <1>3, <2>3
      <3> QED BY <1>3, <2>3, <3>1 DEF Answer
    <2>4. CASE k > Len(executed) + 1
      <3>1. /\ ~ (k <= Len(executed)) /\ ~ (k <= Len(executed'))
            /\ k - Len(executed') \in 1 .. Len(list) - 1
            /\ (k - Len(executed')) + 1 = k - Len(executed)
        BY <1>1, <1>2, <1>3, <2>1, <2>4, SMTT(30)
      <3> QED BY <1>2, <3>1 DEF Answer
    <2> QED BY <1>1, <2>1, <2>2, <2>3, <2>4
  <1>6. PICK b : Divides(b, list, received)
    BY <1>1 DEF UInv, Understood
  <1>7. Rest(list, b[Total(list)], received)'
    <2>1. Rest(list, b[Total(list)], received)
      BY <1>6 DEF Divides
    <2>2. Rest(list', b[Total(list)], received)
      BY <1>1, <1>2, <2>1 DEF Rest
    <2> QED BY <1>1, <1>4, <2>2 DEF Rest, Silent, Piece
  <1>8. ASSUME NEW k \in 1 .. Total(list)
        PROVE  b[k - 1] < b[k] /\ Line(b[k - 1] + 1, b[k], Answer(list, k))'
    <2>1. b[k - 1] < b[k] /\ Line(b[k - 1] + 1, b[k], Answer(list, k))
      BY <1>6 DEF Divides
    <2> QED BY <1>1, <1>5, <2>1 DEF Line, Silent, Piece
  <1>9. Divides(b, list, received)'
    BY <1>1, <1>4, <1>6, <1>7, <1>8 DEF Divides
  <1> QED BY <1>9 DEF Understood

-----------------------------------------------------------------------------
(* The meanings of a text *)

\* One round of the recursion of Meanings, with and without a cut in the line.
AfterCut(f, s, i, cut) ==
    LET ends == Ends(s, i, cut)
        end  == Min(ends)
    IN  IF ends = {} THEN {<<>>}
        ELSE {<<Reading(SubSeq(s, i, end - 2), cut)>> \o rest : rest \in f[end + 1]}

After(f, s, i) == UNION {AfterCut(f, s, i, cut) : cut \in BOOLEAN}

\* The first of the places where a line may end.
LEMMA FirstEnd ==
  ASSUME NEW s \in Seq(Classes), NEW i \in 1 .. Len(s) + 1, NEW cut \in BOOLEAN,
         Ends(s, i, cut) # {}
  PROVE  /\ Min(Ends(s, i, cut)) \in i .. Len(s)
         /\ \A j \in Ends(s, i, cut) :
              (\A m \in Ends(s, i, cut) : j <= m) => Min(Ends(s, i, cut)) = j
  <1> DEFINE S == Ends(s, i, cut)
  <1>1. S \subseteq i .. Len(s) /\ S \subseteq Nat /\ S # {}
    BY DEF Ends
  <1> HIDE DEF S
  <1>2. AddLoop!Min(S) \in S /\ \A y \in S : AddLoop!Min(S) <= y
    BY <1>1, AddLoop!LeastExists
  <1>3. Min(S) = AddLoop!Min(S)
    BY Zenon DEF Min, AddLoop!Min
  <1>4. Min(S) \in S /\ \A y \in S : Min(S) <= y
    BY <1>2, <1>3
  <1>5. ASSUME NEW j \in S, \A m \in S : j <= m PROVE Min(S) = j
    <2>1. j <= Min(S) /\ Min(S) <= j /\ j \in Nat /\ Min(S) \in Nat
      BY <1>1, <1>4, <1>5
    <2> QED BY <2>1
  <1> QED BY <1>1, <1>4, <1>5 DEF S

\* A round uses what comes later only.
LEMMA AfterLocal ==
  ASSUME NEW s \in Seq(Classes), NEW i \in 1 .. Len(s) + 1, NEW f, NEW h,
         \A j \in (i + 1) .. Len(s) + 1 : f[j] = h[j]
  PROVE  After(f, s, i) = After(h, s, i)
  <1>1. ASSUME NEW cut \in BOOLEAN
        PROVE  AfterCut(f, s, i, cut) = AfterCut(h, s, i, cut)
    <2>1. CASE Ends(s, i, cut) = {}
      BY <2>1 DEF AfterCut
    <2>2. CASE Ends(s, i, cut) # {}
      <3> DEFINE end == Min(Ends(s, i, cut))
      <3>1. Len(s) \in Nat /\ end \in i .. Len(s)
        BY <2>2, FirstEnd
      <3> HIDE DEF end
      <3>2. end + 1 \in (i + 1) .. Len(s) + 1
        BY <3>1
      <3>3. f[end + 1] = h[end + 1]
        BY <3>2
      <3> QED BY <3>3, Zenon DEF AfterCut, end
    <2> QED BY <2>1, <2>2
  <1> QED BY <1>1 DEF After

\* There is a function that satisfies the recursion.
LEMMA MeaningsExist ==
  ASSUME NEW s \in Seq(Classes)
  PROVE  \E f : f = [i \in 1 .. Len(s) + 1 |-> After(f, s, i)]
  <1> DEFINE n == Len(s) + 1
             S == {m \in Nat : m <= n => \E f : f = [i \in (n - m) + 1 .. n |-> After(f, s, i)]}
  <1>1. n \in Nat /\ n > 0
    OBVIOUS
  <1> HIDE DEF n
  <1>2. 0 \in S
    <2> DEFINE f == [i \in (n - 0) + 1 .. n |-> {}]
    <2>1. (n - 0) + 1 .. n = {}
      BY <1>1
    <2>2. f = [i \in (n - 0) + 1 .. n |-> After(f, s, i)]
      BY <2>1
    <2> QED BY <2>2
  <1>3. \A m \in Nat : m \in S => m + 1 \in S
    <2> SUFFICES ASSUME NEW m \in Nat, m \in S, m + 1 <= n PROVE m + 1 \in S
      BY <1>1
    <2>1. PICK f : f = [i \in (n - m) + 1 .. n |-> After(f, s, i)]
      BY <1>1
    <2> DEFINE k == n - m
               h == [i \in k .. n |-> IF i = k THEN After(f, s, k) ELSE f[i]]
               r == [i \in k .. n |-> After(h, s, i)]
    <2>2. k \in 1 .. n /\ (n - (m + 1)) + 1 = k
      BY <1>1
    <2>3. \A j \in k + 1 .. n : f[j] = h[j]
      BY <1>1, <2>2
    <2>4. \A i \in k .. n : After(h, s, i) = After(f, s, i)
      <3> SUFFICES ASSUME NEW i \in k .. n PROVE After(f, s, i) = After(h, s, i)
        OBVIOUS
      <3>1. i \in 1 .. Len(s) + 1 /\ \A j \in (i + 1) .. Len(s) + 1 : j \in k + 1 .. n
        BY <1>1, <2>2 DEF n
      <3> HIDE DEF h, k
      <3> QED BY <2>3, <3>1, AfterLocal
    <2>5. \A i \in k + 1 .. n : f[i] = After(f, s, i)
      <3> HIDE DEF h, r
      <3> QED BY <2>1
    <2>6. \A i \in k .. n : h[i] = r[i]
      <3>1. \A i \in k .. n : r[i] = After(h, s, i)
        BY Zenon
      <3>2. h[k] = After(f, s, k) /\ \A i \in k .. n : i # k => h[i] = f[i]
        BY <1>1, <2>2
      <3>3. \A i \in k .. n : i # k => i \in k + 1 .. n
        BY <1>1, <2>2
      <3> HIDE DEF h, r, k
      <3> QED BY <2>2, <2>4, <2>5, <3>1, <3>2, <3>3
    <2>7. h = r
      <3>1. DOMAIN h = k .. n /\ DOMAIN r = k .. n
        BY Zenon
      <3>2. h = [i \in DOMAIN h |-> h[i]] /\ r = [i \in DOMAIN r |-> r[i]]
        BY Zenon
      <3> HIDE DEF h, r, k
      <3> QED BY <2>6, <3>1, <3>2
    <2>8. h = [i \in (n - (m + 1)) + 1 .. n |-> After(h, s, i)]
      <3> HIDE DEF h
      <3> QED BY <2>2, <2>7
    <2> HIDE DEF h, r, k
    <2> QED BY <2>8
  <1> HIDE DEF S
  <1>4. n \in S
    BY <1>1, <1>2, <1>3, AddLoop!SetInduction
  <1>5. (n - n) + 1 = 1
    BY <1>1
  <1> QED BY <1>1, <1>4, <1>5 DEF S, n

\* Meanings, by the equation that its recursion states.
LEMMA MeaningsEquation ==
  ASSUME NEW s \in Seq(Classes)
  PROVE  \E f : /\ Meanings(s) = f[1]
                /\ \A i \in 1 .. Len(s) + 1 : f[i] = After(f, s, i)
  <1> DEFINE f == CHOOSE g : g = [i \in 1 .. Len(s) + 1 |-> After(g, s, i)]
  <1>1. f = [i \in 1 .. Len(s) + 1 |-> After(f, s, i)]
    BY MeaningsExist
  <1>2. Meanings(s) = f[1]
    BY Zenon DEF Meanings, After, AfterCut
  <1> HIDE DEF f
  <1>3. \A i \in 1 .. Len(s) + 1 : f[i] = After(f, s, i)
    BY <1>1
  <1> QED BY <1>2, <1>3

\* A piece of what was received is a piece of the stream.
LEMMA PieceOfReceived ==
  ASSUME input \in Seq(Classes), NEW r \in Nat, r <= Len(input)
  PROVE  /\ SubSeq(input, 1, r) \in Seq(Classes) /\ Len(SubSeq(input, 1, r)) = r
         /\ \A i \in Nat, j \in Int : i > 0 /\ j <= r =>
              SubSeq(SubSeq(input, 1, r), i, j) = Piece(i, j)
  <1> DEFINE s == SubSeq(input, 1, r)
  <1>1. Len(input) \in Nat /\ \A k \in 1 .. r : input[k] \in Classes
    BY ElementOfSeq
  <1>2. s \in Seq(Classes) /\ Len(s) = r
    BY <1>1, SubSeqProperties
  <1>3. \A k \in 1 .. r : s[k] = input[k]
    <2>1. \A k \in 1 .. r : s[k] = input[1 + k - 1]
      BY <1>1
    <2>2. \A k \in 1 .. r : 1 + k - 1 = k
      OBVIOUS
    <2> QED BY <2>1, <2>2
  <1> HIDE DEF s
  <1>4. ASSUME NEW i \in Nat, NEW j \in Int, i > 0, j <= r
        PROVE  SubSeq(s, i, j) = Piece(i, j)
    <2>1. SubSeq(s, i, j) = [k \in 1 .. (1 + j - i) |-> s[i + k - 1]]
      BY <1>2
    <2>2. Piece(i, j) = [k \in 1 .. (1 + j - i) |-> input[i + k - 1]]
      BY <1>1 DEF Piece
    <2>3. \A k \in 1 .. (1 + j - i) : i + k - 1 \in 1 .. r
      BY <1>4
    <2> QED BY <1>3, <2>1, <2>2, <2>3
  <1> QED BY <1>2, <1>4 DEF s

\* The end of the answers, one answer longer.
LEMMA OneAnswerMore ==
  ASSUME NEW p \in Seq(Answers), NEW k \in 1 .. Len(p)
  PROVE  <<p[k]>> \o SubSeq(p, k + 1, Len(p)) = SubSeq(p, k, Len(p))
  <1> DEFINE n == Len(p)
             rest == SubSeq(p, k + 1, n)
             whole == SubSeq(p, k, n)
             first == <<p[k]>>
  <1>1. n \in Nat /\ k \in Nat /\ k > 0 /\ k <= n /\ \A m \in 1 .. n : p[m] \in Answers
    BY ElementOfSeq
  <1>2. first \in Seq(Answers) /\ Len(first) = 1 /\ first[1] = p[k]
    BY <1>1
  <1>3. /\ rest \in Seq(Answers) /\ Len(rest) = n - k
        /\ \A m \in 1 .. n - k : rest[m] = p[k + m]
    <2>1. \A m \in k + 1 .. n : p[m] \in Answers
      BY <1>1
    <2>2. rest \in Seq(Answers) /\ Len(rest) = n - k
      BY <1>1, <2>1, SubSeqProperties
    <2>3. \A m \in 1 .. n - k : rest[m] = p[(k + 1) + m - 1] /\ (k + 1) + m - 1 = k + m
      BY <1>1
    <2> HIDE DEF rest, n
    <2> QED BY <2>2, <2>3
  <1>4. /\ whole \in Seq(Answers) /\ Len(whole) = (n - k) + 1
        /\ \A m \in 1 .. (n - k) + 1 : whole[m] = p[k + m - 1]
    <2>1. \A m \in k .. n : p[m] \in Answers
      BY <1>1
    <2>2. whole \in Seq(Answers) /\ Len(whole) = (n - k) + 1
      BY <1>1, <2>1, SubSeqProperties
    <2>3. \A m \in 1 .. (n - k) + 1 : whole[m] = p[k + m - 1]
      BY <1>1
    <2> QED BY <2>2, <2>3
  <1> HIDE DEF rest, whole, first, n
  <1>5. /\ first \o rest \in Seq(Answers) /\ Len(first \o rest) = (n - k) + 1
        /\ \A m \in 1 .. (n - k) + 1 :
             (first \o rest)[m] = IF m <= 1 THEN first[m] ELSE rest[m - 1]
    <2>1. Len(first) + Len(rest) = (n - k) + 1
      BY <1>1, <1>2, <1>3
    <2>2. /\ first \o rest \in Seq(Answers) /\ Len(first \o rest) = Len(first) + Len(rest)
          /\ \A m \in 1 .. Len(first) + Len(rest) :
               (first \o rest)[m] = IF m <= Len(first) THEN first[m] ELSE rest[m - Len(first)]
      BY <1>2, <1>3, ConcatProperties
    <2> QED BY ONLY <1>2, <2>1, <2>2
  <1>6. ASSUME NEW m \in 1 .. (n - k) + 1 PROVE (first \o rest)[m] = whole[m]
    <2>1. CASE m = 1
      <3>1. (first \o rest)[m] = p[k] /\ k + m - 1 = k
        BY <1>1, <1>2, <1>5, <2>1
      <3> QED BY <1>4, <3>1
    <2>2. CASE m # 1
      <3>1. m - 1 \in 1 .. n - k /\ ~ (m <= 1) /\ k + (m - 1) = k + m - 1
        BY <1>1, <2>2
      <3> QED BY <1>3, <1>4, <1>5, <3>1
    <2> QED BY <2>1, <2>2
  <1>7. first \o rest = whole
    BY <1>4, <1>5, <1>6, SeqEqual
  <1> QED BY <1>7 DEF first, rest, whole, n

\* What the invariant says of the list is one of the meanings of the bytes received.
LEMMA UnderstoodMeans == IInv /\ Understood(list, received) => ParsedAsSent
  <1> SUFFICES ASSUME IInv, Understood(list, received)
               PROVE  Parsed \in Meanings(SubSeq(input, 1, received))
    BY DEF ParsedAsSent
  <1> DEFINE s == SubSeq(input, 1, received)
             N == Total(list)
             r == received
  <1>1. /\ input \in Seq(Classes) /\ r \in Nat /\ r <= Len(input)
        /\ list \in Seq(Node) /\ OpenLast(list) /\ executed \in Seq(Answers)
    BY DEF IInv
  <1>2. /\ s \in Seq(Classes) /\ Len(s) = r
        /\ \A i \in Nat, j \in Int : i > 0 /\ j <= r => SubSeq(s, i, j) = Piece(i, j)
    BY <1>1, PieceOfReceived
  <1>3. r \in Nat /\ Len(s) = r
    BY <1>1, <1>2
  <1>4. N \in Nat /\ N = Len(executed) + DoneLen(list) /\ Len(executed) \in Nat
        /\ DoneLen(list) \in Nat
    BY <1>1, DoneProperties DEF Total
  <1>5. /\ Parsed \in Seq(Answers) /\ Len(Parsed) = N
        /\ \A k \in 1 .. N : Parsed[k] = Answer(list, k)
    <2>1. ParsedSpelled
      BY ParsedElements
    <2>2. ASSUME NEW k \in 1 .. N PROVE Parsed[k] = Answer(list, k)
      <3>1. CASE k <= Len(executed)
        BY <1>4, <2>1, <3>1 DEF ParsedSpelled, Answer
      <3>2. CASE ~ (k <= Len(executed))
        <4>1. /\ k - Len(executed) \in 1 .. DoneLen(list)
              /\ Len(executed) + (k - Len(executed)) = k
          BY <1>4, <3>2
        <4>2. Parsed[Len(executed) + (k - Len(executed))] = Command(list[k - Len(executed)])
          BY <2>1, <4>1 DEF ParsedSpelled
        <4> QED BY <3>2, <4>1, <4>2 DEF Answer
      <3> QED BY <3>1, <3>2
    <2> QED BY <1>4, <2>1, <2>2 DEF ParsedSpelled
  <1>6. PICK b : Divides(b, list, r)
    BY DEF Understood
  <1> HIDE DEF s, N, r
  <1>7. /\ b \in [0 .. N -> 0 .. r] /\ b[0] = 0 /\ Rest(list, b[N], r)
        /\ \A k \in 1 .. N : b[k - 1] < b[k] /\ Line(b[k - 1] + 1, b[k], Parsed[k])
    BY <1>5, <1>6 DEF Divides, N
  <1>8. \A k \in 0 .. N : b[k] \in 0 .. r
    BY <1>7
  <1>9. PICK f : /\ Meanings(s) = f[1]
                 /\ \A i \in 1 .. Len(s) + 1 : f[i] = After(f, s, i)
    BY <1>2, MeaningsEquation
  <1> DEFINE S == {m \in Nat : m <= N => SubSeq(Parsed, (N - m) + 1, N) \in f[b[N - m] + 1]}
  <1>10. 0 \in S
    <2> DEFINE i == b[N]
    <2>1. i \in Nat /\ i <= r /\ N - 0 = N
      BY <1>1, <1>4, <1>8
    <2>2. PICK cut \in BOOLEAN : Silent(i + 1, r, cut)
      <3>1. Rest(list, i, r)
        BY <1>7
      <3> HIDE DEF i
      <3> DEFINE open == IF list = <<>> \/ Finished(Last(list)) THEN NewNode ELSE Last(list)
      <3>2. \E cut \in BOOLEAN : Partial(open, Piece(i + 1, r), cut) /\ Silent(i + 1, r, cut)
        BY <1>1, <2>1, <3>1, OpenKnows
      <3> QED BY <3>2
    <2>3. Ends(s, i + 1, cut) = {}
      <3> SUFFICES ASSUME NEW j \in (i + 1) .. r PROVE ~ IsEnd(SubSeq(s, i + 1, j), cut)
        BY <1>2 DEF Ends
      <3>1. i + 1 \in Nat /\ i + 1 > 0 /\ j \in Int /\ j <= r
        BY <1>1, <2>1
      <3>2. SubSeq(s, i + 1, j) = Piece(i + 1, j)
        BY <1>2, <3>1
      <3> QED BY <2>2, <3>2 DEF Silent
    <2>4. <<>> \in After(f, s, i + 1)
      BY <2>3 DEF After, AfterCut
    <2>5. <<>> \in f[i + 1]
      <3>1. i + 1 \in 1 .. Len(s) + 1
        <4> HIDE DEF i
        <4> QED BY <1>3, <2>1
      <3> QED BY <1>9, <2>4, <3>1
    <2>6. SubSeq(Parsed, (N - 0) + 1, N) = <<>>
      BY <1>4, <1>5
    <2> QED BY <2>1, <2>5, <2>6
  <1>11. \A m \in Nat : m \in S => m + 1 \in S
    <2> SUFFICES ASSUME NEW m \in Nat, m + 1 <= N,
                        SubSeq(Parsed, (N - m) + 1, N) \in f[b[N - m] + 1]
                 PROVE  SubSeq(Parsed, (N - (m + 1)) + 1, N) \in f[b[N - (m + 1)] + 1]
      BY <1>4
    <2> DEFINE k == N - m
               i == b[k - 1]
               j == b[k]
               rest == SubSeq(Parsed, k + 1, N)
    <2>1. k \in 1 .. N /\ k - 1 \in 0 .. N /\ N - (m + 1) = k - 1 /\ (N - (m + 1)) + 1 = k
      BY <1>4
    <2>2. i \in Nat /\ j \in Nat /\ i < j /\ j <= r /\ Line(i + 1, j, Parsed[k])
      <3> HIDE DEF k
      <3>1. k \in 0 .. N
        BY <2>1
      <3> QED BY <1>1, <1>7, <1>8, <2>1, <3>1
    <2>3. rest \in f[j + 1]
      OBVIOUS
    <2> HIDE DEF k, i, j, rest
    <2>4. PICK cut \in BOOLEAN : /\ IsEnd(Piece(i + 1, j), cut) /\ Silent(i + 1, j - 1, cut)
                                 /\ Parsed[k] = Reading(Piece(i + 1, j - 2), cut)
      BY <2>2 DEF Line
    <2>5. /\ i + 1 \in Nat /\ i + 1 > 0 /\ i + 1 \in 1 .. Len(s) + 1 /\ j \in (i + 1) .. Len(s)
          /\ j - 2 \in Int /\ j - 2 <= r
      BY <1>1, <1>2, <2>2
    <2>6. \A l \in (i + 1) .. Len(s) : SubSeq(s, i + 1, l) = Piece(i + 1, l)
      <3> SUFFICES ASSUME NEW l \in (i + 1) .. Len(s)
                   PROVE  SubSeq(s, i + 1, l) = Piece(i + 1, l)
        OBVIOUS
      <3>1. l \in Int /\ l <= r
        BY <1>3, <2>5
      <3> QED BY <1>2, <2>5, <3>1
    <2>7. j \in Ends(s, i + 1, cut) /\ \A l \in Ends(s, i + 1, cut) : j <= l
      <3>1. j \in Ends(s, i + 1, cut)
        BY <2>4, <2>5, <2>6 DEF Ends
      <3>2. ASSUME NEW l \in Ends(s, i + 1, cut), ~ (j <= l) PROVE FALSE
        <4>1. l \in (i + 1) .. Len(s) /\ IsEnd(SubSeq(s, i + 1, l), cut)
          BY DEF Ends
        <4>2. l \in (i + 1) .. j - 1 /\ IsEnd(Piece(i + 1, l), cut)
          <5>1. l \in (i + 1) .. j - 1
            BY <1>3, <2>2, <3>2, <4>1
          <5>2. SubSeq(s, i + 1, l) = Piece(i + 1, l)
            BY <2>6, <4>1
          <5> QED BY <4>1, <5>1, <5>2
        <4> QED BY <2>4, <4>2 DEF Silent
      <3> QED BY <3>1, <3>2
    <2>8. Ends(s, i + 1, cut) # {} /\ Min(Ends(s, i + 1, cut)) = j
      BY <1>2, <2>5, <2>7, FirstEnd
    <2>9. SubSeq(s, i + 1, j - 2) = Piece(i + 1, j - 2)
      BY <1>2, <2>5
    <2>10. <<Parsed[k]>> \o rest \in AfterCut(f, s, i + 1, cut)
      BY <2>3, <2>4, <2>8, <2>9 DEF AfterCut
    <2>11. <<Parsed[k]>> \o rest \in f[i + 1]
      <3>1. <<Parsed[k]>> \o rest \in After(f, s, i + 1)
        BY <2>10 DEF After
      <3> QED BY <1>9, <2>5, <3>1
    <2>12. <<Parsed[k]>> \o rest = SubSeq(Parsed, k, N)
      BY <1>5, <2>1, OneAnswerMore DEF rest
    <2> QED BY <2>1, <2>11, <2>12 DEF i
  <1> HIDE DEF S
  <1>12. N \in S
    BY <1>4, <1>10, <1>11, AddLoop!SetInduction
  <1>13. SubSeq(Parsed, 1, N) \in f[1]
    <2>1. (N - N) + 1 = 1 /\ N - N = 0 /\ b[0] + 1 = 1
      BY <1>4, <1>7
    <2>2. SubSeq(Parsed, (N - N) + 1, N) \in f[b[N - N] + 1]
      BY <1>4, <1>12 DEF S
    <2> QED BY <2>1, <2>2
  <1>14. SubSeq(Parsed, 1, N) = Parsed
    BY <1>5
  <1> QED BY <1>9, <1>13, <1>14 DEF s, r

LEMMA NextUnderstood == IInv /\ UInv /\ [Next]_vars => UInv'
  <1>1. IInv /\ UInv /\ UNCHANGED vars => UInv'
    BY DEF vars, UInv, Understood, Divides, Total, Answer, Rest, Line, Silent, Piece
  <1> QED BY <1>1, RecvUnderstood, GetFirstUnderstood DEF Next

\* However the stream is cut by recv, the commands executed and those that wait are the
\* lines of the bytes received, in order, as long as nothing behind the NUL was parsed:
\* for a stream of any length, in pieces of any size, and buffers of any size.
THEOREM CommandsAreTheLines == Spec => []ParsedUnlessOverread
  <1>1. Spec => []UInv
    BY InitInv, Invariance, InitUnderstood, NextUnderstood, PTL DEF Spec
  <1>2. IInv /\ UInv => ParsedUnlessOverread
    BY UnderstoodMeans DEF UInv, ParsedUnlessOverread
  <1> QED BY <1>1, <1>2, Invariance, PTL

=============================================================================
