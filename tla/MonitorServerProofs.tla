------------------------ MODULE MonitorServerProofs ------------------------
(***************************************************************************)
(* The monitor and its list of users, for any users, passwords, command    *)
(* lines and datagrams.                                                    *)
(*                                                                         *)
(* The list is a table: no name has two nodes, whatever the command line,  *)
(* the monitor and the sessions do to it, and so every operation of        *)
(* users.c is one of UserRegistry.  The operators of UserList come first,  *)
(* for each that it keeps a Table one and what it does to the entry of     *)
(* every name; then the loops of parseArgs, initializeUserSingleton and    *)
(* parseDatagram, of which each round keeps what is needed of its result;  *)
(* the invariant, and what the arguments of -u become.                     *)
(*                                                                         *)
(* The automaton accepts the lines of the protocol.  A datagram is its     *)
(* parts, one behind the other, and the loop over its characters is cut    *)
(* where they end.  In each part, the states that the automaton can be in  *)
(* behind k characters are a set that says what these characters are: the  *)
(* next character leads to the set for k + 1 or to a refusal, which ends   *)
(* the loop, and the set behind the last character says what was read.     *)
(* What copyDgramData takes out of the text are then its parts and words,  *)
(* and the reply and the change of the list are those of the command.      *)
(***************************************************************************)
EXTENDS MonitorServer, FiniteSetTheorems, SequenceTheorems, TLAPS

\* The bodies of the loops, in parseArgs, initializeUserSingleton and parseDatagram.
ReadLoop == INSTANCE SequenceInduction WITH op <- ReadArgument
FillLoop == INSTANCE SequenceInduction WITH op <- AddArgument
ParseLoop == INSTANCE SequenceInduction WITH op <- Feed

Nodes == [name : Users, password : Passwords, connected : BOOLEAN]

Unique(nodes) == \A i, j \in 1 .. Len(nodes) : nodes[i].name = nodes[j].name => i = j

Table == {nodes \in Seq(Nodes) : Unique(nodes)}

EntryIn(p, c) == [password |-> p, connected |-> c]
NoEntry == EntryIn(NoPassword, FALSE)

-----------------------------------------------------------------------------
(* The operators of UserList *)

LEMMA TableElements ==
  ASSUME NEW nodes \in Table
  PROVE  /\ nodes \in Seq(Nodes) /\ Len(nodes) \in Nat /\ DOMAIN nodes = 1 .. Len(nodes)
         /\ \A i \in 1 .. Len(nodes) :
              /\ nodes[i] \in Nodes /\ nodes[i].name \in Users
              /\ nodes[i].password \in Passwords /\ nodes[i].connected \in BOOLEAN
         /\ \A i, j \in 1 .. Len(nodes) : nodes[i].name = nodes[j].name => i = j
  <1>1. nodes \in Seq(Nodes) /\ Len(nodes) \in Nat /\ DOMAIN nodes = 1 .. Len(nodes)
        /\ \A i \in 1 .. Len(nodes) : nodes[i] \in Nodes
    BY LenProperties, ElementOfSeq DEF Table
  <1> QED BY <1>1 DEF Table, Unique, Nodes

\* getUserNode finds the node of the name, if there is one.
LEMMA NodeFound ==
  ASSUME NEW nodes \in Table, NEW i \in 1 .. Len(nodes)
  PROVE  GetUserNode(nodes, nodes[i].name) = i
  <1> DEFINE I == {j \in 1 .. Len(nodes) : nodes[j].name = nodes[i].name}
  <1>1. I = {i}
    BY TableElements
  <1>2. GetUserNode(nodes, nodes[i].name) = IF I # {} THEN Min(I) ELSE 0
    BY DEF GetUserNode, SelectInSeq
  <1>3. Min({i}) = i
    BY DEF Min
  <1> HIDE DEF I
  <1> QED BY <1>1, <1>2, <1>3

LEMMA NodeNotFound ==
  ASSUME NEW nodes \in Table, NEW u, \A i \in 1 .. Len(nodes) : nodes[i].name # u
  PROVE  GetUserNode(nodes, u) = 0
  BY DEF GetUserNode, SelectInSeq

\* A name has a node, the one that is found, or none.
LEMMA NodeOrNone ==
  ASSUME NEW nodes \in Table, NEW u
  PROVE  \/ \E i \in 1 .. Len(nodes) :
              /\ nodes[i].name = u /\ GetUserNode(nodes, u) = i /\ UserExists(nodes, u)
         \/ /\ \A i \in 1 .. Len(nodes) : nodes[i].name # u
            /\ GetUserNode(nodes, u) = 0 /\ ~ UserExists(nodes, u)
  <1>1. CASE \E i \in 1 .. Len(nodes) : nodes[i].name = u
    <2>1. PICK i \in 1 .. Len(nodes) : nodes[i].name = u
      BY <1>1
    <2>2. GetUserNode(nodes, u) = i
      BY <2>1, NodeFound
    <2>3. i # 0
      BY TableElements
    <2> QED BY <2>1, <2>2, <2>3 DEF UserExists
  <1>2. CASE ~ \E i \in 1 .. Len(nodes) : nodes[i].name = u
    BY <1>2, NodeNotFound DEF UserExists
  <1> QED BY <1>1, <1>2

\* The entry of a name is that of its node.
LEMMA EntryOfNode ==
  ASSUME NEW nodes \in Table, NEW i \in 1 .. Len(nodes)
  PROVE  EntryOf(nodes, nodes[i].name) = EntryIn(nodes[i].password, nodes[i].connected)
  <1> DEFINE places == {j \in DOMAIN nodes : nodes[j].name = nodes[i].name}
  <1>1. places = {i}
    BY TableElements
  <1>2. \A k : (k \in places /\ \A j \in places : k <= j) <=> k = i
    BY <1>1
  <1>3. (CHOOSE k \in places : \A j \in places : k <= j) = i
    BY <1>1, <1>2
  <1>4. EntryOf(nodes, nodes[i].name) =
          IF places = {} THEN NoEntry
          ELSE EntryIn(nodes[CHOOSE k \in places : \A j \in places : k <= j].password,
                       nodes[CHOOSE k \in places : \A j \in places : k <= j].connected)
    BY DEF EntryOf, EntryIn, NoEntry
  <1> HIDE DEF places
  <1> QED BY <1>1, <1>3, <1>4

LEMMA EntryOfNone ==
  ASSUME NEW nodes \in Table, NEW u, \A i \in 1 .. Len(nodes) : nodes[i].name # u
  PROVE  EntryOf(nodes, u) = NoEntry
  BY TableElements DEF EntryOf, EntryIn, NoEntry

\* Two tables with the same node of a name have the same entry of it.
LEMMA SameEntry ==
  ASSUME NEW nodes \in Table, NEW others \in Table, NEW u,
         \A i \in 1 .. Len(nodes) : nodes[i].name = u =>
             \E j \in 1 .. Len(others) : others[j] = nodes[i],
         \A j \in 1 .. Len(others) : others[j].name = u =>
             \E i \in 1 .. Len(nodes) : nodes[i].name = u
  PROVE  EntryOf(nodes, u) = EntryOf(others, u)
  <1>1. CASE \E i \in 1 .. Len(nodes) : nodes[i].name = u
    <2>1. PICK i \in 1 .. Len(nodes) : nodes[i].name = u
      BY <1>1
    <2>2. PICK j \in 1 .. Len(others) : others[j] = nodes[i]
      BY <2>1
    <2> QED BY <2>1, <2>2, EntryOfNode
  <1>2. CASE ~ \E i \in 1 .. Len(nodes) : nodes[i].name = u
    BY <1>2, EntryOfNone
  <1> QED BY <1>1, <1>2

\* One node gets other values, not another name.
LEMMA NodeChanged ==
  ASSUME NEW nodes \in Table, NEW k \in 1 .. Len(nodes),
         NEW new \in Nodes, new.name = nodes[k].name
  PROVE  /\ [nodes EXCEPT ![k] = new] \in Table
         /\ \A u : EntryOf([nodes EXCEPT ![k] = new], u) =
                     IF u = new.name THEN EntryIn(new.password, new.connected)
                                     ELSE EntryOf(nodes, u)
  <1> DEFINE r == [nodes EXCEPT ![k] = new]
  <1>1. /\ nodes \in Seq(Nodes) /\ Len(nodes) \in Nat
        /\ \A i, j \in 1 .. Len(nodes) : nodes[i].name = nodes[j].name => i = j
    BY TableElements
  <1>2. /\ r \in Seq(Nodes) /\ Len(r) = Len(nodes) /\ r[k] = new
        /\ \A i \in 1 .. Len(nodes) : i # k => r[i] = nodes[i]
    BY <1>1, ExceptSeq
  <1> HIDE DEF r
  <1>3. r \in Table
    BY <1>1, <1>2 DEF Table, Unique
  <1>4. ASSUME NEW u
        PROVE  EntryOf(r, u) = IF u = new.name THEN EntryIn(new.password, new.connected)
                                               ELSE EntryOf(nodes, u)
    <2>1. CASE u = new.name
      BY <1>2, <1>3, <2>1, EntryOfNode
    <2>2. CASE u # new.name
      <3>1. ASSUME NEW i \in 1 .. Len(nodes), nodes[i].name = u
            PROVE  \E j \in 1 .. Len(r) : r[j] = nodes[i]
        BY <1>2, <2>2, <3>1
      <3>2. ASSUME NEW j \in 1 .. Len(r), r[j].name = u
            PROVE  \E i \in 1 .. Len(nodes) : nodes[i].name = u
        BY <1>2, <2>2, <3>2
      <3>3. EntryOf(nodes, u) = EntryOf(r, u)
        BY <1>3, <3>1, <3>2, SameEntry
      <3> QED BY <2>2, <3>3
    <2> QED BY <2>1, <2>2
  <1> QED BY <1>3, <1>4, Zenon DEF r

LEMMA ModifyKeeps ==
  ASSUME NEW nodes \in Table, NEW n, NEW p \in Passwords
  PROVE  /\ ModifyUserPassword(nodes, n, p) \in Table
         /\ UserExists(nodes, n) =>
              \A u : EntryOf(ModifyUserPassword(nodes, n, p), u) =
                       IF u = n THEN EntryIn(p, EntryOf(nodes, n).connected)
                                ELSE EntryOf(nodes, u)
         /\ ~ UserExists(nodes, n) => ModifyUserPassword(nodes, n, p) = nodes
  <1>1. CASE ~ UserExists(nodes, n)
    BY <1>1 DEF ModifyUserPassword
  <1>2. CASE UserExists(nodes, n)
    <2>1. PICK k \in 1 .. Len(nodes) : nodes[k].name = n /\ GetUserNode(nodes, n) = k
      BY <1>2, NodeOrNone
    <2> DEFINE new == [nodes[k] EXCEPT !.password = p]
    <2>2. nodes[k] \in Nodes
      BY TableElements
    <2>3. /\ new \in Nodes /\ new.name = n /\ new.password = p
          /\ new.connected = nodes[k].connected
      BY <2>1, <2>2 DEF Nodes
    <2>4. ModifyUserPassword(nodes, n, p) = [nodes EXCEPT ![k] = new]
      BY <1>2, <2>1 DEF ModifyUserPassword
    <2>5. EntryOf(nodes, n).connected = nodes[k].connected
      <3>1. EntryOf(nodes, n) = EntryIn(nodes[k].password, nodes[k].connected)
        BY <2>1, EntryOfNode
      <3> QED BY <3>1 DEF EntryIn
    <2> HIDE DEF new
    <2>6. /\ [nodes EXCEPT ![k] = new] \in Table
          /\ \A u : EntryOf([nodes EXCEPT ![k] = new], u) =
                      IF u = new.name THEN EntryIn(new.password, new.connected)
                                      ELSE EntryOf(nodes, u)
      <3>1. k \in 1 .. Len(nodes) /\ new \in Nodes /\ new.name = nodes[k].name
        BY <2>1, <2>3
      <3> QED BY ONLY <3>1, nodes \in Table, NodeChanged, Zenon
    <2>7. EntryIn(new.password, new.connected) = EntryIn(p, EntryOf(nodes, n).connected)
      BY <2>3, <2>5
    <2>8. new.name = n
      BY <2>3
    <2> QED BY ONLY <1>2, <2>4, <2>6, <2>7, <2>8, Zenon
  <1> QED BY <1>1, <1>2

LEMMA ToggleKeeps ==
  ASSUME NEW nodes \in Table, NEW n, NEW c \in BOOLEAN
  PROVE  /\ ToggleUserConnected(nodes, n, c) \in Table
         /\ UserExists(nodes, n) =>
              \A u : EntryOf(ToggleUserConnected(nodes, n, c), u) =
                       IF u = n THEN EntryIn(EntryOf(nodes, n).password, c)
                                ELSE EntryOf(nodes, u)
         /\ ~ UserExists(nodes, n) => ToggleUserConnected(nodes, n, c) = nodes
  <1>1. CASE ~ UserExists(nodes, n)
    BY <1>1 DEF ToggleUserConnected
  <1>2. CASE UserExists(nodes, n)
    <2>1. PICK k \in 1 .. Len(nodes) : nodes[k].name = n /\ GetUserNode(nodes, n) = k
      BY <1>2, NodeOrNone
    <2> DEFINE new == [nodes[k] EXCEPT !.connected = c]
    <2>2. nodes[k] \in Nodes
      BY TableElements
    <2>3. /\ new \in Nodes /\ new.name = n /\ new.password = nodes[k].password
          /\ new.connected = c
      BY <2>1, <2>2 DEF Nodes
    <2>4. ToggleUserConnected(nodes, n, c) = [nodes EXCEPT ![k] = new]
      BY <1>2, <2>1 DEF ToggleUserConnected
    <2>5. EntryOf(nodes, n).password = nodes[k].password
      <3>1. EntryOf(nodes, n) = EntryIn(nodes[k].password, nodes[k].connected)
        BY <2>1, EntryOfNode
      <3> QED BY <3>1 DEF EntryIn
    <2> HIDE DEF new
    <2>6. /\ [nodes EXCEPT ![k] = new] \in Table
          /\ \A u : EntryOf([nodes EXCEPT ![k] = new], u) =
                      IF u = new.name THEN EntryIn(new.password, new.connected)
                                      ELSE EntryOf(nodes, u)
      <3>1. k \in 1 .. Len(nodes) /\ new \in Nodes /\ new.name = nodes[k].name
        BY <2>1, <2>3
      <3> QED BY ONLY <3>1, nodes \in Table, NodeChanged, Zenon
    <2>7. EntryIn(new.password, new.connected) = EntryIn(EntryOf(nodes, n).password, c)
      BY <2>3, <2>5
    <2>8. new.name = n
      BY <2>3
    <2> QED BY ONLY <1>2, <2>4, <2>6, <2>7, <2>8, Zenon
  <1> QED BY <1>1, <1>2

LEMMA InsertKeeps ==
  ASSUME NEW nodes \in Table, NEW n \in Users, NEW p \in Passwords
  PROVE  /\ InsertUserNode(nodes, n, p) \in Table
         /\ UserExists(nodes, n) => InsertUserNode(nodes, n, p) = nodes
         /\ ~ UserExists(nodes, n) =>
              /\ InsertUserNode(nodes, n, p) # nodes
              /\ \A i \in 1 .. Len(InsertUserNode(nodes, n, p)) :
                   \/ InsertUserNode(nodes, n, p)[i] =
                        [name |-> n, password |-> p, connected |-> FALSE]
                   \/ \E j \in 1 .. Len(nodes) : InsertUserNode(nodes, n, p)[i] = nodes[j]
              /\ \A u : EntryOf(InsertUserNode(nodes, n, p), u) =
                          IF u = n THEN EntryIn(p, FALSE) ELSE EntryOf(nodes, u)
  <1>1. CASE UserExists(nodes, n)
    BY <1>1 DEF InsertUserNode
  <1>2. CASE ~ UserExists(nodes, n)
    <2> DEFINE new == [name |-> n, password |-> p, connected |-> FALSE]
               r == InsertUserNode(nodes, n, p)
    <2>1. new \in Nodes /\ new.name = n /\ new.password = p /\ new.connected = FALSE
      BY DEF Nodes
    <2>2. r = <<new>> \o nodes
      BY <1>2 DEF InsertUserNode, Cons
    <2> HIDE DEF new, r
    <2>3. /\ nodes \in Seq(Nodes) /\ Len(nodes) \in Nat
          /\ \A i, j \in 1 .. Len(nodes) : nodes[i].name = nodes[j].name => i = j
      BY TableElements
    <2>4. \A i \in 1 .. Len(nodes) : nodes[i].name # n
      BY <1>2, NodeOrNone
    <2>5. /\ r \in Seq(Nodes) /\ Len(r) = Len(nodes) + 1 /\ r[1] = new
          /\ \A i \in 2 .. Len(nodes) + 1 : r[i] = nodes[i - 1]
      <3>1. <<new>> \in Seq(Nodes) /\ Len(<<new>>) = 1 /\ <<new>>[1] = new
        BY <2>1
      <3>2. /\ r \in Seq(Nodes) /\ Len(r) = 1 + Len(nodes)
            /\ \A i \in 1 .. 1 + Len(nodes) : r[i] = IF i <= 1 THEN <<new>>[i] ELSE nodes[i - 1]
        BY <2>2, <2>3, <3>1, ConcatProperties
      <3>3. r[1] = new
        BY <2>3, <3>1, <3>2
      <3>4. ASSUME NEW i \in 2 .. Len(nodes) + 1 PROVE r[i] = nodes[i - 1]
        <4>1. i \in 1 .. 1 + Len(nodes) /\ ~ i <= 1
          BY <2>3
        <4> QED BY <3>2, <4>1
      <3> QED BY <2>3, <3>2, <3>3, <3>4
    <2>6. \A i \in 1 .. Len(nodes) : i + 1 \in 2 .. Len(nodes) + 1 /\ r[i + 1] = nodes[i]
      BY <2>3, <2>5
    <2>7. Unique(r)
      <3> SUFFICES ASSUME NEW i \in 1 .. Len(r), NEW j \in 1 .. Len(r), r[i].name = r[j].name
                   PROVE  i = j
        BY DEF Unique
      <3>1. CASE i = 1 \/ j = 1
        BY <2>1, <2>3, <2>4, <2>5, <3>1
      <3>2. CASE i # 1 /\ j # 1
        <4>1. i - 1 \in 1 .. Len(nodes) /\ j - 1 \in 1 .. Len(nodes)
          BY <2>3, <2>5, <3>2
        <4>2. r[i] = nodes[i - 1] /\ r[j] = nodes[j - 1]
          BY <2>3, <2>5, <3>2
        <4>3. i - 1 = j - 1
          BY <2>3, <4>1, <4>2
        <4> QED BY <4>3
      <3> QED BY <3>1, <3>2
    <2>8. r \in Table
      BY <2>5, <2>7 DEF Table
    <2>9. r # nodes
      BY <2>3, <2>5
    <2>10. \A i \in 1 .. Len(r) : r[i] = new \/ \E j \in 1 .. Len(nodes) : r[i] = nodes[j]
      <3> SUFFICES ASSUME NEW i \in 1 .. Len(r), i # 1
                   PROVE  \E j \in 1 .. Len(nodes) : r[i] = nodes[j]
        BY <2>5
      <3>1. i - 1 \in 1 .. Len(nodes) /\ i \in 2 .. Len(nodes) + 1
        BY <2>3, <2>5
      <3> QED BY <2>5, <3>1
    <2>11. ASSUME NEW u
           PROVE  EntryOf(r, u) = IF u = n THEN EntryIn(p, FALSE) ELSE EntryOf(nodes, u)
      <3>1. CASE u = n
        <4>1. 1 \in 1 .. Len(r)
          BY <2>3, <2>5
        <4> QED BY <2>1, <2>5, <2>8, <3>1, <4>1, EntryOfNode, Zenon
      <3>2. CASE u # n
        <4>1. ASSUME NEW i \in 1 .. Len(nodes), nodes[i].name = u
              PROVE  \E j \in 1 .. Len(r) : r[j] = nodes[i]
          <5>1. i + 1 \in 1 .. Len(r) /\ r[i + 1] = nodes[i]
            BY <2>3, <2>5, <2>6
          <5> QED BY <5>1
        <4>2. ASSUME NEW j \in 1 .. Len(r), r[j].name = u
              PROVE  \E i \in 1 .. Len(nodes) : nodes[i].name = u
          BY <2>1, <2>10, <3>2, <4>2
        <4>3. EntryOf(nodes, u) = EntryOf(r, u)
          BY <2>8, <4>1, <4>2, SameEntry
        <4> QED BY <3>2, <4>3
      <3> QED BY <3>1, <3>2, Zenon
    <2> QED BY <1>2, <2>8, <2>9, <2>10, <2>11, Zenon DEF r, new
  <1> QED BY <1>1, <1>2, Zenon

LEMMA DeleteKeeps ==
  ASSUME NEW nodes \in Table, NEW n
  PROVE  /\ DeleteUserNode(nodes, n) \in Table
         /\ \A u : EntryOf(DeleteUserNode(nodes, n), u) =
                     IF u = n THEN NoEntry ELSE EntryOf(nodes, u)
  <1> DEFINE r == DeleteUserNode(nodes, n)
  <1>1. CASE \A i \in 1 .. Len(nodes) : nodes[i].name # n
    <2>1. r = nodes
      BY <1>1 DEF DeleteUserNode, RemoveFirstMatch
    <2> QED BY <1>1, <2>1, EntryOfNone
  <1>2. CASE \E i \in 1 .. Len(nodes) : nodes[i].name = n
    <2>1. PICK k \in 1 .. Len(nodes) : nodes[k].name = n /\ GetUserNode(nodes, n) = k
      BY <1>2, NodeFound
    <2>2. r = SubSeq(nodes, 1, k - 1) \o SubSeq(nodes, k + 1, Len(nodes))
      BY <1>2, <2>1, Zenon DEF DeleteUserNode, RemoveFirstMatch, RemoveAt, GetUserNode
    <2> HIDE DEF r
    <2>3. /\ nodes \in Seq(Nodes) /\ Len(nodes) \in Nat
          /\ \A i, j \in 1 .. Len(nodes) : nodes[i].name = nodes[j].name => i = j
          /\ \A i \in 1 .. Len(nodes) : nodes[i] \in Nodes
      BY TableElements
    <2>4. /\ SubSeq(nodes, 1, k - 1) \in Seq(Nodes) /\ Len(SubSeq(nodes, 1, k - 1)) = k - 1
          /\ \A i \in 1 .. k - 1 : SubSeq(nodes, 1, k - 1)[i] = nodes[i]
      BY <2>3, SubSeqProperties
    <2>5. /\ SubSeq(nodes, k + 1, Len(nodes)) \in Seq(Nodes)
          /\ Len(SubSeq(nodes, k + 1, Len(nodes))) = Len(nodes) - k
          /\ \A i \in 1 .. Len(nodes) - k : SubSeq(nodes, k + 1, Len(nodes))[i] = nodes[k + i]
      BY <2>3, SubSeqProperties
    <2>6. /\ r \in Seq(Nodes) /\ Len(r) = Len(nodes) - 1
          /\ \A i \in 1 .. Len(nodes) - 1 : r[i] = IF i < k THEN nodes[i] ELSE nodes[i + 1]
      <3>1. /\ r \in Seq(Nodes) /\ Len(r) = (k - 1) + (Len(nodes) - k)
            /\ \A i \in 1 .. (k - 1) + (Len(nodes) - k) :
                 r[i] = IF i <= k - 1 THEN SubSeq(nodes, 1, k - 1)[i]
                                      ELSE SubSeq(nodes, k + 1, Len(nodes))[i - (k - 1)]
        <4> DEFINE a == SubSeq(nodes, 1, k - 1)
                   b == SubSeq(nodes, k + 1, Len(nodes))
        <4>1. /\ r = a \o b /\ a \in Seq(Nodes) /\ b \in Seq(Nodes)
              /\ Len(a) = k - 1 /\ Len(b) = Len(nodes) - k
          BY <2>2, <2>4, <2>5
        <4> HIDE DEF a, b
        <4>2. /\ a \o b \in Seq(Nodes) /\ Len(a \o b) = Len(a) + Len(b)
              /\ \A i \in 1 .. Len(a) + Len(b) :
                   (a \o b)[i] = IF i <= Len(a) THEN a[i] ELSE b[i - Len(a)]
          BY <4>1, ConcatProperties, Zenon
        <4> QED BY <4>1, <4>2, Zenon DEF a, b
      <3>2. ASSUME NEW i \in 1 .. Len(nodes) - 1
            PROVE  r[i] = IF i < k THEN nodes[i] ELSE nodes[i + 1]
        <4>1. CASE i < k
          BY <2>3, <2>4, <3>1, <4>1
        <4>2. CASE ~ i < k
          <5>1. i - (k - 1) \in 1 .. Len(nodes) - k /\ k + (i - (k - 1)) = i + 1
            BY <2>3, <4>2
          <5> QED BY <2>3, <2>5, <3>1, <4>2, <5>1
        <4> QED BY <4>1, <4>2
      <3> QED BY <2>3, <3>1, <3>2
    <2>7. ASSUME NEW i \in 1 .. Len(r)
          PROVE  \E j \in 1 .. Len(nodes) :
                   j # k /\ r[i] = nodes[j] /\ (i = IF j < k THEN j ELSE j - 1)
      <3>1. CASE i < k
        <4>1. i \in 1 .. Len(nodes) /\ i \in 1 .. Len(nodes) - 1 /\ i # k
          BY <2>3, <2>6, <3>1
        <4> QED BY <2>6, <3>1, <4>1
      <3>2. CASE ~ i < k
        <4>1. i + 1 \in 1 .. Len(nodes) /\ i + 1 # k /\ ~ i + 1 < k /\ i = (i + 1) - 1
          BY <2>3, <2>6, <3>2
        <4> QED BY <2>6, <3>2, <4>1, Zenon
      <3> QED BY <3>1, <3>2
    <2>8. ASSUME NEW j \in 1 .. Len(nodes), j # k
          PROVE  \E i \in 1 .. Len(r) : r[i] = nodes[j]
      <3>1. CASE j < k
        BY <2>3, <2>6, <3>1
      <3>2. CASE ~ j < k
        <4>1. j - 1 \in 1 .. Len(r) /\ ~ j - 1 < k /\ (j - 1) + 1 = j
          BY <2>3, <2>6, <2>8, <3>2
        <4> QED BY <2>6, <4>1, Zenon
      <3> QED BY <3>1, <3>2
    <2>9. r \in Table
      <3> SUFFICES ASSUME NEW i \in 1 .. Len(r), NEW j \in 1 .. Len(r), r[i].name = r[j].name
                   PROVE  i = j
        BY <2>6, Zenon DEF Table, Unique
      <3>1. PICK a \in 1 .. Len(nodes) : r[i] = nodes[a] /\ (i = IF a < k THEN a ELSE a - 1)
        BY <2>7, Zenon
      <3>2. PICK b \in 1 .. Len(nodes) : r[j] = nodes[b] /\ (j = IF b < k THEN b ELSE b - 1)
        BY <2>7
      <3>3. a = b
        BY <2>3, <3>1, <3>2
      <3> QED BY <3>1, <3>2, <3>3
    <2>10. ASSUME NEW u
           PROVE  EntryOf(r, u) = IF u = n THEN NoEntry ELSE EntryOf(nodes, u)
      <3>1. CASE u = n
        <4>1. \A i \in 1 .. Len(r) : r[i].name # n
          BY <2>1, <2>3, <2>7
        <4> QED BY <2>9, <3>1, <4>1, EntryOfNone
      <3>2. CASE u # n
        <4>1. ASSUME NEW i \in 1 .. Len(nodes), nodes[i].name = u
              PROVE  \E j \in 1 .. Len(r) : r[j] = nodes[i]
          BY <2>1, <2>8, <3>2, <4>1
        <4>2. ASSUME NEW j \in 1 .. Len(r), r[j].name = u
              PROVE  \E i \in 1 .. Len(nodes) : nodes[i].name = u
          BY <2>7, <4>2
        <4>3. EntryOf(nodes, u) = EntryOf(r, u)
          BY <2>9, <4>1, <4>2, SameEntry
        <4> QED BY <3>2, <4>3
      <3> QED BY <3>1, <3>2
    <2> QED BY <2>9, <2>10 DEF r
  <1> QED BY <1>1, <1>2

LEMMA EmptyTable == <<>> \in Table /\ \A u : EntryOf(<<>>, u) = NoEntry
  <1>1. <<>> \in Table
    BY EmptySeq DEF Table, Unique
  <1> QED BY <1>1, EmptySeq, EntryOfNone

-----------------------------------------------------------------------------
(* The command line *)

\* What initializeUserSingleton has made after any number of arguments: a table in
\* which no flag is set.
Filled == {f \in [list : Table, crashed : BOOLEAN] :
             \A i \in 1 .. Len(f.list) : f.list[i].connected = FALSE}

\* strtok returns a sequence of tokens.
LEMMA TokensAreCounted ==
  ASSUME NEW str \in Texts
  PROVE  /\ Len(Tokens(str)) \in Nat
         /\ Tokens(str) # <<>> => Len(Tokens(str)) > 0
  <1> DEFINE starts == {i \in DOMAIN str : str[i] # Colon /\ (i > 1 => str[i - 1] = Colon)}
  <1>1. Len(str) \in Nat /\ DOMAIN str = 1 .. Len(str)
    BY LenProperties DEF Texts
  <1>2. Cardinality(starts) \in Nat
    <2>1. starts \in SUBSET (1 .. Len(str))
      BY <1>1
    <2>2. IsFiniteSet(1 .. Len(str))
      BY <1>1, FS_Interval
    <2> HIDE DEF starts
    <2> QED BY <2>1, <2>2, FS_Subset, FS_CardinalityType, Zenon
  <1>3. \E t : Tokens(str) = [n \in 1 .. Cardinality(starts) |-> t[n]]
    <2> DEFINE nth(n) == CHOOSE i \in starts : Cardinality({j \in starts : j <= i}) = n
               run(i) == {j \in i .. Len(str) : \A k \in i .. j : str[k] # Colon}
               token(n) == SubSeq(str, nth(n), nth(n) + Cardinality(run(nth(n))) - 1)
    <2>1. Tokens(str) = [n \in 1 .. Cardinality(starts) |-> token(n)]
      BY Zenon DEF Tokens
    <2> HIDE DEF token, starts
    <2>2. [n \in 1 .. Cardinality(starts) |-> token(n)] =
            [n \in 1 .. Cardinality(starts) |->
               [m \in 1 .. Cardinality(starts) |-> token(m)][n]]
      OBVIOUS
    <2> QED BY <2>1, <2>2, Zenon
  <1> HIDE DEF starts
  <1>4. PICK t : Tokens(str) = [n \in 1 .. Cardinality(starts) |-> t[n]]
    BY <1>3
  <1>5. Len(Tokens(str)) = Cardinality(starts)
    BY <1>2, <1>4
  <1>6. Cardinality(starts) = 0 => Tokens(str) = <<>>
    BY <1>4
  <1> QED BY <1>2, <1>5, <1>6

LEMMA AddArgumentKeeps ==
  ASSUME NEW f \in Filled, NEW arg \in Texts,
         Len(Tokens(arg)) >= 2 => Tokens(arg)[1] \in Users /\ Last(Tokens(arg)) \in Passwords
  PROVE  AddArgument(f, arg) \in Filled
  <1> DEFINE tokens == Tokens(arg)
             exists == tokens # <<>> /\ UserExists(f.list, tokens[1])
             crashes == f.crashed \/ tokens = <<>> \/ (Len(tokens) = 1 /\ ~ exists)
             inserted == InsertUserNode(f.list, tokens[1], Last(tokens))
  <1>1. /\ f.list \in Table /\ f.crashed \in BOOLEAN
        /\ \A i \in 1 .. Len(f.list) : f.list[i].connected = FALSE
    BY DEF Filled
  <1>2. CASE crashes
    <2>1. AddArgument(f, arg) = [f EXCEPT !.crashed = TRUE]
      BY <1>2 DEF AddArgument
    <2> QED BY <1>1, <2>1, Zenon DEF Filled
  <1>3. CASE ~ crashes
    <2>1. AddArgument(f, arg) = [f EXCEPT !.list = inserted]
      BY <1>3 DEF AddArgument
    <2>2. CASE UserExists(f.list, tokens[1])
      <3>1. inserted = f.list
        BY <2>2 DEF InsertUserNode
      <3> QED BY <1>1, <2>1, <3>1 DEF Filled
    <2>3. CASE ~ UserExists(f.list, tokens[1])
      <3>1. tokens[1] \in Users /\ Last(tokens) \in Passwords
        <4>1. ~ exists /\ tokens # <<>> /\ Len(tokens) # 1
          BY <1>3, <2>3
        <4>2. Len(tokens) \in Nat /\ (tokens # <<>> => Len(tokens) > 0)
          BY TokensAreCounted
        <4>3. Len(tokens) >= 2 => tokens[1] \in Users /\ Last(tokens) \in Passwords
          OBVIOUS
        <4>4. Len(tokens) >= 2
          <5>1. Len(tokens) \in Nat /\ Len(tokens) > 0 /\ Len(tokens) # 1
            BY <4>1, <4>2
          <5>2. \A k \in Nat : k > 0 /\ k # 1 => k >= 2
            OBVIOUS
          <5> QED BY ONLY <5>1, <5>2, Zenon
        <4> HIDE DEF tokens
        <4> QED BY <4>3, <4>4
      <3> DEFINE new == [name |-> tokens[1], password |-> Last(tokens), connected |-> FALSE]
      <3>2. /\ inserted \in Table
            /\ \A i \in 1 .. Len(inserted) :
                 inserted[i] = new \/ \E j \in 1 .. Len(f.list) : inserted[i] = f.list[j]
        BY <1>1, <2>3, <3>1, InsertKeeps, Zenon
      <3>3. \A i \in 1 .. Len(inserted) : inserted[i].connected = FALSE
        <4> HIDE DEF inserted, tokens
        <4> QED BY <1>1, <3>2, SMTT(30)
      <3> HIDE DEF inserted, tokens
      <3> QED BY <1>1, <2>1, <3>2, <3>3 DEF Filled
    <2> QED BY <2>2, <2>3
  <1> QED BY <1>2, <1>3

\* What parseArgs accepts is a sequence of arguments, ...
Reading == [users : Seq(Texts), expects : BOOLEAN, error : BOOLEAN]

LEMMA ParsedArguments ==
  ASSUME NEW a \in ArgumentLists, ArgumentsAccepted(a)
  PROVE  ParseArgs(a) \in Seq(Texts)
  <1> DEFINE start == [users |-> <<>>, expects |-> FALSE, error |-> FALSE]
  <1>1. Tail(a) \in Seq(Texts)
    BY ArgumentsAssumption
  <1>2. start \in Reading
    <2>1. <<>> \in Seq(Texts)
      BY EmptySeq
    <2> QED BY <2>1 DEF Reading
  <1>3. ASSUME NEW read \in Reading, NEW arg \in Texts
        PROVE  ReadArgument(read, arg) \in Reading
    <2>1. read.users \in Seq(Texts) /\ read.expects \in BOOLEAN /\ read.error \in BOOLEAN
      BY DEF Reading
    <2>2. CASE read.error
      <3>1. ReadArgument(read, arg) = read
        BY <2>2 DEF ReadArgument
      <3> QED BY <3>1
    <2>3. CASE ~ read.error /\ read.expects
      <3> DEFINE refused == ~ CheckUserAndPasswordFormat(arg)
      <3>1. ReadArgument(read, arg) =
              [users |-> Append(read.users, arg), expects |-> FALSE, error |-> refused]
        BY <2>3 DEF ReadArgument
      <3>2. refused \in BOOLEAN
        OBVIOUS
      <3> HIDE DEF refused
      <3>3. Append(read.users, arg) \in Seq(Texts)
        BY <2>1, AppendProperties
      <3> QED BY <3>1, <3>2, <3>3 DEF Reading
    <2>4. CASE ~ read.error /\ ~ read.expects
      <3>1. ReadArgument(read, arg) = [read EXCEPT !.expects = (arg = DashU)]
        BY <2>4 DEF ReadArgument
      <3> QED BY <3>1, Zenon DEF Reading
    <2> QED BY <2>1, <2>2, <2>3, <2>4
  <1> HIDE DEF start
  <1>4. \A x \in Reading, i \in 1 .. Len(Tail(a)) : ReadArgument(x, Tail(a)[i]) \in Reading
    BY <1>1, <1>3, ElementOfSeq
  <1>5. ReadLoop!FoldLeft(ReadArgument, start, Tail(a)) \in Reading
    BY ONLY <1>1, <1>2, <1>4, ReadLoop!FoldKeeps, Zenon
  <1>6. FoldLeft(ReadArgument, start, Tail(a)) = ReadLoop!FoldLeft(ReadArgument, start, Tail(a))
    BY Zenon DEF FoldLeft, ReadLoop!FoldLeft, MapThenFoldSet, ReadLoop!MapThenFoldSet,
                 Max, ReadLoop!Max
  <1>7. ParseArgs(a) = FoldLeft(ReadArgument, start, Tail(a)).users
    BY DEF ParseArgs, ReadArguments, start
  <1> QED BY <1>5, <1>6, <1>7 DEF Reading

\* ... and initializeUserSingleton makes a table of them.
LEMMA FillKeeps ==
  ASSUME NEW a \in ArgumentLists, ArgumentsAccepted(a)
  PROVE  InitializeUserSingleton(ParseArgs(a)) \in Filled
  <1> DEFINE start == [list |-> <<>>, crashed |-> FALSE]
             names == ParseArgs(a)
  <1>1. names \in Seq(Texts) /\ DOMAIN names = 1 .. Len(names)
    BY ParsedArguments, LenProperties
  <1>2. start \in Filled
    BY EmptyTable DEF Filled
  <1>3. ASSUME NEW n \in 1 .. Len(names)
        PROVE  /\ names[n] \in Texts
               /\ Len(Tokens(names[n])) >= 2 =>
                    Tokens(names[n])[1] \in Users /\ Last(Tokens(names[n])) \in Passwords
    <2>1. names[n] \in Texts
      BY <1>1, ElementOfSeq
    <2>2. n \in DOMAIN ParseArgs(a)
      BY <1>1
    <2> QED BY <2>1, <2>2, ArgumentsAssumption
  <1> HIDE DEF start, names
  <1>4. \A f \in Filled, n \in 1 .. Len(names) : AddArgument(f, names[n]) \in Filled
    BY <1>3, AddArgumentKeeps
  <1>5. FillLoop!FoldLeft(AddArgument, start, names) \in Filled
    BY ONLY <1>1, <1>2, <1>4, FillLoop!FoldKeeps, Zenon
  <1>6. FoldLeft(AddArgument, start, names) = FillLoop!FoldLeft(AddArgument, start, names)
    BY Zenon DEF FoldLeft, FillLoop!FoldLeft, MapThenFoldSet, FillLoop!MapThenFoldSet,
                 Max, FillLoop!Max
  <1>7. InitializeUserSingleton(names) = FoldLeft(AddArgument, start, names)
    BY DEF InitializeUserSingleton, start
  <1> QED BY <1>5, <1>6, <1>7 DEF names

-----------------------------------------------------------------------------
(* The places of a datagram's parts *)

Symbols == STRING \cup {LF, NUL}

FirstLine(r) == r.magic \o r.version

\* The ends of the first line, the id and the key, as far as the datagram has them,
\* and the NUL.
EndOfFirst(r) == Len(FirstLine(r)) + 1
EndOfId(r) == EndOfFirst(r) + Len(r.id) + 1
EndOfKey(r) == EndOfId(r) + Len(r.key) + 1
EndOfAll(r) ==
    CASE r.newlines = 0 -> EndOfFirst(r)
      [] r.newlines = 1 -> EndOfId(r)
      [] r.newlines = 2 -> EndOfKey(r)
      [] r.newlines = 3 -> EndOfKey(r) + Len(r.line) + 1

\* What stands at the end of its n-th line.
StopOf(r, n) == IF r.newlines >= n THEN LF ELSE NUL

\* A text joined to another.
LEMMA Joined ==
  ASSUME NEW s \in Seq(Symbols), NEW t \in Seq(Symbols)
  PROVE  /\ s \o t \in Seq(Symbols) /\ Len(s \o t) = Len(s) + Len(t)
         /\ \A k \in 1 .. Len(s) : (s \o t)[k] = s[k]
         /\ \A k \in 1 .. Len(t) : (s \o t)[Len(s) + k] = t[k]
  <1>1. /\ s \o t \in Seq(Symbols) /\ Len(s \o t) = Len(s) + Len(t)
        /\ \A i \in 1 .. Len(s) + Len(t) : (s \o t)[i] = IF i <= Len(s) THEN s[i] ELSE t[i - Len(s)]
    BY ConcatProperties
  <1>2. Len(s) \in Nat /\ Len(t) \in Nat
    BY LenProperties
  <1>3. ASSUME NEW k \in 1 .. Len(t) PROVE (s \o t)[Len(s) + k] = t[k]
    <2>1. Len(s) + k \in 1 .. Len(s) + Len(t) /\ ~ Len(s) + k <= Len(s) /\ Len(s) + k - Len(s) = k
      BY <1>2
    <2> QED BY <1>1, <2>1
  <1> QED BY <1>1, <1>2, <1>3

LEMMA PartsAreTexts ==
  ASSUME NEW r \in Requests
  PROVE  /\ r.magic \in Texts /\ r.version \in Texts /\ r.id \in Texts /\ r.key \in Texts
         /\ r.line \in Texts /\ FirstLine(r) \in Texts /\ r.newlines \in 0 .. 3
         /\ Len(r.magic) \in Nat /\ Len(r.version) \in Nat /\ Len(r.id) \in Nat
         /\ Len(r.key) \in Nat /\ Len(r.line) \in Nat
         /\ Len(FirstLine(r)) = Len(r.magic) + Len(r.version)
         /\ \A k \in 1 .. Len(r.magic) : FirstLine(r)[k] = r.magic[k]
         /\ \A k \in 1 .. Len(r.version) : FirstLine(r)[Len(r.magic) + k] = r.version[k]
         /\ \A text \in Texts : text \in Seq(Symbols)
  <1>1. \A text \in Texts : text \in Seq(Symbols)
    BY SeqMonotonic, STRING \subseteq Symbols DEF Texts, Symbols
  <1>2. /\ r.magic \in Texts /\ r.version \in Texts /\ r.id \in Texts /\ r.key \in Texts
        /\ r.line \in Texts /\ r.newlines \in 0 .. 3
    BY RequestsAssumption
  <1>3. FirstLine(r) \in Texts
    BY <1>2, ConcatProperties DEF FirstLine, Texts
  <1>4. /\ Len(r.magic) \in Nat /\ Len(r.version) \in Nat /\ Len(r.id) \in Nat
        /\ Len(r.key) \in Nat /\ Len(r.line) \in Nat
    BY <1>2, LenProperties DEF Texts
  <1> QED BY <1>1, <1>2, <1>3, <1>4, Joined, ZenonT(60) DEF FirstLine

LEMMA Newlines ==
  ASSUME NEW r \in Requests
  PROVE  /\ r.newlines < 2 <=> ~ r.newlines >= 2
         /\ r.newlines >= 2 => r.newlines >= 1
         /\ r.newlines >= 3 <=> r.newlines = 3
         /\ r.newlines = 3 => r.newlines >= 2
  <1>1. r.newlines \in 0 .. 3
    BY PartsAreTexts, Zenon
  <1> DEFINE n == r.newlines
  <1> HIDE DEF n
  <1>2. n \in 0 .. 3 =>
          /\ n < 2 <=> ~ n >= 2
          /\ n >= 2 => n >= 1
          /\ n >= 3 <=> n = 3
          /\ n = 3 => n >= 2
    OBVIOUS
  <1> QED BY <1>1, <1>2, Zenon DEF n

LEMMA OneMore ==
  ASSUME NEW s \in Seq(Symbols), NEW c \in Symbols
  PROVE  /\ s \o <<c>> \in Seq(Symbols) /\ Len(s \o <<c>>) = Len(s) + 1
         /\ \A k \in 1 .. Len(s) : (s \o <<c>>)[k] = s[k]
         /\ (s \o <<c>>)[Len(s) + 1] = c
  <1> DEFINE t == <<c>>
  <1>1. t \in Seq(Symbols) /\ Len(t) = 1 /\ t[1] = c
    OBVIOUS
  <1> HIDE DEF t
  <1>2. /\ s \o t \in Seq(Symbols) /\ Len(s \o t) = Len(s) + Len(t)
        /\ \A k \in 1 .. Len(s) : (s \o t)[k] = s[k]
        /\ \A k \in 1 .. Len(t) : (s \o t)[Len(s) + k] = t[k]
    BY <1>1, Joined, Zenon
  <1>3. 1 \in 1 .. 1
    OBVIOUS
  <1>4. (s \o t)[Len(s) + 1] = c
    BY <1>1, <1>2, <1>3
  <1> QED BY <1>1, <1>2, <1>4 DEF t

\* A line, and a newline or the NUL behind it, joined to a text.
LEMMA LineJoined ==
  ASSUME NEW s \in Seq(Symbols), NEW t \in Seq(Symbols), NEW c \in Symbols
  PROVE  /\ s \o t \o <<c>> \in Seq(Symbols)
         /\ Len(s \o t \o <<c>>) = Len(s) + Len(t) + 1
         /\ \A k \in 1 .. Len(s) : (s \o t \o <<c>>)[k] = s[k]
         /\ \A k \in 1 .. Len(t) : (s \o t \o <<c>>)[Len(s) + k] = t[k]
         /\ (s \o t \o <<c>>)[Len(s) + Len(t) + 1] = c
  <1> DEFINE a == s \o t
             u == a \o <<c>>
  <1>1. /\ a \in Seq(Symbols) /\ Len(a) = Len(s) + Len(t)
        /\ \A k \in 1 .. Len(s) : a[k] = s[k]
        /\ \A k \in 1 .. Len(t) : a[Len(s) + k] = t[k]
    BY Joined
  <1> HIDE DEF a
  <1>2. /\ a \o <<c>> \in Seq(Symbols) /\ Len(a \o <<c>>) = Len(a) + 1
        /\ \A k \in 1 .. Len(a) : (a \o <<c>>)[k] = a[k]
        /\ (a \o <<c>>)[Len(a) + 1] = c
    BY <1>1, OneMore
  <1>3. /\ Len(u) = Len(a) + 1 /\ u[Len(a) + 1] = c /\ u \in Seq(Symbols)
        /\ \A k \in 1 .. Len(a) : u[k] = a[k]
    BY <1>2
  <1> HIDE DEF u
  <1>4. Len(s) \in Nat /\ Len(t) \in Nat
    BY LenProperties
  <1>5. ASSUME NEW k \in 1 .. Len(s) PROVE k \in 1 .. Len(a)
    BY <1>1, <1>4
  <1>6. ASSUME NEW k \in 1 .. Len(t) PROVE Len(s) + k \in 1 .. Len(a)
    BY <1>1, <1>4
  <1>7. /\ u \in Seq(Symbols) /\ Len(u) = Len(s) + Len(t) + 1
        /\ \A k \in 1 .. Len(s) : u[k] = s[k]
        /\ \A k \in 1 .. Len(t) : u[Len(s) + k] = t[k]
        /\ u[Len(s) + Len(t) + 1] = c
    BY <1>1, <1>3, <1>5, <1>6
  <1> QED BY <1>7 DEF u, a

\* The places of the lines in a text.
HasLines(text, f, id, key, line) ==
    LET a == Len(f) + 1
        b == a + Len(id) + 1
        c == b + Len(key) + 1
        n == c + Len(line) + 1
    IN  /\ text \in Seq(Symbols) /\ Len(text) = n
        /\ text[a] = LF /\ text[b] = LF /\ text[c] = LF /\ text[n] = NUL
        /\ \A k \in 1 .. Len(f) : text[k] = f[k]
        /\ \A k \in 1 .. Len(id) : text[a + k] = id[k]
        /\ \A k \in 1 .. Len(key) : text[b + k] = key[k]
        /\ \A k \in 1 .. Len(line) : text[c + k] = line[k]

LEMMA LinesJoined ==
  ASSUME NEW f \in Seq(Symbols), NEW id \in Seq(Symbols), NEW key \in Seq(Symbols),
         NEW line \in Seq(Symbols)
  PROVE  HasLines(f \o <<LF>> \o id \o <<LF>> \o key \o <<LF>> \o line \o <<NUL>>,
                  f, id, key, line)
  <1> DEFINE s1 == f \o <<LF>>
             s2 == s1 \o id \o <<LF>>
             s3 == s2 \o key \o <<LF>>
             s4 == s3 \o line \o <<NUL>>
  <1> LF \in Symbols /\ NUL \in Symbols
    BY Zenon DEF Symbols
  <1>1. /\ Len(f) \in Nat /\ Len(id) \in Nat /\ Len(key) \in Nat /\ Len(line) \in Nat
    BY LenProperties
  <1>2. /\ s1 \in Seq(Symbols) /\ Len(s1) = Len(f) + 1 /\ s1[Len(f) + 1] = LF
        /\ \A k \in 1 .. Len(f) : s1[k] = f[k]
    BY OneMore
  <1>3. /\ s2 \in Seq(Symbols) /\ Len(s2) = Len(s1) + Len(id) + 1
        /\ \A k \in 1 .. Len(s1) : s2[k] = s1[k]
        /\ \A k \in 1 .. Len(id) : s2[Len(s1) + k] = id[k]
        /\ s2[Len(s2)] = LF
    <2>1. /\ s1 \o id \o <<LF>> \in Seq(Symbols)
          /\ Len(s1 \o id \o <<LF>>) = Len(s1) + Len(id) + 1
          /\ \A k \in 1 .. Len(s1) : (s1 \o id \o <<LF>>)[k] = s1[k]
          /\ \A k \in 1 .. Len(id) : (s1 \o id \o <<LF>>)[Len(s1) + k] = id[k]
          /\ (s1 \o id \o <<LF>>)[Len(s1) + Len(id) + 1] = LF
      <3>1. s1 \in Seq(Symbols)
        BY <1>2
      <3> QED BY ONLY <3>1, id \in Seq(Symbols), LF \in Symbols, LineJoined
    <2> QED BY <2>1
  <1>4. /\ s3 \in Seq(Symbols) /\ Len(s3) = Len(s2) + Len(key) + 1
        /\ \A k \in 1 .. Len(s2) : s3[k] = s2[k]
        /\ \A k \in 1 .. Len(key) : s3[Len(s2) + k] = key[k]
        /\ s3[Len(s3)] = LF
    <2>1. /\ s2 \o key \o <<LF>> \in Seq(Symbols)
          /\ Len(s2 \o key \o <<LF>>) = Len(s2) + Len(key) + 1
          /\ \A k \in 1 .. Len(s2) : (s2 \o key \o <<LF>>)[k] = s2[k]
          /\ \A k \in 1 .. Len(key) : (s2 \o key \o <<LF>>)[Len(s2) + k] = key[k]
          /\ (s2 \o key \o <<LF>>)[Len(s2) + Len(key) + 1] = LF
      <3>1. s2 \in Seq(Symbols)
        BY <1>3
      <3> QED BY ONLY <3>1, key \in Seq(Symbols), LF \in Symbols, LineJoined, SMTT(30)
    <2> QED BY <2>1, Zenon
  <1>5. /\ s4 \in Seq(Symbols) /\ Len(s4) = Len(s3) + Len(line) + 1
        /\ \A k \in 1 .. Len(s3) : s4[k] = s3[k]
        /\ \A k \in 1 .. Len(line) : s4[Len(s3) + k] = line[k]
        /\ s4[Len(s4)] = NUL
    <2>1. /\ s3 \o line \o <<NUL>> \in Seq(Symbols)
          /\ Len(s3 \o line \o <<NUL>>) = Len(s3) + Len(line) + 1
          /\ \A k \in 1 .. Len(s3) : (s3 \o line \o <<NUL>>)[k] = s3[k]
          /\ \A k \in 1 .. Len(line) : (s3 \o line \o <<NUL>>)[Len(s3) + k] = line[k]
          /\ (s3 \o line \o <<NUL>>)[Len(s3) + Len(line) + 1] = NUL
      <3>1. s3 \in Seq(Symbols)
        BY <1>4
      <3> QED BY ONLY <3>1, line \in Seq(Symbols), NUL \in Symbols, LineJoined, SMTT(30)
    <2> QED BY <2>1, Zenon
  <1>6. /\ Len(s1) \in Nat /\ Len(s2) \in Nat /\ Len(s3) \in Nat
         /\ Len(s1) < Len(s2) /\ Len(s2) < Len(s3)
    <2>1. /\ Len(s1) = Len(f) + 1 /\ Len(s2) = Len(s1) + Len(id) + 1
          /\ Len(s3) = Len(s2) + Len(key) + 1
      BY <1>2, <1>3, <1>4
    <2> QED BY ONLY <1>1, <2>1
  <1>7. ASSUME NEW k \in 1 .. Len(s2) PROVE s4[k] = s2[k]
    <2>1. k \in 1 .. Len(s3)
      BY <1>6
    <2> QED BY <1>4, <1>5, <2>1
  <1>8. ASSUME NEW k \in 1 .. Len(s1) PROVE s4[k] = s1[k]
    <2>1. k \in 1 .. Len(s2)
      BY <1>6
    <2> QED BY <1>3, <1>7, <2>1
  <1>9. \A k \in 1 .. Len(f) : s4[k] = f[k]
    <2> SUFFICES ASSUME NEW k \in 1 .. Len(f) PROVE s4[k] = f[k]
      BY SMTT(30)
    <2>1. k \in 1 .. Len(s1)
      BY <1>1, <1>2
    <2> QED BY <1>2, <1>8, <2>1
  <1>10. s4[Len(s1)] = LF /\ s4[Len(s2)] = LF /\ s4[Len(s3)] = LF
    <2>1. Len(s1) \in 1 .. Len(s1) /\ Len(s2) \in 1 .. Len(s2) /\ Len(s3) \in 1 .. Len(s3)
      BY <1>1, <1>2, <1>6
    <2>2. s1[Len(s1)] = LF
      BY <1>2
    <2> QED BY <1>3, <1>4, <1>5, <1>7, <1>8, <2>1, <2>2
  <1>11. \A k \in 1 .. Len(id) : s4[Len(s1) + k] = id[k]
    <2> SUFFICES ASSUME NEW k \in 1 .. Len(id) PROVE s4[Len(s1) + k] = id[k]
      BY Zenon
    <2>1. Len(s1) + k \in 1 .. Len(s2)
      BY <1>1, <1>3, <1>6
    <2> QED BY <1>3, <1>7, <2>1
  <1>12. \A k \in 1 .. Len(key) : s4[Len(s2) + k] = key[k]
    <2> SUFFICES ASSUME NEW k \in 1 .. Len(key) PROVE s4[Len(s2) + k] = key[k]
      OBVIOUS
    <2>1. Len(s2) + k \in 1 .. Len(s3)
      BY <1>1, <1>4, <1>6
    <2> QED BY <1>4, <1>5, <2>1, SMTT(30)
  <1> HIDE DEF s1, s2, s3, s4
  <1>13. HasLines(s4, f, id, key, line)
    BY <1>2, <1>3, <1>4, <1>5, <1>9, <1>10, <1>11, <1>12, SMTT(30) DEF HasLines
  <1> QED BY <1>13 DEF s1, s2, s3, s4

\* The same of a text that stops in the id or in the key.
HasTwo(text, f, id, c) ==
    LET a == Len(f) + 1
        b == a + Len(id) + 1
    IN  /\ text \in Seq(Symbols) /\ Len(text) = b /\ text[a] = LF /\ text[b] = c
        /\ \A k \in 1 .. Len(f) : text[k] = f[k]
        /\ \A k \in 1 .. Len(id) : text[a + k] = id[k]

HasThree(text, f, id, key, c) ==
    LET a == Len(f) + 1
        b == a + Len(id) + 1
        d == b + Len(key) + 1
    IN  /\ text \in Seq(Symbols) /\ Len(text) = d /\ text[a] = LF /\ text[b] = LF
        /\ text[d] = c
        /\ \A k \in 1 .. Len(f) : text[k] = f[k]
        /\ \A k \in 1 .. Len(id) : text[a + k] = id[k]
        /\ \A k \in 1 .. Len(key) : text[b + k] = key[k]

LEMMA TwoJoined ==
  ASSUME NEW f \in Seq(Symbols), NEW id \in Seq(Symbols), NEW c \in Symbols
  PROVE  HasTwo(f \o <<LF>> \o id \o <<c>>, f, id, c)
  <1> DEFINE s1 == f \o <<LF>>
             s2 == s1 \o id \o <<c>>
  <1>1. Len(f) \in Nat /\ Len(id) \in Nat /\ LF \in Symbols
    BY LenProperties, Zenon DEF Symbols
  <1>2. /\ s1 \in Seq(Symbols) /\ Len(s1) = Len(f) + 1 /\ s1[Len(f) + 1] = LF
        /\ \A k \in 1 .. Len(f) : s1[k] = f[k]
    BY <1>1, OneMore
  <1> HIDE DEF s1
  <1>3. /\ s1 \o id \o <<c>> \in Seq(Symbols)
        /\ Len(s1 \o id \o <<c>>) = Len(s1) + Len(id) + 1
        /\ \A k \in 1 .. Len(s1) : (s1 \o id \o <<c>>)[k] = s1[k]
        /\ \A k \in 1 .. Len(id) : (s1 \o id \o <<c>>)[Len(s1) + k] = id[k]
        /\ (s1 \o id \o <<c>>)[Len(s1) + Len(id) + 1] = c
    <2>1. s1 \in Seq(Symbols)
      BY <1>2
    <2> QED BY ONLY <2>1, id \in Seq(Symbols), c \in Symbols, LineJoined, SMTT(30)
  <1>4. /\ s2 \in Seq(Symbols) /\ Len(s2) = Len(s1) + Len(id) + 1
        /\ \A k \in 1 .. Len(s1) : s2[k] = s1[k]
        /\ \A k \in 1 .. Len(id) : s2[Len(s1) + k] = id[k]
        /\ s2[Len(s1) + Len(id) + 1] = c
    BY <1>3, Zenon
  <1> HIDE DEF s2
  <1>5. s2[Len(s1)] = LF /\ \A k \in 1 .. Len(f) : s2[k] = f[k]
    <2>1. Len(s1) \in 1 .. Len(s1) /\ \A k \in 1 .. Len(f) : k \in 1 .. Len(s1)
      BY <1>1, <1>2
    <2> QED BY <1>2, <1>4, <2>1
  <1>6. HasTwo(s2, f, id, c)
    BY <1>2, <1>4, <1>5, SMTT(30) DEF HasTwo
  <1> QED BY <1>6 DEF s1, s2

LEMMA ThreeJoined ==
  ASSUME NEW f \in Seq(Symbols), NEW id \in Seq(Symbols), NEW key \in Seq(Symbols),
         NEW c \in Symbols
  PROVE  HasThree(f \o <<LF>> \o id \o <<LF>> \o key \o <<c>>, f, id, key, c)
  <1> DEFINE s2 == f \o <<LF>> \o id \o <<LF>>
             s3 == s2 \o key \o <<c>>
             a == Len(f) + 1
             b == a + Len(id) + 1
  <1>1. /\ Len(f) \in Nat /\ Len(id) \in Nat /\ Len(key) \in Nat /\ LF \in Symbols
    BY LenProperties, Zenon DEF Symbols
  <1>2. HasTwo(s2, f, id, LF)
    BY <1>1, TwoJoined, Zenon
  <1> HIDE DEF s2
  <1>3. /\ s2 \in Seq(Symbols) /\ Len(s2) = b /\ s2[a] = LF /\ s2[b] = LF
        /\ \A k \in 1 .. Len(f) : s2[k] = f[k]
        /\ \A k \in 1 .. Len(id) : s2[a + k] = id[k]
    BY <1>2, Zenon DEF HasTwo
  <1>4. /\ s2 \o key \o <<c>> \in Seq(Symbols)
        /\ Len(s2 \o key \o <<c>>) = Len(s2) + Len(key) + 1
        /\ \A k \in 1 .. Len(s2) : (s2 \o key \o <<c>>)[k] = s2[k]
        /\ \A k \in 1 .. Len(key) : (s2 \o key \o <<c>>)[Len(s2) + k] = key[k]
        /\ (s2 \o key \o <<c>>)[Len(s2) + Len(key) + 1] = c
    <2>1. s2 \in Seq(Symbols)
      BY <1>3
    <2> QED BY ONLY <2>1, key \in Seq(Symbols), c \in Symbols, LineJoined, SMTT(30)
  <1>5. /\ s3 \in Seq(Symbols) /\ Len(s3) = b + Len(key) + 1
        /\ \A k \in 1 .. b : s3[k] = s2[k]
        /\ \A k \in 1 .. Len(key) : s3[b + k] = key[k]
        /\ s3[b + Len(key) + 1] = c
    BY <1>3, <1>4, Zenon
  <1> HIDE DEF s3
  <1>6. /\ a \in 1 .. b /\ b \in 1 .. b /\ \A k \in 1 .. Len(f) : k \in 1 .. b
        /\ \A k \in 1 .. Len(id) : a + k \in 1 .. b
    BY <1>1
  <1> HIDE DEF a, b
  <1>7. /\ s3[a] = LF /\ s3[b] = LF
        /\ \A k \in 1 .. Len(f) : s3[k] = f[k]
        /\ \A k \in 1 .. Len(id) : s3[a + k] = id[k]
    BY <1>3, <1>5, <1>6
  <1>8. HasThree(s3, f, id, key, c)
    BY <1>5, <1>7, Zenon DEF HasThree, a, b
  <1> QED BY <1>8 DEF s2, s3

LEMMA Places ==
  ASSUME NEW r \in Requests
  PROVE  /\ Len(Render(r)) = EndOfAll(r) /\ Render(r) \in Seq(Symbols)
         /\ \A k \in 1 .. Len(FirstLine(r)) : Render(r)[k] = FirstLine(r)[k]
         /\ Render(r)[EndOfFirst(r)] = StopOf(r, 1)
         /\ r.newlines >= 1 =>
              /\ \A k \in 1 .. Len(r.id) : Render(r)[EndOfFirst(r) + k] = r.id[k]
              /\ Render(r)[EndOfId(r)] = StopOf(r, 2)
         /\ r.newlines >= 2 =>
              /\ \A k \in 1 .. Len(r.key) : Render(r)[EndOfId(r) + k] = r.key[k]
              /\ Render(r)[EndOfKey(r)] = StopOf(r, 3)
         /\ r.newlines = 3 =>
              /\ \A k \in 1 .. Len(r.line) : Render(r)[EndOfKey(r) + k] = r.line[k]
              /\ Render(r)[EndOfAll(r)] = NUL
  <1> DEFINE f == r.magic \o r.version
             n == r.newlines
  <1>1. /\ FirstLine(r) \in Seq(Symbols) /\ r.id \in Seq(Symbols) /\ r.key \in Seq(Symbols)
        /\ r.line \in Seq(Symbols)
    BY PartsAreTexts, Zenon
  <1>2. f = FirstLine(r) /\ NUL \in Symbols
    BY Zenon DEF FirstLine, Symbols
  <1>3. n \in 0 .. 3
    BY PartsAreTexts, Zenon
  <1> DEFINE two == f \o <<LF>> \o r.id
             three == two \o <<LF>> \o r.key
             four == three \o <<LF>> \o r.line
             text == CASE n = 0 -> f [] n = 1 -> two [] n = 2 -> three [] n = 3 -> four
  <1>4. Render(r) = text \o <<NUL>>
    BY Zenon DEF Render
  <1> HIDE DEF f, n, two, three, four
  <1>10. /\ n = 0 => text = f
         /\ n = 1 => text = two
         /\ n = 2 => text = three
         /\ n = 3 => text = four
    OBVIOUS
  <1> HIDE DEF text
  <1>5. CASE n = 0
    <2>1. Render(r) = f \o <<NUL>>
      BY <1>4, <1>5, <1>10
    <2>2. /\ Len(Render(r)) = Len(f) + 1 /\ Render(r) \in Seq(Symbols)
          /\ \A k \in 1 .. Len(f) : Render(r)[k] = f[k]
          /\ Render(r)[Len(f) + 1] = NUL
      BY ONLY <1>1, <1>2, <2>1, OneMore
    <2>3. EndOfAll(r) = EndOfFirst(r) /\ StopOf(r, 1) = NUL /\ EndOfFirst(r) = Len(f) + 1
      BY <1>2, <1>5 DEF EndOfAll, StopOf, EndOfFirst, n
    <2>4. ~ n >= 1 /\ ~ n >= 2 /\ ~ n = 3
      BY <1>5
    <2> QED BY <1>2, <2>2, <2>3, <2>4, Zenon DEF n
  <1>6. CASE n = 1
    <2>1. Render(r) = f \o <<LF>> \o r.id \o <<NUL>>
      BY <1>4, <1>6, <1>10, Zenon DEF two
    <2>2. HasTwo(Render(r), FirstLine(r), r.id, NUL)
      BY <1>1, <1>2, <2>1, TwoJoined, Zenon
    <2>3. EndOfAll(r) = EndOfId(r) /\ StopOf(r, 1) = LF /\ StopOf(r, 2) = NUL
      BY <1>6 DEF EndOfAll, StopOf, n
    <2>4. ~ n >= 2 /\ ~ n = 3
      BY <1>6
    <2> QED BY <2>2, <2>3, <2>4, Zenon DEF HasTwo, EndOfFirst, EndOfId, n
  <1>7. CASE n = 2
    <2>1. Render(r) = f \o <<LF>> \o r.id \o <<LF>> \o r.key \o <<NUL>>
      BY <1>4, <1>7, <1>10, Zenon DEF two, three
    <2>2. HasThree(Render(r), FirstLine(r), r.id, r.key, NUL)
      BY <1>1, <1>2, <2>1, ThreeJoined, Zenon
    <2>3. /\ EndOfAll(r) = EndOfKey(r)
          /\ StopOf(r, 1) = LF /\ StopOf(r, 2) = LF /\ StopOf(r, 3) = NUL
      BY <1>7 DEF EndOfAll, StopOf, n
    <2>4. ~ n = 3
      BY <1>7
    <2> QED BY <2>2, <2>3, <2>4, Zenon DEF HasThree, EndOfFirst, EndOfId, EndOfKey, n
  <1>8. CASE n = 3
    <2>1. Render(r) = f \o <<LF>> \o r.id \o <<LF>> \o r.key \o <<LF>> \o r.line \o <<NUL>>
      BY <1>4, <1>8, <1>10, Zenon DEF two, three, four
    <2>2. HasLines(Render(r), FirstLine(r), r.id, r.key, r.line)
      BY <1>1, <1>2, <2>1, LinesJoined, Zenon
    <2>3. /\ EndOfAll(r) = EndOfKey(r) + Len(r.line) + 1
          /\ StopOf(r, 1) = LF /\ StopOf(r, 2) = LF /\ StopOf(r, 3) = LF
      BY <1>8 DEF EndOfAll, StopOf, n
    <2> QED BY <2>2, <2>3, Zenon DEF HasLines, EndOfFirst, EndOfId, EndOfKey
  <1>9. n = 0 \/ n = 1 \/ n = 2 \/ n = 3
    BY <1>3
  <1> QED BY <1>5, <1>6, <1>7, <1>8, <1>9, Zenon

LEMMA Offsets ==
  ASSUME NEW r \in Requests
  PROVE  /\ EndOfFirst(r) \in Nat /\ EndOfFirst(r) = Len(FirstLine(r)) + 1
         /\ EndOfId(r) \in Nat /\ EndOfId(r) = EndOfFirst(r) + Len(r.id) + 1
         /\ EndOfKey(r) \in Nat /\ EndOfKey(r) = EndOfId(r) + Len(r.key) + 1
         /\ EndOfAll(r) \in Nat
         /\ 1 <= EndOfFirst(r) /\ EndOfFirst(r) < EndOfId(r) /\ EndOfId(r) < EndOfKey(r)
         /\ EndOfFirst(r) <= EndOfAll(r)
         /\ r.newlines >= 1 => EndOfId(r) <= EndOfAll(r)
         /\ r.newlines >= 2 => EndOfKey(r) <= EndOfAll(r)
         /\ r.newlines = 3 => EndOfAll(r) = EndOfKey(r) + Len(r.line) + 1
  <1> DEFINE f == Len(FirstLine(r))
             i == Len(r.id)
             k == Len(r.key)
             l == Len(r.line)
             n == r.newlines
  <1>1. f \in Nat /\ i \in Nat /\ k \in Nat /\ l \in Nat /\ n \in 0 .. 3
    <2>1. /\ FirstLine(r) \in Texts /\ r.id \in Texts /\ r.key \in Texts /\ r.line \in Texts
          /\ n \in 0 .. 3
      BY PartsAreTexts, Zenon
    <2> QED BY <2>1, LenProperties DEF Texts
  <1>2. /\ EndOfFirst(r) = f + 1 /\ EndOfId(r) = EndOfFirst(r) + i + 1
        /\ EndOfKey(r) = EndOfId(r) + k + 1
    BY DEF EndOfFirst, EndOfId, EndOfKey
  <1>3. EndOfAll(r) = CASE n = 0 -> EndOfFirst(r)
                        [] n = 1 -> EndOfId(r)
                        [] n = 2 -> EndOfKey(r)
                        [] n = 3 -> EndOfKey(r) + l + 1
    BY Zenon DEF EndOfAll
  <1> HIDE DEF f, i, k, l, n
  <1>4. EndOfFirst(r) \in Nat /\ EndOfId(r) \in Nat /\ EndOfKey(r) \in Nat
    BY <1>1, <1>2
  <1>5. 1 <= EndOfFirst(r) /\ EndOfFirst(r) < EndOfId(r) /\ EndOfId(r) < EndOfKey(r)
    BY <1>1, <1>2
  <1>6. /\ EndOfAll(r) \in Nat /\ EndOfFirst(r) <= EndOfAll(r)
        /\ n >= 1 => EndOfId(r) <= EndOfAll(r)
        /\ n >= 2 => EndOfKey(r) <= EndOfAll(r)
        /\ n = 3 => EndOfAll(r) = EndOfKey(r) + l + 1
    BY <1>1, <1>3, <1>4, <1>5
  <1> QED BY <1>2, <1>4, <1>5, <1>6, Zenon DEF f, i, k, l, n

-----------------------------------------------------------------------------
(* The datagrams *)

States ==
    {"START", "READCLIENTDGRAMID", "READSECONDNEWLINE", "READCLIENTPASSWORD",
     "READTHIRDNEWLINE"}
    \cup {t[3] : t \in HeaderTransitions \cup CommandTransitions}
    \cup Refusals \cup StaticValues

Automata == [state : States, length : Nat, authorizationLength : Nat, onSuccess : StaticValues]

\* Whatever the character, the static variable holds a command or what it held.
LEMMA FeedKeeps ==
  ASSUME NEW q \in Automata, NEW c
  PROVE  Feed(q, c) \in Automata
  <1>1. /\ q.state \in States /\ q.length \in Nat /\ q.authorizationLength \in Nat
        /\ q.onSuccess \in StaticValues
    BY SMTT(30) DEF Automata
  <1>2. ASSUME NEW s \in States
        PROVE  /\ [q EXCEPT !.state = s] \in Automata
               /\ [q EXCEPT !.length = @ + 1, !.state = s] \in Automata
               /\ [q EXCEPT !.authorizationLength = @ + 1, !.state = s] \in Automata
    <2>1. [q EXCEPT !.state = s] \in Automata
      BY DEF Automata
    <2>2. q.length + 1 \in Nat /\ q.authorizationLength + 1 \in Nat
      BY <1>1
    <2>3. ASSUME NEW k \in Nat
          PROVE  /\ [q EXCEPT !.length = k, !.state = s] \in Automata
                 /\ [q EXCEPT !.authorizationLength = k, !.state = s] \in Automata
      BY Zenon DEF Automata
    <2> QED BY <2>1, <2>2, <2>3, Zenon
  <1>3. Refusal(q.state) \in States
    BY DEF Refusal, States, Refusals
  <1>4. ASSUME NEW s \in States PROVE Enter(q, s) \in Automata
    <2> DEFINE entered == IF s = "onSuccessCommandState" THEN q.onSuccess ELSE s
               held == IF s \in DOMAIN OnSuccess THEN OnSuccess[s] ELSE q.onSuccess
    <2>1. entered \in States
      BY <1>1 DEF States
    <2>2. held \in StaticValues
      BY <1>1 DEF StaticValues
    <2>3. Enter(q, s) = [q EXCEPT !.state = entered, !.onSuccess = held]
      BY SMTT(30) DEF Enter
    <2> HIDE DEF entered, held
    <2> QED BY <2>1, <2>2, <2>3, Zenon DEF Automata
  <1>5. ReadId(q, c) \in Automata
    BY <1>2, <1>3, ZenonT(60) DEF ReadId, States
  <1>6. ReadKey(q, c) \in Automata
    BY <1>2, <1>3, Zenon DEF ReadKey, States
  <1>7. ASSUME \E t \in From(q.state) : c \in t[2]
        PROVE  Enter(q, (CHOOSE t \in From(q.state) : c \in t[2])[3]) \in Automata
    <2> DEFINE t == CHOOSE x \in From(q.state) : c \in x[2]
    <2>1. t \in From(q.state)
      BY <1>7
    <2> HIDE DEF t
    <2>2. t[3] \in States
      BY <2>1 DEF From, States
    <2>3. Enter(q, t[3]) \in Automata
      BY <1>4, <2>2, SMTT(30)
    <2> QED BY <2>3 DEF t
  <1>8. [q EXCEPT !.state = Refusal(q.state)] \in Automata
    BY <1>2, <1>3, Zenon
  <1> QED BY <1>5, <1>6, <1>7, <1>8 DEF Feed, ParseMp3pCharacter

\* The automaton is run over the whole datagram.
LEMMA RunIterates ==
  ASSUME NEW r \in Requests, NEW held \in StaticValues
  PROVE  \E g : /\ ParseLoop!Iterates(g, StartOf(held), Render(r), 0, EndOfAll(r))
                /\ RunAutomaton(Render(r), held) = g[EndOfAll(r)]
  <1> DEFINE dgram == Render(r)
             n == EndOfAll(r)
             f == CHOOSE g : g = [i \in 0 .. Len(dgram) |->
                     IF i = 0 THEN StartOf(held) ELSE Feed(g[i - 1], dgram[i])]
  <1>1. n \in Nat /\ n = Len(dgram)
    BY Places, Offsets
  <1> HIDE DEF dgram, n
  <1>2. RunAutomaton(dgram, held) = f[n]
    BY <1>1 DEF RunAutomaton
  <1>3. \E g : ParseLoop!Iterates(g, StartOf(held), dgram, 0, n)
    <2>1. 0 \in Nat /\ n \in Nat /\ 0 <= n
      BY <1>1
    <2> QED BY ONLY <2>1, ParseLoop!IterationExists, Zenon
  <1>4. \E g : g = [i \in 0 .. Len(dgram) |->
                      IF i = 0 THEN StartOf(held) ELSE Feed(g[i - 1], dgram[i])]
    BY <1>1, <1>3 DEF ParseLoop!Iterates
  <1>5. f = [i \in 0 .. Len(dgram) |->
               IF i = 0 THEN StartOf(held) ELSE Feed(f[i - 1], dgram[i])]
    BY <1>4
  <1> HIDE DEF f
  <1>6. ParseLoop!Iterates(f, StartOf(held), dgram, 0, n)
    BY <1>1, <1>5 DEF ParseLoop!Iterates
  <1> QED BY <1>2, <1>6 DEF dgram, n

LEMMA DatagramKeeps ==
  ASSUME NEW r \in Requests, NEW residue, NEW held \in StaticValues
  PROVE  ParseDatagram(Render(r), residue, held).onSuccess \in StaticValues
  <1> DEFINE dgram == Render(r)
             n == EndOfAll(r)
  <1>1. PICK g : /\ ParseLoop!Iterates(g, StartOf(held), dgram, 0, n)
                 /\ RunAutomaton(dgram, held) = g[n]
    BY RunIterates
  <1>2. StartOf(held) \in Automata
    BY DEF StartOf, Automata, States
  <1>3. 0 \in Nat /\ n \in Nat /\ 0 <= n
    BY Offsets
  <1>4. \A x \in Automata, i \in 0 + 1 .. n : Feed(x, dgram[i]) \in Automata
    BY FeedKeeps
  <1> HIDE DEF dgram, n
  <1>5. g[n] \in Automata
    BY ONLY <1>1, <1>2, <1>3, <1>4, ParseLoop!IterationKeeps
  <1>6. RunAutomaton(dgram, held).onSuccess \in StaticValues
    BY <1>1, <1>5 DEF Automata
  <1>7. ParseDatagram(dgram, residue, held).onSuccess = RunAutomaton(dgram, held).onSuccess
    BY DEF ParseDatagram
  <1> QED BY <1>6, <1>7 DEF dgram

\* The commands that change the list: each changes the entry of one user.
Replaced(nodes, others, u, e) ==
    \A v : EntryOf(others, v) = IF v = u THEN e ELSE EntryOf(nodes, v)

LEMMA CommandReplaces ==
  ASSUME NEW held \in StaticValues, NEW r \in Requests, NEW residue \in Residues,
         users \in Table, NEW command, NEW args, NEW others,
         command = ParseDatagram(Render(r), residue, held).command,
         args = ParseDatagram(Render(r), residue, held).data,
         others = UsersAfter(command, args)
  PROVE  LET n == args.username
             p == args.password
             given == EntryIn(p, EntryOf(users, n).connected)
         IN  /\ others \in Table
             /\ command = "DGRAM_AU_COMMAND" =>
                  n \in Users /\ p \in Passwords /\ Replaced(users, others, n, given)
             /\ command = "DGRAM_MP_COMMAND" =>
                  /\ n \in Users /\ p \in Passwords
                  /\ IF UserExists(users, n) THEN Replaced(users, others, n, given)
                                             ELSE others = users
             /\ command = "DGRAM_DU_COMMAND" =>
                  n \in Users /\ Replaced(users, others, n, NoEntry)
             /\ command \notin {"DGRAM_AU_COMMAND", "DGRAM_MP_COMMAND", "DGRAM_DU_COMMAND"}
                  => others = users
  <1> DEFINE n == args.username
             p == args.password
             given == EntryIn(p, EntryOf(users, n).connected)
             inserted == InsertUserNode(users, n, p)
             modified == ModifyUserPassword(users, n, p)
  <1>1. /\ command \in {"DGRAM_AU_COMMAND", "DGRAM_MP_COMMAND", "DGRAM_DU_COMMAND"}
               => n \in Users
        /\ command \in {"DGRAM_AU_COMMAND", "DGRAM_MP_COMMAND"} => p \in Passwords
    BY RequestsAssumption
  <1> HIDE DEF n, p
  <1>2. ASSUME n \in Users, p \in Passwords, UserExists(users, n)
        PROVE  modified \in Table /\ inserted = users /\ Replaced(users, modified, n, given)
    <2>1. inserted = users
      BY <1>2, InsertKeeps, Zenon
    <2>2. /\ modified \in Table
          /\ \A v : EntryOf(modified, v) = IF v = n THEN EntryIn(p, EntryOf(users, n).connected)
                                                   ELSE EntryOf(users, v)
      BY <1>2, ModifyKeeps
    <2> HIDE DEF inserted, modified
    <2> QED BY <2>1, <2>2 DEF Replaced
  <1>3. ASSUME n \in Users, p \in Passwords, ~ UserExists(users, n)
        PROVE  /\ inserted \in Table /\ inserted # users /\ modified = users
               /\ Replaced(users, inserted, n, given)
    <2>1. EntryOf(users, n).connected = FALSE
      <3>1. EntryOf(users, n) = NoEntry
        BY <1>3, NodeOrNone, EntryOfNone
      <3> QED BY <3>1 DEF NoEntry, EntryIn
    <2>2. modified = users
      BY <1>3, ModifyKeeps
    <2>3. /\ inserted \in Table /\ inserted # users
          /\ \A v : EntryOf(inserted, v) = IF v = n THEN EntryIn(p, FALSE)
                                                   ELSE EntryOf(users, v)
      BY <1>3, InsertKeeps, Zenon
    <2> HIDE DEF inserted, modified
    <2> QED BY <2>1, <2>2, <2>3, Zenon DEF Replaced
  <1>4. CASE command = "DGRAM_AU_COMMAND"
    <2>1. others = IF inserted # users THEN inserted ELSE modified
      BY <1>4 DEF UsersAfter, n, p
    <2> HIDE DEF inserted, modified, given
    <2>2. others \in Table /\ Replaced(users, others, n, given)
      BY <1>1, <1>2, <1>3, <1>4, <2>1
    <2> QED BY <1>1, <1>4, <2>2 DEF n, p, given
  <1>5. CASE command = "DGRAM_MP_COMMAND"
    <2>1. others = modified
      BY <1>5 DEF UsersAfter, n, p
    <2> HIDE DEF inserted, modified, given
    <2>2. /\ others \in Table
          /\ IF UserExists(users, n) THEN Replaced(users, others, n, given) ELSE others = users
      BY <1>1, <1>2, <1>3, <1>5, <2>1
    <2> QED BY <1>1, <1>5, <2>2 DEF n, p, given
  <1>6. CASE command = "DGRAM_DU_COMMAND"
    <2>1. others = DeleteUserNode(users, n)
      BY <1>6 DEF UsersAfter, n
    <2>2. others \in Table /\ Replaced(users, others, n, NoEntry)
      BY <2>1, DeleteKeeps DEF Replaced
    <2> QED BY <1>1, <1>6, <2>2 DEF n
  <1>7. CASE command \notin {"DGRAM_AU_COMMAND", "DGRAM_MP_COMMAND", "DGRAM_DU_COMMAND"}
    BY <1>7 DEF UsersAfter
  <1> QED BY <1>4, <1>5, <1>6, <1>7

LEMMA CommandChanges ==
  ASSUME NEW held \in StaticValues, NEW r \in Requests, NEW residue \in Residues,
         users \in Table, NEW command, NEW args, NEW others,
         command = ParseDatagram(Render(r), residue, held).command,
         args = ParseDatagram(Render(r), residue, held).data,
         others = UsersAfter(command, args)
  PROVE  /\ others \in Table
         /\ \/ others = users
            \/ \E u \in Users, p \in Passwords :
                 Replaced(users, others, u, EntryIn(p, EntryOf(users, u).connected))
            \/ \E u \in Users : Replaced(users, others, u, NoEntry)
  <1> DEFINE n == args.username
             p == args.password
             given == EntryIn(p, EntryOf(users, n).connected)
  <1>1. /\ others \in Table
        /\ \/ others = users
           \/ n \in Users /\ p \in Passwords /\ Replaced(users, others, n, given)
           \/ n \in Users /\ Replaced(users, others, n, NoEntry)
    BY CommandReplaces
  <1> QED BY <1>1

-----------------------------------------------------------------------------
(* The invariant *)

Early == {"starting", "parsed", "exited", "crashed"}
Phases == Early \cup {"serving", "stopped", "aborted"}

Stats == [historic : 0 .. MaxConnections, concurrent : 0 .. MaxConnections,
          bytesTransfered : 0 .. MaxRequests, bytesRecieved : 0 .. MaxRequests]

\* What keeps the counters in their ranges: a connection that is open has been
\* counted, and so has a datagram that was answered.
Counted ==
    /\ stats \in Stats
    /\ stats.concurrent <= stats.historic
    /\ stats.bytesTransfered <= stats.bytesRecieved

\* What the process still has of the command line.
Given ==
    /\ phase = "starting" => argv \in ArgumentLists
    /\ phase = "parsed" => \E a \in ArgumentLists : ArgumentsAccepted(a) /\ argv = ParseArgs(a)

IInv ==
    /\ phase \in Phases
    /\ users \in Table
    /\ Counted
    /\ onSuccess \in StaticValues
    /\ phase \in Early => users = <<>> /\ stats = CreateStatsInstance /\ exchange = <<>>
    /\ Given

LEMMA InitInv == Init => IInv
  <1> SUFFICES ASSUME Init PROVE IInv
    OBVIOUS
  <1>1. CreateStatsInstance \in Stats
    BY BoundAssumption DEF CreateStatsInstance, Stats
  <1>2. Counted
    BY <1>1 DEF Counted, CreateStatsInstance, Init
  <1>3. users \in Table /\ onSuccess \in StaticValues
    BY EmptyTable DEF Init, StaticValues
  <1> QED BY <1>2, <1>3 DEF IInv, Init, Phases, Early, Given

\* The steps of the process that is serving, when they leave the phase alone or end it.
LEMMA ServingInv ==
  ASSUME IInv, phase = "serving", phase' \in {"serving", "aborted"},
         users' \in Table, Counted', onSuccess' \in StaticValues
  PROVE  IInv'
  BY DEF IInv, Phases, Early, Given

LEMMA StartInv == IInv /\ Start => IInv'
  <1> SUFFICES ASSUME IInv, Start PROVE IInv'
    OBVIOUS
  <1>1. /\ users' = users /\ stats' = stats /\ onSuccess' = onSuccess /\ exchange' = exchange
        /\ phase = "starting"
    BY DEF Start
  <1>2. phase' \in {"parsed", "exited"}
    BY DEF Start
  <1>3. Given'
    BY DEF Start, IInv, Given
  <1> QED BY <1>1, <1>2, <1>3 DEF IInv, Counted, Phases, Early

\* What FillList leaves is what initializeUserSingleton made.
LEMMA FillResult ==
  ASSUME IInv, FillList
  PROVE  \/ phase' = "crashed" /\ users' = <<>>
         \/ /\ phase' = "serving" /\ users' \in Table
            /\ \A i \in 1 .. Len(users') : users'[i].connected = FALSE
  <1>1. PICK a \in ArgumentLists : ArgumentsAccepted(a) /\ argv = ParseArgs(a)
    BY DEF IInv, Given, FillList
  <1> DEFINE filled == InitializeUserSingleton(argv)
  <1>2. filled \in Filled
    BY <1>1, FillKeeps
  <1>3. /\ phase' = IF filled.crashed THEN "crashed" ELSE "serving"
        /\ users' = IF filled.crashed THEN <<>> ELSE filled.list
    BY DEF FillList
  <1> HIDE DEF filled
  <1> QED BY <1>2, <1>3 DEF Filled

LEMMA FillListInv == IInv /\ FillList => IInv'
  <1> SUFFICES ASSUME IInv, FillList PROVE IInv'
    OBVIOUS
  <1>1. /\ stats' = stats /\ onSuccess' = onSuccess /\ exchange' = exchange
        /\ phase = "parsed"
    BY DEF FillList
  <1>2. Given' /\ phase' \in {"crashed", "serving"}
    BY FillResult, Zenon DEF Given
  <1>3. users' \in Table
    BY FillResult, EmptyTable, Zenon
  <1>4. phase' \in Early => users' = <<>>
    BY FillResult, Zenon DEF Early
  <1> QED BY <1>1, <1>2, <1>3, <1>4 DEF IInv, Counted, Phases, Early

\* What a datagram that was parsed does.
Handled(r, parsed) ==
    LET counted == AddRecievedBytes(stats, 1)
    IN  /\ onSuccess' = parsed.onSuccess
        /\ \/ /\ parsed.command = "DGRAMERROR"
              /\ exchange' = <<r, NoReply>> /\ stats' = counted
              /\ phase' = phase /\ users' = users
           \/ /\ parsed.command = "ABORT"
              /\ phase' = "aborted" /\ exchange' = <<r, NoReply>> /\ stats' = counted
              /\ users' = RemoveAllUserNodes
           \/ /\ parsed.command \notin {"DGRAMERROR", "ABORT"}
              /\ exchange' = <<r, ReplyOf(parsed.command, parsed.data, counted)>>
              /\ users' = UsersAfter(parsed.command, parsed.data)
              /\ \E sent \in {0, 1} : stats' = AddTransferedBytes(counted, sent)
              /\ phase' = phase

LEMMA RequestHandled ==
  ASSUME NEW r \in Requests, HandleUdpRequest(r)
  PROVE  /\ phase = "serving" /\ stats.bytesRecieved < MaxRequests /\ argv' = argv
         /\ \E residue \in Residues : Handled(r, ParseDatagram(Render(r), residue, onSuccess))
  <1> DEFINE parsings == {ParseDatagram(Render(r), residue, onSuccess) : residue \in Residues}
  <1>1. \E parsed \in parsings : Handled(r, parsed)
    BY Zenon DEF HandleUdpRequest, Handled
  <1>2. phase = "serving" /\ stats.bytesRecieved < MaxRequests /\ argv' = argv
    BY Zenon DEF HandleUdpRequest
  <1> QED BY <1>1, <1>2, Zenon

LEMMA HandleInv == ASSUME NEW r \in Requests PROVE IInv /\ HandleUdpRequest(r) => IInv'
  <1> SUFFICES ASSUME IInv, HandleUdpRequest(r) PROVE IInv'
    OBVIOUS
  <1> DEFINE counted == AddRecievedBytes(stats, 1)
  <1>1. PICK residue \in Residues :
          Handled(r, ParseDatagram(Render(r), residue, onSuccess))
    BY RequestHandled
  <1> DEFINE parsed == ParseDatagram(Render(r), residue, onSuccess)
  <1>2. /\ phase = "serving" /\ phase' \in {"serving", "aborted"}
        /\ stats.bytesRecieved < MaxRequests
        /\ onSuccess' \in StaticValues
    BY <1>1, DatagramKeeps, RequestHandled DEF IInv, Handled
  <1>3. /\ users' \in {users, RemoveAllUserNodes, UsersAfter(parsed.command, parsed.data)}
        /\ stats' = counted \/ \E sent \in {0, 1} : stats' = AddTransferedBytes(counted, sent)
    <2> HIDE DEF parsed, counted
    <2> QED BY <1>1, Zenon DEF Handled, parsed, counted
  <1>4. users' \in Table
    <2>1. UsersAfter(parsed.command, parsed.data) \in Table
      BY CommandChanges DEF IInv
    <2> HIDE DEF parsed
    <2> QED BY <1>3, <2>1, EmptyTable DEF IInv, RemoveAllUserNodes
  <1>5. stats' = counted \/ \E sent \in {0, 1} : stats' = AddTransferedBytes(counted, sent)
    BY <1>3
  <1> HIDE DEF parsed
  <1>6. /\ counted \in Stats /\ counted.concurrent <= counted.historic
        /\ counted.bytesTransfered + 1 <= counted.bytesRecieved
    BY <1>2, BoundAssumption DEF IInv, Counted, Stats, AddRecievedBytes
  <1>7. Counted'
    <2> HIDE DEF counted
    <2>1. ASSUME NEW sent \in {0, 1}, stats' = AddTransferedBytes(counted, sent)
          PROVE  Counted'
      BY <1>6, <2>1, BoundAssumption DEF Counted, Stats, AddTransferedBytes
    <2>2. CASE stats' = counted
      BY <1>6, <2>2, BoundAssumption DEF Counted, Stats
    <2> QED BY <1>5, <2>1, <2>2
  <1> QED BY <1>2, <1>4, <1>7, ServingInv

LEMMA EndInv == IInv /\ EndOfRequest => IInv'
  BY DEF EndOfRequest, IInv, Counted, Early, Phases, Given

\* The three actions of the sessions.
LEMMA SessionInv ==
  IInv /\ ((\E u \in Users : LogIn(u) \/ CloseSession(u)) \/ CountConnection) => IInv'
  <1>1. ASSUME IInv, NEW u \in Users, LogIn(u) \/ CloseSession(u) PROVE IInv'
    <2>1. /\ phase = "serving" /\ phase' = "serving" /\ onSuccess' = onSuccess
          /\ stats' = stats
          /\ users' = ToggleUserConnected(users, u, TRUE)
               \/ users' = ToggleUserConnected(users, u, FALSE)
      BY <1>1, Zenon DEF LogIn, CloseSession
    <2>2. users' \in Table
      BY <1>1, <2>1, ToggleKeeps, Zenon DEF IInv
    <2>3. Counted' /\ onSuccess' \in StaticValues
      BY <1>1, <2>1 DEF IInv, Counted
    <2> QED BY <1>1, <2>1, <2>2, <2>3, ServingInv, SMTT(30)
  <1>2. ASSUME IInv, CountConnection PROVE IInv'
    <2>1. /\ phase = "serving" /\ phase' = "serving" /\ onSuccess' = onSuccess
          /\ users' = users
      BY <1>2 DEF CountConnection
    <2>2. CASE stats.historic < MaxConnections /\ stats' = AddConcurrentConnection(stats)
      <3>1. /\ stats \in Stats /\ stats.concurrent <= stats.historic
            /\ stats.historic < MaxConnections /\ stats.bytesTransfered <= stats.bytesRecieved
        BY <1>2, <2>2 DEF IInv, Counted
      <3>2. /\ stats.historic + 1 \in 0 .. MaxConnections
            /\ stats.concurrent + 1 \in 0 .. MaxConnections
            /\ stats.concurrent + 1 <= stats.historic + 1
        BY <3>1, BoundAssumption DEF Stats
      <3>3. stats' = [stats EXCEPT !.concurrent = stats.concurrent + 1,
                                   !.historic = stats.historic + 1]
        BY <2>2 DEF AddConcurrentConnection
      <3>4. Counted'
        BY <3>1, <3>2, <3>3, Zenon DEF Counted, Stats
      <3> QED BY <1>2, <2>1, <3>4, ServingInv DEF IInv
    <2>3. CASE stats.concurrent > 0 /\ stats' = RemoveConcurrentConnection(stats)
      <3>1. Counted'
        BY <1>2, <2>3, BoundAssumption DEF IInv, Counted, Stats, RemoveConcurrentConnection
      <3> QED BY <1>2, <2>1, <3>1, ServingInv DEF IInv
    <2> QED BY <1>2, <2>2, <2>3 DEF CountConnection
  <1> QED BY <1>1, <1>2

LEMMA TerminateInv == IInv /\ Terminate => IInv'
  BY EmptyTable DEF Terminate, RemoveAllUserNodes, IInv, Counted, Early, Phases, Given

LEMMA NextInv == IInv /\ [Next]_vars => IInv'
  <1>1. IInv /\ UNCHANGED vars => IInv'
    BY DEF vars, IInv, Counted, Given
  <1> QED BY <1>1, StartInv, FillListInv, HandleInv, EndInv, SessionInv, TerminateInv DEF Next

LEMMA Invariance == Spec => []IInv
  BY InitInv, NextInv, PTL DEF Spec

-----------------------------------------------------------------------------
(* The theorems *)

\* Every variable of the start and of the monitor holds a value of its type, in any
\* sequence of datagrams, sessions and connections: a counter of statistics never
\* goes below zero, and the static variable of the automaton only ever holds zero
\* or a command that changes the list.
THEOREM ListIsTyped == Spec => []TypeOK
  <1>1. IInv => TypeOK
    <2> SUFFICES ASSUME IInv PROVE TypeOK
      OBVIOUS
    <2>1. \A i \in DOMAIN users :
            users[i] \in [name : Users, password : Passwords, connected : BOOLEAN]
      BY TableElements DEF IInv, Nodes
    <2> QED BY <2>1 DEF IInv, TypeOK, Phases, Early, Counted, Stats
  <1> QED BY <1>1, Invariance, PTL

\* validPassword, which compares name and password of every node, accepts for a user
\* the password of the node that the other functions of users.c work on, and no
\* other: in no behaviour does a name have a second node.
THEOREM OnePasswordPerUser == Spec => []PasswordIsTheUsers
  <1>1. IInv => PasswordIsTheUsers
    <2> SUFFICES ASSUME IInv, NEW u \in Users, NEW p \in Passwords
                 PROVE  ValidPassword(users, u, p) <=> EntryOf(users, u).password = p
      BY DEF PasswordIsTheUsers
    <2>1. users \in Table /\ DOMAIN users = 1 .. Len(users)
      BY TableElements DEF IInv
    <2>2. CASE \E i \in 1 .. Len(users) : users[i].name = u
      <3>1. PICK i \in 1 .. Len(users) : users[i].name = u
        BY <2>2
      <3>2. EntryOf(users, u).password = users[i].password
        <4>1. EntryOf(users, u) = EntryIn(users[i].password, users[i].connected)
          BY <2>1, <3>1, EntryOfNode
        <4> QED BY <4>1 DEF EntryIn
      <3>3. \A j \in 1 .. Len(users) : users[j].name = u <=> j = i
        BY <2>1, <3>1, TableElements
      <3> QED BY <2>1, <3>1, <3>2, <3>3 DEF ValidPassword
    <2>3. CASE ~ \E i \in 1 .. Len(users) : users[i].name = u
      <3>1. EntryOf(users, u) = NoEntry
        BY <2>1, <2>3, EntryOfNone
      <3>2. EntryOf(users, u).password # p
        BY <3>1, BoundAssumption DEF NoEntry, EntryIn
      <3> QED BY <2>1, <2>3, <3>2 DEF ValidPassword
    <2> QED BY <2>2, <2>3
  <1> QED BY <1>1, Invariance, PTL

-----------------------------------------------------------------------------
(* What the arguments of -u become *)

LEMMA LeastIs ==
  ASSUME NEW S \in SUBSET Nat, NEW m \in S, \A y \in S : m <= y
  PROVE  Min(S) = m
  <1>1. ASSUME NEW x \in S, \A y \in S : x <= y PROVE x = m
    <2>1. x \in Nat /\ m \in Nat /\ x <= m /\ m <= x
      BY <1>1
    <2> QED BY <2>1
  <1>2. \A x : (x \in S /\ \A y \in S : x <= y) <=> x = m
    BY <1>1, Zenon
  <1> QED BY <1>2 DEF Min

\* strtok makes two tokens of an argument with one colon inside it.
LEMMA TwoTokens ==
  ASSUME NEW a \in Texts, IsUserArgument(a)
  PROVE  /\ Len(Tokens(a)) = 2
         /\ Tokens(a)[1] = NameIn(a)
         /\ Last(Tokens(a)) = PasswordIn(a)
  <1> DEFINE starts == {i \in DOMAIN a : a[i] # Colon /\ (i > 1 => a[i - 1] = Colon)}
             upTo(i) == {j \in starts : j <= i}
             nth(n) == CHOOSE i \in starts : Cardinality(upTo(i)) = n
             run(i) == {j \in i .. Len(a) : \A k \in i .. j : a[k] # Colon}
             token(n) == SubSeq(a, nth(n), nth(n) + Cardinality(run(nth(n))) - 1)
  <1>1. Len(a) \in Nat /\ DOMAIN a = 1 .. Len(a)
    BY LenProperties DEF Texts
  <1>2. PICK c \in 2 .. Len(a) - 1 : \A j \in 1 .. Len(a) : a[j] = Colon <=> c = j
    BY <1>1 DEF IsUserArgument
  <1>3. c \in Nat /\ 1 < c /\ c < Len(a)
    BY <1>1
  <1>4. NameIn(a) = SubSeq(a, 1, c - 1) /\ PasswordIn(a) = SubSeq(a, c + 1, Len(a))
    <2> DEFINE colons == {j \in 1 .. Len(a) : a[j] = Colon}
    <2>1. colons = {c}
      BY <1>2, <1>3
    <2>2. SelectInSeq(a, LAMBDA x : x = Colon) = IF colons # {} THEN Min(colons) ELSE 0
      BY DEF SelectInSeq
    <2>3. Min({c}) = c
      BY DEF Min
    <2> HIDE DEF colons
    <2>4. SelectInSeq(a, LAMBDA x : x = Colon) = c
      BY <2>1, <2>2, <2>3
    <2> QED BY <2>4, Zenon DEF NameIn, PasswordIn
  <1>5. starts = {1, c + 1}
    <2>1. ASSUME NEW i \in 1 .. Len(a)
          PROVE  (a[i] # Colon /\ (i > 1 => a[i - 1] = Colon)) <=> i = 1 \/ i = c + 1
      <3>1. i > 1 => (a[i - 1] = Colon <=> c = i - 1)
        BY <1>1, <1>2
      <3> QED BY <1>2, <1>3, <3>1
    <2>2. 1 \in 1 .. Len(a) /\ c + 1 \in 1 .. Len(a)
      BY <1>1, <1>3
    <2> QED BY <1>1, <2>1, <2>2
  <1>6. Tokens(a) = [n \in 1 .. Cardinality(starts) |-> token(n)]
    BY Zenon DEF Tokens
  <1> HIDE DEF starts
  <1>7. IsFiniteSet({1}) /\ Cardinality({1}) = 1
    BY FS_Singleton, Zenon
  <1>8. Cardinality({1, c + 1}) = 2
    <2>1. c + 1 \notin {1} /\ {1} \cup {c + 1} = {1, c + 1}
      BY <1>3
    <2>2. Cardinality({1} \cup {c + 1}) = Cardinality({1}) + 1
      <3>1. \A x : x \notin {1} => Cardinality({1} \cup {x}) = Cardinality({1}) + 1
        BY <1>7, FS_AddElement, Zenon
      <3> QED BY <2>1, <3>1, Zenon
    <2>3. Cardinality({1, c + 1}) = Cardinality({1}) + 1
      BY <2>1, <2>2, Zenon
    <2>4. Cardinality({1}) = 1
      BY <1>7
    <2> QED BY ONLY <2>3, <2>4
  <1>9. Cardinality(upTo(1)) = 1 /\ Cardinality(upTo(c + 1)) = 2
    <2>1. upTo(1) = {1} /\ upTo(c + 1) = {1, c + 1}
      BY <1>3, <1>5
    <2> QED BY <1>7, <1>8, <2>1, Zenon
  <1>10. nth(1) = 1 /\ nth(2) = c + 1
    <2>1. \A i \in starts : i = 1 \/ i = c + 1
      BY <1>5
    <2>2. 1 \in starts /\ c + 1 \in starts
      BY <1>5
    <2> HIDE DEF upTo
    <2>3. \A i \in starts : (Cardinality(upTo(i)) = 1 <=> i = 1)
                            /\ (Cardinality(upTo(i)) = 2 <=> i = c + 1)
      BY <1>3, <1>9, <2>1
    <2>4. (CHOOSE i \in starts : Cardinality(upTo(i)) = 1) = 1
      BY <2>2, <2>3
    <2>5. (CHOOSE i \in starts : Cardinality(upTo(i)) = 2) = c + 1
      BY <2>2, <2>3
    <2> QED BY <2>4, <2>5
  <1>11. Cardinality(run(1)) = c - 1 /\ Cardinality(run(c + 1)) = Len(a) - c
    <2>1. run(1) = 1 .. c - 1
      <3>1. ASSUME NEW j \in 1 .. Len(a)
            PROVE  (\A k \in 1 .. j : a[k] # Colon) <=> j <= c - 1
        BY <1>1, <1>2, <1>3
      <3> QED BY <1>1, <1>3, <3>1
    <2>2. run(c + 1) = c + 1 .. Len(a)
      BY <1>1, <1>2, <1>3
    <2>3. Cardinality(1 .. c - 1) = c - 1
      <3>1. c - 1 \in Int /\ ~ (1 > c - 1) /\ (c - 1) - 1 + 1 = c - 1
        BY <1>3
      <3>2. Cardinality(1 .. c - 1) = IF 1 > c - 1 THEN 0 ELSE (c - 1) - 1 + 1
        BY <3>1, FS_Interval
      <3> QED BY <3>1, <3>2
    <2>4. Cardinality(c + 1 .. Len(a)) = Len(a) - c
      <3>1. /\ c + 1 \in Int /\ Len(a) \in Int
            /\ ~ (c + 1 > Len(a)) /\ Len(a) - (c + 1) + 1 = Len(a) - c
        BY <1>1, <1>3
      <3>2. Cardinality(c + 1 .. Len(a)) = IF c + 1 > Len(a) THEN 0 ELSE Len(a) - (c + 1) + 1
        BY <3>1, FS_Interval
      <3> QED BY <3>1, <3>2
    <2> QED BY <2>1, <2>2, <2>3, <2>4, Zenon
  <1>12. token(1) = NameIn(a) /\ token(2) = PasswordIn(a)
    <2> HIDE DEF nth, run
    <2>1. 1 + (c - 1) - 1 = c - 1 /\ (c + 1) + (Len(a) - c) - 1 = Len(a)
      BY <1>1, <1>3
    <2> QED BY <1>4, <1>10, <1>11, <2>1, Zenon
  <1> HIDE DEF token
  <1>13. Tokens(a) = [n \in 1 .. 2 |-> token(n)]
    BY <1>5, <1>6, <1>8
  <1>14. Len(Tokens(a)) = 2 /\ Tokens(a)[1] = token(1) /\ Tokens(a)[2] = token(2)
    BY <1>13
  <1> QED BY <1>12, <1>14 DEF Last

\* The arguments for the name among the first k, and the password of the first one.
NamedBy(names, u, k) == {n \in 1 .. k : NameIn(names[n]) = u}

PasswordGiven(names, u, k) ==
    IF NamedBy(names, u, k) = {} THEN NoPassword
    ELSE PasswordIn(names[Min(NamedBy(names, u, k))])

\* Every argument is a name and a password of those there are.
Proper(names) ==
    /\ names \in Seq(Texts)
    /\ \A n \in 1 .. Len(names) :
         /\ IsUserArgument(names[n])
         /\ NameIn(names[n]) \in Users /\ PasswordIn(names[n]) \in Passwords

\* What initializeUserSingleton has made of the first k of such arguments.
FilledBy(names, k) ==
    {f \in Filled :
        /\ f.crashed = FALSE
        /\ \A u \in Users : EntryOf(f.list, u).password = PasswordGiven(names, u, k)}

\* One argument more: the password of its name is given now, unless it was before.
LEMMA OneNameMore ==
  ASSUME NEW names, Proper(names), NEW k \in 1 .. Len(names), NEW u
  PROVE  /\ u # NameIn(names[k]) => PasswordGiven(names, u, k) = PasswordGiven(names, u, k - 1)
         /\ PasswordGiven(names, u, k - 1) # NoPassword =>
              PasswordGiven(names, u, k) = PasswordGiven(names, u, k - 1)
         /\ u = NameIn(names[k]) /\ PasswordGiven(names, u, k - 1) = NoPassword =>
              PasswordGiven(names, u, k) = PasswordIn(names[k])
  <1> DEFINE before == NamedBy(names, u, k - 1)
             after == NamedBy(names, u, k)
  <1>1. Len(names) \in Nat
    BY LenProperties DEF Proper
  <1>2. /\ before \in SUBSET Nat /\ after \in SUBSET Nat
        /\ \A n \in before : n < k /\ n \in 1 .. Len(names)
        /\ k \in Nat
    BY <1>1 DEF NamedBy
  <1>3. after = IF NameIn(names[k]) = u THEN before \cup {k} ELSE before
    BY <1>1 DEF NamedBy
  <1> HIDE DEF before, after
  <1>4. ASSUME before # {} PROVE Min(after) = Min(before) /\ after # {} /\ Min(before) \in before
    <2>1. FillLoop!Min(before) = Min(before)
      BY Zenon DEF Min, FillLoop!Min
    <2>2. Min(before) \in before /\ \A n \in before : Min(before) <= n
      BY <1>2, <1>4, <2>1, FillLoop!LeastExists
    <2>3. Min(before) \in after /\ \A n \in after : Min(before) <= n
      <3>1. Min(before) \in Nat /\ Min(before) < k
        BY <1>2, <2>2, Zenon
      <3> QED BY <1>2, <1>3, <2>2, <3>1
    <2>4. Min(after) = Min(before)
      BY ONLY <1>2, <2>3, LeastIs, Zenon
    <2> QED BY <2>2, <2>3, <2>4
  <1>5. PasswordGiven(names, u, k) = IF after = {} THEN NoPassword
                                     ELSE PasswordIn(names[Min(after)])
    BY DEF PasswordGiven, after
  <1>6. PasswordGiven(names, u, k - 1) = IF before = {} THEN NoPassword
                                         ELSE PasswordIn(names[Min(before)])
    BY DEF PasswordGiven, before
  <1>7. CASE before # {}
    <2>1. PasswordGiven(names, u, k) = PasswordGiven(names, u, k - 1)
      BY <1>4, <1>5, <1>6, <1>7
    <2>2. PasswordGiven(names, u, k - 1) \in Passwords
      BY <1>2, <1>4, <1>6, <1>7, Zenon DEF Proper
    <2> QED BY <2>1, <2>2, BoundAssumption
  <1>8. CASE before = {}
    <2>1. PasswordGiven(names, u, k - 1) = NoPassword
      BY <1>6, <1>8
    <2>2. CASE NameIn(names[k]) = u
      <3>1. after = {k}
        BY <1>3, <1>8, <2>2
      <3>2. Min({k}) = k
        BY DEF Min
      <3> QED BY <1>5, <2>1, <2>2, <3>1, <3>2
    <2>3. CASE NameIn(names[k]) # u
      BY <1>3, <1>5, <1>8, <2>1, <2>3
    <2> QED BY <2>2, <2>3
  <1> QED BY <1>7, <1>8

LEMMA ArgumentAdded ==
  ASSUME NEW names, Proper(names), NEW k \in 1 .. Len(names), NEW f \in FilledBy(names, k - 1)
  PROVE  AddArgument(f, names[k]) \in FilledBy(names, k)
  <1> DEFINE arg == names[k]
             n == NameIn(arg)
             p == PasswordIn(arg)
             inserted == InsertUserNode(f.list, n, p)
             tokens == Tokens(arg)
  <1>1. /\ arg \in Texts /\ IsUserArgument(arg) /\ n \in Users /\ p \in Passwords
    BY ElementOfSeq DEF Proper
  <1>2. /\ f \in Filled /\ f.list \in Table /\ f.crashed = FALSE
        /\ \A u \in Users : EntryOf(f.list, u).password = PasswordGiven(names, u, k - 1)
    BY DEF FilledBy, Filled
  <1>3. Len(tokens) = 2 /\ tokens[1] = n /\ Last(tokens) = p
    BY <1>1, TwoTokens
  <1>4. tokens # <<>>
    BY <1>3
  <1> HIDE DEF n, p, tokens, arg
  <1>5. AddArgument(f, arg) \in Filled
    BY <1>1, <1>2, <1>3, AddArgumentKeeps DEF tokens
  <1>6. AddArgument(f, arg) = [f EXCEPT !.list = inserted]
    BY <1>2, <1>3, <1>4 DEF AddArgument, tokens
  <1>7. AddArgument(f, arg).list = inserted /\ AddArgument(f, arg).crashed = FALSE
    BY <1>2, <1>6 DEF Filled
  <1>8. ASSUME NEW u \in Users
        PROVE  EntryOf(inserted, u).password = PasswordGiven(names, u, k)
    <2>1. /\ u # n => PasswordGiven(names, u, k) = PasswordGiven(names, u, k - 1)
          /\ PasswordGiven(names, u, k - 1) # NoPassword =>
               PasswordGiven(names, u, k) = PasswordGiven(names, u, k - 1)
          /\ u = n /\ PasswordGiven(names, u, k - 1) = NoPassword =>
               PasswordGiven(names, u, k) = p
      BY OneNameMore DEF n, p, arg
    <2>2. CASE UserExists(f.list, n)
      <3>1. inserted = f.list
        BY <2>2 DEF InsertUserNode
      <3>2. EntryOf(f.list, n).password # NoPassword
        <4>1. PICK i \in 1 .. Len(f.list) : f.list[i].name = n
          BY <1>2, <2>2, NodeOrNone
        <4>2. EntryOf(f.list, n) = EntryIn(f.list[i].password, f.list[i].connected)
          BY <1>2, <4>1, EntryOfNode
        <4>3. f.list[i].password \in Passwords
          BY <1>2, TableElements
        <4> QED BY <4>2, <4>3, BoundAssumption DEF EntryIn
      <3> QED BY <1>1, <1>2, <2>1, <3>1, <3>2
    <2>3. CASE ~ UserExists(f.list, n)
      <3>1. \A v : EntryOf(inserted, v) = IF v = n THEN EntryIn(p, FALSE) ELSE EntryOf(f.list, v)
        BY <1>1, <1>2, <2>3, InsertKeeps, Zenon
      <3>2. EntryOf(f.list, n).password = NoPassword
        <4>1. EntryOf(f.list, n) = NoEntry
          BY <1>2, <2>3, NodeOrNone, EntryOfNone
        <4> QED BY <4>1 DEF NoEntry, EntryIn
      <3>3. EntryIn(p, FALSE).password = p
        BY DEF EntryIn
      <3> HIDE DEF inserted
      <3> QED BY <1>1, <1>2, <2>1, <3>1, <3>2, <3>3, Zenon
    <2> QED BY <2>2, <2>3
  <1> QED BY <1>5, <1>7, <1>8 DEF FilledBy, arg

LEMMA ListOfTheArguments ==
  ASSUME NEW names, Proper(names)
  PROVE  InitializeUserSingleton(names) \in FilledBy(names, Len(names))
  <1> DEFINE start == [list |-> <<>>, crashed |-> FALSE]
             T == [k \in 0 .. Len(names) |-> FilledBy(names, k)]
  <1>1. names \in Seq(Texts) /\ Len(names) \in Nat
    BY LenProperties DEF Proper
  <1>2. start \in FilledBy(names, 0)
    <2>1. start \in Filled
      BY EmptyTable DEF Filled
    <2>2. ASSUME NEW u
          PROVE  EntryOf(start.list, u).password = PasswordGiven(names, u, 0)
      <3>1. NamedBy(names, u, 0) = {}
        BY DEF NamedBy
      <3>2. EntryOf(start.list, u) = NoEntry
        BY EmptyTable
      <3> QED BY <3>1, <3>2 DEF PasswordGiven, NoEntry, EntryIn
    <2> QED BY <2>1, <2>2 DEF FilledBy
  <1> HIDE DEF start
  <1>3. start \in T[0]
    BY <1>1, <1>2
  <1>4. \A k \in 1 .. Len(names) : \A x \in T[k - 1] : AddArgument(x, names[k]) \in T[k]
    <2> SUFFICES ASSUME NEW k \in 1 .. Len(names), NEW x \in T[k - 1]
                 PROVE  AddArgument(x, names[k]) \in T[k]
      BY Zenon
    <2>1. T[k - 1] = FilledBy(names, k - 1) /\ T[k] = FilledBy(names, k)
      BY <1>1
    <2> HIDE DEF T
    <2> QED BY <2>1, ArgumentAdded
  <1>5. T[Len(names)] = FilledBy(names, Len(names))
    BY <1>1
  <1> HIDE DEF T
  <1>6. FillLoop!FoldLeft(AddArgument, start, names) \in T[Len(names)]
    BY ONLY <1>1, <1>3, <1>4, FillLoop!FoldReaches, Zenon
  <1>7. FoldLeft(AddArgument, start, names) = FillLoop!FoldLeft(AddArgument, start, names)
    BY Zenon DEF FoldLeft, FillLoop!FoldLeft, MapThenFoldSet, FillLoop!MapThenFoldSet,
                 Max, FillLoop!Max
  <1>8. InitializeUserSingleton(names) = FoldLeft(AddArgument, start, names)
    BY DEF InitializeUserSingleton, start
  <1> QED BY <1>5, <1>6, <1>7, <1>8

LEMMA FillGivesUsers ==
  ASSUME IInv, FillList, \A n \in DOMAIN argv : IsUserArgument(argv[n])
  PROVE  /\ phase' = "serving"
         /\ \A u \in Users : EntryOf(users', u).password = PasswordGiven(argv, u, Len(argv))
  <1>1. PICK a \in ArgumentLists : ArgumentsAccepted(a) /\ argv = ParseArgs(a)
    BY DEF IInv, Given, FillList
  <1>2. argv \in Seq(Texts) /\ DOMAIN argv = 1 .. Len(argv)
    BY <1>1, ParsedArguments, LenProperties
  <1>3. Proper(argv)
    <2> SUFFICES ASSUME NEW n \in 1 .. Len(argv)
                 PROVE  /\ IsUserArgument(argv[n])
                        /\ NameIn(argv[n]) \in Users /\ PasswordIn(argv[n]) \in Passwords
      BY <1>2 DEF Proper
    <2>1. argv[n] \in Texts /\ IsUserArgument(argv[n])
      BY <1>2, ElementOfSeq
    <2> DEFINE tokens == Tokens(argv[n])
    <2>2. Len(tokens) = 2 /\ tokens[1] = NameIn(argv[n]) /\ Last(tokens) = PasswordIn(argv[n])
      BY <2>1, TwoTokens
    <2>3. Len(tokens) >= 2 => tokens[1] \in Users /\ Last(tokens) \in Passwords
      BY <1>1, <1>2, ArgumentsAssumption
    <2> HIDE DEF tokens
    <2> QED BY <2>1, <2>2, <2>3
  <1> DEFINE filled == InitializeUserSingleton(argv)
  <1>4. filled \in FilledBy(argv, Len(argv))
    BY <1>3, ListOfTheArguments
  <1>5. /\ phase' = IF filled.crashed THEN "crashed" ELSE "serving"
        /\ users' = IF filled.crashed THEN <<>> ELSE filled.list
    BY DEF FillList
  <1> HIDE DEF filled
  <1> QED BY <1>4, <1>5 DEF FilledBy

\* A command line whose -u arguments all are a name, a colon and a password starts
\* the server with these users and no others: strtok takes each apart at its colon,
\* and of the arguments for one name the first counts, insertUserNode refusing the
\* others.  This for command lines of any length.
THEOREM CommandLineBecomesUsers == Spec => ArgumentsBecomeUsers
  <1> DEFINE Becomes ==
        phase = "parsed" /\ (\A n \in DOMAIN argv : IsUserArgument(argv[n])) =>
          /\ phase' = "serving"
          /\ \A u \in Users :
               LET given == SelectInSeq(argv, LAMBDA a : NameIn(a) = u)
               IN  EntryOf(users', u).password =
                     IF given = 0 THEN NoPassword ELSE PasswordIn(argv[given])
  <1>1. ASSUME IInv, [Next]_vars PROVE [Becomes]_vars
    <2> SUFFICES ASSUME Next, phase = "parsed", \A n \in DOMAIN argv : IsUserArgument(argv[n])
                 PROVE  Becomes
      BY <1>1, Zenon DEF Becomes
    <2>1. FillList
      BY <1>1 DEF Next, Start, HandleUdpRequest, EndOfRequest, LogIn, CloseSession,
                  CountConnection, Terminate, IInv, Early
    <2>2. /\ phase' = "serving"
          /\ \A u \in Users : EntryOf(users', u).password = PasswordGiven(argv, u, Len(argv))
      BY <1>1, <2>1, FillGivesUsers
    <2>3. ASSUME NEW u \in Users
          PROVE  LET given == SelectInSeq(argv, LAMBDA a : NameIn(a) = u)
                 IN  EntryOf(users', u).password =
                       IF given = 0 THEN NoPassword ELSE PasswordIn(argv[given])
      <3> DEFINE named == NamedBy(argv, u, Len(argv))
                 given == SelectInSeq(argv, LAMBDA a : NameIn(a) = u)
      <3>1. given = IF named # {} THEN Min(named) ELSE 0
        BY DEF SelectInSeq, NamedBy
      <3>2. named # {} => Min(named) # 0
        <4>1. Min(named) = FillLoop!Min(named)
          BY Zenon DEF Min, FillLoop!Min
        <4>2. named \in SUBSET Nat /\ 0 \notin named
          BY DEF NamedBy
        <4> HIDE DEF named
        <4> QED BY <4>1, <4>2, FillLoop!LeastExists
      <3>3. EntryOf(users', u).password =
              IF named = {} THEN NoPassword ELSE PasswordIn(argv[Min(named)])
        BY <2>2 DEF PasswordGiven
      <3> HIDE DEF named, given
      <3>4. EntryOf(users', u).password =
              IF given = 0 THEN NoPassword ELSE PasswordIn(argv[given])
        BY <3>1, <3>2, <3>3
      <3> QED BY <3>4 DEF given
    <2> QED BY <2>2, <2>3, Zenon
  <1> QED BY <1>1, Invariance, PTL DEF Spec, ArgumentsBecomeUsers

-----------------------------------------------------------------------------
(* One character *)

\* The states that count characters, in the id and in the key.
Counting == {"READFIRSTNEWLINE", "READCLIENTDGRAMID", "READSECONDNEWLINE", "READCLIENTPASSWORD"}

\* What one character makes of the automaton: another state, perhaps another command
\* for the end of the arguments; the lengths stay.
Becomes(q, new, state, held) ==
    /\ new \in Automata /\ new.state = state /\ new.onSuccess = held
    /\ new.length = q.length /\ new.authorizationLength = q.authorizationLength

LEMMA Refused ==
  ASSUME NEW q \in Automata, NEW c, q.state \notin Refusals, q.state \notin Counting,
         \A t \in From(q.state) : c \notin t[2]
  PROVE  Becomes(q, Feed(q, c), Refusal(q.state), q.onSuccess)
  <1>1. Feed(q, c) = [q EXCEPT !.state = Refusal(q.state)]
    BY DEF Feed, ParseMp3pCharacter, Counting
  <1>2. Feed(q, c) \in Automata
    BY FeedKeeps
  <1> QED BY <1>1, <1>2 DEF Becomes, Automata

LEMMA Accepted ==
  ASSUME NEW q \in Automata, NEW c, q.state \notin Refusals, q.state \notin Counting,
         NEW t \in From(q.state), c \in t[2], \A u \in From(q.state) : c \in u[2] => u = t
  PROVE  Becomes(q, Feed(q, c),
                 IF t[3] = "onSuccessCommandState" THEN q.onSuccess ELSE t[3],
                 IF t[3] \in DOMAIN OnSuccess THEN OnSuccess[t[3]] ELSE q.onSuccess)
  <1>1. (CHOOSE u \in From(q.state) : c \in u[2]) = t
    OBVIOUS
  <1>2. Feed(q, c) = Enter(q, t[3])
    <2>1. q.state \notin {"READFIRSTNEWLINE", "READCLIENTDGRAMID"}
          /\ q.state \notin {"READSECONDNEWLINE", "READCLIENTPASSWORD"}
      BY DEF Counting
    <2>2. \E u \in From(q.state) : c \in u[2]
      OBVIOUS
    <2>3. ParseMp3pCharacter(q, c) = Enter(q, (CHOOSE u \in From(q.state) : c \in u[2])[3])
      BY <2>1, <2>2 DEF ParseMp3pCharacter
    <2> QED BY <1>1, <2>3 DEF Feed
  <1>3. Feed(q, c) \in Automata
    BY FeedKeeps
  <1> DEFINE state == IF t[3] = "onSuccessCommandState" THEN q.onSuccess ELSE t[3]
             held == IF t[3] \in DOMAIN OnSuccess THEN OnSuccess[t[3]] ELSE q.onSuccess
  <1>4. Enter(q, t[3]) = [q EXCEPT !.state = state, !.onSuccess = held]
    BY DEF Enter
  <1> HIDE DEF state, held
  <1>5. Becomes(q, Feed(q, c), state, held)
    BY <1>2, <1>3, <1>4 DEF Becomes, Automata
  <1> QED BY <1>5 DEF state, held

\* A state with one way on, and one with two.
LEMMA OneWay ==
  ASSUME NEW q \in Automata, NEW c, q.state \notin Refusals, q.state \notin Counting,
         NEW X, NEW s, From(q.state) = {<<q.state, X, s>>},
         s # "onSuccessCommandState", s \notin DOMAIN OnSuccess
  PROVE  Becomes(q, Feed(q, c), IF c \in X THEN s ELSE Refusal(q.state), q.onSuccess)
  <1> DEFINE t == <<q.state, X, s>>
  <1>1. CASE c \in X
    <2>1. t \in From(q.state) /\ t[2] = X /\ t[3] = s /\ \A u \in From(q.state) : u = t
      OBVIOUS
    <2> HIDE DEF t
    <2> QED BY <1>1, <2>1, Accepted
  <1>2. CASE c \notin X
    <2>1. \A u \in From(q.state) : u[2] = X
      OBVIOUS
    <2> QED BY <1>2, <2>1, Refused
  <1> QED BY <1>1, <1>2

LEMMA TwoWays ==
  ASSUME NEW q \in Automata, NEW c, q.state \notin Refusals, q.state \notin Counting,
         NEW X, NEW s, NEW Y, NEW v,
         From(q.state) = {<<q.state, X, s>>, <<q.state, Y, v>>}, X \cap Y = {},
         s # "onSuccessCommandState", s \notin DOMAIN OnSuccess, v \notin DOMAIN OnSuccess
  PROVE  Becomes(q, Feed(q, c),
                 IF c \in X THEN s
                 ELSE IF c \in Y
                      THEN IF v = "onSuccessCommandState" THEN q.onSuccess ELSE v
                      ELSE Refusal(q.state),
                 q.onSuccess)
  <1> DEFINE t == <<q.state, X, s>>
             w == <<q.state, Y, v>>
  <1>1. /\ t \in From(q.state) /\ t[2] = X /\ t[3] = s
        /\ w \in From(q.state) /\ w[2] = Y /\ w[3] = v
        /\ \A u \in From(q.state) : u = t \/ u = w
    OBVIOUS
  <1> HIDE DEF t, w
  <1>2. CASE c \in X
    <2>1. c \in t[2] /\ \A u \in From(q.state) : c \in u[2] => u = t
      BY <1>1, <1>2
    <2> QED BY <1>1, <1>2, <2>1, Accepted
  <1>3. CASE c \in Y
    <2>1. c \in w[2] /\ c \notin X /\ \A u \in From(q.state) : c \in u[2] => u = w
      BY <1>1, <1>3
    <2> QED BY <1>1, <1>3, <2>1, Accepted
  <1>4. CASE c \notin X /\ c \notin Y
    <2>1. \A u \in From(q.state) : c \notin u[2]
      BY <1>1, <1>4
    <2> QED BY <1>4, <2>1, Refused
  <1> QED BY <1>2, <1>3, <1>4

-----------------------------------------------------------------------------
(* The first line *)

HeaderStates ==
    {"START", "READM", "READP", "READ3", "READSECONDP", "READVERSIONSEPARATOR",
     "READVERSIONV", "READVERSIONNUM", "READVERSIONDOT", "READVERSIONSUBNUM"}

Opened(h) == h[1] = "M" /\ h[2] = "P" /\ h[3] = "3" /\ h[4] = "P" /\ h[5] = Space

DigitsIn(h, i, j) == \A x \in i .. j : h[x] \in Digits

\* The state s has read these k characters.
HeaderAt(s, h, k) ==
    CASE s = "START" -> k = 0
      [] s = "READM" -> k = 1 /\ h[1] = "M"
      [] s = "READP" -> k = 2 /\ h[1] = "M" /\ h[2] = "P"
      [] s = "READ3" -> k = 3 /\ h[1] = "M" /\ h[2] = "P" /\ h[3] = "3"
      [] s = "READSECONDP" ->
           k = 4 /\ h[1] = "M" /\ h[2] = "P" /\ h[3] = "3" /\ h[4] = "P"
      [] s = "READVERSIONSEPARATOR" -> k = 5 /\ Opened(h)
      [] s = "READVERSIONV" -> k = 6 /\ Opened(h) /\ h[6] = "V"
      [] s = "READVERSIONNUM" -> k >= 7 /\ Opened(h) /\ h[6] = "V" /\ DigitsIn(h, 7, k)
      [] s = "READVERSIONDOT" ->
           k >= 8 /\ Opened(h) /\ h[6] = "V" /\ DigitsIn(h, 7, k - 1) /\ h[k] = "."
      [] s = "READVERSIONSUBNUM" ->
           /\ k >= 9 /\ Opened(h) /\ h[6] = "V" /\ DigitsIn(h, 7, k - 2)
           /\ h[k - 1] = "." /\ h[k] \in Digits

LEMMA HeaderStart ==
  ASSUME NEW h, NEW s \in HeaderStates
  PROVE  s = "START" <=> HeaderAt(s, h, 0)
  <1>1. /\ HeaderAt("START", h, 0) /\ ~ HeaderAt("READM", h, 0) /\ ~ HeaderAt("READP", h, 0)
        /\ ~ HeaderAt("READ3", h, 0) /\ ~ HeaderAt("READSECONDP", h, 0)
    BY DEF HeaderAt
  <1>2. /\ ~ HeaderAt("READVERSIONSEPARATOR", h, 0) /\ ~ HeaderAt("READVERSIONV", h, 0)
        /\ ~ HeaderAt("READVERSIONNUM", h, 0) /\ ~ HeaderAt("READVERSIONDOT", h, 0)
        /\ ~ HeaderAt("READVERSIONSUBNUM", h, 0)
    BY DEF HeaderAt
  <1> QED BY <1>1, <1>2 DEF HeaderStates

LEMMA HeaderGrows ==
  ASSUME NEW h, NEW k \in Nat, k >= 1
  PROVE  /\ ~ HeaderAt("START", h, k)
         /\ HeaderAt("READM", h, k) <=> HeaderAt("START", h, k - 1) /\ h[k] = "M"
         /\ HeaderAt("READP", h, k) <=> HeaderAt("READM", h, k - 1) /\ h[k] = "P"
         /\ HeaderAt("READ3", h, k) <=> HeaderAt("READP", h, k - 1) /\ h[k] = "3"
         /\ HeaderAt("READSECONDP", h, k) <=> HeaderAt("READ3", h, k - 1) /\ h[k] = "P"
         /\ HeaderAt("READVERSIONSEPARATOR", h, k) <=>
              HeaderAt("READSECONDP", h, k - 1) /\ h[k] = Space
         /\ HeaderAt("READVERSIONV", h, k) <=>
              HeaderAt("READVERSIONSEPARATOR", h, k - 1) /\ h[k] = "V"
         /\ HeaderAt("READVERSIONNUM", h, k) <=>
              /\ HeaderAt("READVERSIONV", h, k - 1) \/ HeaderAt("READVERSIONNUM", h, k - 1)
              /\ h[k] \in Digits
         /\ HeaderAt("READVERSIONDOT", h, k) <=>
              HeaderAt("READVERSIONNUM", h, k - 1) /\ h[k] = "."
         /\ HeaderAt("READVERSIONSUBNUM", h, k) <=>
              HeaderAt("READVERSIONDOT", h, k - 1) /\ h[k] \in Digits
  <1>1. /\ ~ HeaderAt("START", h, k)
        /\ HeaderAt("READM", h, k) <=> HeaderAt("START", h, k - 1) /\ h[k] = "M"
        /\ HeaderAt("READP", h, k) <=> HeaderAt("READM", h, k - 1) /\ h[k] = "P"
        /\ HeaderAt("READ3", h, k) <=> HeaderAt("READP", h, k - 1) /\ h[k] = "3"
        /\ HeaderAt("READSECONDP", h, k) <=> HeaderAt("READ3", h, k - 1) /\ h[k] = "P"
    BY DEF HeaderAt
  <1>2. /\ HeaderAt("READVERSIONSEPARATOR", h, k) <=>
             HeaderAt("READSECONDP", h, k - 1) /\ h[k] = Space
        /\ HeaderAt("READVERSIONV", h, k) <=>
             HeaderAt("READVERSIONSEPARATOR", h, k - 1) /\ h[k] = "V"
    BY DEF HeaderAt, Opened
  <1>3. HeaderAt("READVERSIONNUM", h, k) <=>
             /\ HeaderAt("READVERSIONV", h, k - 1) \/ HeaderAt("READVERSIONNUM", h, k - 1)
             /\ h[k] \in Digits
    <2>1. CASE k = 7
      BY <2>1 DEF HeaderAt, DigitsIn
    <2>2. CASE k >= 8
      <3>1. DigitsIn(h, 7, k) <=> DigitsIn(h, 7, k - 1) /\ h[k] \in Digits
        BY <2>2 DEF DigitsIn
      <3> QED BY <2>2, <3>1 DEF HeaderAt
    <2>3. CASE k < 7
      BY <2>3 DEF HeaderAt
    <2> QED BY <2>1, <2>2, <2>3
  <1>4. HeaderAt("READVERSIONDOT", h, k) <=>
              HeaderAt("READVERSIONNUM", h, k - 1) /\ h[k] = "."
    BY DEF HeaderAt
  <1>5. HeaderAt("READVERSIONSUBNUM", h, k) <=>
              HeaderAt("READVERSIONDOT", h, k - 1) /\ h[k] \in Digits
    <2>1. k - 1 - 1 = k - 2
      OBVIOUS
    <2> QED BY <2>1 DEF HeaderAt
  <1> QED BY <1>1, <1>2, <1>3, <1>4, <1>5

\* Where the automaton may be behind k characters of the first line.
InHeader(h, held, k) ==
    {q \in Automata :
        /\ q.length = 0 /\ q.authorizationLength = 0 /\ q.onSuccess = held
        /\ q.state \in HeaderStates \cup {"DGRAMDISCARD"}
        /\ \A s \in HeaderStates : q.state = s <=> HeaderAt(s, h, k)}

\* The states of the first line have only the transitions of the first line.
LEMMA HeaderOnly == \A s \in HeaderStates, t \in CommandTransitions : t[1] # s
  <1>1. \A s \in HeaderStates, t \in NameTransitions : t[1] # s
    BY SMTT(30) DEF HeaderStates, NameTransitions
  <1>2. \A s \in HeaderStates, t \in ArgumentTransitions : t[1] # s
    BY SMTT(30) DEF HeaderStates, ArgumentTransitions
  <1>3. \A s \in HeaderStates, t \in EndTransitions : t[1] # s
    BY SMTT(30) DEF HeaderStates, EndTransitions
  <1> QED BY <1>1, <1>2, <1>3 DEF CommandTransitions

LEMMA HeaderRefusal == \A s \in HeaderStates : Refusal(s) = "DGRAMDISCARD"
  BY HeaderOnly DEF Refusal, HeaderStates

LEMMA HeaderWays ==
  /\ From("START") = {<<"START", {"M"}, "READM">>}
  /\ From("READM") = {<<"READM", {"P"}, "READP">>}
  /\ From("READP") = {<<"READP", {"3"}, "READ3">>}
  /\ From("READ3") = {<<"READ3", {"P"}, "READSECONDP">>}
  /\ From("READSECONDP") = {<<"READSECONDP", {Space}, "READVERSIONSEPARATOR">>}
  /\ From("READVERSIONSEPARATOR") = {<<"READVERSIONSEPARATOR", {"V"}, "READVERSIONV">>}
  /\ From("READVERSIONV") = {<<"READVERSIONV", Digits, "READVERSIONNUM">>}
  /\ From("READVERSIONNUM") = {<<"READVERSIONNUM", Digits, "READVERSIONNUM">>,
                               <<"READVERSIONNUM", {"."}, "READVERSIONDOT">>}
  /\ From("READVERSIONDOT") = {<<"READVERSIONDOT", Digits, "READVERSIONSUBNUM">>}
  /\ From("READVERSIONSUBNUM") = {<<"READVERSIONSUBNUM", {LF}, "READFIRSTNEWLINE">>}
  <1> DEFINE Out(s) == {t \in HeaderTransitions : t[1] = s}
  <1>1. \A s \in HeaderStates : From(s) = Out(s)
    BY HeaderOnly DEF From
  <1>2. /\ Out("START") = {<<"START", {"M"}, "READM">>}
        /\ Out("READM") = {<<"READM", {"P"}, "READP">>}
        /\ Out("READP") = {<<"READP", {"3"}, "READ3">>}
        /\ Out("READ3") = {<<"READ3", {"P"}, "READSECONDP">>}
        /\ Out("READSECONDP") = {<<"READSECONDP", {Space}, "READVERSIONSEPARATOR">>}
    BY SMTT(30) DEF HeaderTransitions
  <1>3. /\ Out("READVERSIONSEPARATOR") = {<<"READVERSIONSEPARATOR", {"V"}, "READVERSIONV">>}
        /\ Out("READVERSIONV") = {<<"READVERSIONV", Digits, "READVERSIONNUM">>}
        /\ Out("READVERSIONNUM") = {<<"READVERSIONNUM", Digits, "READVERSIONNUM">>,
                                    <<"READVERSIONNUM", {"."}, "READVERSIONDOT">>}
        /\ Out("READVERSIONDOT") = {<<"READVERSIONDOT", Digits, "READVERSIONSUBNUM">>}
        /\ Out("READVERSIONSUBNUM") = {<<"READVERSIONSUBNUM", {LF}, "READFIRSTNEWLINE">>}
    BY SMTT(30) DEF HeaderTransitions
  <1> HIDE DEF Out
  <1> QED BY <1>1, <1>2, <1>3 DEF HeaderStates

\* What a character does in the first line.
LEMMA HeaderStep ==
  ASSUME NEW q \in Automata, NEW c, q.state \in HeaderStates
  PROVE  Becomes(q, Feed(q, c),
           CASE q.state = "START" /\ c = "M" -> "READM"
             [] q.state = "READM" /\ c = "P" -> "READP"
             [] q.state = "READP" /\ c = "3" -> "READ3"
             [] q.state = "READ3" /\ c = "P" -> "READSECONDP"
             [] q.state = "READSECONDP" /\ c = Space -> "READVERSIONSEPARATOR"
             [] q.state = "READVERSIONSEPARATOR" /\ c = "V" -> "READVERSIONV"
             [] q.state = "READVERSIONV" /\ c \in Digits -> "READVERSIONNUM"
             [] q.state = "READVERSIONNUM" /\ c \in Digits -> "READVERSIONNUM"
             [] q.state = "READVERSIONNUM" /\ c = "." -> "READVERSIONDOT"
             [] q.state = "READVERSIONDOT" /\ c \in Digits -> "READVERSIONSUBNUM"
             [] q.state = "READVERSIONSUBNUM" /\ c = LF -> "READFIRSTNEWLINE"
             [] OTHER -> "DGRAMDISCARD", q.onSuccess)
  <1>1. /\ q.state \notin Refusals /\ q.state \notin Counting
        /\ Refusal(q.state) = "DGRAMDISCARD"
    BY HeaderRefusal DEF HeaderStates, Refusals, Counting
  <1>2. DOMAIN OnSuccess = {"READAU", "READDU", "READMP"}
    BY DEF OnSuccess
  <1>3. ASSUME NEW X, NEW s, From(q.state) = {<<q.state, X, s>>},
               s \in HeaderStates \cup {"READFIRSTNEWLINE"}
        PROVE  Becomes(q, Feed(q, c), IF c \in X THEN s ELSE "DGRAMDISCARD", q.onSuccess)
    <2>1. s # "onSuccessCommandState" /\ s \notin DOMAIN OnSuccess
      BY <1>2, <1>3 DEF HeaderStates
    <2> QED BY <1>1, <1>3, <2>1, OneWay
  <1>4. CASE q.state = "START"
    <2>1. From(q.state) = {<<q.state, {"M"}, "READM">>}
      BY <1>4, HeaderWays
    <2>2. Becomes(q, Feed(q, c), IF c \in {"M"} THEN "READM" ELSE "DGRAMDISCARD", q.onSuccess)
      BY <1>3, <2>1, Zenon DEF HeaderStates
    <2> QED BY <1>4, <2>2
  <1>5. CASE q.state = "READM"
    <2>1. From(q.state) = {<<q.state, {"P"}, "READP">>}
      BY <1>5, HeaderWays
    <2>2. Becomes(q, Feed(q, c), IF c \in {"P"} THEN "READP" ELSE "DGRAMDISCARD", q.onSuccess)
      BY <1>3, <2>1, Zenon DEF HeaderStates
    <2> QED BY <1>5, <2>2
  <1>6. CASE q.state = "READP"
    <2>1. From(q.state) = {<<q.state, {"3"}, "READ3">>}
      BY <1>6, HeaderWays
    <2>2. Becomes(q, Feed(q, c), IF c \in {"3"} THEN "READ3" ELSE "DGRAMDISCARD", q.onSuccess)
      BY <1>3, <2>1, Zenon DEF HeaderStates
    <2> QED BY <1>6, <2>2
  <1>7. CASE q.state = "READ3"
    <2>1. From(q.state) = {<<q.state, {"P"}, "READSECONDP">>}
      BY <1>7, HeaderWays
    <2>2. Becomes(q, Feed(q, c), IF c \in {"P"} THEN "READSECONDP" ELSE "DGRAMDISCARD", q.onSuccess)
      BY <1>3, <2>1, Zenon DEF HeaderStates
    <2> QED BY <1>7, <2>2
  <1>8. CASE q.state = "READSECONDP"
    <2>1. From(q.state) = {<<q.state, {Space}, "READVERSIONSEPARATOR">>}
      BY <1>8, HeaderWays
    <2>2. Becomes(q, Feed(q, c), IF c \in {Space} THEN "READVERSIONSEPARATOR" ELSE "DGRAMDISCARD", q.onSuccess)
      BY <1>3, <2>1, Zenon DEF HeaderStates
    <2> QED BY <1>8, <2>2
  <1>9. CASE q.state = "READVERSIONSEPARATOR"
    <2>1. From(q.state) = {<<q.state, {"V"}, "READVERSIONV">>}
      BY <1>9, HeaderWays
    <2>2. Becomes(q, Feed(q, c), IF c \in {"V"} THEN "READVERSIONV" ELSE "DGRAMDISCARD", q.onSuccess)
      BY <1>3, <2>1, Zenon DEF HeaderStates
    <2> QED BY <1>9, <2>2
  <1>10. CASE q.state = "READVERSIONV"
    BY <1>3, <1>10, HeaderWays DEF HeaderStates
  <1>11. CASE q.state = "READVERSIONDOT"
    BY <1>3, <1>11, HeaderWays DEF HeaderStates
  <1>12. CASE q.state = "READVERSIONSUBNUM"
    <2>1. From(q.state) = {<<q.state, {LF}, "READFIRSTNEWLINE">>}
      BY <1>12, HeaderWays
    <2>2. Becomes(q, Feed(q, c), IF c \in {LF} THEN "READFIRSTNEWLINE" ELSE "DGRAMDISCARD", q.onSuccess)
      BY <1>3, <2>1, Zenon DEF HeaderStates
    <2> QED BY <1>12, <2>2
  <1>13. CASE q.state = "READVERSIONNUM"
    <2>1. Digits \cap {"."} = {}
      BY DEF Digits
    <2>2. Becomes(q, Feed(q, c),
                  IF c \in Digits THEN "READVERSIONNUM"
                  ELSE IF c \in {"."} THEN "READVERSIONDOT" ELSE "DGRAMDISCARD", q.onSuccess)
      <3>1. From(q.state) = {<<q.state, Digits, "READVERSIONNUM">>,
                             <<q.state, {"."}, "READVERSIONDOT">>}
        BY <1>13, HeaderWays
      <3>2. "READVERSIONNUM" \notin DOMAIN OnSuccess /\ "READVERSIONDOT" \notin DOMAIN OnSuccess
        BY <1>2
      <3> QED BY <1>1, <2>1, <3>1, <3>2, TwoWays, ZenonT(60)
    <2> QED BY <1>13, <2>1, <2>2
  <1> QED BY <1>4, <1>5, <1>6, <1>7, <1>8, <1>9, <1>10, <1>11, <1>12, <1>13 DEF HeaderStates

LEMMA HeaderKept ==
  ASSUME NEW h, NEW held, NEW k \in Nat, k >= 1, h[k] # LF, NEW q \in InHeader(h, held, k - 1)
  PROVE  Feed(q, h[k]) \in InHeader(h, held, k)
  <1> DEFINE c == h[k]
             new == Feed(q, c)
             At(s) == HeaderAt(s, h, k - 1)
             Now(s) == HeaderAt(s, h, k)
  <1>1. /\ q \in Automata /\ q.length = 0 /\ q.authorizationLength = 0 /\ q.onSuccess = held
        /\ q.state \in HeaderStates \cup {"DGRAMDISCARD"}
        /\ \A s \in HeaderStates : q.state = s <=> At(s)
    BY DEF InHeader
  <1>2. /\ ~ Now("START")
        /\ Now("READM") <=> At("START") /\ c = "M"
        /\ Now("READP") <=> At("READM") /\ c = "P"
        /\ Now("READ3") <=> At("READP") /\ c = "3"
        /\ Now("READSECONDP") <=> At("READ3") /\ c = "P"
        /\ Now("READVERSIONSEPARATOR") <=> At("READSECONDP") /\ c = Space
        /\ Now("READVERSIONV") <=> At("READVERSIONSEPARATOR") /\ c = "V"
        /\ Now("READVERSIONNUM") <=>
             (At("READVERSIONV") \/ At("READVERSIONNUM")) /\ c \in Digits
        /\ Now("READVERSIONDOT") <=> At("READVERSIONNUM") /\ c = "."
        /\ Now("READVERSIONSUBNUM") <=> At("READVERSIONDOT") /\ c \in Digits
    BY HeaderGrows
  <1>3. c # LF
    OBVIOUS
  <1> HIDE DEF At, Now, c
  <1>4. "." \notin Digits
    BY DEF Digits
  <1>5. /\ new \in Automata /\ new.length = 0 /\ new.authorizationLength = 0
        /\ new.onSuccess = held
        /\ new.state \in HeaderStates \cup {"DGRAMDISCARD"}
        /\ \A s \in HeaderStates : new.state = s <=> Now(s)
    <2>1. CASE q.state = "DGRAMDISCARD"
      <3>1. new = q
        BY <2>1 DEF Feed, Refusals
      <3>2. \A s \in HeaderStates : ~ At(s)
        BY <1>1, <2>1 DEF HeaderStates
      <3>3. \A s \in HeaderStates : ~ Now(s)
        BY <1>2, <3>2 DEF HeaderStates
      <3> HIDE DEF new
      <3> QED BY <1>1, <2>1, <3>1, <3>3 DEF HeaderStates
    <2>2. CASE q.state \in HeaderStates
      <3>1. Becomes(q, new,
              CASE q.state = "START" /\ c = "M" -> "READM"
                [] q.state = "READM" /\ c = "P" -> "READP"
                [] q.state = "READP" /\ c = "3" -> "READ3"
                [] q.state = "READ3" /\ c = "P" -> "READSECONDP"
                [] q.state = "READSECONDP" /\ c = Space -> "READVERSIONSEPARATOR"
                [] q.state = "READVERSIONSEPARATOR" /\ c = "V" -> "READVERSIONV"
                [] q.state = "READVERSIONV" /\ c \in Digits -> "READVERSIONNUM"
                [] q.state = "READVERSIONNUM" /\ c \in Digits -> "READVERSIONNUM"
                [] q.state = "READVERSIONNUM" /\ c = "." -> "READVERSIONDOT"
                [] q.state = "READVERSIONDOT" /\ c \in Digits -> "READVERSIONSUBNUM"
                [] q.state = "READVERSIONSUBNUM" /\ c = LF -> "READFIRSTNEWLINE"
                [] OTHER -> "DGRAMDISCARD", q.onSuccess)
        BY <1>1, <2>2, HeaderStep
      <3> HIDE DEF new
      <3>2. /\ new \in Automata /\ new.length = 0 /\ new.authorizationLength = 0
            /\ new.onSuccess = held
        BY <1>1, <3>1 DEF Becomes
      <3>3. new.state = "READM" <=> q.state = "START" /\ c = "M"
        BY <1>4, <3>1 DEF Becomes
      <3>4. new.state = "READP" <=> q.state = "READM" /\ c = "P"
        BY <1>4, <3>1 DEF Becomes
      <3>5. new.state = "READ3" <=> q.state = "READP" /\ c = "3"
        BY <1>4, <3>1 DEF Becomes
      <3>6. new.state = "READSECONDP" <=> q.state = "READ3" /\ c = "P"
        BY <1>4, <3>1 DEF Becomes
      <3>7. new.state = "READVERSIONSEPARATOR" <=> q.state = "READSECONDP" /\ c = Space
        BY <1>4, <3>1 DEF Becomes
      <3>8. new.state = "READVERSIONV" <=> q.state = "READVERSIONSEPARATOR" /\ c = "V"
        BY <1>4, <3>1 DEF Becomes
      <3>9. new.state = "READVERSIONNUM" <=>
              q.state \in {"READVERSIONV", "READVERSIONNUM"} /\ c \in Digits
        BY <1>4, <3>1 DEF Becomes
      <3>10. new.state = "READVERSIONDOT" <=> q.state = "READVERSIONNUM" /\ c = "."
        BY <1>4, <3>1 DEF Becomes
      <3>11. new.state = "READVERSIONSUBNUM" <=> q.state = "READVERSIONDOT" /\ c \in Digits
        BY <1>4, <3>1 DEF Becomes
      <3>12. new.state # "START" /\ new.state \in HeaderStates \cup {"DGRAMDISCARD"}
        BY <1>3, <3>1 DEF Becomes, HeaderStates
      <3>13. ASSUME NEW s \in HeaderStates PROVE new.state = s <=> Now(s)
        BY <1>1, <1>2, <3>3, <3>4, <3>5, <3>6, <3>7, <3>8, <3>9, <3>10, <3>11, <3>12
           DEF HeaderStates
      <3> QED BY <3>2, <3>12, <3>13
    <2> QED BY <1>1, <2>1, <2>2
  <1> HIDE DEF new
  <1>6. new \in InHeader(h, held, k)
    BY <1>5 DEF InHeader, Now
  <1> QED BY <1>6 DEF new, c

\* Behind the first line the automaton has discarded it, or stands at the id.
LEMMA FirstLineRead ==
  ASSUME NEW r \in Requests, NEW held \in StaticValues, NEW g,
         ParseLoop!Iterates(g, StartOf(held), Render(r), 0, EndOfAll(r))
  PROVE  LET q == g[EndOfFirst(r)]
             right == HeaderAt("READVERSIONSUBNUM", FirstLine(r), EndOfFirst(r) - 1)
         IN  /\ q \in Automata /\ q.length = 0 /\ q.authorizationLength = 0 /\ q.onSuccess = held
             /\ q.state = IF right /\ r.newlines >= 1 THEN "READFIRSTNEWLINE" ELSE "DGRAMDISCARD"
  <1> DEFINE h == FirstLine(r)
             a == EndOfFirst(r) - 1
             T == [k \in Nat |-> InHeader(h, held, k)]
             seq == Render(r)
             n == EndOfAll(r)
             c == StopOf(r, 1)
  <1>1. /\ a \in Nat /\ n \in Nat /\ a + 1 <= n /\ a = Len(h)
    BY Offsets
  <1>2. \A k \in 1 .. a : seq[k] = h[k] /\ h[k] # LF
    <2>1. \A k \in 1 .. Len(h) : seq[k] = h[k]
      BY Places
    <2>2. ASSUME NEW k \in 1 .. Len(h) PROVE h[k] # LF
      <3>1. /\ \A i \in 1 .. Len(r.magic) : r.magic[i] # LF
            /\ \A i \in 1 .. Len(r.version) : r.version[i] # LF
        <4>1. IsParted(r) /\ DOMAIN r.magic = 1 .. Len(r.magic)
              /\ DOMAIN r.version = 1 .. Len(r.version)
          BY RequestsAssumption, PartsAreTexts, LenProperties DEF Texts
        <4> QED BY <4>1 DEF IsParted
      <3>2. CASE k <= Len(r.magic)
        <4>1. k \in 1 .. Len(r.magic)
          BY <3>2, PartsAreTexts
        <4>2. FirstLine(r)[k] = r.magic[k]
          BY <4>1, PartsAreTexts, Zenon
        <4> QED BY <3>1, <4>1, <4>2
      <3>3. CASE k > Len(r.magic)
        <4> DEFINE m == Len(r.magic)
                   v == Len(r.version)
                   j == k - m
        <4>1. m \in Nat /\ v \in Nat /\ k \in 1 .. m + v /\ k > m
          BY <3>3, PartsAreTexts, Zenon
        <4> HIDE DEF m, v
        <4>2. j \in 1 .. v /\ m + j = k
          BY <4>1
        <4> HIDE DEF j
        <4>3. FirstLine(r)[m + j] = r.version[j]
          BY <4>2, PartsAreTexts, Zenon DEF m, v
        <4> QED BY <3>1, <4>2, <4>3 DEF v
      <3> QED BY <3>2, <3>3, PartsAreTexts
    <2> QED BY <1>1, <2>1, <2>2
  <1>3. seq[a + 1] = c
    <2>1. EndOfFirst(r) = a + 1
      BY PartsAreTexts DEF EndOfFirst
    <2> QED BY <2>1, Places
  <1>4. StartOf(held) \in T[0]
    <2>1. StartOf(held) \in Automata
      BY DEF StartOf, Automata, States
    <2>2. \A s \in HeaderStates : s = "START" <=> HeaderAt(s, h, 0)
      BY HeaderStart
    <2>3. StartOf(held) \in InHeader(h, held, 0)
      BY <2>1, <2>2 DEF StartOf, InHeader, HeaderStates
    <2> QED BY <2>3
  <1> HIDE DEF h, a, seq, n, c
  <1>5. \A k \in 0 + 1 .. a : \A x \in T[k - 1] : Feed(x, seq[k]) \in T[k]
    <2> SUFFICES ASSUME NEW k \in 1 .. a, NEW x \in T[k - 1] PROVE Feed(x, seq[k]) \in T[k]
      OBVIOUS
    <2>1. k \in Nat /\ k >= 1 /\ k - 1 \in Nat
      BY <1>1
    <2>2. x \in InHeader(h, held, k - 1) /\ T[k] = InHeader(h, held, k)
      BY <2>1
    <2> HIDE DEF T
    <2> QED BY <1>2, <2>1, <2>2, HeaderKept
  <1>6. g[0] = StartOf(held) /\ g[a + 1] = Feed(g[a], c)
    <2>1. /\ g[0] = StartOf(held)
          /\ \A i \in 0 + 1 .. n : g[i] = Feed(g[i - 1], seq[i])
      <3>1. 0 \in Nat /\ n \in Nat /\ 0 <= n
        BY <1>1
      <3>2. ParseLoop!Iterates(g, StartOf(held), seq, 0, n)
        BY DEF seq, n
      <3> QED BY ONLY <3>1, <3>2, ParseLoop!IterationEquation
    <2>2. a + 1 \in 0 + 1 .. n /\ (a + 1) - 1 = a
      BY <1>1
    <2> QED BY <1>3, <2>1, <2>2
  <1>7. g[a] \in T[a]
    <2>1. 0 \in Nat /\ n \in Nat /\ 0 <= n /\ 0 \in 0 .. n /\ a \in 0 .. n
      BY <1>1
    <2>2. ParseLoop!Iterates(g, StartOf(held), seq, 0, n) /\ g[0] \in T[0]
      BY <1>4, <1>6 DEF seq, n
    <2> HIDE DEF T
    <2> QED BY ONLY <1>5, <2>1, <2>2, ParseLoop!IterationReaches
  <1>8. g[a] \in InHeader(h, held, a)
    BY <1>1, <1>7
  <1>9. /\ g[a] \in Automata /\ g[a].length = 0 /\ g[a].authorizationLength = 0
        /\ g[a].onSuccess = held /\ g[a].state \in HeaderStates \cup {"DGRAMDISCARD"}
        /\ g[a].state = "READVERSIONSUBNUM" <=> HeaderAt("READVERSIONSUBNUM", h, a)
    BY <1>8 DEF InHeader, HeaderStates
  <1>10. EndOfFirst(r) = a + 1
    BY PartsAreTexts DEF EndOfFirst, a
  <1> DEFINE new == Feed(g[a], c)
  <1>11. /\ new \in Automata /\ new.length = 0 /\ new.authorizationLength = 0
         /\ new.onSuccess = held
         /\ new.state = IF g[a].state = "READVERSIONSUBNUM" /\ r.newlines >= 1
                        THEN "READFIRSTNEWLINE" ELSE "DGRAMDISCARD"
    <2>1. CASE g[a].state = "DGRAMDISCARD"
      BY <1>9, <2>1 DEF Feed, Refusals
    <2>2. CASE g[a].state \in HeaderStates
      <3>1. /\ c # "M" /\ c # "P" /\ c # "3" /\ c # Space /\ c # "V" /\ c \notin Digits
            /\ c # "." /\ (c = LF <=> r.newlines >= 1)
        BY DEF LF, NUL, Space, Digits, StopOf, c
      <3>2. Becomes(g[a], new, IF g[a].state = "READVERSIONSUBNUM" /\ r.newlines >= 1
                               THEN "READFIRSTNEWLINE" ELSE "DGRAMDISCARD", g[a].onSuccess)
        BY <1>9, <2>2, <3>1, HeaderStep
      <3> QED BY <1>9, <3>2 DEF Becomes
    <2> QED BY <1>9, <2>1, <2>2
  <1> HIDE DEF new
  <1> QED BY <1>6, <1>9, <1>10, <1>11 DEF new, a, h

LEMMA FirstLineText ==
  ASSUME NEW magic \in Texts, NEW version \in Texts, NEW h,
         NEW m \in Nat, m = Len(magic), NEW v \in Nat, v = Len(version),
         \A k \in 1 .. m : h[k] = magic[k], \A k \in 1 .. v : h[m + k] = version[k],
         \A i \in 1 .. m : magic[i] = Space => i = m,
         \A i \in 1 .. v : version[i] = Space => magic # <<>> /\ magic[m] = Space
  PROVE  HeaderAt("READVERSIONSUBNUM", h, m + v) <=>
           magic = <<"M", "P", "3", "P", Space>> /\ IsVersion(version)
  <1>1. ASSUME HeaderAt("READVERSIONSUBNUM", h, m + v)
        PROVE  magic = <<"M", "P", "3", "P", Space>> /\ IsVersion(version)
    <2>1. /\ m + v >= 9 /\ Opened(h) /\ h[6] = "V" /\ DigitsIn(h, 7, m + v - 2)
          /\ h[m + v - 1] = "." /\ h[m + v] \in Digits
      BY <1>1 DEF HeaderAt
    <2>2. h[1] = "M" /\ h[2] = "P" /\ h[3] = "3" /\ h[4] = "P" /\ h[5] = Space
      BY <2>1 DEF Opened
    <2>3. CASE m >= 5
      <3>1. m = 5
        BY <2>2, <2>3, SMTT(30)
      <3>2. magic = <<"M", "P", "3", "P", Space>>
        <4>1. magic \in Seq(STRING) /\ Len(magic) = 5
          BY <3>1 DEF Texts
        <4>2. /\ magic[1] = "M" /\ magic[2] = "P" /\ magic[3] = "3" /\ magic[4] = "P"
              /\ magic[5] = Space
          BY <2>2, <3>1
        <4> QED BY <4>1, <4>2
      <3>3. v >= 4 /\ \A k \in 1 .. v : version[k] = h[5 + k]
        BY <2>1, <3>1
      <3>4. version[1] = "V" /\ version[v - 1] = "."
        <4>1. 1 \in 1 .. v /\ v - 1 \in 1 .. v /\ 5 + 1 = 6 /\ 5 + (v - 1) = m + v - 1
          BY <3>1, <3>3
        <4> QED BY <2>1, <3>3, <4>1, SMTT(30)
      <3>5. ASSUME NEW i \in 1 .. v, i # 1, i # v - 1 PROVE version[i] \in Digits
        <4>1. CASE i = v
          <5>1. 5 + i = m + v
            BY <3>1, <4>1
          <5> QED BY <2>1, <3>3, <5>1, SMTT(30)
        <4>2. CASE i # v
          <5>1. 5 + i \in 7 .. m + v - 2
            BY <3>1, <3>3, <3>5, <4>2
          <5> QED BY <2>1, <3>3, <5>1, Zenon DEF DigitsIn
        <4> QED BY <4>1, <4>2
      <3>6. DOMAIN version = 1 .. v
        BY LenProperties DEF Texts
      <3> QED BY <3>2, <3>3, <3>4, <3>5, <3>6 DEF IsVersion
    <2>4. CASE m < 5
      <3>1. 5 - m \in 1 .. v /\ m + (5 - m) = 5
        BY <2>1, <2>4
      <3>2. version[5 - m] = Space
        BY <2>2, <3>1
      <3>3. magic # <<>> /\ magic[m] = Space
        BY <3>1, <3>2
      <3>4. m # 0
        BY <3>3 DEF Texts
      <3>5. h[m] = Space /\ m \in {1, 2, 3, 4}
        BY <2>4, <3>3, <3>4, SMTT(30)
      <3> QED BY <2>2, <3>5, Zenon DEF Space
    <2> QED BY <2>3, <2>4
  <1>2. ASSUME magic = <<"M", "P", "3", "P", Space>>, IsVersion(version)
        PROVE  HeaderAt("READVERSIONSUBNUM", h, m + v)
    <2>1. /\ m = 5 /\ magic[1] = "M" /\ magic[2] = "P" /\ magic[3] = "3" /\ magic[4] = "P"
          /\ magic[5] = Space
      BY <1>2
    <2>2. Opened(h)
      <3>1. h[1] = "M" /\ h[2] = "P" /\ h[3] = "3" /\ h[4] = "P" /\ h[5] = Space
        BY <2>1
      <3> QED BY <3>1 DEF Opened
    <2>3. /\ v >= 4 /\ version[1] = "V" /\ version[v - 1] = "."
          /\ \A i \in 1 .. v : i # 1 /\ i # v - 1 => version[i] \in Digits
      <3>1. DOMAIN version = 1 .. v
        BY LenProperties DEF Texts
      <3> QED BY <1>2, <3>1 DEF IsVersion
    <2>4. \A k \in 1 .. v : h[5 + k] = version[k]
      BY <2>1
    <2>5. h[6] = "V" /\ h[m + v - 1] = "." /\ h[m + v] \in Digits
      <3>1. 1 \in 1 .. v /\ v - 1 \in 1 .. v /\ v \in 1 .. v /\ v # 1 /\ v # v - 1
        BY <2>3, SMTT(30)
      <3>2. h[5 + 1] = "V" /\ h[5 + (v - 1)] = "." /\ h[5 + v] \in Digits
        BY <2>3, <2>4, <3>1, Zenon
      <3>3. 5 + 1 = 6 /\ 5 + (v - 1) = m + v - 1 /\ 5 + v = m + v
        BY <2>1
      <3> QED BY <3>2, <3>3
    <2>6. DigitsIn(h, 7, m + v - 2)
      <3> SUFFICES ASSUME NEW x \in 7 .. m + v - 2 PROVE h[x] \in Digits
        BY DEF DigitsIn
      <3>1. x - 5 \in 1 .. v /\ x - 5 # 1 /\ x - 5 # v - 1 /\ 5 + (x - 5) = x
        BY <2>1
      <3> QED BY <2>3, <2>4, <3>1, ZenonT(60)
    <2>7. m + v >= 9
      BY <2>1, <2>3
    <2> QED BY <2>2, <2>5, <2>6, <2>7 DEF HeaderAt
  <1> QED BY <1>1, <1>2

\* The first line that is not discarded.
RightLine(r) == r.magic = <<"M", "P", "3", "P", Space>> /\ IsVersion(r.version)

LEMMA FirstLineMeans ==
  ASSUME NEW r \in Requests
  PROVE  HeaderAt("READVERSIONSUBNUM", FirstLine(r), EndOfFirst(r) - 1) <=> RightLine(r)
  <1> DEFINE m == Len(r.magic)
             v == Len(r.version)
             h == FirstLine(r)
  <1>1. /\ r.magic \in Texts /\ r.version \in Texts /\ m \in Nat /\ v \in Nat
        /\ \A k \in 1 .. m : h[k] = r.magic[k]
        /\ \A k \in 1 .. v : h[m + k] = r.version[k]
        /\ Len(h) = m + v
    BY PartsAreTexts, Zenon
  <1>2. DOMAIN r.magic = 1 .. m /\ DOMAIN r.version = 1 .. v
    BY <1>1, LenProperties DEF Texts
  <1>3. /\ \A i \in 1 .. m : r.magic[i] = Space => i = m
        /\ \A i \in 1 .. v : r.version[i] = Space => r.magic # <<>> /\ r.magic[m] = Space
    <2>1. IsParted(r)
      BY RequestsAssumption
    <2> QED BY <1>2, <2>1 DEF IsParted, Last
  <1>4. EndOfFirst(r) - 1 = m + v
    <2> HIDE DEF m, v, h
    <2>1. EndOfFirst(r) = Len(h) + 1
      BY Offsets DEF h
    <2> QED BY <1>1, <2>1
  <1> HIDE DEF h
  <1>5. HeaderAt("READVERSIONSUBNUM", h, m + v) <=>
          r.magic = <<"M", "P", "3", "P", Space>> /\ IsVersion(r.version)
    BY <1>1, <1>3, FirstLineText, ZenonT(60)
  <1> QED BY <1>4, <1>5, Zenon DEF RightLine, h

-----------------------------------------------------------------------------
(* The id *)

AlnumIn(w, k) == \A x \in 1 .. k : w[x] \in Alnum

\* Where the automaton may be behind k characters of the id: it has counted them, or
\* refused one.
InId(w, held, k) ==
    {q \in Automata :
        /\ q.authorizationLength = 0 /\ q.onSuccess = held
        /\ IF k <= IDLENGTH /\ AlnumIn(w, k)
           THEN /\ q.length = k
                /\ q.state = IF k = 0 THEN "READFIRSTNEWLINE" ELSE "READCLIENTDGRAMID"
           ELSE q.state = "DGRAMDISCARD"}

LEMMA IdStep ==
  ASSUME NEW q \in Automata, NEW c, q.state \in {"READFIRSTNEWLINE", "READCLIENTDGRAMID"}
  PROVE  LET new == Feed(q, c) IN
         /\ new \in Automata /\ new.onSuccess = q.onSuccess
         /\ new.authorizationLength = q.authorizationLength
         /\ c \in Alnum /\ q.length < IDLENGTH =>
              new.state = "READCLIENTDGRAMID" /\ new.length = q.length + 1
         /\ c = LF /\ q.length = IDLENGTH => new.state = "READSECONDNEWLINE"
         /\ ~ (c \in Alnum /\ q.length < IDLENGTH) /\ ~ (c = LF /\ q.length = IDLENGTH) =>
              new.state = "DGRAMDISCARD"
  <1>1. Feed(q, c) = ReadId(q, c)
    <2>1. From(q.state) = {}
      BY DEF From, HeaderTransitions, CommandTransitions, NameTransitions,
             ArgumentTransitions, EndTransitions
    <2> QED BY <2>1 DEF Feed, ParseMp3pCharacter, Refusals
  <1>2. Feed(q, c) \in Automata
    BY FeedKeeps
  <1>3. Refusal(q.state) = "DGRAMDISCARD"
    <2>1. \A t \in CommandTransitions : t[1] # q.state
      BY DEF CommandTransitions, NameTransitions, ArgumentTransitions, EndTransitions
    <2> QED BY <2>1 DEF Refusal
  <1>4. LF \notin Alnum
    BY DEF LF, Alnum, Digits, Letters
  <1>5. CASE c \in Alnum /\ q.length < IDLENGTH
    <2>1. Feed(q, c) = [q EXCEPT !.length = q.length + 1, !.state = "READCLIENTDGRAMID"]
      BY <1>1, <1>4, <1>5 DEF ReadId
    <2> QED BY <1>2, <1>4, <1>5, <2>1 DEF Automata
  <1>6. CASE c = LF /\ q.length = IDLENGTH
    <2>1. Feed(q, c) = [q EXCEPT !.state = "READSECONDNEWLINE"]
      BY <1>1, <1>4, <1>6 DEF ReadId
    <2> QED BY <1>2, <1>4, <1>6, <2>1 DEF Automata
  <1>7. CASE ~ (c \in Alnum /\ q.length < IDLENGTH) /\ ~ (c = LF /\ q.length = IDLENGTH)
    <2>1. Feed(q, c) = [q EXCEPT !.state = "DGRAMDISCARD"]
      BY <1>1, <1>3, <1>7 DEF ReadId
    <2> QED BY <1>2, <1>7, <2>1 DEF Automata
  <1> QED BY <1>5, <1>6, <1>7

LEMMA IdKept ==
  ASSUME NEW w, NEW held, NEW k \in Nat, k >= 1, w[k] # LF, NEW q \in InId(w, held, k - 1)
  PROVE  Feed(q, w[k]) \in InId(w, held, k)
  <1> DEFINE new == Feed(q, w[k])
  <1>1. /\ q \in Automata /\ q.authorizationLength = 0 /\ q.onSuccess = held
        /\ q.length \in Nat
    BY DEF InId, Automata
  <1>2. AlnumIn(w, k) <=> AlnumIn(w, k - 1) /\ w[k] \in Alnum
    BY DEF AlnumIn
  <1>3. CASE k - 1 <= IDLENGTH /\ AlnumIn(w, k - 1)
    <2>1. /\ q.length = k - 1
          /\ q.state \in {"READFIRSTNEWLINE", "READCLIENTDGRAMID"}
      BY <1>3 DEF InId
    <2>2. /\ new \in Automata /\ new.onSuccess = held /\ new.authorizationLength = 0
          /\ w[k] \in Alnum /\ q.length < IDLENGTH =>
               new.state = "READCLIENTDGRAMID" /\ new.length = q.length + 1
          /\ ~ (w[k] \in Alnum /\ q.length < IDLENGTH) => new.state = "DGRAMDISCARD"
      BY <1>1, <2>1, IdStep
    <2> HIDE DEF new
    <2>3. q.length < IDLENGTH <=> k <= IDLENGTH
      BY <2>1, KeyAssumption
    <2>4. k # 0 /\ q.length + 1 = k
      BY <2>1
    <2> QED BY <1>2, <1>3, <2>2, <2>3, <2>4 DEF InId, new
  <1>4. CASE ~ (k - 1 <= IDLENGTH /\ AlnumIn(w, k - 1))
    <2>1. q.state = "DGRAMDISCARD"
      BY <1>4 DEF InId
    <2>2. new = q
      BY <2>1 DEF Feed, Refusals
    <2>3. ~ (k <= IDLENGTH /\ AlnumIn(w, k))
      BY <1>2, <1>4, KeyAssumption
    <2> HIDE DEF new
    <2> QED BY <1>1, <2>1, <2>2, <2>3 DEF InId, new
  <1> QED BY <1>3, <1>4

\* Behind the id the automaton has discarded the datagram, or stands at the key.
LEMMA IdRead ==
  ASSUME NEW r \in Requests, NEW held \in StaticValues, NEW g,
         ParseLoop!Iterates(g, StartOf(held), Render(r), 0, EndOfAll(r)),
         g[EndOfFirst(r)] \in InId(r.id, held, 0), r.newlines >= 1
  PROVE  LET q == g[EndOfId(r)]
         IN  /\ q \in Automata /\ q.authorizationLength = 0 /\ q.onSuccess = held
             /\ q.state = IF IsWord(r.id, IDLENGTH) /\ r.newlines >= 2
                          THEN "READSECONDNEWLINE" ELSE "DGRAMDISCARD"
  <1> DEFINE w == r.id
             a == EndOfFirst(r)
             l == Len(w)
             b == a + l
             T == [k \in Nat |-> InId(w, held, k - a)]
             seq == Render(r)
             n == EndOfAll(r)
             c == StopOf(r, 2)
  <1>1. a \in Nat /\ n \in Nat /\ l \in Nat /\ b + 1 = EndOfId(r) /\ b + 1 <= n
    BY Offsets, PartsAreTexts
  <1>2. /\ \A k \in 1 .. l : seq[a + k] = w[k] /\ w[k] # LF
        /\ seq[b + 1] = c
    <2>1. /\ \A k \in 1 .. l : seq[a + k] = w[k]
          /\ seq[EndOfId(r)] = c
      BY Places
    <2>2. \A i \in DOMAIN r.id : r.id[i] # LF
      BY RequestsAssumption DEF IsParted
    <2>3. DOMAIN r.id = 1 .. l
      BY PartsAreTexts, LenProperties DEF Texts
    <2> QED BY <1>1, <2>1, <2>2, <2>3
  <1>3. g[a] \in InId(w, held, 0)
    OBVIOUS
  <1>4. IsWord(r.id, IDLENGTH) <=> l = IDLENGTH /\ AlnumIn(w, l)
    BY PartsAreTexts, LenProperties DEF IsWord, AlnumIn, Texts
  <1> HIDE DEF w, a, l, seq, n, c
  <1>5. b \in Nat
    BY <1>1
  <1> HIDE DEF b
  <1>6. b = a + l
    BY DEF b
  <1>7. \A k \in a + 1 .. b : \A x \in T[k - 1] : Feed(x, seq[k]) \in T[k]
    <2> SUFFICES ASSUME NEW k \in a + 1 .. b, NEW x \in T[k - 1] PROVE Feed(x, seq[k]) \in T[k]
      OBVIOUS
    <2> DEFINE j == k - a
    <2>1. /\ k \in Nat /\ k - 1 \in Nat /\ j \in Nat /\ j >= 1 /\ j \in 1 .. l /\ a + j = k
          /\ (k - 1) - a = j - 1
      BY <1>1, <1>6
    <2>2. x \in InId(w, held, j - 1) /\ T[k] = InId(w, held, j)
      <3>1. T[k - 1] = InId(w, held, (k - 1) - a) /\ T[k] = InId(w, held, k - a)
        BY <2>1
      <3> HIDE DEF T
      <3> QED BY <2>1, <3>1
    <2> HIDE DEF T, j
    <2>3. seq[k] = w[j] /\ w[j] # LF
      BY <1>2, <2>1
    <2> QED BY <2>1, <2>2, <2>3, IdKept
  <1>8. T[a] = InId(w, held, 0) /\ T[b] = InId(w, held, l)
    <2>1. a - a = 0 /\ b - a = l
      BY <1>1, <1>6
    <2>2. T[a] = InId(w, held, a - a) /\ T[b] = InId(w, held, b - a)
      BY <1>1, <1>5
    <2> HIDE DEF T
    <2> QED BY <2>1, <2>2
  <1> HIDE DEF T
  <1>9. ParseLoop!Iterates(g, StartOf(held), seq, 0, n)
    BY DEF seq, n
  <1>10. g[b] \in T[b]
    <2>1. 0 \in Nat /\ n \in Nat /\ 0 <= n /\ a \in 0 .. n /\ b \in a .. n
      BY <1>1, <1>5, <1>6
    <2>2. g[a] \in T[a]
      BY <1>3, <1>8
    <2> QED BY ONLY <1>7, <1>9, <2>1, <2>2, ParseLoop!IterationReaches
  <1>11. g[b + 1] = Feed(g[b], c)
    <2>1. \A i \in 0 + 1 .. n : g[i] = Feed(g[i - 1], seq[i])
      <3>1. 0 \in Nat /\ n \in Nat /\ 0 <= n
        BY <1>1
      <3> QED BY ONLY <1>9, <3>1, ParseLoop!IterationEquation
    <2>2. b + 1 \in 0 + 1 .. n /\ (b + 1) - 1 = b
      BY <1>1, <1>5
    <2> QED BY <1>2, <2>1, <2>2
  <1> DEFINE q == g[b]
             new == Feed(q, c)
  <1>12. q \in InId(w, held, l)
    BY <1>8, <1>10
  <1>13. q \in Automata /\ q.authorizationLength = 0 /\ q.onSuccess = held
    BY <1>12 DEF InId
  <1>14. /\ new \in Automata /\ new.authorizationLength = 0 /\ new.onSuccess = held
         /\ new.state = IF IsWord(r.id, IDLENGTH) /\ r.newlines >= 2
                        THEN "READSECONDNEWLINE" ELSE "DGRAMDISCARD"
    <2> HIDE DEF q
    <2>1. CASE l <= IDLENGTH /\ AlnumIn(w, l)
      <3>1. q.length = l /\ q.state \in {"READFIRSTNEWLINE", "READCLIENTDGRAMID"}
        BY <1>12, <2>1 DEF InId
      <3>2. c \notin Alnum /\ (c = LF <=> r.newlines >= 2)
        BY DEF LF, NUL, Alnum, Digits, Letters, StopOf, c
      <3>3. /\ new \in Automata /\ new.authorizationLength = 0 /\ new.onSuccess = held
            /\ q.length = IDLENGTH /\ c = LF => new.state = "READSECONDNEWLINE"
            /\ ~ (q.length = IDLENGTH /\ c = LF) => new.state = "DGRAMDISCARD"
        BY <1>13, <3>1, <3>2, IdStep
      <3> HIDE DEF new
      <3> QED BY <1>4, <2>1, <3>1, <3>2, <3>3
    <2>2. CASE ~ (l <= IDLENGTH /\ AlnumIn(w, l))
      <3>1. q.state = "DGRAMDISCARD"
        BY <1>12, <2>2 DEF InId
      <3>2. new = q
        BY <3>1 DEF Feed, Refusals
      <3>3. ~ IsWord(r.id, IDLENGTH)
        BY <1>1, <1>4, <2>2
      <3> HIDE DEF new
      <3> QED BY <1>13, <3>1, <3>2, <3>3
    <2> QED BY <2>1, <2>2
  <1> HIDE DEF new
  <1>15. g[EndOfId(r)] = new
    BY <1>1, <1>11 DEF new
  <1> QED BY <1>14, <1>15

-----------------------------------------------------------------------------
(* The key *)

\* Where the automaton may be behind k characters of the key: it has counted them, or
\* refused one.
InKey(w, held, k) ==
    {q \in Automata :
        /\ q.length \in Nat /\ q.onSuccess = held
        /\ IF k <= IDLENGTH /\ AlnumIn(w, k)
           THEN /\ q.authorizationLength = k
                /\ q.state = IF k = 0 THEN "READSECONDNEWLINE" ELSE "READCLIENTPASSWORD"
           ELSE q.state = "DGRAMBADAUTH"}

LEMMA KeyStep ==
  ASSUME NEW q \in Automata, NEW c, q.state \in {"READSECONDNEWLINE", "READCLIENTPASSWORD"}
  PROVE  LET new == Feed(q, c) IN
         /\ new \in Automata /\ new.onSuccess = q.onSuccess
         /\ new.length = q.length
         /\ c \in Alnum /\ q.authorizationLength < IDLENGTH =>
              new.state = "READCLIENTPASSWORD" /\ new.authorizationLength = q.authorizationLength + 1
         /\ c = LF /\ q.authorizationLength = IDLENGTH => new.state = "READTHIRDNEWLINE"
         /\ ~ (c \in Alnum /\ q.authorizationLength < IDLENGTH) /\ ~ (c = LF /\ q.authorizationLength = IDLENGTH) =>
              new.state = "DGRAMBADAUTH"
  <1>1. Feed(q, c) = ReadKey(q, c)
    <2>1. From(q.state) = {}
      BY DEF From, HeaderTransitions, CommandTransitions, NameTransitions,
             ArgumentTransitions, EndTransitions
    <2> QED BY <2>1 DEF Feed, ParseMp3pCharacter, Refusals
  <1>2. Feed(q, c) \in Automata
    BY FeedKeeps
  <1>3. Refusal(q.state) = "DGRAMBADAUTH"
    <2>1. \A t \in CommandTransitions : t[1] # q.state
      BY DEF CommandTransitions, NameTransitions, ArgumentTransitions, EndTransitions
    <2> QED BY <2>1 DEF Refusal
  <1>4. LF \notin Alnum
    BY DEF LF, Alnum, Digits, Letters
  <1>5. CASE c \in Alnum /\ q.authorizationLength < IDLENGTH
    <2>1. Feed(q, c) = [q EXCEPT !.authorizationLength = q.authorizationLength + 1, !.state = "READCLIENTPASSWORD"]
      BY <1>1, <1>4, <1>5 DEF ReadKey
    <2> QED BY <1>2, <1>4, <1>5, <2>1 DEF Automata
  <1>6. CASE c = LF /\ q.authorizationLength = IDLENGTH
    <2>1. Feed(q, c) = [q EXCEPT !.state = "READTHIRDNEWLINE"]
      BY <1>1, <1>4, <1>6 DEF ReadKey
    <2> QED BY <1>2, <1>4, <1>6, <2>1 DEF Automata
  <1>7. CASE ~ (c \in Alnum /\ q.authorizationLength < IDLENGTH) /\ ~ (c = LF /\ q.authorizationLength = IDLENGTH)
    <2>1. Feed(q, c) = [q EXCEPT !.state = "DGRAMBADAUTH"]
      BY <1>1, <1>3, <1>7 DEF ReadKey
    <2> QED BY <1>2, <1>7, <2>1 DEF Automata
  <1> QED BY <1>5, <1>6, <1>7

LEMMA KeyKept ==
  ASSUME NEW w, NEW held, NEW k \in Nat, k >= 1, w[k] # LF, NEW q \in InKey(w, held, k - 1)
  PROVE  Feed(q, w[k]) \in InKey(w, held, k)
  <1> DEFINE new == Feed(q, w[k])
  <1>1. /\ q \in Automata /\ q.length \in Nat /\ q.onSuccess = held
        /\ q.authorizationLength \in Nat
    BY DEF InKey, Automata
  <1>2. AlnumIn(w, k) <=> AlnumIn(w, k - 1) /\ w[k] \in Alnum
    BY DEF AlnumIn
  <1>3. CASE k - 1 <= IDLENGTH /\ AlnumIn(w, k - 1)
    <2>1. /\ q.authorizationLength = k - 1
          /\ q.state \in {"READSECONDNEWLINE", "READCLIENTPASSWORD"}
      BY <1>3 DEF InKey
    <2>2. /\ new \in Automata /\ new.onSuccess = held /\ new.length \in Nat
          /\ w[k] \in Alnum /\ q.authorizationLength < IDLENGTH =>
               new.state = "READCLIENTPASSWORD" /\ new.authorizationLength = q.authorizationLength + 1
          /\ ~ (w[k] \in Alnum /\ q.authorizationLength < IDLENGTH) => new.state = "DGRAMBADAUTH"
      BY <1>1, <2>1, KeyStep
    <2> HIDE DEF new
    <2>3. q.authorizationLength < IDLENGTH <=> k <= IDLENGTH
      BY <2>1, KeyAssumption
    <2>4. k # 0 /\ q.authorizationLength + 1 = k
      BY <2>1
    <2> QED BY <1>2, <1>3, <2>2, <2>3, <2>4 DEF InKey, new
  <1>4. CASE ~ (k - 1 <= IDLENGTH /\ AlnumIn(w, k - 1))
    <2>1. q.state = "DGRAMBADAUTH"
      BY <1>4 DEF InKey
    <2>2. new = q
      BY <2>1 DEF Feed, Refusals
    <2>3. ~ (k <= IDLENGTH /\ AlnumIn(w, k))
      BY <1>2, <1>4, KeyAssumption
    <2> HIDE DEF new
    <2> QED BY <1>1, <2>1, <2>2, <2>3 DEF InKey, new
  <1> QED BY <1>3, <1>4

\* Behind the key the automaton has refused it, or stands at the command.
LEMMA KeyRead ==
  ASSUME NEW r \in Requests, NEW held \in StaticValues, NEW g,
         ParseLoop!Iterates(g, StartOf(held), Render(r), 0, EndOfAll(r)),
         g[EndOfId(r)] \in InKey(r.key, held, 0), r.newlines >= 2
  PROVE  LET q == g[EndOfKey(r)]
         IN  /\ q \in Automata /\ q.length \in Nat /\ q.onSuccess = held
             /\ q.state = IF HasKey(r) THEN "READTHIRDNEWLINE" ELSE "DGRAMBADAUTH"
  <1> DEFINE w == r.key
             a == EndOfId(r)
             l == Len(w)
             b == a + l
             T == [k \in Nat |-> InKey(w, held, k - a)]
             seq == Render(r)
             n == EndOfAll(r)
             c == StopOf(r, 3)
  <1>1. a \in Nat /\ n \in Nat /\ l \in Nat /\ b + 1 = EndOfKey(r) /\ b + 1 <= n
    BY Offsets, PartsAreTexts
  <1>2. /\ \A k \in 1 .. l : seq[a + k] = w[k] /\ w[k] # LF
        /\ seq[b + 1] = c
    <2>1. /\ \A k \in 1 .. l : seq[a + k] = w[k]
          /\ seq[EndOfKey(r)] = c
      BY Places
    <2>2. \A i \in DOMAIN r.key : r.key[i] # LF
      BY RequestsAssumption DEF IsParted
    <2>3. DOMAIN r.key = 1 .. l
      BY PartsAreTexts, LenProperties DEF Texts
    <2> QED BY <1>1, <2>1, <2>2, <2>3
  <1>3. g[a] \in InKey(w, held, 0)
    OBVIOUS
  <1>4. IsWord(r.key, IDLENGTH) <=> l = IDLENGTH /\ AlnumIn(w, l)
    BY PartsAreTexts, LenProperties DEF IsWord, AlnumIn, Texts
  <1>16. HasKey(r) <=> IsWord(r.key, IDLENGTH) /\ c = LF
    <2>1. LF # NUL
      BY Zenon DEF LF, NUL
    <2>2. r.newlines >= 3 <=> r.newlines = 3
      BY Newlines, Zenon
    <2>3. c = LF <=> r.newlines = 3
      BY <2>1, <2>2, Zenon DEF StopOf
    <2> QED BY <2>3, Zenon DEF HasKey
  <1> HIDE DEF w, a, l, seq, n, c
  <1>5. b \in Nat
    BY <1>1
  <1> HIDE DEF b
  <1>6. b = a + l
    BY DEF b
  <1>7. \A k \in a + 1 .. b : \A x \in T[k - 1] : Feed(x, seq[k]) \in T[k]
    <2> SUFFICES ASSUME NEW k \in a + 1 .. b, NEW x \in T[k - 1] PROVE Feed(x, seq[k]) \in T[k]
      OBVIOUS
    <2> DEFINE j == k - a
    <2>1. /\ k \in Nat /\ k - 1 \in Nat /\ j \in Nat /\ j >= 1 /\ j \in 1 .. l /\ a + j = k
          /\ (k - 1) - a = j - 1
      BY <1>1, <1>6
    <2>2. x \in InKey(w, held, j - 1) /\ T[k] = InKey(w, held, j)
      <3>1. T[k - 1] = InKey(w, held, (k - 1) - a) /\ T[k] = InKey(w, held, k - a)
        BY <2>1
      <3> HIDE DEF T
      <3> QED BY <2>1, <3>1
    <2> HIDE DEF T, j
    <2>3. seq[k] = w[j] /\ w[j] # LF
      BY <1>2, <2>1
    <2> QED BY <2>1, <2>2, <2>3, KeyKept
  <1>8. T[a] = InKey(w, held, 0) /\ T[b] = InKey(w, held, l)
    <2>1. a - a = 0 /\ b - a = l
      BY <1>1, <1>6
    <2>2. T[a] = InKey(w, held, a - a) /\ T[b] = InKey(w, held, b - a)
      BY <1>1, <1>5
    <2> HIDE DEF T
    <2> QED BY <2>1, <2>2
  <1> HIDE DEF T
  <1>9. ParseLoop!Iterates(g, StartOf(held), seq, 0, n)
    BY DEF seq, n
  <1>10. g[b] \in T[b]
    <2>1. 0 \in Nat /\ n \in Nat /\ 0 <= n /\ a \in 0 .. n /\ b \in a .. n
      BY <1>1, <1>5, <1>6
    <2>2. g[a] \in T[a]
      BY <1>3, <1>8
    <2> QED BY ONLY <1>7, <1>9, <2>1, <2>2, ParseLoop!IterationReaches
  <1>11. g[b + 1] = Feed(g[b], c)
    <2>1. \A i \in 0 + 1 .. n : g[i] = Feed(g[i - 1], seq[i])
      <3>1. 0 \in Nat /\ n \in Nat /\ 0 <= n
        BY <1>1
      <3> QED BY ONLY <1>9, <3>1, ParseLoop!IterationEquation
    <2>2. b + 1 \in 0 + 1 .. n /\ (b + 1) - 1 = b
      BY <1>1, <1>5
    <2> QED BY <1>2, <2>1, <2>2
  <1> DEFINE q == g[b]
             new == Feed(q, c)
  <1>12. q \in InKey(w, held, l)
    BY <1>8, <1>10
  <1>13. q \in Automata /\ q.length \in Nat /\ q.onSuccess = held
    BY <1>12 DEF InKey
  <1>14. /\ new \in Automata /\ new.length \in Nat /\ new.onSuccess = held
         /\ new.state = IF HasKey(r) THEN "READTHIRDNEWLINE" ELSE "DGRAMBADAUTH"
    <2> HIDE DEF q
    <2>1. CASE l <= IDLENGTH /\ AlnumIn(w, l)
      <3>1. q.authorizationLength = l /\ q.state \in {"READSECONDNEWLINE", "READCLIENTPASSWORD"}
        BY <1>12, <2>1 DEF InKey
      <3>2. c \notin Alnum
        BY DEF LF, NUL, Alnum, Digits, Letters, StopOf, c
      <3>3. /\ new \in Automata /\ new.length \in Nat /\ new.onSuccess = held
            /\ q.authorizationLength = IDLENGTH /\ c = LF => new.state = "READTHIRDNEWLINE"
            /\ ~ (q.authorizationLength = IDLENGTH /\ c = LF) => new.state = "DGRAMBADAUTH"
        BY <1>13, <3>1, <3>2, KeyStep
      <3> HIDE DEF new
      <3> QED BY <1>4, <1>16, <2>1, <3>1, <3>3
    <2>2. CASE ~ (l <= IDLENGTH /\ AlnumIn(w, l))
      <3>1. q.state = "DGRAMBADAUTH"
        BY <1>12, <2>2 DEF InKey
      <3>2. new = q
        BY <3>1 DEF Feed, Refusals
      <3>3. ~ HasKey(r)
        BY <1>1, <1>4, <1>16, <2>2
      <3> HIDE DEF new
      <3> QED BY <1>13, <3>1, <3>2, <3>3
    <2> QED BY <2>1, <2>2
  <1> HIDE DEF new
  <1>15. g[EndOfKey(r)] = new
    BY <1>1, <1>11 DEF new
  <1> QED BY <1>14, <1>15

-----------------------------------------------------------------------------
(* The command *)

\* The states that read the command, the complete ones, and those whose end the static
\* variable decides.
ReadingStates ==
    {"READTHIRDNEWLINE", "READB", "READH", "READC", "READL", "READM_FOR_MP", "READ_D", "READA",
     "READLU", "READLC", "READCC", "READHC", "READBR", "READBT", "READAU", "READDU", "READMP",
     "READONEARGSEPARATOR", "READINGONLYUSER", "READFIRSTARGSEPARATOR", "READINGUSER",
     "READSECONDARGSEPARATOR", "READINGPASSWORD"}

PlainCommands ==
    {"DGRAM_BT_COMMAND", "DGRAM_BR_COMMAND", "DGRAM_HC_COMMAND", "DGRAM_CC_COMMAND",
     "DGRAM_LC_COMMAND", "DGRAM_LU_COMMAND"}

CompleteStates ==
    PlainCommands \cup {"DGRAM_AU_COMMAND", "DGRAM_DU_COMMAND", "DGRAM_MP_COMMAND"}

ArgumentStates ==
    {"READAU", "READDU", "READMP", "READONEARGSEPARATOR", "READINGONLYUSER",
     "READFIRSTARGSEPARATOR", "READINGUSER", "READSECONDARGSEPARATOR", "READINGPASSWORD"}

Letters2(l, a, b) == l[1] = a /\ l[2] = b
TwoArguments(l) == Letters2(l, "A", "U") \/ Letters2(l, "M", "P")

WordIn(l, i, j) == \A x \in i .. j : l[x] \in WordChars

\* The first k characters end in the first word, and in the second.
InFirst(l, k) == k >= 4 /\ l[3] = Space /\ WordIn(l, 4, k)
BehindFirst(l, k) == k >= 5 /\ l[3] = Space /\ WordIn(l, 4, k - 1) /\ l[k] = Space
InSecond(l, k) == \E j \in 5 .. k - 1 : BehindFirst(l, j) /\ WordIn(l, j + 1, k)

\* The command that the two letters make of the end of the arguments.
Held(l) ==
    IF Letters2(l, "D", "U") THEN "DGRAM_DU_COMMAND"
    ELSE IF Letters2(l, "A", "U") THEN "DGRAM_AU_COMMAND" ELSE "DGRAM_MP_COMMAND"

\* The first k characters are a complete command and the NUL behind it.
CompleteAt(s, l, k) ==
    CASE s = "DGRAM_BT_COMMAND" -> k = 3 /\ Letters2(l, "B", "T") /\ l[k] = NUL
      [] s = "DGRAM_BR_COMMAND" -> k = 3 /\ Letters2(l, "B", "R") /\ l[k] = NUL
      [] s = "DGRAM_HC_COMMAND" -> k = 3 /\ Letters2(l, "H", "C") /\ l[k] = NUL
      [] s = "DGRAM_CC_COMMAND" -> k = 3 /\ Letters2(l, "C", "C") /\ l[k] = NUL
      [] s = "DGRAM_LC_COMMAND" -> k = 3 /\ Letters2(l, "L", "C") /\ l[k] = NUL
      [] s = "DGRAM_LU_COMMAND" -> k = 3 /\ Letters2(l, "L", "U") /\ l[k] = NUL
      [] s = "DGRAM_DU_COMMAND" -> Letters2(l, "D", "U") /\ InFirst(l, k - 1) /\ l[k] = NUL
      [] s = "DGRAM_AU_COMMAND" -> Letters2(l, "A", "U") /\ InSecond(l, k - 1) /\ l[k] = NUL
      [] s = "DGRAM_MP_COMMAND" -> Letters2(l, "M", "P") /\ InSecond(l, k - 1) /\ l[k] = NUL

\* The state s has read them.
ReadingAt(s, l, k) ==
    CASE s = "READTHIRDNEWLINE" -> k = 0
      [] s = "READB" -> k = 1 /\ l[1] = "B"
      [] s = "READH" -> k = 1 /\ l[1] = "H"
      [] s = "READC" -> k = 1 /\ l[1] = "C"
      [] s = "READL" -> k = 1 /\ l[1] = "L"
      [] s = "READM_FOR_MP" -> k = 1 /\ l[1] = "M"
      [] s = "READ_D" -> k = 1 /\ l[1] = "D"
      [] s = "READA" -> k = 1 /\ l[1] = "A"
      [] s = "READLU" -> k = 2 /\ Letters2(l, "L", "U")
      [] s = "READLC" -> k = 2 /\ Letters2(l, "L", "C")
      [] s = "READCC" -> k = 2 /\ Letters2(l, "C", "C")
      [] s = "READHC" -> k = 2 /\ Letters2(l, "H", "C")
      [] s = "READBR" -> k = 2 /\ Letters2(l, "B", "R")
      [] s = "READBT" -> k = 2 /\ Letters2(l, "B", "T")
      [] s = "READAU" -> k = 2 /\ Letters2(l, "A", "U")
      [] s = "READDU" -> k = 2 /\ Letters2(l, "D", "U")
      [] s = "READMP" -> k = 2 /\ Letters2(l, "M", "P")
      [] s = "READONEARGSEPARATOR" -> k = 3 /\ Letters2(l, "D", "U") /\ l[3] = Space
      [] s = "READINGONLYUSER" -> Letters2(l, "D", "U") /\ InFirst(l, k)
      [] s = "READFIRSTARGSEPARATOR" -> k = 3 /\ TwoArguments(l) /\ l[3] = Space
      [] s = "READINGUSER" -> TwoArguments(l) /\ InFirst(l, k)
      [] s = "READSECONDARGSEPARATOR" -> TwoArguments(l) /\ BehindFirst(l, k)
      [] s = "READINGPASSWORD" -> TwoArguments(l) /\ InSecond(l, k)

\* The state that a transition enters.
Target(t, l) == IF t[3] = "onSuccessCommandState" THEN Held(l) ELSE t[3]

LEMMA WordsGrow ==
  ASSUME NEW l, NEW k \in Nat, k >= 1
  PROVE  /\ InFirst(l, k) <=>
              ((k = 4 /\ l[3] = Space) \/ InFirst(l, k - 1)) /\ l[k] \in WordChars
         /\ BehindFirst(l, k) <=> InFirst(l, k - 1) /\ l[k] = Space
         /\ InSecond(l, k) <=>
              (BehindFirst(l, k - 1) \/ InSecond(l, k - 1)) /\ l[k] \in WordChars
  <1>1. InFirst(l, k) <=>
              ((k = 4 /\ l[3] = Space) \/ InFirst(l, k - 1)) /\ l[k] \in WordChars
    <2>1. CASE k < 4
      BY <2>1 DEF InFirst
    <2>2. CASE k = 4
      BY <2>2 DEF InFirst, WordIn
    <2>3. CASE k > 4
      <3>1. WordIn(l, 4, k) <=> WordIn(l, 4, k - 1) /\ l[k] \in WordChars
        BY <2>3 DEF WordIn
      <3> QED BY <2>3, <3>1 DEF InFirst
    <2> QED BY <2>1, <2>2, <2>3
  <1>2. BehindFirst(l, k) <=> InFirst(l, k - 1) /\ l[k] = Space
    BY DEF BehindFirst, InFirst
  <1>3. ASSUME InSecond(l, k)
        PROVE  (BehindFirst(l, k - 1) \/ InSecond(l, k - 1)) /\ l[k] \in WordChars
    <2>1. PICK j \in 5 .. k - 1 : BehindFirst(l, j) /\ WordIn(l, j + 1, k)
      BY <1>3 DEF InSecond
    <2>2. l[k] \in WordChars
      BY <2>1 DEF WordIn
    <2>3. CASE j = k - 1
      BY <2>1, <2>2, <2>3
    <2>4. CASE j # k - 1
      <3>1. j \in 5 .. (k - 1) - 1 /\ WordIn(l, j + 1, k - 1)
        BY <2>1, <2>4 DEF WordIn
      <3> QED BY <2>1, <2>2, <3>1 DEF InSecond
    <2> QED BY <2>3, <2>4
  <1>4. ASSUME BehindFirst(l, k - 1) \/ InSecond(l, k - 1), l[k] \in WordChars
        PROVE  InSecond(l, k)
    <2>1. CASE BehindFirst(l, k - 1)
      <3>1. k - 1 \in 5 .. k - 1 /\ WordIn(l, (k - 1) + 1, k)
        BY <1>4, <2>1 DEF BehindFirst, WordIn
      <3> QED BY <2>1, <3>1 DEF InSecond
    <2>2. CASE InSecond(l, k - 1)
      <3>1. PICK j \in 5 .. (k - 1) - 1 : BehindFirst(l, j) /\ WordIn(l, j + 1, k - 1)
        BY <2>2 DEF InSecond
      <3>2. j \in 5 .. k - 1 /\ WordIn(l, j + 1, k)
        <4>1. \A x \in j + 1 .. k : x \in j + 1 .. k - 1 \/ x = k
          OBVIOUS
        <4> QED BY <1>4, <3>1, <4>1 DEF WordIn
      <3> QED BY <3>1, <3>2 DEF InSecond
    <2> QED BY <1>4, <2>1, <2>2
  <1> QED BY <1>1, <1>2, <1>3, <1>4

\* The transitions of the command, one by one.
LEMMA NameWays ==
  NameTransitions =
    {<<"READTHIRDNEWLINE", {"B"}, "READB">>, <<"READTHIRDNEWLINE", {"H"}, "READH">>,
     <<"READTHIRDNEWLINE", {"C"}, "READC">>, <<"READTHIRDNEWLINE", {"L"}, "READL">>,
     <<"READTHIRDNEWLINE", {"M"}, "READM_FOR_MP">>, <<"READTHIRDNEWLINE", {"D"}, "READ_D">>,
     <<"READTHIRDNEWLINE", {"A"}, "READA">>,
     <<"READL", {"U"}, "READLU">>, <<"READL", {"C"}, "READLC">>,
     <<"READC", {"C"}, "READCC">>, <<"READH", {"C"}, "READHC">>,
     <<"READB", {"R"}, "READBR">>, <<"READB", {"T"}, "READBT">>,
     <<"READA", {"U"}, "READAU">>, <<"READ_D", {"U"}, "READDU">>,
     <<"READM_FOR_MP", {"P"}, "READMP">>}
  BY DEF NameTransitions

LEMMA EndWays ==
  EndTransitions =
    {<<"READBT", {NUL}, "DGRAM_BT_COMMAND">>, <<"READBR", {NUL}, "DGRAM_BR_COMMAND">>,
     <<"READHC", {NUL}, "DGRAM_HC_COMMAND">>, <<"READCC", {NUL}, "DGRAM_CC_COMMAND">>,
     <<"READLC", {NUL}, "DGRAM_LC_COMMAND">>, <<"READLU", {NUL}, "DGRAM_LU_COMMAND">>,
     <<"READINGONLYUSER", {NUL}, "onSuccessCommandState">>,
     <<"READINGPASSWORD", {NUL}, "onSuccessCommandState">>}
  BY DEF EndTransitions

\* How each of the states follows from those in front of it.
LEMMA StateGrows ==
  ASSUME NEW l, NEW k \in Nat, k >= 1
  PROVE  /\ ReadingAt("READB", l, k) <=> ReadingAt("READTHIRDNEWLINE", l, k - 1) /\ l[k] = "B"
         /\ ReadingAt("READH", l, k) <=> ReadingAt("READTHIRDNEWLINE", l, k - 1) /\ l[k] = "H"
         /\ ReadingAt("READC", l, k) <=> ReadingAt("READTHIRDNEWLINE", l, k - 1) /\ l[k] = "C"
         /\ ReadingAt("READL", l, k) <=> ReadingAt("READTHIRDNEWLINE", l, k - 1) /\ l[k] = "L"
         /\ ReadingAt("READM_FOR_MP", l, k) <=> ReadingAt("READTHIRDNEWLINE", l, k - 1) /\ l[k] = "M"
         /\ ReadingAt("READ_D", l, k) <=> ReadingAt("READTHIRDNEWLINE", l, k - 1) /\ l[k] = "D"
         /\ ReadingAt("READA", l, k) <=> ReadingAt("READTHIRDNEWLINE", l, k - 1) /\ l[k] = "A"
         /\ ReadingAt("READLU", l, k) <=> ReadingAt("READL", l, k - 1) /\ l[k] = "U"
         /\ ReadingAt("READLC", l, k) <=> ReadingAt("READL", l, k - 1) /\ l[k] = "C"
         /\ ReadingAt("READCC", l, k) <=> ReadingAt("READC", l, k - 1) /\ l[k] = "C"
         /\ ReadingAt("READHC", l, k) <=> ReadingAt("READH", l, k - 1) /\ l[k] = "C"
         /\ ReadingAt("READBR", l, k) <=> ReadingAt("READB", l, k - 1) /\ l[k] = "R"
         /\ ReadingAt("READBT", l, k) <=> ReadingAt("READB", l, k - 1) /\ l[k] = "T"
         /\ ReadingAt("READAU", l, k) <=> ReadingAt("READA", l, k - 1) /\ l[k] = "U"
         /\ ReadingAt("READDU", l, k) <=> ReadingAt("READ_D", l, k - 1) /\ l[k] = "U"
         /\ ReadingAt("READMP", l, k) <=> ReadingAt("READM_FOR_MP", l, k - 1) /\ l[k] = "P"
         /\ ReadingAt("READONEARGSEPARATOR", l, k) <=> ReadingAt("READDU", l, k - 1) /\ l[k] = Space
         /\ ReadingAt("READFIRSTARGSEPARATOR", l, k) <=>
              (ReadingAt("READAU", l, k - 1) \/ ReadingAt("READMP", l, k - 1)) /\ l[k] = Space
         /\ ReadingAt("READINGONLYUSER", l, k) <=>
              (ReadingAt("READONEARGSEPARATOR", l, k - 1) \/ ReadingAt("READINGONLYUSER", l, k - 1))
                /\ l[k] \in WordChars
         /\ ReadingAt("READINGUSER", l, k) <=>
              (ReadingAt("READFIRSTARGSEPARATOR", l, k - 1) \/ ReadingAt("READINGUSER", l, k - 1))
                /\ l[k] \in WordChars
         /\ ReadingAt("READSECONDARGSEPARATOR", l, k) <=> ReadingAt("READINGUSER", l, k - 1) /\ l[k] = Space
         /\ ReadingAt("READINGPASSWORD", l, k) <=>
              (ReadingAt("READSECONDARGSEPARATOR", l, k - 1) \/ ReadingAt("READINGPASSWORD", l, k - 1))
                /\ l[k] \in WordChars
         /\ CompleteAt("DGRAM_BT_COMMAND", l, k) <=> ReadingAt("READBT", l, k - 1) /\ l[k] = NUL
         /\ CompleteAt("DGRAM_BR_COMMAND", l, k) <=> ReadingAt("READBR", l, k - 1) /\ l[k] = NUL
         /\ CompleteAt("DGRAM_HC_COMMAND", l, k) <=> ReadingAt("READHC", l, k - 1) /\ l[k] = NUL
         /\ CompleteAt("DGRAM_CC_COMMAND", l, k) <=> ReadingAt("READCC", l, k - 1) /\ l[k] = NUL
         /\ CompleteAt("DGRAM_LC_COMMAND", l, k) <=> ReadingAt("READLC", l, k - 1) /\ l[k] = NUL
         /\ CompleteAt("DGRAM_LU_COMMAND", l, k) <=> ReadingAt("READLU", l, k - 1) /\ l[k] = NUL
         /\ CompleteAt("DGRAM_DU_COMMAND", l, k) <=> ReadingAt("READINGONLYUSER", l, k - 1) /\ l[k] = NUL
         /\ CompleteAt("DGRAM_AU_COMMAND", l, k) <=>
              ReadingAt("READINGPASSWORD", l, k - 1) /\ Held(l) = "DGRAM_AU_COMMAND" /\ l[k] = NUL
         /\ CompleteAt("DGRAM_MP_COMMAND", l, k) <=>
              ReadingAt("READINGPASSWORD", l, k - 1) /\ Held(l) = "DGRAM_MP_COMMAND" /\ l[k] = NUL
         /\ ReadingAt("READINGONLYUSER", l, k - 1) => Held(l) = "DGRAM_DU_COMMAND"
         /\ ReadingAt("READINGPASSWORD", l, k - 1) => Held(l) \in {"DGRAM_AU_COMMAND", "DGRAM_MP_COMMAND"}
  <1>1. /\ ReadingAt("READB", l, k) <=> ReadingAt("READTHIRDNEWLINE", l, k - 1) /\ l[k] = "B"
        /\ ReadingAt("READH", l, k) <=> ReadingAt("READTHIRDNEWLINE", l, k - 1) /\ l[k] = "H"
        /\ ReadingAt("READC", l, k) <=> ReadingAt("READTHIRDNEWLINE", l, k - 1) /\ l[k] = "C"
        /\ ReadingAt("READL", l, k) <=> ReadingAt("READTHIRDNEWLINE", l, k - 1) /\ l[k] = "L"
        /\ ReadingAt("READM_FOR_MP", l, k) <=> ReadingAt("READTHIRDNEWLINE", l, k - 1) /\ l[k] = "M"
        /\ ReadingAt("READ_D", l, k) <=> ReadingAt("READTHIRDNEWLINE", l, k - 1) /\ l[k] = "D"
        /\ ReadingAt("READA", l, k) <=> ReadingAt("READTHIRDNEWLINE", l, k - 1) /\ l[k] = "A"
        /\ ReadingAt("READLU", l, k) <=> ReadingAt("READL", l, k - 1) /\ l[k] = "U"
        /\ ReadingAt("READLC", l, k) <=> ReadingAt("READL", l, k - 1) /\ l[k] = "C"
        /\ ReadingAt("READCC", l, k) <=> ReadingAt("READC", l, k - 1) /\ l[k] = "C"
        /\ ReadingAt("READHC", l, k) <=> ReadingAt("READH", l, k - 1) /\ l[k] = "C"
        /\ ReadingAt("READBR", l, k) <=> ReadingAt("READB", l, k - 1) /\ l[k] = "R"
        /\ ReadingAt("READBT", l, k) <=> ReadingAt("READB", l, k - 1) /\ l[k] = "T"
        /\ ReadingAt("READAU", l, k) <=> ReadingAt("READA", l, k - 1) /\ l[k] = "U"
        /\ ReadingAt("READDU", l, k) <=> ReadingAt("READ_D", l, k - 1) /\ l[k] = "U"
        /\ ReadingAt("READMP", l, k) <=> ReadingAt("READM_FOR_MP", l, k - 1) /\ l[k] = "P"
    BY DEF ReadingAt, Letters2
  <1>2. /\ ReadingAt("READONEARGSEPARATOR", l, k) <=> ReadingAt("READDU", l, k - 1) /\ l[k] = Space
        /\ ReadingAt("READFIRSTARGSEPARATOR", l, k) <=>
            (ReadingAt("READAU", l, k - 1) \/ ReadingAt("READMP", l, k - 1)) /\ l[k] = Space
        /\ ReadingAt("READINGONLYUSER", l, k) <=>
            (ReadingAt("READONEARGSEPARATOR", l, k - 1) \/ ReadingAt("READINGONLYUSER", l, k - 1))
              /\ l[k] \in WordChars
        /\ ReadingAt("READINGUSER", l, k) <=>
            (ReadingAt("READFIRSTARGSEPARATOR", l, k - 1) \/ ReadingAt("READINGUSER", l, k - 1))
              /\ l[k] \in WordChars
        /\ ReadingAt("READSECONDARGSEPARATOR", l, k) <=> ReadingAt("READINGUSER", l, k - 1) /\ l[k] = Space
        /\ ReadingAt("READINGPASSWORD", l, k) <=>
            (ReadingAt("READSECONDARGSEPARATOR", l, k - 1) \/ ReadingAt("READINGPASSWORD", l, k - 1))
              /\ l[k] \in WordChars
    BY WordsGrow, SMTT(30) DEF ReadingAt, Letters2, TwoArguments
  <1>3. /\ CompleteAt("DGRAM_BT_COMMAND", l, k) <=> ReadingAt("READBT", l, k - 1) /\ l[k] = NUL
        /\ CompleteAt("DGRAM_BR_COMMAND", l, k) <=> ReadingAt("READBR", l, k - 1) /\ l[k] = NUL
        /\ CompleteAt("DGRAM_HC_COMMAND", l, k) <=> ReadingAt("READHC", l, k - 1) /\ l[k] = NUL
        /\ CompleteAt("DGRAM_CC_COMMAND", l, k) <=> ReadingAt("READCC", l, k - 1) /\ l[k] = NUL
        /\ CompleteAt("DGRAM_LC_COMMAND", l, k) <=> ReadingAt("READLC", l, k - 1) /\ l[k] = NUL
        /\ CompleteAt("DGRAM_LU_COMMAND", l, k) <=> ReadingAt("READLU", l, k - 1) /\ l[k] = NUL
        /\ CompleteAt("DGRAM_DU_COMMAND", l, k) <=> ReadingAt("READINGONLYUSER", l, k - 1) /\ l[k] = NUL
        /\ CompleteAt("DGRAM_AU_COMMAND", l, k) <=>
            ReadingAt("READINGPASSWORD", l, k - 1) /\ Held(l) = "DGRAM_AU_COMMAND" /\ l[k] = NUL
        /\ CompleteAt("DGRAM_MP_COMMAND", l, k) <=>
            ReadingAt("READINGPASSWORD", l, k - 1) /\ Held(l) = "DGRAM_MP_COMMAND" /\ l[k] = NUL
        /\ ReadingAt("READINGONLYUSER", l, k - 1) => Held(l) = "DGRAM_DU_COMMAND"
        /\ ReadingAt("READINGPASSWORD", l, k - 1) => Held(l) \in {"DGRAM_AU_COMMAND", "DGRAM_MP_COMMAND"}
    BY DEF ReadingAt, CompleteAt, Letters2, TwoArguments, Held
  <1> QED BY <1>1, <1>2, <1>3, SMTT(30)


\* A character that a transition accepts leads to where the transition does.
LEMMA CommandGrows ==
  ASSUME NEW l, NEW k \in Nat, k >= 1,
         NEW t \in CommandTransitions, ReadingAt(t[1], l, k - 1), l[k] \in t[2]
  PROVE  \/ Target(t, l) \in ReadingStates /\ ReadingAt(Target(t, l), l, k)
         \/ Target(t, l) \in CompleteStates /\ CompleteAt(Target(t, l), l, k)
  <1>1. CASE t \in NameTransitions
    <2>1. ReadingAt(Target(t, l), l, k)
      BY <1>1, NameWays, StateGrows DEF Target
    <2>2. Target(t, l) \in ReadingStates
      BY <1>1, NameWays, SMTT(30) DEF Target, ReadingStates
    <2> QED BY <2>1, <2>2, SMTT(30)
  <1>2. CASE t \in ArgumentTransitions
    <2>1. ReadingAt(Target(t, l), l, k)
      BY <1>2, StateGrows DEF ArgumentTransitions, Target
    <2>2. Target(t, l) \in ReadingStates
      BY <1>2 DEF ArgumentTransitions, Target, ReadingStates
    <2> QED BY <2>1, <2>2, SMTT(30)
  <1>3. CASE t \in EndTransitions
    <2>1. CompleteAt(Target(t, l), l, k)
      <3>1. CASE t[3] # "onSuccessCommandState"
        <4>1. Target(t, l) = t[3]
          BY <3>1 DEF Target
        <4> QED BY <1>3, <3>1, <4>1, EndWays, StateGrows
      <3>2. CASE t[3] = "onSuccessCommandState"
        <4>1. Target(t, l) = Held(l)
          BY <3>2 DEF Target
        <4>2. l[k] = NUL /\ t[1] \in {"READINGONLYUSER", "READINGPASSWORD"}
          BY <1>3, <3>2, EndWays
        <4>3. CASE t[1] = "READINGONLYUSER"
          <5>1. CompleteAt("DGRAM_DU_COMMAND", l, k) /\ Held(l) = "DGRAM_DU_COMMAND"
            <6> QED BY <4>2, <4>3, StateGrows
          <5> QED BY <4>1, <5>1
        <4>4. CASE t[1] = "READINGPASSWORD"
          BY <4>1, <4>2, <4>4, StateGrows
        <4> QED BY <4>2, <4>3, <4>4
      <3> QED BY <3>1, <3>2
    <2>2. Target(t, l) \in CompleteStates
      BY <1>3, EndWays DEF Target, CompleteStates, PlainCommands, Held
    <2> QED BY <2>1, <2>2
  <1> QED BY <1>1, <1>2, <1>3 DEF CommandTransitions

\* And there is no other way to a state.
LEMMA ReadingEntered ==
  ASSUME NEW l, NEW k \in Nat, k >= 1, NEW s \in ReadingStates, ReadingAt(s, l, k)
  PROVE  \E t \in CommandTransitions :
             Target(t, l) = s /\ l[k] \in t[2] /\ ReadingAt(t[1], l, k - 1)
  <1>1. CASE s \in ReadingStates \ ArgumentStates
    <2>1. s # "READTHIRDNEWLINE"
      <3>1. ReadingAt("READTHIRDNEWLINE", l, k) <=> k = 0
        BY DEF ReadingAt
      <3> QED BY <3>1
    <2>2. \E t \in NameTransitions :
             Target(t, l) = s /\ l[k] \in t[2] /\ ReadingAt(t[1], l, k - 1)
      BY <1>1, <2>1, NameWays, StateGrows, SMTT(30) DEF Target, ReadingStates, ArgumentStates
    <2> QED BY <2>2 DEF CommandTransitions
  <1>2. CASE s \in {"READAU", "READDU", "READMP"}
    <2>1. \E t \in NameTransitions :
             Target(t, l) = s /\ l[k] \in t[2] /\ ReadingAt(t[1], l, k - 1)
      BY <1>2, NameWays, StateGrows DEF Target
    <2> QED BY <2>1 DEF CommandTransitions
  <1>3. CASE s \in ArgumentStates \ {"READAU", "READDU", "READMP"}
    <2>1. \E t \in ArgumentTransitions :
             Target(t, l) = s /\ l[k] \in t[2] /\ ReadingAt(t[1], l, k - 1)
      BY <1>3, StateGrows DEF ArgumentTransitions, ArgumentStates, Target
    <2> QED BY <2>1 DEF CommandTransitions
  <1> QED BY <1>1, <1>2, <1>3

LEMMA CompleteEntered ==
  ASSUME NEW l, NEW k \in Nat, k >= 1, NEW s \in CompleteStates, CompleteAt(s, l, k)
  PROVE  \E t \in CommandTransitions :
             Target(t, l) = s /\ l[k] \in t[2] /\ ReadingAt(t[1], l, k - 1)
  <1>1. \E t \in EndTransitions :
             Target(t, l) = s /\ l[k] \in t[2] /\ ReadingAt(t[1], l, k - 1)
    <2>1. CASE s \in PlainCommands
      BY <2>1, EndWays, StateGrows DEF Target, PlainCommands
    <2>2. CASE s = "DGRAM_DU_COMMAND"
      <3>1. ReadingAt("READINGONLYUSER", l, k - 1) /\ l[k] = NUL
        BY <2>2, StateGrows
      <3>2. Held(l) = s
        BY <2>2 DEF CompleteAt, Held
      <3> QED BY <3>1, <3>2, EndWays DEF Target
    <2>3. CASE s \in {"DGRAM_AU_COMMAND", "DGRAM_MP_COMMAND"}
      <3>1. ReadingAt("READINGPASSWORD", l, k - 1) /\ l[k] = NUL /\ Held(l) = s
        BY <2>3, StateGrows
      <3> QED BY <3>1, EndWays DEF Target
    <2> QED BY <2>1, <2>2, <2>3, SMTT(30) DEF CompleteStates
  <1> QED BY <1>1 DEF CommandTransitions

\* No character has two transitions out of a state.
LEMMA OneTransition ==
  ASSUME NEW t \in CommandTransitions, NEW u \in CommandTransitions, t[1] = u[1],
         NEW c \in t[2], c \in u[2]
  PROVE  t = u
  <1> DEFINE first == {"READTHIRDNEWLINE", "READL", "READC", "READH", "READB", "READA", "READ_D",
                       "READM_FOR_MP"}
             words == {"READDU", "READMP", "READAU", "READONEARGSEPARATOR", "READFIRSTARGSEPARATOR",
                       "READINGUSER", "READSECONDARGSEPARATOR"}
             plain == {"READBT", "READBR", "READHC", "READCC", "READLC", "READLU"}
             last == {"READINGONLYUSER", "READINGPASSWORD"}
  <1>1. \A x \in NameTransitions : x[1] \in first
    BY NameWays
  <1>2. \A x \in ArgumentTransitions : x[1] \in words \cup last
    BY DEF ArgumentTransitions
  <1>3. \A x \in EndTransitions : x[1] \in plain \cup last
    BY EndWays
  <1>4. CASE t \in NameTransitions /\ u \in NameTransitions
    <2> DEFINE letters == {<<"B", "READB">>, <<"H", "READH">>, <<"C", "READC">>, <<"L", "READL">>,
                           <<"M", "READM_FOR_MP">>, <<"D", "READ_D">>, <<"A", "READA">>}
    <2>1. CASE t[1] = "READTHIRDNEWLINE"
      <3>1. \A x \in NameTransitions :
              x[1] = "READTHIRDNEWLINE" =>
                \E y \in letters : x = <<"READTHIRDNEWLINE", {y[1]}, y[2]>>
        BY NameWays
      <3>2. \A x \in letters, y \in letters : x[1] = y[1] => x = y
        OBVIOUS
      <3> HIDE DEF letters
      <3>3. PICK x \in letters : t = <<"READTHIRDNEWLINE", {x[1]}, x[2]>>
        BY <1>4, <2>1, <3>1
      <3>4. PICK y \in letters : u = <<"READTHIRDNEWLINE", {y[1]}, y[2]>>
        BY <1>4, <2>1, <3>1, Zenon
      <3>5. c = x[1] /\ c = y[1]
        BY <3>3, <3>4
      <3> QED BY <3>2, <3>3, <3>4, <3>5, Zenon
    <2>2. CASE t[1] \in {"READL", "READB"}
      BY <1>4, <2>2, NameWays
    <2>3. CASE t[1] \notin {"READTHIRDNEWLINE", "READL", "READB"}
      <3> DEFINE ways == {<<"READC", {"C"}, "READCC">>, <<"READH", {"C"}, "READHC">>,
                          <<"READA", {"U"}, "READAU">>, <<"READ_D", {"U"}, "READDU">>,
                          <<"READM_FOR_MP", {"P"}, "READMP">>}
      <3>1. t \in ways /\ u \in ways
        BY <1>4, <2>3, NameWays
      <3>2. \A x \in ways, y \in ways : x[1] = y[1] => x = y
        OBVIOUS
      <3> HIDE DEF ways
      <3> QED BY <3>1, <3>2
    <2> QED BY <2>1, <2>2, <2>3
  <1>5. NUL \notin WordChars /\ Space \notin WordChars
    BY DEF WordChars
  <1>6. CASE t \in ArgumentTransitions /\ u \in ArgumentTransitions
    BY <1>5, <1>6 DEF ArgumentTransitions
  <1>7. CASE t \in EndTransitions /\ u \in EndTransitions
    BY <1>7, EndWays
  <1>8. ASSUME NEW x \in ArgumentTransitions, NEW y \in EndTransitions, x[1] = y[1]
        PROVE  x[2] \cap y[2] = {}
    <2>1. x[1] \in last
      BY <1>2, <1>3, <1>8
    <2>2. x[2] = WordChars /\ y[2] = {NUL}
      BY <2>1, EndWays DEF ArgumentTransitions
    <2> QED BY <1>5, <2>2
  <1> QED BY <1>1, <1>2, <1>3, <1>4, <1>6, <1>7, <1>8 DEF CommandTransitions

\* What the states of the command refuse.
LEMMA LineRefusal ==
  /\ \A s \in ReadingStates :
       /\ Refusal(s) = "DGRAM_INVALID_COMMAND"
       /\ From(s) = {t \in CommandTransitions : t[1] = s}
       /\ s \notin Refusals /\ s \notin Counting
  /\ \A s \in CompleteStates :
       /\ Refusal(s) = "DGRAMDISCARD" /\ From(s) = {}
       /\ s \notin Refusals /\ s \notin Counting
  <1>1. \A s \in ReadingStates : \E t \in CommandTransitions : t[1] = s
    <2>1. \A s \in ReadingStates \ ArgumentStates :
            \E t \in NameTransitions \cup EndTransitions : t[1] = s
      BY NameWays, EndWays DEF ReadingStates, ArgumentStates
    <2>2. \A s \in ArgumentStates : \E t \in ArgumentTransitions : t[1] = s
      BY DEF ArgumentTransitions, ArgumentStates
    <2> QED BY <2>1, <2>2 DEF CommandTransitions
  <1>2. \A t \in CommandTransitions : t[1] \in ReadingStates
    BY NameWays, EndWays DEF CommandTransitions, ArgumentTransitions, ReadingStates
  <1>3. \A t \in HeaderTransitions : t[1] \notin ReadingStates \cup CompleteStates
    BY DEF HeaderTransitions, ReadingStates, CompleteStates, PlainCommands
  <1>4. ReadingStates \cap CompleteStates = {}
    BY DEF ReadingStates, CompleteStates, PlainCommands
  <1>5. (ReadingStates \cup CompleteStates) \cap (Refusals \cup Counting) = {}
    BY DEF ReadingStates, CompleteStates, PlainCommands, Refusals, Counting
  <1>6. {"READSECONDNEWLINE", "READCLIENTPASSWORD"} \subseteq Counting
    BY DEF Counting
  <1>7. ASSUME NEW s \in ReadingStates
        PROVE  Refusal(s) = "DGRAM_INVALID_COMMAND" /\ From(s) = {t \in CommandTransitions : t[1] = s}
    BY <1>1, <1>3, <1>5, <1>6 DEF Refusal, From
  <1>8. ASSUME NEW s \in CompleteStates
        PROVE  Refusal(s) = "DGRAMDISCARD" /\ From(s) = {}
    BY <1>2, <1>3, <1>4, <1>5, <1>6 DEF Refusal, From
  <1> QED BY <1>5, <1>7, <1>8

\* More follows the NUL behind a complete command.
PastEnd(l, k) == \E j \in 3 .. k - 1 : \E s \in CompleteStates : CompleteAt(s, l, j)

\* Where the automaton may be behind k characters of the command.
InLine(l, k) ==
    {q \in Automata :
        /\ q.state \in ReadingStates \cup CompleteStates \cup {"DGRAMDISCARD", "DGRAM_INVALID_COMMAND"}
        /\ q.state \in ArgumentStates => q.onSuccess = Held(l)
        /\ \A s \in ReadingStates : q.state = s <=> ReadingAt(s, l, k)
        /\ \A s \in CompleteStates : q.state = s <=> CompleteAt(s, l, k)
        /\ q.state = "DGRAMDISCARD" <=> PastEnd(l, k)}

LEMMA KindsOfStates ==
  /\ ReadingStates \cap CompleteStates = {}
  /\ "DGRAMDISCARD" \notin ReadingStates \cup CompleteStates
  /\ "DGRAM_INVALID_COMMAND" \notin ReadingStates \cup CompleteStates
  /\ ArgumentStates \subseteq ReadingStates
  /\ \A t \in CommandTransitions : t[1] \in ReadingStates
  BY NameWays, EndWays DEF CommandTransitions, ArgumentTransitions, ReadingStates, CompleteStates,
     PlainCommands, ArgumentStates

\* A complete command is two letters at least, and the NUL.
LEMMA CompleteBehind ==
  ASSUME NEW l, NEW k \in Nat, NEW s \in CompleteStates, CompleteAt(s, l, k)
  PROVE  k >= 3 /\ l[k] = NUL
  <1>1. CASE s \in PlainCommands
    <2>1. ASSUME NEW n, NEW x \in PlainCommands, CompleteAt(x, l, n) PROVE n = 3 /\ l[n] = NUL
      BY <2>1, Zenon DEF CompleteAt, PlainCommands
    <2>2. k = 3 /\ l[k] = NUL
      BY <1>1, <2>1
    <2> QED BY <2>2
  <1>2. CASE s = "DGRAM_DU_COMMAND"
    BY <1>2 DEF CompleteAt, InFirst
  <1>3. CASE s \in {"DGRAM_AU_COMMAND", "DGRAM_MP_COMMAND"}
    <2>1. InSecond(l, k - 1) /\ l[k] = NUL
      BY <1>3, Zenon DEF CompleteAt
    <2> QED BY <2>1 DEF InSecond
  <1> QED BY <1>1, <1>2, <1>3 DEF CompleteStates

LEMMA PastEndGrows ==
  ASSUME NEW l, NEW k \in Nat, k >= 1
  PROVE  PastEnd(l, k) <=> PastEnd(l, k - 1) \/ \E s \in CompleteStates : CompleteAt(s, l, k - 1)
  <1>1. ASSUME NEW s \in CompleteStates, CompleteAt(s, l, k - 1) PROVE k - 1 >= 3
    <2>1. k - 1 \in Nat
      OBVIOUS
    <2> QED BY <1>1, <2>1, CompleteBehind, Zenon
  <1>2. \A j \in 3 .. k - 1 : j \in 3 .. (k - 1) - 1 \/ j = k - 1
    OBVIOUS
  <1>3. \A j \in 3 .. (k - 1) - 1 : j \in 3 .. k - 1
    OBVIOUS
  <1>4. k - 1 >= 3 => k - 1 \in 3 .. k - 1
    OBVIOUS
  <1>5. ASSUME PastEnd(l, k)
        PROVE  PastEnd(l, k - 1) \/ \E s \in CompleteStates : CompleteAt(s, l, k - 1)
    BY <1>2, <1>5, Zenon DEF PastEnd
  <1>6. ASSUME PastEnd(l, k - 1) PROVE PastEnd(l, k)
    BY <1>3, <1>6, Zenon DEF PastEnd
  <1>7. ASSUME NEW s \in CompleteStates, CompleteAt(s, l, k - 1) PROVE PastEnd(l, k)
    BY <1>1, <1>4, <1>7, Zenon DEF PastEnd
  <1> QED BY <1>5, <1>6, <1>7

\* A transition of the command.
LEMMA LineAccepted ==
  ASSUME NEW l, NEW k \in Nat, k >= 1, NEW q \in InLine(l, k - 1), q.state \in ReadingStates,
         NEW t \in CommandTransitions, t[1] = q.state, l[k] \in t[2]
  PROVE  /\ Feed(q, l[k]) \in Automata /\ Feed(q, l[k]).state = Target(t, l)
         /\ Target(t, l) \in ArgumentStates => Feed(q, l[k]).onSuccess = Held(l)
  <1> DEFINE c == l[k]
             new == Feed(q, c)
  <1>1. t \in From(q.state) /\ q.state \notin Refusals /\ q.state \notin Counting
    BY LineRefusal
  <1>2. \A u \in From(q.state) : c \in u[2] => u = t
    BY LineRefusal, OneTransition
  <1>3. Becomes(q, new, IF t[3] = "onSuccessCommandState" THEN q.onSuccess ELSE t[3],
                IF t[3] \in DOMAIN OnSuccess THEN OnSuccess[t[3]] ELSE q.onSuccess)
    <2>1. q \in Automata
      BY DEF InLine
    <2> HIDE DEF new
    <2> QED BY <1>1, <1>2, <2>1, Accepted DEF new
  <1> HIDE DEF new
  <1>4. new \in Automata /\ new.state = Target(t, l)
    <2>1. t[3] = "onSuccessCommandState" => q.state \in ArgumentStates
      BY NameWays, EndWays DEF CommandTransitions, ArgumentTransitions, ArgumentStates
    <2>2. q.state \in ArgumentStates => q.onSuccess = Held(l)
      BY DEF InLine
    <2> QED BY <1>3, <2>1, <2>2 DEF Becomes, Target
  <1>5. ASSUME Target(t, l) \in ArgumentStates PROVE new.onSuccess = Held(l)
    <2>1. t[3] = Target(t, l)
      BY <1>5 DEF Target, Held, ArgumentStates
    <2>2. CASE t[3] \in {"READAU", "READDU", "READMP"}
      <3>1. ReadingAt(t[3], l, k)
        <4>1. ReadingAt(t[1], l, k - 1)
          BY DEF InLine
        <4>2. t[3] \notin CompleteStates
          BY <2>2 DEF CompleteStates, PlainCommands
        <4> QED BY <2>1, <4>1, <4>2, CommandGrows
      <3>2. OnSuccess[t[3]] = Held(l)
        <4>1. CASE t[3] = "READAU"
          <5>1. Letters2(l, "A", "U")
            BY <3>1, <4>1 DEF ReadingAt
          <5> QED BY <4>1, <5>1 DEF OnSuccess, Held, Letters2
        <4>2. CASE t[3] = "READDU"
          <5>1. Letters2(l, "D", "U")
            BY <3>1, <4>2 DEF ReadingAt
          <5> QED BY <4>2, <5>1 DEF OnSuccess, Held
        <4>3. CASE t[3] = "READMP"
          <5>1. Letters2(l, "M", "P")
            BY <3>1, <4>3 DEF ReadingAt
          <5> QED BY <4>3, <5>1 DEF OnSuccess, Held, Letters2
        <4> QED BY <2>2, <4>1, <4>2, <4>3
      <3>3. t[3] \in DOMAIN OnSuccess
        BY <2>2 DEF OnSuccess
      <3> QED BY <1>3, <3>2, <3>3 DEF Becomes
    <2>3. CASE t[3] \notin {"READAU", "READDU", "READMP"}
      <3>1. t[3] \notin DOMAIN OnSuccess
        BY <2>3 DEF OnSuccess
      <3>2. t[1] \in ArgumentStates
        <4>1. t[3] \in ArgumentStates
          BY <1>5, <2>1
        <4>2. t \in ArgumentTransitions
          BY <2>3, <4>1, NameWays, EndWays DEF CommandTransitions, ArgumentStates
        <4> QED BY <4>2 DEF ArgumentTransitions, ArgumentStates
      <3>3. q.onSuccess = Held(l)
        BY <3>2 DEF InLine
      <3> QED BY <1>3, <3>1, <3>3 DEF Becomes
    <2> QED BY <2>2, <2>3
  <1> QED BY <1>4, <1>5 DEF new

\* One character of the command.
LEMMA LineKept ==
  ASSUME NEW l, NEW k \in Nat, k >= 1, NEW q \in InLine(l, k - 1)
  PROVE  Feed(q, l[k]) \in InLine(l, k)
  <1> DEFINE c == l[k]
             new == Feed(q, c)
  <1>1. /\ q \in Automata
        /\ q.state \in ReadingStates \cup CompleteStates \cup {"DGRAMDISCARD", "DGRAM_INVALID_COMMAND"}
        /\ \A s \in ReadingStates : q.state = s <=> ReadingAt(s, l, k - 1)
        /\ \A s \in CompleteStates : q.state = s <=> CompleteAt(s, l, k - 1)
        /\ q.state = "DGRAMDISCARD" <=> PastEnd(l, k - 1)
    BY DEF InLine
  <1>2. PastEnd(l, k) <=> q.state \in CompleteStates \cup {"DGRAMDISCARD"}
    BY <1>1, PastEndGrows
  <1>3. ASSUME \A t \in CommandTransitions : t[1] = q.state => c \notin t[2]
        PROVE  /\ \A s \in ReadingStates : ~ ReadingAt(s, l, k)
               /\ \A s \in CompleteStates : ~ CompleteAt(s, l, k)
    <2>1. ASSUME NEW t \in CommandTransitions, ReadingAt(t[1], l, k - 1) PROVE c \notin t[2]
      BY <1>1, <1>3, <2>1, KindsOfStates
    <2> QED BY <2>1, ReadingEntered, CompleteEntered
  <1>4. CASE q.state \in {"DGRAMDISCARD", "DGRAM_INVALID_COMMAND"}
    <2>1. new = q
      BY <1>4 DEF Feed, Refusals
    <2>2. \A t \in CommandTransitions : t[1] # q.state
      BY <1>4, KindsOfStates
    <2>3. q.state = "DGRAMDISCARD" <=> PastEnd(l, k)
      BY <1>2, <1>4, KindsOfStates
    <2> HIDE DEF new
    <2>4. new \in InLine(l, k)
      BY <1>1, <1>3, <1>4, <2>1, <2>2, <2>3, KindsOfStates DEF InLine
    <2> QED BY <2>4 DEF new
  <1>5. CASE q.state \in CompleteStates
    <2>1. Becomes(q, new, "DGRAMDISCARD", q.onSuccess)
      BY <1>1, <1>5, LineRefusal, Refused
    <2>2. \A t \in CommandTransitions : t[1] # q.state
      BY <1>5, KindsOfStates
    <2> HIDE DEF new
    <2>3. new \in InLine(l, k)
      BY <1>2, <1>3, <1>5, <2>1, <2>2, KindsOfStates DEF InLine, Becomes
    <2> QED BY <2>3 DEF new
  <1>6. CASE q.state \in ReadingStates /\ \E t \in CommandTransitions : t[1] = q.state /\ c \in t[2]
    <2>1. PICK t \in CommandTransitions : t[1] = q.state /\ c \in t[2]
      BY <1>6
    <2> DEFINE to == Target(t, l)
    <2>2. new \in Automata /\ new.state = to /\ (to \in ArgumentStates => new.onSuccess = Held(l))
      BY <1>6, <2>1, LineAccepted
    <2>3. \/ to \in ReadingStates /\ ReadingAt(to, l, k)
          \/ to \in CompleteStates /\ CompleteAt(to, l, k)
      BY <1>1, <1>6, <2>1, CommandGrows
    <2>4. ASSUME NEW u \in CommandTransitions, c \in u[2], ReadingAt(u[1], l, k - 1)
          PROVE  Target(u, l) = to
      <3>1. u[1] = q.state
        BY <1>1, <2>4, KindsOfStates
      <3> QED BY <2>1, <2>4, <3>1, OneTransition, SMTT(30)
    <2>5. /\ \A s \in ReadingStates : ReadingAt(s, l, k) => s = to
          /\ \A s \in CompleteStates : CompleteAt(s, l, k) => s = to
      BY <2>4, ReadingEntered, CompleteEntered
    <2> HIDE DEF new, to
    <2>6. new \in InLine(l, k)
      BY <1>2, <1>6, <2>2, <2>3, <2>5, KindsOfStates DEF InLine
    <2> QED BY <2>6 DEF new
  <1>7. CASE q.state \in ReadingStates /\ \A t \in CommandTransitions : t[1] = q.state => c \notin t[2]
    <2>1. Becomes(q, new, "DGRAM_INVALID_COMMAND", q.onSuccess)
      BY <1>1, <1>7, LineRefusal, Refused
    <2> HIDE DEF new
    <2>2. new \in InLine(l, k)
      BY <1>2, <1>3, <1>7, <2>1, KindsOfStates DEF InLine, Becomes
    <2> QED BY <2>2 DEF new
  <1> QED BY <1>1, <1>4, <1>5, <1>6, <1>7

LEMMA LineStart ==
  ASSUME NEW l, NEW q \in Automata, q.state = "READTHIRDNEWLINE"
  PROVE  q \in InLine(l, 0)
  <1>1. /\ ReadingAt("READTHIRDNEWLINE", l, 0)
        /\ \A s \in ReadingStates : ReadingAt(s, l, 0) => s = "READTHIRDNEWLINE"
    <2>1. ReadingAt("READTHIRDNEWLINE", l, 0)
      BY DEF ReadingAt
    <2>2. ASSUME NEW s \in ReadingStates \ ArgumentStates, ReadingAt(s, l, 0)
          PROVE  s = "READTHIRDNEWLINE"
      <3>1. ASSUME NEW n, NEW x \in ReadingStates \ ArgumentStates, ReadingAt(x, l, n)
            PROVE  x = "READTHIRDNEWLINE" \/ n \in {1, 2}
        BY <3>1, Zenon DEF ReadingAt, ReadingStates, ArgumentStates
      <3>2. s = "READTHIRDNEWLINE" \/ 0 \in {1, 2}
        BY ONLY <2>2, <3>1
      <3> QED BY <3>2
    <2>3. ~ InFirst(l, 0) /\ ~ BehindFirst(l, 0) /\ ~ InSecond(l, 0)
      <3>1. 5 .. 0 - 1 = {}
        OBVIOUS
      <3> QED BY <3>1 DEF InFirst, BehindFirst, InSecond
    <2>4. ASSUME NEW s \in ArgumentStates PROVE ~ ReadingAt(s, l, 0)
      <3>1. ASSUME NEW n, NEW x \in ArgumentStates, ReadingAt(x, l, n)
            PROVE  n \in {2, 3} \/ InFirst(l, n) \/ BehindFirst(l, n) \/ InSecond(l, n)
        BY <3>1, Zenon DEF ReadingAt, ArgumentStates
      <3>2. ReadingAt(s, l, 0) => 0 \in {2, 3}
        BY ONLY <2>3, <2>4, <3>1
      <3> QED BY <3>2
    <2> QED BY <2>1, <2>2, <2>4
  <1>2. \A s \in CompleteStates : ~ CompleteAt(s, l, 0)
    <2>1. ASSUME NEW s \in PlainCommands, CompleteAt(s, l, 0) PROVE FALSE
      <3>1. ASSUME NEW n, NEW x \in PlainCommands, CompleteAt(x, l, n) PROVE n = 3
        BY <3>1, Zenon DEF CompleteAt, PlainCommands
      <3>2. 0 = 3
        BY ONLY <2>1, <3>1
      <3> QED BY <3>2
    <2>2. ~ InFirst(l, 0 - 1) /\ ~ InSecond(l, 0 - 1)
      <3>1. 5 .. (0 - 1) - 1 = {}
        OBVIOUS
      <3> QED BY <3>1 DEF InFirst, InSecond
    <2>3. ASSUME NEW s \in CompleteStates \ PlainCommands PROVE ~ CompleteAt(s, l, 0)
      BY <2>2, Zenon DEF CompleteAt, CompleteStates, PlainCommands
    <2> QED BY <2>1, <2>3
  <1>3. ~ PastEnd(l, 0)
    <2>1. 3 .. 0 - 1 = {}
      OBVIOUS
    <2> QED BY <2>1 DEF PastEnd
  <1>4. q.state \notin ArgumentStates /\ q.state \in ReadingStates
    BY DEF ArgumentStates, ReadingStates
  <1> QED BY <1>1, <1>2, <1>3, <1>4, KindsOfStates DEF InLine

\* A refusal ends the loop.
LEMMA RefusalStays ==
  ASSUME NEW base, NEW seq, NEW n \in Nat, NEW g, ParseLoop!Iterates(g, base, seq, 0, n),
         NEW a \in 0 .. n, g[a].state \in Refusals
  PROVE  g[n] = g[a]
  <1> DEFINE T == [k \in Nat |-> {g[a]}]
  <1>1. \A k \in a + 1 .. n : \A x \in T[k - 1] : Feed(x, seq[k]) \in T[k]
    <2> SUFFICES ASSUME NEW k \in a + 1 .. n, NEW x \in T[k - 1] PROVE Feed(x, seq[k]) \in T[k]
      OBVIOUS
    <2>1. k \in Nat /\ k - 1 \in Nat
      OBVIOUS
    <2>2. x = g[a] /\ T[k] = {g[a]}
      BY <2>1
    <2>3. Feed(x, seq[k]) = x
      BY <2>2 DEF Feed
    <2> HIDE DEF T
    <2> QED BY <2>2, <2>3
  <1>2. g[a] \in T[a] /\ n \in a .. n /\ T[n] = {g[a]}
    OBVIOUS
  <1> HIDE DEF T
  <1>3. g[n] \in T[n]
    <2>1. 0 \in Nat /\ 0 <= n
      OBVIOUS
    <2> QED BY ONLY <1>1, <1>2, <2>1, n \in Nat, a \in 0 .. n,
                    ParseLoop!Iterates(g, base, seq, 0, n), ParseLoop!IterationReaches
  <1> QED BY <1>2, <1>3

\* The command and the NUL behind it.
Ended(line) == line \o <<NUL>>

LEMMA EndedLine ==
  ASSUME NEW line \in Texts
  PROVE  /\ Len(Ended(line)) = Len(line) + 1 /\ Len(line) \in Nat
         /\ Ended(line) \in Seq(Symbols)
         /\ \A k \in 1 .. Len(line) : Ended(line)[k] = line[k]
         /\ Ended(line)[Len(line) + 1] = NUL
  <1>1. line \in Seq(Symbols)
    BY SeqMonotonic, STRING \subseteq Symbols DEF Texts, Symbols
  <1>2. NUL \in Symbols
    BY Zenon DEF Symbols
  <1>3. Len(line) \in Nat
    BY LenProperties DEF Texts
  <1>4. /\ line \o <<NUL>> \in Seq(Symbols) /\ Len(line \o <<NUL>>) = Len(line) + 1
        /\ \A k \in 1 .. Len(line) : (line \o <<NUL>>)[k] = line[k]
        /\ (line \o <<NUL>>)[Len(line) + 1] = NUL
    BY ONLY <1>1, <1>2, OneMore
  <1> QED BY <1>3, <1>4 DEF Ended

LEMMA LineRead ==
  ASSUME NEW r \in Requests, NEW held \in StaticValues, NEW g,
         ParseLoop!Iterates(g, StartOf(held), Render(r), 0, EndOfAll(r)),
         g[EndOfKey(r)] \in InLine(Ended(r.line), 0), r.newlines = 3
  PROVE  g[EndOfAll(r)] \in InLine(Ended(r.line), Len(r.line) + 1)
  <1> DEFINE w == Ended(r.line)
             a == EndOfKey(r)
             l == Len(r.line) + 1
             T == [k \in Nat |-> InLine(w, k - a)]
             seq == Render(r)
             n == EndOfAll(r)
  <1>1. a \in Nat /\ n \in Nat /\ l \in Nat /\ l >= 1 /\ n = a + l
    BY Offsets, PartsAreTexts
  <1>2. \A k \in 1 .. l : seq[a + k] = w[k]
    <2>1. \A k \in 1 .. Len(r.line) : seq[a + k] = r.line[k] /\ w[k] = r.line[k]
      BY Places, PartsAreTexts, EndedLine, ZenonT(60)
    <2>2. seq[n] = NUL /\ w[l] = NUL
      BY Places, PartsAreTexts, EndedLine, Zenon
    <2>3. Len(r.line) \in Nat
      BY PartsAreTexts
    <2> HIDE DEF w, a, seq, n
    <2> QED BY <1>1, <2>1, <2>2, <2>3, SMTT(30)
  <1>3. g[a] \in InLine(w, 0)
    OBVIOUS
  <1> HIDE DEF w, a, l, seq, n
  <1>4. \A k \in a + 1 .. n : \A x \in T[k - 1] : Feed(x, seq[k]) \in T[k]
    <2> SUFFICES ASSUME NEW k \in a + 1 .. n, NEW x \in T[k - 1] PROVE Feed(x, seq[k]) \in T[k]
      OBVIOUS
    <2> DEFINE j == k - a
    <2>1. /\ k \in Nat /\ k - 1 \in Nat /\ j \in Nat /\ j >= 1 /\ j \in 1 .. l /\ a + j = k
          /\ (k - 1) - a = j - 1
      BY <1>1
    <2>2. x \in InLine(w, j - 1) /\ T[k] = InLine(w, j)
      <3>1. T[k - 1] = InLine(w, (k - 1) - a) /\ T[k] = InLine(w, k - a)
        BY <2>1
      <3> HIDE DEF T
      <3> QED BY <2>1, <3>1
    <2> HIDE DEF T, j
    <2>3. seq[k] = w[j]
      BY <1>2, <2>1
    <2> QED BY <2>1, <2>2, <2>3, LineKept
  <1>5. T[a] = InLine(w, 0) /\ T[n] = InLine(w, l)
    <2>1. a - a = 0 /\ n - a = l
      BY <1>1
    <2>2. T[a] = InLine(w, a - a) /\ T[n] = InLine(w, n - a)
      BY <1>1
    <2> HIDE DEF T
    <2> QED BY <2>1, <2>2
  <1> HIDE DEF T
  <1>6. g[n] \in T[n]
    <2>1. 0 \in Nat /\ n \in Nat /\ 0 <= n /\ a \in 0 .. n /\ n \in a .. n
      BY <1>1
    <2>2. g[a] \in T[a] /\ ParseLoop!Iterates(g, StartOf(held), seq, 0, n)
      BY <1>3, <1>5 DEF seq, n
    <2> QED BY ONLY <1>4, <2>1, <2>2, ParseLoop!IterationReaches, Zenon
  <1> QED BY <1>5, <1>6 DEF w, l, n

\* The first two lines of a datagram are right.
IsHeaded(r) == RightLine(r) /\ IsWord(r.id, IDLENGTH) /\ r.newlines >= 2

\* How the automaton ends.
LEMMA AutomatonEnds ==
  ASSUME NEW r \in Requests, NEW held \in StaticValues
  PROVE  LET q == RunAutomaton(Render(r), held)
         IN  /\ ~ IsHeaded(r) => q.state = "DGRAMDISCARD"
             /\ IsHeaded(r) /\ ~ HasKey(r) => q.state = "DGRAMBADAUTH"
             /\ IsHeaded(r) /\ HasKey(r) => q \in InLine(Ended(r.line), Len(r.line) + 1)
  <1> DEFINE n == EndOfAll(r)
             a == EndOfFirst(r)
             b == EndOfId(r)
             c == EndOfKey(r)
  <1>1. PICK g : /\ ParseLoop!Iterates(g, StartOf(held), Render(r), 0, n)
                 /\ RunAutomaton(Render(r), held) = g[n]
    BY RunIterates
  <1>2. /\ n \in Nat /\ a \in 0 .. n
        /\ r.newlines >= 1 => b \in 0 .. n
        /\ r.newlines >= 2 => c \in 0 .. n
    BY Offsets
  <1>3. \A i \in 0 .. n : g[i].state \in Refusals => g[n] = g[i]
    BY <1>1, <1>2, RefusalStays
  <1>4. /\ g[a] \in Automata /\ g[a].length = 0 /\ g[a].authorizationLength = 0
        /\ g[a].onSuccess = held
        /\ g[a].state = IF RightLine(r) /\ r.newlines >= 1
                        THEN "READFIRSTNEWLINE" ELSE "DGRAMDISCARD"
    BY <1>1, FirstLineRead, FirstLineMeans
  <1>5. CASE ~ (RightLine(r) /\ r.newlines >= 1)
    <2>1. g[a].state = "DGRAMDISCARD" /\ g[n] = g[a]
      BY <1>2, <1>3, <1>4, <1>5 DEF Refusals
    <2>2. r.newlines >= 2 => r.newlines >= 1
      BY Newlines, Zenon
    <2>3. ~ IsHeaded(r)
      BY <1>5, <2>2, Zenon DEF IsHeaded
    <2> QED BY <1>1, <2>1, <2>3
  <1>6. CASE RightLine(r) /\ r.newlines >= 1
    <2>1. g[a] \in InId(r.id, held, 0)
      BY <1>4, <1>6, KeyAssumption DEF InId, AlnumIn
    <2>2. /\ g[b] \in Automata /\ g[b].authorizationLength = 0 /\ g[b].onSuccess = held
          /\ g[b].state = IF IsWord(r.id, IDLENGTH) /\ r.newlines >= 2
                          THEN "READSECONDNEWLINE" ELSE "DGRAMDISCARD"
      BY <1>1, <1>6, <2>1, IdRead
    <2>3. CASE ~ IsHeaded(r)
      <3>1. g[b].state = "DGRAMDISCARD" /\ g[n] = g[b]
        BY <1>2, <1>3, <1>6, <2>2, <2>3 DEF Refusals, IsHeaded
      <3> QED BY <1>1, <2>3, <3>1
    <2>4. CASE IsHeaded(r)
      <3>1. g[b] \in InKey(r.key, held, 0) /\ r.newlines >= 2
        BY <2>2, <2>4, KeyAssumption DEF InKey, AlnumIn, Automata, IsHeaded
      <3>2. /\ g[c] \in Automata /\ g[c].length \in Nat /\ g[c].onSuccess = held
            /\ g[c].state = IF HasKey(r) THEN "READTHIRDNEWLINE" ELSE "DGRAMBADAUTH"
        BY <1>1, <3>1, KeyRead
      <3>3. CASE ~ HasKey(r)
        <4>1. g[c].state = "DGRAMBADAUTH" /\ g[n] = g[c]
          BY <1>2, <1>3, <3>1, <3>2, <3>3 DEF Refusals
        <4> QED BY <1>1, <2>4, <3>3, <4>1
      <3>4. CASE HasKey(r)
        <4>1. g[c] \in InLine(Ended(r.line), 0)
          BY <3>2, <3>4, LineStart
        <4>2. g[n] \in InLine(Ended(r.line), Len(r.line) + 1)
          BY <1>1, <3>4, <4>1, LineRead DEF HasKey
        <4> QED BY <1>1, <2>4, <3>4, <4>2
      <3> QED BY <3>3, <3>4
    <2> QED BY <2>3, <2>4
  <1> QED BY <1>5, <1>6

-----------------------------------------------------------------------------
(* What the words of a command are *)

LEMMA LeastFound ==
  ASSUME NEW S \in SUBSET Nat, S # {}
  PROVE  Min(S) \in S /\ \A y \in S : Min(S) <= y
  <1>1. Min(S) = ParseLoop!Min(S)
    BY Zenon DEF Min, ParseLoop!Min
  <1> QED BY <1>1, ParseLoop!LeastExists

LEMMA Pair ==
  ASSUME NEW a, NEW b
  PROVE  /\ Len(<<a, b>>) = 2 /\ DOMAIN <<a, b>> = {1, 2}
         /\ <<a, b>>[1] = a /\ <<a, b>>[2] = b
  OBVIOUS

LEMMA PartOfText ==
  ASSUME NEW line \in Texts, NEW i \in Nat, NEW j \in Nat, i >= 1, j <= Len(line)
  PROVE  IsArgument(SubSeq(line, i, j)) <=> i <= j /\ WordIn(line, i, j)
  <1> DEFINE part == SubSeq(line, i, j)
  <1>1. DOMAIN line = 1 .. Len(line) /\ Len(line) \in Nat /\ \A x \in 1 .. Len(line) : line[x] \in STRING
    BY LenProperties, ElementOfSeq DEF Texts
  <1>2. \A x \in i .. j : line[x] \in STRING
    BY <1>1
  <1>3. /\ part \in Seq(STRING) /\ Len(part) = IF i <= j THEN j - i + 1 ELSE 0
        /\ \A x \in 1 .. j - i + 1 : part[x] = line[i + x - 1]
    BY <1>2, SubSeqProperties, i \in Int, j \in Int
  <1> HIDE DEF part
  <1>4. DOMAIN part = 1 .. Len(part) /\ (part # <<>> <=> Len(part) # 0)
    BY <1>3, LenProperties, EmptySeq
  <1>5. CASE i <= j
    <2>1. part # <<>> /\ DOMAIN part = 1 .. j - i + 1
      BY <1>3, <1>4, <1>5
    <2>2. ASSUME WordIn(line, i, j), NEW x \in 1 .. j - i + 1 PROVE part[x] \in WordChars
      <3>1. i + x - 1 \in i .. j
        OBVIOUS
      <3> QED BY <1>3, <2>2, <3>1 DEF WordIn
    <2>3. ASSUME \A x \in 1 .. j - i + 1 : part[x] \in WordChars, NEW y \in i .. j
          PROVE  line[y] \in WordChars
      <3>1. y - i + 1 \in 1 .. j - i + 1 /\ i + (y - i + 1) - 1 = y
        OBVIOUS
      <3> QED BY <1>3, <2>3, <3>1, Zenon
    <2>4. IsArgument(part) <=> WordIn(line, i, j)
      BY <2>1, <2>2, <2>3, SMTT(30) DEF IsArgument, WordIn
    <2> QED BY <1>5, <2>4 DEF part
  <1>6. CASE ~ i <= j
    <2>1. part = <<>>
      BY <1>3, <1>4, <1>6
    <2> QED BY <1>6, <2>1 DEF IsArgument, part
  <1> QED BY <1>5, <1>6

\* The words behind the first space.
LEMMA FirstSpace ==
  ASSUME NEW line \in Texts
  PROVE  /\ (\A i \in 4 .. Len(line) : line[i] # Space) =>
              WordsOf(line) = <<SubSeq(line, 4, Len(line))>>
         /\ \A j \in 4 .. Len(line) :
              line[j] = Space /\ (\A i \in 4 .. j - 1 : line[i] # Space) =>
                WordsOf(line) = <<SubSeq(line, 4, j - 1), SubSeq(line, j + 1, Len(line))>>
  <1> DEFINE n == Len(line)
             spaces == {i \in 4 .. n : line[i] = Space}
             second == SelectInSubSeq(line, 4, n, LAMBDA c : c = Space)
  <1>1. n \in Nat
    BY LenProperties DEF Texts
  <1>2. second = IF spaces # {} THEN Min(spaces) ELSE 0
    BY DEF SelectInSubSeq
  <1>3. WordsOf(line) = IF second = 0 THEN <<SubSeq(line, 4, n)>>
                        ELSE <<SubSeq(line, 4, second - 1), SubSeq(line, second + 1, n)>>
    BY DEF WordsOf
  <1>4. ASSUME \A i \in 4 .. n : line[i] # Space PROVE second = 0
    <2>1. spaces = {}
      BY <1>4
    <2> QED BY <1>2, <2>1
  <1>5. ASSUME NEW j \in 4 .. n, line[j] = Space, \A i \in 4 .. j - 1 : line[i] # Space
        PROVE  second = j
    <2>1. j \in spaces /\ spaces \in SUBSET Nat
      BY <1>1, <1>5
    <2>2. \A y \in spaces : j <= y
      BY <1>1, <1>5
    <2> HIDE DEF spaces
    <2>3. Min(spaces) = j
      BY <2>1, <2>2, LeastIs
    <2> QED BY <1>2, <2>1, <2>3
  <1> HIDE DEF second
  <1>6. \A j \in 4 .. n : j # 0
    BY <1>1
  <1> QED BY <1>3, <1>4, <1>5, <1>6, Zenon

Arguments(line, number) ==
    /\ Len(WordsOf(line)) = number
    /\ \A i \in DOMAIN WordsOf(line) : IsArgument(WordsOf(line)[i])

\* One argument, and two.
LEMMA ArgumentsAre ==
  ASSUME NEW line \in Texts
  PROVE  /\ Arguments(line, 1) <=> Len(line) >= 4 /\ WordIn(line, 4, Len(line))
         /\ Arguments(line, 2) <=>
              \E j \in 5 .. Len(line) - 1 :
                 WordIn(line, 4, j - 1) /\ line[j] = Space /\ WordIn(line, j + 1, Len(line))
  <1> DEFINE n == Len(line)
  <1>1. n \in Nat
    BY LenProperties DEF Texts
  <1>2. Space \notin WordChars
    BY DEF WordChars
  <1>3. CASE \A i \in 4 .. n : line[i] # Space
    <2>1. WordsOf(line) = <<SubSeq(line, 4, n)>>
      BY <1>3, FirstSpace
    <2>2. Len(WordsOf(line)) = 1 /\ DOMAIN WordsOf(line) = {1} /\ WordsOf(line)[1] = SubSeq(line, 4, n)
      BY <2>1
    <2>3. IsArgument(SubSeq(line, 4, n)) <=> 4 <= n /\ WordIn(line, 4, n)
      BY <1>1, PartOfText
    <2>4. Arguments(line, 1) <=> n >= 4 /\ WordIn(line, 4, n)
      BY <1>1, <2>2, <2>3, Zenon DEF Arguments
    <2>5. ~ Arguments(line, 2)
      BY <2>2 DEF Arguments
    <2>6. \A j \in 5 .. n - 1 : line[j] # Space
      BY <1>1, <1>3
    <2> QED BY <2>4, <2>5, <2>6
  <1>4. CASE \E i \in 4 .. n : line[i] = Space
    <2> DEFINE spaces == {i \in 4 .. n : line[i] = Space}
               m == Min(spaces)
    <2>1. m \in spaces /\ \A y \in spaces : m <= y
      <3>1. spaces \in SUBSET Nat /\ spaces # {}
        BY <1>1, <1>4
      <3> HIDE DEF spaces
      <3> QED BY <3>1, LeastFound
    <2> HIDE DEF m
    <2>2. m \in 4 .. n /\ line[m] = Space /\ m \in Nat /\ \A i \in 4 .. m - 1 : line[i] # Space
      <3>1. m \in 4 .. n /\ line[m] = Space
        BY <2>1
      <3>2. \A i \in 4 .. m - 1 : i \in 4 .. n /\ ~ m <= i
        BY <1>1, <3>1
      <3> QED BY <1>1, <2>1, <3>1, <3>2
    <2>3. WordsOf(line) = <<SubSeq(line, 4, m - 1), SubSeq(line, m + 1, n)>>
      BY <2>2, FirstSpace
    <2>4. /\ Len(WordsOf(line)) = 2 /\ DOMAIN WordsOf(line) = {1, 2}
          /\ WordsOf(line)[1] = SubSeq(line, 4, m - 1) /\ WordsOf(line)[2] = SubSeq(line, m + 1, n)
      <3> DEFINE x == SubSeq(line, 4, m - 1)
                 y == SubSeq(line, m + 1, n)
                 words == WordsOf(line)
      <3>1. words = <<x, y>>
        BY <2>3
      <3> HIDE DEF x, y, words
      <3>2. Len(words) = 2 /\ DOMAIN words = {1, 2} /\ words[1] = x /\ words[2] = y
        BY ONLY <3>1, Pair
      <3> QED BY <3>2 DEF x, y, words
    <2>5. /\ IsArgument(SubSeq(line, 4, m - 1)) <=> 4 <= m - 1 /\ WordIn(line, 4, m - 1)
          /\ IsArgument(SubSeq(line, m + 1, n)) <=> m + 1 <= n /\ WordIn(line, m + 1, n)
      BY <1>1, <2>2, PartOfText
    <2>6. ~ Arguments(line, 1) /\ ~ WordIn(line, 4, n)
      BY <1>2, <2>2, <2>4 DEF Arguments, WordIn
    <2>7. Arguments(line, 2) <=> /\ 4 <= m - 1 /\ WordIn(line, 4, m - 1)
                                 /\ m + 1 <= n /\ WordIn(line, m + 1, n)
      BY <2>4, <2>5, Zenon DEF Arguments
    <2>8. ASSUME NEW j \in 5 .. n - 1, WordIn(line, 4, j - 1), line[j] = Space
          PROVE  j = m
      <3>1. j \in spaces
        BY <1>1, <2>8
      <3>2. ~ m < j
        <4>1. m < j => m \in 4 .. j - 1
          BY <2>2
        <4> QED BY <1>2, <2>2, <2>8, <4>1 DEF WordIn
      <3> QED BY <2>1, <2>2, <3>1, <3>2
    <2>9. (4 <= m - 1 /\ m + 1 <= n) <=> m \in 5 .. n - 1
      BY <1>1, <2>2
    <2> QED BY <2>2, <2>6, <2>7, <2>8, <2>9
  <1> QED BY <1>3, <1>4

Spells(line, a, b) == Len(line) >= 2 /\ line[1] = a /\ line[2] = b

LEMMA TwoLetters ==
  ASSUME NEW line \in Texts, NEW a, NEW b
  PROVE  /\ CommandOf(line) = <<a, b>> <=> Spells(line, a, b)
         /\ line = <<a, b>> <=> Len(line) = 2 /\ Spells(line, a, b)
  <1>1. line \in Seq(STRING) /\ Len(line) \in Nat
    BY LenProperties DEF Texts
  <1>2. CASE Len(line) < 2
    <2>1. CommandOf(line) = <<>> /\ <<>> # <<a, b>> /\ Len(<<a, b>>) = 2
      BY <1>2 DEF CommandOf
    <2> QED BY <1>1, <1>2, <2>1 DEF Spells
  <1>3. CASE Len(line) >= 2
    <2> DEFINE part == SubSeq(line, 1, 2)
    <2>1. \A x \in 1 .. 2 : line[x] \in STRING
      BY <1>1, <1>3, ElementOfSeq
    <2>2. part \in Seq(STRING) /\ Len(part) = 2 /\ \A x \in 1 .. 2 - 1 + 1 : part[x] = line[1 + x - 1]
      <3>1. 1 \in Int /\ 2 \in Int /\ 1 <= 2
        OBVIOUS
      <3> QED BY ONLY <2>1, <3>1, SubSeqProperties
    <2>3. part[1] = line[1] /\ part[2] = line[2]
      BY <2>2
    <2>4. CommandOf(line) = part
      BY <1>1, <1>3 DEF CommandOf
    <2> HIDE DEF part
    <2>5. part = <<a, b>> <=> part[1] = a /\ part[2] = b
      BY <2>2
    <2>6. Len(line) = 2 => (line = <<a, b>> <=> line[1] = a /\ line[2] = b)
      BY <1>1
    <2>7. Len(<<a, b>>) = 2
      OBVIOUS
    <2> QED BY <1>3, <2>3, <2>4, <2>5, <2>6, <2>7 DEF Spells
  <1> QED BY <1>1, <1>2, <1>3

\* The complete states in terms of the text that was read.
LEMMA CommandText ==
  ASSUME NEW line \in Texts, NEW w, NEW n \in Nat, n = Len(line),
         \A k \in 1 .. n : w[k] = line[k], w[n + 1] = NUL
  PROVE  /\ CompleteAt("DGRAM_BT_COMMAND", w, n + 1) <=> line = <<"B", "T">>
         /\ CompleteAt("DGRAM_BR_COMMAND", w, n + 1) <=> line = <<"B", "R">>
         /\ CompleteAt("DGRAM_HC_COMMAND", w, n + 1) <=> line = <<"H", "C">>
         /\ CompleteAt("DGRAM_CC_COMMAND", w, n + 1) <=> line = <<"C", "C">>
         /\ CompleteAt("DGRAM_LC_COMMAND", w, n + 1) <=> line = <<"L", "C">>
         /\ CompleteAt("DGRAM_LU_COMMAND", w, n + 1) <=> line = <<"L", "U">>
         /\ CompleteAt("DGRAM_DU_COMMAND", w, n + 1) <=>
              CommandOf(line) = <<"D", "U">> /\ n > 3 /\ line[3] = Space /\ Arguments(line, 1)
         /\ CompleteAt("DGRAM_AU_COMMAND", w, n + 1) <=>
              CommandOf(line) = <<"A", "U">> /\ n > 3 /\ line[3] = Space /\ Arguments(line, 2)
         /\ CompleteAt("DGRAM_MP_COMMAND", w, n + 1) <=>
              CommandOf(line) = <<"M", "P">> /\ n > 3 /\ line[3] = Space /\ Arguments(line, 2)
  <1>1. ASSUME NEW a, NEW b
        PROVE  /\ n + 1 = 3 /\ Letters2(w, a, b) <=> line = <<a, b>>
               /\ n > 3 /\ Letters2(w, a, b) <=> n > 3 /\ CommandOf(line) = <<a, b>>
    <2>1. n >= 2 => (Letters2(w, a, b) <=> Spells(line, a, b))
      BY DEF Letters2, Spells
    <2>2. /\ CommandOf(line) = <<a, b>> <=> Spells(line, a, b)
          /\ line = <<a, b>> <=> n = 2 /\ Spells(line, a, b)
      BY TwoLetters, ZenonT(60)
    <2>3. n + 1 = 3 <=> n = 2
      OBVIOUS
    <2>4. Spells(line, a, b) => n >= 2
      BY DEF Spells
    <2> DEFINE text == <<a, b>>
    <2> HIDE DEF text
    <2>5. n + 1 = 3 /\ Letters2(w, a, b) <=> n = 2 /\ Spells(line, a, b)
      BY <2>1, <2>3
    <2>6. n > 3 /\ Letters2(w, a, b) <=> n > 3 /\ Spells(line, a, b)
      BY <2>1
    <2> QED BY ONLY <2>2, <2>5, <2>6
  <1>2. ASSUME NEW i \in Nat, i >= 1, NEW j \in Int, j <= n PROVE WordIn(w, i, j) <=> WordIn(line, i, j)
    <2>1. \A x \in i .. j : w[x] = line[x]
      BY <1>2
    <2> QED BY <2>1 DEF WordIn
  <1>3. n > 3 => w[3] = line[3]
    OBVIOUS
  <1>4. InFirst(w, n) <=> n > 3 /\ line[3] = Space /\ Arguments(line, 1)
    BY <1>2, <1>3, ArgumentsAre DEF InFirst
  <1>5. InSecond(w, n) <=> n > 3 /\ line[3] = Space /\ Arguments(line, 2)
    <2>1. ASSUME NEW j \in 5 .. n - 1
          PROVE  BehindFirst(w, j) /\ WordIn(w, j + 1, n) <=>
                   /\ line[3] = Space
                   /\ WordIn(line, 4, j - 1) /\ line[j] = Space /\ WordIn(line, j + 1, n)
      <3>1. /\ WordIn(w, 4, j - 1) <=> WordIn(line, 4, j - 1)
            /\ WordIn(w, j + 1, n) <=> WordIn(line, j + 1, n)
        BY <1>2
      <3>2. w[j] = line[j] /\ w[3] = line[3] /\ j >= 5
        OBVIOUS
      <3> QED BY <3>1, <3>2 DEF BehindFirst
    <2>2. (\E j \in 5 .. n - 1 : TRUE) => n > 3
      OBVIOUS
    <2>3. InSecond(w, n) <=>
            line[3] = Space /\ \E j \in 5 .. n - 1 :
               WordIn(line, 4, j - 1) /\ line[j] = Space /\ WordIn(line, j + 1, n)
      BY <2>1 DEF InSecond
    <2> QED BY <2>2, <2>3, ArgumentsAre
  <1>6. (n + 1) - 1 = n
    OBVIOUS
  <1>7. /\ CompleteAt("DGRAM_BT_COMMAND", w, n + 1) <=> line = <<"B", "T">>
        /\ CompleteAt("DGRAM_BR_COMMAND", w, n + 1) <=> line = <<"B", "R">>
        /\ CompleteAt("DGRAM_HC_COMMAND", w, n + 1) <=> line = <<"H", "C">>
        /\ CompleteAt("DGRAM_CC_COMMAND", w, n + 1) <=> line = <<"C", "C">>
        /\ CompleteAt("DGRAM_LC_COMMAND", w, n + 1) <=> line = <<"L", "C">>
        /\ CompleteAt("DGRAM_LU_COMMAND", w, n + 1) <=> line = <<"L", "U">>
    BY <1>1 DEF CompleteAt
  <1>8. /\ CompleteAt("DGRAM_DU_COMMAND", w, n + 1) <=>
             CommandOf(line) = <<"D", "U">> /\ n > 3 /\ line[3] = Space /\ Arguments(line, 1)
        /\ CompleteAt("DGRAM_AU_COMMAND", w, n + 1) <=>
             CommandOf(line) = <<"A", "U">> /\ n > 3 /\ line[3] = Space /\ Arguments(line, 2)
        /\ CompleteAt("DGRAM_MP_COMMAND", w, n + 1) <=>
             CommandOf(line) = <<"M", "P">> /\ n > 3 /\ line[3] = Space /\ Arguments(line, 2)
    BY <1>1, <1>4, <1>5, <1>6 DEF CompleteAt
  <1> QED BY <1>7, <1>8

\* A command is what completes one.
LEMMA CommandCompletes ==
  ASSUME NEW line \in Texts, NEW w, NEW n \in Nat, n = Len(line),
         \A k \in 1 .. n : w[k] = line[k], w[n + 1] = NUL
  PROVE  IsCommand(line) <=> \E s \in CompleteStates : CompleteAt(s, w, n + 1)
  <1>1. line \in Plain <=> \E s \in PlainCommands : CompleteAt(s, w, n + 1)
    <2> DEFINE done(s) == CompleteAt(s, w, n + 1)
    <2>1. /\ done("DGRAM_BT_COMMAND") <=> line = <<"B", "T">>
          /\ done("DGRAM_BR_COMMAND") <=> line = <<"B", "R">>
          /\ done("DGRAM_HC_COMMAND") <=> line = <<"H", "C">>
          /\ done("DGRAM_CC_COMMAND") <=> line = <<"C", "C">>
          /\ done("DGRAM_LC_COMMAND") <=> line = <<"L", "C">>
          /\ done("DGRAM_LU_COMMAND") <=> line = <<"L", "U">>
      BY CommandText, ZenonT(60)
    <2> HIDE DEF done
    <2>2. line \in Plain <=> \E s \in PlainCommands : done(s)
      BY ONLY <2>1, Zenon DEF Plain, PlainCommands
    <2> QED BY <2>2 DEF done
  <1>2. /\ CommandOf(line) = <<"D", "U">> <=> TakesArguments(line) = 1
        /\ CommandOf(line) \in {<<"A", "U">>, <<"M", "P">>} <=> TakesArguments(line) = 2
        /\ TakesArguments(line) \in {0, 1, 2}
    <2>1. <<"D", "U">> \notin {<<"A", "U">>, <<"M", "P">>}
      OBVIOUS
    <2> QED BY <2>1 DEF TakesArguments
  <1>3. (/\ TakesArguments(line) > 0 /\ n > 3 /\ line[3] = Space
         /\ Arguments(line, TakesArguments(line))) <=>
          \E s \in {"DGRAM_AU_COMMAND", "DGRAM_DU_COMMAND", "DGRAM_MP_COMMAND"} :
             CompleteAt(s, w, n + 1)
    BY <1>2, CommandText
  <1> QED BY <1>1, <1>3 DEF IsCommand, Arguments, CompleteStates

\* No state that reads a command stands behind a NUL.
LEMMA ReadingBehind ==
  ASSUME NEW l, NEW k \in Nat, k >= 1, NEW s \in ReadingStates, ReadingAt(s, l, k)
  PROVE  l[k] # NUL
  <1>1. PICK t \in CommandTransitions : Target(t, l) = s /\ l[k] \in t[2]
    BY ReadingEntered
  <1>2. t \notin EndTransitions
    BY <1>1, EndWays DEF Target, Held, ReadingStates
  <1>3. NUL \notin WordChars /\ NUL # Space
    BY DEF WordChars, NUL, Space
  <1>4. \A u \in NameTransitions \cup ArgumentTransitions : NUL \notin u[2]
    BY <1>3, NameWays DEF ArgumentTransitions, NUL
  <1> QED BY <1>1, <1>2, <1>4 DEF CommandTransitions

\* The NUL behind a command inside the line.
LEMMA PastEndText ==
  ASSUME NEW line \in Texts
  PROVE  PastEnd(Ended(line), Len(line) + 1) <=>
           \E i \in DOMAIN line : line[i] = NUL /\ IsCommand(SubSeq(line, 1, i - 1))
  <1> DEFINE w == Ended(line)
             n == Len(line)
  <1>1. n \in Nat /\ DOMAIN line = 1 .. n /\ \A k \in 1 .. n : w[k] = line[k] /\ line[k] \in STRING
    BY EndedLine, LenProperties, ElementOfSeq DEF Texts
  <1> HIDE DEF w
  <1>2. ASSUME NEW i \in 1 .. n, line[i] = NUL
        PROVE  IsCommand(SubSeq(line, 1, i - 1)) <=> \E s \in CompleteStates : CompleteAt(s, w, i)
    <2> DEFINE part == SubSeq(line, 1, i - 1)
               m == i - 1
    <2>1. m \in Nat /\ m + 1 = i /\ m <= n
      BY <1>1
    <2>2. \A x \in 1 .. m : line[x] \in STRING
      BY <1>1, <2>1
    <2>3. /\ part \in Seq(STRING) /\ Len(part) = m
          /\ \A x \in 1 .. m : part[x] = line[x]
      <3>1. 1 \in Int /\ m \in Int
        BY <2>1
      <3>2. /\ part \in Seq(STRING) /\ Len(part) = IF 1 <= m THEN m - 1 + 1 ELSE 0
            /\ \A x \in 1 .. m - 1 + 1 : part[x] = line[1 + x - 1]
        BY ONLY <2>2, <3>1, SubSeqProperties
      <3> HIDE DEF part, m
      <3> QED BY <2>1, <3>2
    <2>4. part \in Texts
      BY <2>3 DEF Texts
    <2>5. w[m + 1] = NUL /\ \A k \in 1 .. m : w[k] = part[k]
      BY <1>1, <1>2, <2>1, <2>3
    <2> HIDE DEF part, m
    <2>6. IsCommand(part) <=> \E s \in CompleteStates : CompleteAt(s, w, m + 1)
      BY <2>1, <2>3, <2>4, <2>5, CommandCompletes
    <2> QED BY <2>1, <2>6 DEF part
  <1>3. ASSUME PastEnd(w, n + 1)
        PROVE  \E i \in 1 .. n : line[i] = NUL /\ IsCommand(SubSeq(line, 1, i - 1))
    <2>1. PICK j \in 3 .. n : \E s \in CompleteStates : CompleteAt(s, w, j)
      BY <1>1, <1>3 DEF PastEnd
    <2>2. j \in 1 .. n /\ j \in Nat
      BY <1>1
    <2>3. w[j] = NUL
      BY <2>1, <2>2, CompleteBehind
    <2> QED BY <1>1, <1>2, <2>1, <2>2, <2>3
  <1>4. ASSUME NEW i \in 1 .. n, line[i] = NUL, IsCommand(SubSeq(line, 1, i - 1))
        PROVE  PastEnd(w, n + 1)
    <2>1. PICK s \in CompleteStates : CompleteAt(s, w, i)
      BY <1>2, <1>4
    <2>2. i >= 3
      BY <2>1, CompleteBehind, SMTT(30)
    <2>3. i \in 3 .. (n + 1) - 1
      BY <1>1, <2>2
    <2> QED BY <2>1, <2>3 DEF PastEnd
  <1> QED BY <1>1, <1>3, <1>4 DEF w

\* The state the automaton ends in says which of the three lines was wrong, or which
\* command it was.
LEMMA EndsRight ==
  ASSUME NEW r \in Requests, NEW held \in StaticValues
  PROVE  LET q == RunAutomaton(Render(r), held)
         IN  /\ IsDiscarded(r) <=> q.state = "DGRAMDISCARD"
             /\ ~ IsDiscarded(r) => IsHeaded(r)
             /\ ~ IsDiscarded(r) /\ ~ HasKey(r) => q.state = "DGRAMBADAUTH"
             /\ ~ IsDiscarded(r) /\ HasKey(r) /\ ~ IsCommand(r.line) =>
                  q.state = "DGRAM_INVALID_COMMAND"
             /\ ~ IsDiscarded(r) /\ HasKey(r) /\ IsCommand(r.line) =>
                  /\ q.state \in CompleteStates
                  /\ CompleteAt(q.state, Ended(r.line), Len(r.line) + 1)
  <1> DEFINE q == RunAutomaton(Render(r), held)
             w == Ended(r.line)
             n == Len(r.line)
             inside == \E i \in DOMAIN r.line : r.line[i] = NUL /\ IsCommand(SubSeq(r.line, 1, i - 1))
  <1>1. /\ ~ IsHeaded(r) => q.state = "DGRAMDISCARD"
        /\ IsHeaded(r) /\ ~ HasKey(r) =>
             q.state = "DGRAMBADAUTH"
        /\ IsHeaded(r) /\ HasKey(r) =>
             q \in InLine(w, n + 1)
    BY AutomatonEnds
  <1>2. IsDiscarded(r) <=> \/ ~ IsHeaded(r)
                           \/ HasKey(r) /\ inside
    <2>1. r.newlines < 2 <=> ~ r.newlines >= 2
      BY Newlines, Zenon
    <2> QED BY <2>1, Zenon DEF IsDiscarded, RightLine, IsHeaded
  <1>3. r.line \in Texts /\ n \in Nat /\ w[n + 1] = NUL /\ \A k \in 1 .. n : w[k] = r.line[k]
    BY PartsAreTexts, EndedLine, Zenon
  <1>4. /\ PastEnd(w, n + 1) <=> inside
        /\ IsCommand(r.line) <=> \E s \in CompleteStates : CompleteAt(s, w, n + 1)
    BY <1>3, PastEndText, CommandCompletes, SMTT(30)
  <1> HIDE DEF q, w, n, inside
  <1>5. CASE ~ IsHeaded(r)
    BY <1>1, <1>2, <1>5 DEF q
  <1>6. CASE IsHeaded(r) /\ ~ HasKey(r)
    BY <1>1, <1>2, <1>6 DEF q
  <1>7. CASE IsHeaded(r) /\ HasKey(r)
    <2>1. /\ q.state \in ReadingStates \cup CompleteStates \cup {"DGRAMDISCARD", "DGRAM_INVALID_COMMAND"}
          /\ \A s \in ReadingStates : q.state = s => ReadingAt(s, w, n + 1)
          /\ \A s \in CompleteStates : q.state = s <=> CompleteAt(s, w, n + 1)
          /\ q.state = "DGRAMDISCARD" <=> PastEnd(w, n + 1)
      BY <1>1, <1>7 DEF InLine
    <2>2. q.state \notin ReadingStates
      <3>1. n + 1 \in Nat /\ n + 1 >= 1
        BY <1>3
      <3> QED BY <1>3, <2>1, <3>1, ReadingBehind
    <2>3. IsDiscarded(r) <=> q.state = "DGRAMDISCARD"
      BY <1>2, <1>4, <1>7, <2>1
    <2>4. IsCommand(r.line) <=> q.state \in CompleteStates
      BY <1>4, <2>1
    <2> QED BY <1>7, <2>1, <2>2, <2>3, <2>4 DEF q, w, n
  <1> QED BY <1>5, <1>6, <1>7

-----------------------------------------------------------------------------
(* copyDgramData *)

LEMMA PartIs ==
  ASSUME NEW seq \in Seq(Symbols), NEW part \in Seq(Symbols), NEW a \in Nat,
         \A k \in 1 .. Len(part) : seq[a + k] = part[k]
  PROVE  SubSeq(seq, a + 1, a + Len(part)) = part
  <1> DEFINE n == Len(part)
             m == a + 1
             b == a + n
             sub == SubSeq(seq, m, b)
  <1>1. n \in Nat /\ \A k \in 1 .. n : part[k] \in Symbols
    BY LenProperties, ElementOfSeq
  <1>2. m \in Int /\ b \in Int /\ b - m + 1 = n
    BY <1>1
  <1>3. \A i \in m .. b : seq[i] \in Symbols
    <2> SUFFICES ASSUME NEW i \in m .. b PROVE seq[i] \in Symbols
      OBVIOUS
    <2>1. i - a \in 1 .. n /\ a + (i - a) = i
      BY <1>1
    <2> QED BY <1>1, <2>1, Zenon
  <1>4. \A k \in 1 .. n : m + k - 1 = a + k
    BY <1>1
  <1>5. n > 0 => m <= b
    BY <1>1
  <1>6. /\ sub \in Seq(Symbols) /\ Len(sub) = IF m <= b THEN b - m + 1 ELSE 0
        /\ \A k \in 1 .. b - m + 1 : sub[k] = seq[m + k - 1]
    <2> HIDE DEF m, b
    <2> QED BY ONLY <1>2, <1>3, SubSeqProperties DEF sub
  <1>7. n = 0 => ~ m <= b
    BY <1>1
  <1> HIDE DEF sub
  <1>8. \A k \in 1 .. n : seq[a + k] = part[k]
    OBVIOUS
  <1> HIDE DEF m, b
  <1>9. Len(sub) = n /\ \A k \in 1 .. n : sub[k] = part[k]
    <2>1. Len(sub) = n
      BY <1>1, <1>2, <1>5, <1>6, <1>7, SMTT(30)
    <2>2. ASSUME NEW k \in 1 .. n PROVE sub[k] = part[k]
      <3>1. sub[k] = seq[m + k - 1]
        BY <1>2, <1>6, Zenon
      <3>2. m + k - 1 = a + k
        BY <1>4
      <3> QED BY <1>8, <3>1, <3>2
    <2> QED BY <2>1, <2>2
  <1>10. sub = part
    BY <1>6, <1>9, SeqEqual DEF n
  <1> QED BY <1>10 DEF sub, m, b, n

LEMMA UptoIs ==
  ASSUME NEW text, NEW n \in Nat, n = Len(text), NEW i \in Nat, NEW j \in i .. n, NEW stops,
         text[j] \in stops, \A x \in i .. j - 1 : text[x] \notin stops
  PROVE  Upto(text, i, stops) = SubSeq(text, i, j - 1)
  <1> DEFINE ends == {x \in i .. n : text[x] \in stops}
  <1>1. j \in ends /\ \A x \in ends : j <= x
    OBVIOUS
  <1>2. (CHOOSE x \in ends : \A y \in ends : x <= y) = j
    <2>1. ASSUME NEW x \in ends, \A y \in ends : x <= y PROVE x = j
      <3>1. x <= j /\ j <= x /\ x \in Int
        BY <1>1, <2>1
      <3> QED BY <3>1
    <2>2. \A x : (x \in ends /\ \A y \in ends : x <= y) <=> x = j
      BY <1>1, <2>1
    <2> HIDE DEF ends
    <2> QED BY <2>2
  <1>3. Upto(text, i, stops) =
          SubSeq(text, i, IF ends = {} THEN n
                          ELSE (CHOOSE x \in ends : \A y \in ends : x <= y) - 1)
    BY DEF Upto
  <1> HIDE DEF ends
  <1> QED BY <1>1, <1>2, <1>3, Zenon

\* The fields of a datagram whose first line is right and whose key line ends and fits
\* are its lines, whatever lies behind it.
LEMMA FieldsAreLines ==
  ASSUME NEW r \in Requests, RightLine(r), KeyFits(r), NEW residue \in Residues, NEW state
  PROVE  LET data == CopyDgramData(Render(r) \o residue, state)
             line == Ended(r.line)
         IN  /\ ~ data.overrun
             /\ data.version = r.version /\ data.uniqueID = r.id /\ data.authorization = r.key
             /\ (\A k \in 1 .. Len(r.line) : r.line[k] # NUL) =>
                  /\ state \in {"DGRAM_AU_COMMAND", "DGRAM_MP_COMMAND", "DGRAM_DU_COMMAND"} =>
                       data.username = ObtainUsername(line)
                  /\ state \in {"DGRAM_AU_COMMAND", "DGRAM_MP_COMMAND"} =>
                       data.password = ObtainPassword(line)
  <1> DEFINE d == Render(r) \o residue
             m == EndOfAll(r)
             n == Len(d)
             a == EndOfFirst(r)
             b == EndOfId(r)
             c == EndOfKey(r)
  <1>1. /\ d \in Seq(Symbols) /\ n \in Nat /\ m <= n
        /\ \A k \in 1 .. m : d[k] = Render(r)[k]
    <2>1. residue \in Seq(Symbols)
      BY PartsAreTexts, RequestsAssumption
    <2>2. Render(r) \in Seq(Symbols) /\ Len(Render(r)) = m
      BY Places
    <2>3. /\ d \in Seq(Symbols) /\ n = m + Len(residue)
          /\ \A k \in 1 .. m : d[k] = Render(r)[k]
      <3> HIDE DEF m
      <3>1. /\ d \in Seq(Symbols) /\ n = Len(Render(r)) + Len(residue)
            /\ \A k \in 1 .. Len(Render(r)) : d[k] = Render(r)[k]
        BY ONLY <2>1, <2>2, Joined, ZenonT(30)
      <3> HIDE DEF d, n
      <3> QED BY ONLY <2>2, <3>1, Zenon
    <2>4. m \in Nat /\ Len(residue) \in Nat
      BY <2>1, LenProperties, Offsets
    <2> HIDE DEF d, m, n
    <2> QED BY <2>3, <2>4
  <1>2. /\ r.newlines >= 2 /\ r.newlines >= 1 /\ r.newlines = 3
        /\ StopOf(r, 1) = LF /\ StopOf(r, 2) = LF /\ StopOf(r, 3) = LF
    <2>1. r.newlines = 3
      BY DEF KeyFits
    <2> QED BY <2>1 DEF StopOf
  <1>3. /\ Render(r)[a] = LF /\ Render(r)[b] = LF /\ Render(r)[c] = LF /\ Render(r)[m] = NUL
        /\ \A k \in 1 .. Len(FirstLine(r)) : Render(r)[k] = FirstLine(r)[k]
        /\ \A k \in 1 .. Len(r.id) : Render(r)[a + k] = r.id[k]
        /\ \A k \in 1 .. Len(r.key) : Render(r)[b + k] = r.key[k]
        /\ \A k \in 1 .. Len(r.line) : Render(r)[c + k] = r.line[k]
    BY <1>2, Places, Zenon
  <1>4. /\ a \in Nat /\ b \in Nat /\ c \in Nat /\ m \in Nat
        /\ 1 <= a /\ a < b /\ b < c /\ a = Len(FirstLine(r)) + 1
        /\ b = a + Len(r.id) + 1 /\ c = b + Len(r.key) + 1 /\ m = c + Len(r.line) + 1
        /\ Len(FirstLine(r)) \in Nat /\ Len(r.id) \in Nat /\ Len(r.key) \in Nat
        /\ Len(r.line) \in Nat
    <2>1. FirstLine(r) \in Texts
      BY PartsAreTexts, Zenon
    <2>2. Len(FirstLine(r)) \in Nat
      BY <2>1, LenProperties DEF Texts
    <2> QED BY <1>2, <2>2, Offsets, PartsAreTexts, Zenon
  <1> HIDE DEF d, m, n, a, b, c
  <1>5. /\ d \in Seq(Symbols) /\ d[a] = LF /\ d[b] = LF /\ d[c] = LF /\ d[m] = NUL
        /\ \A k \in 1 .. Len(FirstLine(r)) : d[k] = FirstLine(r)[k]
        /\ \A k \in 1 .. Len(r.id) : d[a + k] = r.id[k]
        /\ \A k \in 1 .. Len(r.key) : d[b + k] = r.key[k]
        /\ \A k \in 1 .. Len(r.line) : d[c + k] = r.line[k]
    <2>1. /\ a \in 1 .. m /\ b \in 1 .. m /\ c \in 1 .. m /\ m \in 1 .. m
          /\ \A k \in 1 .. Len(FirstLine(r)) : k \in 1 .. m
          /\ \A k \in 1 .. Len(r.id) : a + k \in 1 .. m
          /\ \A k \in 1 .. Len(r.key) : b + k \in 1 .. m
          /\ \A k \in 1 .. Len(r.line) : c + k \in 1 .. m
      <3> DEFINE fl == Len(FirstLine(r))
                 il == Len(r.id)
                 kl == Len(r.key)
                 ll == Len(r.line)
      <3>1. /\ a \in Nat /\ b \in Nat /\ c \in Nat /\ m \in Nat
            /\ 1 <= a /\ a < b /\ b < c /\ a = fl + 1
            /\ b = a + il + 1 /\ c = b + kl + 1 /\ m = c + ll + 1
            /\ fl \in Nat /\ il \in Nat /\ kl \in Nat /\ ll \in Nat
        BY <1>4
      <3> HIDE DEF fl, il, kl, ll
      <3>2. /\ a \in 1 .. m /\ b \in 1 .. m /\ c \in 1 .. m /\ m \in 1 .. m
            /\ \A k \in 1 .. fl : k \in 1 .. m
            /\ \A k \in 1 .. il : a + k \in 1 .. m
            /\ \A k \in 1 .. kl : b + k \in 1 .. m
            /\ \A k \in 1 .. ll : c + k \in 1 .. m
        BY ONLY <3>1
      <3> QED BY <3>2 DEF fl, il, kl, ll
    <2> QED BY <1>1, <1>3, <2>1, Zenon
  <1>6. /\ Len(r.magic) = 5 /\ r.magic[1] = "M" /\ r.magic[2] = "P" /\ r.magic[3] = "3"
        /\ r.magic[4] = "P" /\ r.magic[5] = Space
    BY DEF RightLine
  <1>7. /\ d[1] = "M" /\ d[2] = "P" /\ d[3] = "3" /\ d[4] = "P" /\ d[5] = Space
        /\ \A k \in 1 .. Len(r.version) : d[5 + k] = r.version[k]
    <2> DEFINE h == FirstLine(r)
               l == Len(r.version)
    <2>1. /\ \A k \in 1 .. 5 : h[k] = r.magic[k]
          /\ \A k \in 1 .. l : h[5 + k] = r.version[k]
          /\ Len(h) = 5 + l /\ l \in Nat
      BY <1>6, PartsAreTexts, Zenon
    <2>2. \A k \in 1 .. Len(h) : d[k] = h[k]
      BY <1>5
    <2> HIDE DEF h, d, l
    <2>3. \A k \in 1 .. 5 : d[k] = r.magic[k]
      BY <2>1, <2>2
    <2>4. \A k \in 1 .. l : d[5 + k] = r.version[k]
      <3>1. \A k \in 1 .. l : 5 + k \in 1 .. Len(h)
        BY <2>1
      <3> QED BY <2>1, <2>2, <3>1
    <2> QED BY <1>6, <2>3, <2>4 DEF l
  <1>8. /\ r.version \in Seq(Symbols) /\ r.id \in Seq(Symbols) /\ r.key \in Seq(Symbols)
        /\ r.line \in Seq(Symbols)
    BY PartsAreTexts, Zenon
  <1>9. /\ \A k \in 1 .. Len(r.version) : r.version[k] # LF
        /\ \A k \in 1 .. Len(r.id) : r.id[k] # LF
        /\ \A k \in 1 .. Len(r.key) : r.key[k] # LF
    <2>1. /\ DOMAIN r.version = 1 .. Len(r.version) /\ DOMAIN r.id = 1 .. Len(r.id)
          /\ DOMAIN r.key = 1 .. Len(r.key)
      BY <1>8, LenProperties
    <2>2. IsParted(r)
      BY RequestsAssumption
    <2> QED BY <2>1, <2>2 DEF IsParted
  <1>10. r.version[1] = "V" /\ Len(r.version) >= 4
    BY DEF RightLine, IsVersion
  <1> DEFINE vl == Len(r.version)
             il == Len(r.id)
             kl == Len(r.key)
             ll == Len(r.line)
  <1>11. /\ vl \in Nat /\ il \in Nat /\ kl \in Nat /\ ll \in Nat
         /\ a = 6 + vl /\ b = a + il + 1 /\ c = b + kl + 1 /\ m = c + ll + 1
         /\ a \in Nat /\ b \in Nat /\ c \in Nat /\ m \in Nat /\ n \in Nat /\ m <= n
    <2>1. Len(FirstLine(r)) = 5 + vl /\ vl \in Nat
      BY <1>6, PartsAreTexts, Zenon
    <2>2. a = Len(FirstLine(r)) + 1
      BY <1>4
    <2>3. a = 6 + vl
      <3> HIDE DEF a, vl
      <3> QED BY <2>1, <2>2
    <2> QED BY <1>1, <1>4, <2>1, <2>3, Zenon
  <1> HIDE DEF vl, il, kl, ll
  <1>12. n \in Nat /\ n = Len(d)
    BY <1>11 DEF n
  <1>13. /\ a + 1 \in Nat /\ b \in a + 1 .. n /\ b + 1 \in Nat /\ c \in b + 1 .. n
         /\ b - 1 = a + il /\ c - 1 = b + kl
         /\ (a + 1) + il + 1 = b + 1 /\ (b + 1) + kl + 1 = c + 1
    BY <1>11
  <1>14. SelectInSeq(d, LAMBDA x : x = "V") = 6
    <2> DEFINE S == {i \in 1 .. n : d[i] = "V"}
    <2>1. SelectInSeq(d, LAMBDA x : x = "V") = IF S # {} THEN Min(S) ELSE 0
      BY DEF SelectInSeq, n
    <2>2. d[5 + 1] = "V"
      BY <1>7, <1>10 DEF vl
    <2>3. 6 \in S
      BY <1>10, <1>11, <2>2 DEF vl
    <2>4. \A y \in S : 6 <= y
      <3>1. ASSUME NEW y \in S, ~ 6 <= y PROVE FALSE
        <4>1. y \in {1, 2, 3, 4, 5}
          BY <1>11, <3>1
        <4> QED BY <1>7, <3>1, <4>1, Zenon DEF Space
      <3> QED BY <3>1
    <2>5. S \in SUBSET Nat
      BY <1>11
    <2> HIDE DEF S
    <2>6. Min(S) = 6
      BY <2>3, <2>4, <2>5, LeastIs
    <2> QED BY <2>1, <2>3, <2>6
  <1>15. Upto(d, 6, {LF}) = r.version
    <2>1. 6 \in Nat /\ a \in 6 .. n /\ d[a] \in {LF}
      BY <1>5, <1>11
    <2>2. ASSUME NEW x \in 6 .. a - 1 PROVE d[x] \notin {LF}
      <3>1. x - 5 \in 1 .. vl /\ 5 + (x - 5) = x
        BY <1>11
      <3> QED BY <1>7, <1>9, <3>1, Zenon DEF vl
    <2>3. Upto(d, 6, {LF}) = SubSeq(d, 6, a - 1)
      BY ONLY <1>12, <2>1, <2>2, UptoIs, ZenonT(60)
    <2>4. SubSeq(d, 5 + 1, 5 + Len(r.version)) = r.version
      <3>1. 5 \in Nat
        OBVIOUS
      <3> QED BY ONLY <1>5, <1>7, <1>8, <3>1, PartIs, SMTT(30)
    <2>5. a - 1 = 5 + Len(r.version) /\ 5 + 1 = 6
      BY <1>11 DEF vl
    <2> QED BY ONLY <2>3, <2>4, <2>5, Zenon
  <1>16. Upto(d, a + 1, {LF}) = r.id
    <2>1. a + 1 \in Nat /\ b \in a + 1 .. n /\ d[b] \in {LF}
      BY <1>5, <1>13
    <2>2. ASSUME NEW x \in a + 1 .. b - 1 PROVE d[x] \notin {LF}
      <3>1. x - a \in 1 .. il /\ a + (x - a) = x
        BY <1>11
      <3>2. \A k \in 1 .. il : d[a + k] = r.id[k] /\ r.id[k] # LF
        BY <1>5, <1>9 DEF il
      <3>3. d[a + (x - a)] # LF
        BY ONLY <3>1, <3>2, Zenon
      <3> QED BY ONLY <3>1, <3>3
    <2>3. Upto(d, a + 1, {LF}) = SubSeq(d, a + 1, b - 1)
      BY ONLY <1>12, <2>1, <2>2, UptoIs, ZenonT(60)
    <2>4. SubSeq(d, a + 1, a + Len(r.id)) = r.id
      BY ONLY <1>5, <1>8, <1>11, PartIs, ZenonT(60)
    <2>5. b - 1 = a + Len(r.id)
      BY <1>11 DEF il
    <2> QED BY ONLY <2>3, <2>4, <2>5, Zenon
  <1>17. Upto(d, b + 1, {LF}) = r.key
    <2>1. b + 1 \in Nat /\ c \in b + 1 .. n /\ d[c] \in {LF}
      BY <1>5, <1>13
    <2>2. ASSUME NEW x \in b + 1 .. c - 1 PROVE d[x] \notin {LF}
      <3>1. x - b \in 1 .. kl /\ b + (x - b) = x
        BY <1>11
      <3>2. \A k \in 1 .. kl : d[b + k] = r.key[k] /\ r.key[k] # LF
        BY <1>5, <1>9 DEF kl
      <3>3. d[b + (x - b)] # LF
        BY ONLY <3>1, <3>2, Zenon
      <3> QED BY ONLY <3>1, <3>3
    <2>3. Upto(d, b + 1, {LF}) = SubSeq(d, b + 1, c - 1)
      BY ONLY <1>12, <2>1, <2>2, UptoIs, ZenonT(60)
    <2>4. SubSeq(d, b + 1, b + Len(r.key)) = r.key
      BY ONLY <1>5, <1>8, <1>11, PartIs, ZenonT(60)
    <2>5. c - 1 = b + Len(r.key)
      BY <1>11 DEF kl
    <2> QED BY ONLY <2>3, <2>4, <2>5, Zenon
  <1>18. ASSUME \A x \in 1 .. ll : r.line[x] # NUL
         PROVE  Append(Upto(d, c + 1, {NUL}), NUL) = Ended(r.line)
    <2>1. c + 1 \in Nat /\ m \in c + 1 .. n /\ d[m] \in {NUL}
      BY <1>5, <1>11
    <2>2. ASSUME NEW x \in c + 1 .. m - 1 PROVE d[x] \notin {NUL}
      <3>1. x - c \in 1 .. ll /\ c + (x - c) = x
        BY <1>11
      <3>2. \A k \in 1 .. ll : d[c + k] = r.line[k] /\ r.line[k] # NUL
        BY <1>5, <1>18 DEF ll
      <3>3. d[c + (x - c)] # NUL
        BY ONLY <3>1, <3>2, Zenon
      <3> QED BY ONLY <3>1, <3>3
    <2>3. Upto(d, c + 1, {NUL}) = SubSeq(d, c + 1, m - 1)
      BY ONLY <1>12, <2>1, <2>2, UptoIs, ZenonT(60)
    <2>4. SubSeq(d, c + 1, c + Len(r.line)) = r.line
      BY ONLY <1>5, <1>8, <1>11, PartIs, ZenonT(60)
    <2>5. m - 1 = c + Len(r.line)
      BY <1>11 DEF ll
    <2>6. Upto(d, c + 1, {NUL}) = r.line
      BY ONLY <2>3, <2>4, <2>5, Zenon
    <2>7. Append(r.line, NUL) = r.line \o <<NUL>>
      <3>1. NUL \in Symbols
        BY DEF Symbols
      <3> QED BY ONLY <1>8, <3>1, AppendIsConcat, ZenonT(30)
    <2> QED BY <2>6, <2>7, Zenon DEF Ended
  <1> DEFINE v == SelectInSeq(d, LAMBDA x : x = "V")
             version == Upto(d, v, {LF})
             i == v + Len(version) + 1
             id == Upto(d, i, {LF})
             k == i + Len(id) + 1
             key == Upto(d, k, {LF})
             line == Append(Upto(d, k + Len(key) + 1, {NUL}), NUL)
             overrun == Len(key) >= FromAuthorization \/ \A j \in k .. Len(d) : d[j] # LF
             hasTwo == state \in {"DGRAM_MP_COMMAND", "DGRAM_AU_COMMAND"}
  <1>19. CopyDgramData(d, state) =
           [overrun |-> overrun, version |-> version, authorization |-> key,
            uniqueID |-> IF Len(key) < AUTHORIZATION THEN id
                         ELSE Upto(SubSeq(key, AUTHORIZATION + 1, Len(key)), 1, {NUL}),
            username |-> IF hasTwo \/ state = "DGRAM_DU_COMMAND"
                         THEN ObtainUsername(line) ELSE <<>>,
            password |-> IF hasTwo THEN ObtainPassword(line) ELSE <<>>]
    BY Zenon DEF CopyDgramData
  <1>20. version = r.version
    BY <1>14, <1>15
  <1> HIDE DEF version
  <1>21. i = a + 1
    BY <1>11, <1>14, <1>20 DEF vl
  <1> HIDE DEF v, i
  <1>22. id = r.id
    BY <1>16, <1>21
  <1> HIDE DEF id
  <1>23. k = b + 1
    BY ONLY <1>21, <1>22, <1>13 DEF k, il
  <1> HIDE DEF k
  <1>24. key = r.key
    BY <1>17, <1>23
  <1> HIDE DEF key
  <1>25. k + Len(key) + 1 = c + 1
    BY ONLY <1>23, <1>24, <1>13, Zenon DEF kl
  <1>26. (\A x \in 1 .. Len(r.line) : r.line[x] # NUL) => line = Ended(r.line)
    BY <1>18, <1>25 DEF ll
  <1> HIDE DEF line
  <1>27. Len(key) < AUTHORIZATION /\ ~ overrun
    <2>1. Len(key) = kl /\ kl < AUTHORIZATION
      BY <1>24 DEF KeyFits, kl
    <2>2. AUTHORIZATION <= FromAuthorization /\ AUTHORIZATION \in Nat /\ FromAuthorization \in Nat
      BY SizeAssumption DEF FromAuthorization
    <2>3. ~ Len(key) >= FromAuthorization
      BY <1>11, <2>1, <2>2
    <2>4. c \in k .. Len(d) /\ d[c] = LF
      BY <1>5, <1>12, <1>13, <1>23
    <2> QED BY <2>1, <2>3, <2>4
  <1> HIDE DEF overrun
  <1> DEFINE data == CopyDgramData(d, state)
  <1>28. /\ data.overrun = overrun /\ data.version = version /\ data.authorization = key
         /\ data.uniqueID = IF Len(key) < AUTHORIZATION THEN id
                            ELSE Upto(SubSeq(key, AUTHORIZATION + 1, Len(key)), 1, {NUL})
         /\ hasTwo \/ state = "DGRAM_DU_COMMAND" => data.username = ObtainUsername(line)
         /\ hasTwo => data.password = ObtainPassword(line)
    BY <1>19
  <1> HIDE DEF data
  <1>29. data.uniqueID = id
    BY <1>27, <1>28
  <1> QED BY <1>20, <1>22, <1>24, <1>26, <1>27, <1>28, <1>29, SMTT(30) DEF data, d

LEMMA SamePart ==
  ASSUME NEW line \in Texts, NEW i \in Nat, NEW j \in Int, i >= 1, j <= Len(line)
  PROVE  SubSeq(Ended(line), i, j) = SubSeq(line, i, j)
  <1> DEFINE w == Ended(line)
  <1>1. \A x \in i .. j : line[x] \in Symbols /\ w[x] = line[x]
    <2>1. \A x \in i .. j : x \in 1 .. Len(line)
      OBVIOUS
    <2>2. line \in Seq(Symbols)
      BY SeqMonotonic, STRING \subseteq Symbols DEF Texts, Symbols
    <2>3. \A x \in 1 .. Len(line) : line[x] \in Symbols /\ w[x] = line[x]
      BY <2>2, EndedLine, ElementOfSeq
    <2> QED BY <2>1, <2>3
  <1> DEFINE s == SubSeq(w, i, j)
             t == SubSeq(line, i, j)
  <1> HIDE DEF w
  <1>2. i \in Int /\ j \in Int
    OBVIOUS
  <1>3. /\ s \in Seq(Symbols) /\ Len(s) = IF i <= j THEN j - i + 1 ELSE 0
        /\ \A k \in 1 .. j - i + 1 : s[k] = w[i + k - 1]
    <2>1. \A x \in i .. j : w[x] \in Symbols
      BY <1>1
    <2> QED BY ONLY <1>2, <2>1, SubSeqProperties
  <1>4. /\ t \in Seq(Symbols) /\ Len(t) = IF i <= j THEN j - i + 1 ELSE 0
        /\ \A k \in 1 .. j - i + 1 : t[k] = line[i + k - 1]
    <2>1. \A x \in i .. j : line[x] \in Symbols
      BY <1>1
    <2> QED BY ONLY <1>2, <2>1, SubSeqProperties
  <1> HIDE DEF s, t
  <1>5. Len(s) = Len(t) /\ \A k \in 1 .. Len(s) : s[k] = t[k]
    <2>1. Len(s) = Len(t) /\ \A k \in 1 .. Len(s) : k \in 1 .. j - i + 1 /\ i + k - 1 \in i .. j
      BY <1>3, <1>4
    <2> QED BY <1>1, <1>3, <1>4, <2>1
  <1>6. s = t
    BY <1>3, <1>4, <1>5, SeqEqual
  <1> QED BY <1>6 DEF s, t, w

LEMMA GreatestIs ==
  ASSUME NEW S \in SUBSET Nat, NEW m \in S, \A y \in S : y <= m
  PROVE  Max(S) = m
  <1>1. ASSUME NEW x \in S, \A y \in S : x >= y PROVE x = m
    <2>1. x \in Nat /\ m \in Nat /\ x <= m /\ m <= x
      BY <1>1
    <2> QED BY <2>1
  <1>2. \A x : (x \in S /\ \A y \in S : x >= y) <=> x = m
    BY <1>1, Zenon
  <1> QED BY <1>2 DEF Max

\* obtainUsername and obtainPassword find the words behind the first space.
LEMMA WordsCopied ==
  ASSUME NEW line \in Texts, Len(line) > 3, line[1] # Space, line[2] # Space, line[3] = Space
  PROVE  /\ Arguments(line, 1) => ObtainUsername(Ended(line)) = WordsOf(line)[1]
         /\ Arguments(line, 2) => /\ ObtainUsername(Ended(line)) = WordsOf(line)[1]
                                  /\ ObtainPassword(Ended(line)) = WordsOf(line)[2]
  <1> DEFINE w == Ended(line)
             n == Len(line)
             stops == {Space, NUL}
             spaces == {i \in 1 .. n + 1 : w[i] = Space}
  <1>1. n \in Nat /\ n > 3 /\ n + 1 = Len(w) /\ w[n + 1] = NUL /\ \A k \in 1 .. n : w[k] = line[k]
    BY EndedLine
  <1>2. \A x \in WordChars : x \notin stops
    BY DEF WordChars
  <1>3. NUL # Space
    BY Zenon DEF NUL, Space
  <1> HIDE DEF w, n
  <1>4. /\ ObtainUsername(w) = Upto(w, (IF spaces # {} THEN Min(spaces) ELSE 0) + 1, stops)
        /\ ObtainPassword(w) = Upto(w, (IF spaces # {} THEN Max(spaces) ELSE 0) + 1, stops)
    BY <1>1, Zenon DEF ObtainUsername, ObtainPassword, SelectInSeq, SelectLastInSeq
  <1> HIDE DEF stops
  <1>5. 3 \in spaces /\ spaces \in SUBSET Nat /\ Min(spaces) = 3
    <2>1. w[1] # Space /\ w[2] # Space /\ w[3] = Space
      BY <1>1
    <2>2. 3 \in spaces
      BY <1>1, <2>1
    <2>3. \A y \in spaces : 3 <= y
      <3>1. ASSUME NEW y \in spaces, ~ 3 <= y PROVE FALSE
        <4>1. y = 1 \/ y = 2
          BY <1>1, <3>1
        <4> QED BY <2>1, <3>1, <4>1
      <3> QED BY <3>1
    <2>4. spaces \in SUBSET Nat
      BY <1>1
    <2> HIDE DEF spaces
    <2> QED BY <2>2, <2>3, <2>4, LeastIs
  <1>6. ObtainUsername(w) = Upto(w, 4, stops)
    <2> HIDE DEF spaces
    <2> QED BY <1>4, <1>5
  <1>7. NUL \in stops /\ Space \in stops
    BY DEF stops
  <1>8. ASSUME NEW i \in 4 .. n, NEW j \in i .. n + 1, w[j] \in stops, WordIn(line, i, j - 1)
        PROVE  Upto(w, i, stops) = SubSeq(line, i, j - 1)
    <2>1. \A x \in i .. j - 1 : w[x] \notin stops
      <3>1. \A x \in i .. j - 1 : w[x] = line[x]
        BY <1>1, <1>8
      <3> QED BY <1>2, <1>8, <3>1 DEF WordIn
    <2>2. i \in Nat /\ n + 1 \in Nat /\ i >= 1 /\ j - 1 \in Int /\ j - 1 <= n
      BY <1>1
    <2>3. Upto(w, i, stops) = SubSeq(w, i, j - 1)
      BY ONLY <1>1, <1>8, <2>1, <2>2, UptoIs
    <2>4. SubSeq(w, i, j - 1) = SubSeq(line, i, j - 1)
      BY <2>2, SamePart, Zenon DEF w, n
    <2> QED BY <2>3, <2>4
  <1>9. ASSUME Arguments(line, 1)
        PROVE  ObtainUsername(w) = WordsOf(line)[1]
    <2>1. WordIn(line, 4, n)
      BY <1>9, ArgumentsAre DEF n
    <2>2. (n + 1) - 1 = n /\ 4 \in 4 .. n /\ n + 1 \in 4 .. n + 1
      BY <1>1
    <2>3. Upto(w, 4, stops) = SubSeq(line, 4, n)
      <3>1. Upto(w, 4, stops) = SubSeq(line, 4, (n + 1) - 1)
        BY <1>1, <1>7, <1>8, <2>1, <2>2
      <3> QED BY <2>2, <3>1
    <2>4. \A i \in 4 .. n : line[i] # Space
      BY <1>2, <1>7, <2>1 DEF WordIn
    <2>5. WordsOf(line) = <<SubSeq(line, 4, n)>>
      BY <2>4, FirstSpace DEF n
    <2>6. WordsOf(line)[1] = SubSeq(line, 4, n)
      <3> DEFINE x == SubSeq(line, 4, n)
                 words == WordsOf(line)
      <3>1. words = <<x>>
        BY <2>5
      <3> HIDE DEF x, words
      <3>2. words[1] = x
        BY ONLY <3>1
      <3> QED BY <3>2 DEF x, words
    <2> QED BY <1>6, <2>3, <2>6
  <1>10. ASSUME Arguments(line, 2)
         PROVE  /\ ObtainUsername(w) = WordsOf(line)[1]
                /\ ObtainPassword(w) = WordsOf(line)[2]
    <2>1. PICK j \in 5 .. n - 1 :
             WordIn(line, 4, j - 1) /\ line[j] = Space /\ WordIn(line, j + 1, n)
      BY <1>10, ArgumentsAre DEF n
    <2>2. /\ j \in Nat /\ j \in 4 .. n + 1 /\ j \in 4 .. n /\ 4 \in 4 .. n /\ (n + 1) - 1 = n
          /\ j + 1 \in 4 .. n /\ n + 1 \in j + 1 .. n + 1 /\ j \in 1 .. n
      BY <1>1
    <2>3. \A i \in 4 .. j - 1 : line[i] # Space
      BY <1>2, <1>7, <2>1 DEF WordIn
    <2>4. WordsOf(line) = <<SubSeq(line, 4, j - 1), SubSeq(line, j + 1, n)>>
      BY <2>1, <2>2, <2>3, FirstSpace, Zenon DEF n
    <2>5. WordsOf(line)[1] = SubSeq(line, 4, j - 1) /\ WordsOf(line)[2] = SubSeq(line, j + 1, n)
      <3> DEFINE x == SubSeq(line, 4, j - 1)
                 y == SubSeq(line, j + 1, n)
                 words == WordsOf(line)
      <3>1. words = <<x, y>>
        BY <2>4
      <3> HIDE DEF x, y, words
      <3>2. words[1] = x /\ words[2] = y
        BY ONLY <3>1, Pair
      <3> QED BY <3>2 DEF x, y, words
    <2>6. Upto(w, 4, stops) = SubSeq(line, 4, j - 1)
      BY <1>1, <1>7, <1>8, <2>1, <2>2
    <2>7. Max(spaces) = j
      <3>1. j \in spaces
        BY <1>1, <2>1, <2>2
      <3>2. \A y \in spaces : y <= j
        <4>1. ASSUME NEW y \in spaces, ~ y <= j PROVE FALSE
          <5>1. y \in j + 1 .. n \/ y = n + 1
            BY <1>1, <4>1
          <5>2. y \in j + 1 .. n => line[y] \in WordChars /\ w[y] = line[y]
            BY <1>1, <2>1, <2>2 DEF WordIn
          <5>3. Space \notin WordChars
            BY <1>2, <1>7
          <5> QED BY <1>1, <1>3, <4>1, <5>1, <5>2, <5>3
        <4> QED BY <4>1
      <3> HIDE DEF spaces
      <3> QED BY <1>5, <3>1, <3>2, GreatestIs
    <2>8. ObtainPassword(w) = Upto(w, j + 1, stops)
      <3> HIDE DEF spaces
      <3> QED BY <1>4, <1>5, <2>7
    <2>9. Upto(w, j + 1, stops) = SubSeq(line, j + 1, n)
      <3>1. Upto(w, j + 1, stops) = SubSeq(line, j + 1, (n + 1) - 1)
        BY <1>1, <1>7, <1>8, <2>1, <2>2, SMTT(30)
      <3> QED BY <2>2, <3>1
    <2> QED BY <1>6, <2>5, <2>6, <2>8, <2>9, SMTT(30)
  <1> QED BY <1>9, <1>10 DEF w

-----------------------------------------------------------------------------
(* The reply *)

\* A command with arguments has no NUL in it, and a key that is one fits.
LEMMA NoNulInside ==
  ASSUME NEW line \in Texts, NEW s \in {"DGRAM_AU_COMMAND", "DGRAM_MP_COMMAND", "DGRAM_DU_COMMAND"},
         CompleteAt(s, Ended(line), Len(line) + 1)
  PROVE  \A k \in 1 .. Len(line) : line[k] # NUL
  <1> DEFINE w == Ended(line)
             n == Len(line)
  <1>1. n \in Nat /\ \A k \in 1 .. n : w[k] = line[k]
    BY EndedLine, Zenon
  <1>2. /\ Letters2(w, "D", "U") \/ Letters2(w, "A", "U") \/ Letters2(w, "M", "P")
        /\ InFirst(w, (n + 1) - 1) \/ InSecond(w, (n + 1) - 1)
    BY DEF CompleteAt
  <1> HIDE DEF w, n
  <1>3. (n + 1) - 1 = n
    BY <1>1
  <1>4. w[1] # NUL /\ w[2] # NUL
    BY <1>2 DEF Letters2, NUL
  <1>5. NUL \notin WordChars /\ Space # NUL
    BY DEF WordChars, NUL, Space
  <1>6. w[3] # NUL /\ \A k \in 4 .. n : w[k] # NUL
    <2>1. CASE InFirst(w, n)
      BY <1>5, <2>1 DEF InFirst, WordIn
    <2>2. CASE InSecond(w, n)
      <3>1. PICK j \in 5 .. n - 1 : BehindFirst(w, j) /\ WordIn(w, j + 1, n)
        BY <2>2 DEF InSecond
      <3>2. \A k \in 4 .. n : k \in 4 .. j - 1 \/ k = j \/ k \in j + 1 .. n
        BY <1>1
      <3> QED BY <1>5, <3>1, <3>2 DEF BehindFirst, WordIn
    <2> QED BY <1>2, <1>3, <2>1, <2>2
  <1>7. \A k \in 1 .. n : k = 1 \/ k = 2 \/ k = 3 \/ k \in 4 .. n
    BY <1>1
  <1>8. \A k \in 1 .. n : line[k] # NUL
    BY <1>1, <1>4, <1>6, <1>7, Zenon
  <1> QED BY <1>8 DEF n

LEMMA KeysFit ==
  ASSUME NEW r \in Requests, HasKey(r)
  PROVE  KeyFits(r)
  BY SizeAssumption, KeyAssumption DEF HasKey, KeyFits, IsWord

\* The strategy that is selected, and the fields it comes with.
LEMMA ParsedRight ==
  ASSUME NEW r \in Requests, NEW residue \in Residues, NEW held \in StaticValues
  PROVE  LET p == ParseDatagram(Render(r), residue, held)
         IN  /\ IsDiscarded(r) <=> p.command = "DGRAMERROR"
             /\ ~ IsDiscarded(r) /\ KeyFits(r) => p.command # "ABORT" /\ p.data.uniqueID = r.id
             /\ ~ IsDiscarded(r) /\ ~ HasKey(r) => p.command \in {"ABORT", "DGRAMBADAUTH"}
             /\ ~ IsDiscarded(r) /\ HasKey(r) /\ ~ IsCommand(r.line) =>
                  p.command = "DGRAM_INVALID_COMMAND"
             /\ ~ IsDiscarded(r) /\ HasKey(r) /\ IsCommand(r.line) =>
                  /\ r.version # VERSION => p.command = "INVALID_VERSION"
                  /\ r.version = VERSION /\ r.key # AUTHKEY => p.command = "INVALID_AUTHKEY"
                  /\ r.version = VERSION /\ r.key = AUTHKEY =>
                       /\ p.command \in CompleteStates
                       /\ CompleteAt(p.command, Ended(r.line), Len(r.line) + 1)
             /\ ~ IsDiscarded(r) /\ p.command \in {"DGRAM_AU_COMMAND", "DGRAM_MP_COMMAND", "DGRAM_DU_COMMAND"} =>
                  p.data.username = ObtainUsername(Ended(r.line))
             /\ ~ IsDiscarded(r) /\ p.command \in {"DGRAM_AU_COMMAND", "DGRAM_MP_COMMAND"} =>
                  p.data.password = ObtainPassword(Ended(r.line))
  <1> DEFINE q == RunAutomaton(Render(r), held)
             data == CopyDgramData(Render(r) \o residue, q.state)
             p == ParseDatagram(Render(r), residue, held)
             done == CompleteAt(q.state, Ended(r.line), Len(r.line) + 1)
             whole == \A k \in 1 .. Len(r.line) : r.line[k] # NUL
             two == {"DGRAM_AU_COMMAND", "DGRAM_MP_COMMAND"}
             three == {"DGRAM_AU_COMMAND", "DGRAM_MP_COMMAND", "DGRAM_DU_COMMAND"}
  <1>1. /\ IsDiscarded(r) <=> q.state = "DGRAMDISCARD"
        /\ ~ IsDiscarded(r) => RightLine(r)
        /\ ~ IsDiscarded(r) /\ ~ HasKey(r) => q.state = "DGRAMBADAUTH"
        /\ ~ IsDiscarded(r) /\ HasKey(r) /\ ~ IsCommand(r.line) =>
             q.state = "DGRAM_INVALID_COMMAND"
        /\ ~ IsDiscarded(r) /\ HasKey(r) /\ IsCommand(r.line) =>
             q.state \in CompleteStates /\ done
    BY EndsRight DEF IsHeaded
  <1>2. ~ IsDiscarded(r) /\ KeyFits(r) =>
          /\ ~ data.overrun
          /\ data.version = r.version /\ data.uniqueID = r.id /\ data.authorization = r.key
          /\ whole =>
               /\ q.state \in three => data.username = ObtainUsername(Ended(r.line))
               /\ q.state \in two => data.password = ObtainPassword(Ended(r.line))
    BY <1>1, FieldsAreLines
  <1>3. p = IF q.state = "DGRAMDISCARD"
            THEN [command |-> "DGRAMERROR", data |-> <<>>, onSuccess |-> q.onSuccess]
            ELSE [command |->
                    CASE data.overrun -> "ABORT"
                      [] ~ data.overrun /\ q.state \in Refusals -> q.state
                      [] ~ data.overrun /\ q.state \notin Refusals
                           /\ data.version # VERSION -> "INVALID_VERSION"
                      [] ~ data.overrun /\ q.state \notin Refusals /\ data.version = VERSION
                           /\ data.authorization # AUTHKEY -> "INVALID_AUTHKEY"
                      [] OTHER -> q.state,
                  data |-> data, onSuccess |-> q.onSuccess]
    BY Zenon DEF ParseDatagram
  <1>4. HasKey(r) => KeyFits(r)
    BY KeysFit
  <1>5. done /\ q.state \in three => whole
    BY PartsAreTexts, NoNulInside, Zenon
  <1> HIDE DEF q, data, p, done, whole
  <1>6. CASE q.state = "DGRAMDISCARD"
    <2>1. p.command = "DGRAMERROR"
      BY <1>3, <1>6
    <2> QED BY <1>1, <1>6, <2>1 DEF p
  <1>7. CASE q.state # "DGRAMDISCARD" /\ ~ HasKey(r)
    <2>1. ~ IsDiscarded(r) /\ q.state = "DGRAMBADAUTH" /\ q.state \in Refusals /\ p.data = data
      BY <1>1, <1>3, <1>7 DEF Refusals
    <2>2. p.command = IF data.overrun THEN "ABORT" ELSE "DGRAMBADAUTH"
      <3>1. p.command =
               CASE data.overrun -> "ABORT"
                 [] ~ data.overrun /\ q.state \in Refusals -> q.state
                 [] ~ data.overrun /\ q.state \notin Refusals
                      /\ data.version # VERSION -> "INVALID_VERSION"
                 [] ~ data.overrun /\ q.state \notin Refusals /\ data.version = VERSION
                      /\ data.authorization # AUTHKEY -> "INVALID_AUTHKEY"
                 [] OTHER -> q.state
        BY <1>3, <1>7
      <3>2. CASE data.overrun
        BY <2>1, <3>1, <3>2
      <3>3. CASE ~ data.overrun
        BY <2>1, <3>1, <3>3
      <3> QED BY <3>2, <3>3
    <2> QED BY <1>2, <1>7, <2>1, <2>2 DEF p
  <1>8. CASE q.state # "DGRAMDISCARD" /\ HasKey(r)
    <2>1. ~ IsDiscarded(r) /\ KeyFits(r) /\ ~ data.overrun
      BY <1>1, <1>2, <1>4, <1>8
    <2>2. /\ p.data = data
          /\ p.command =
               CASE q.state \in Refusals -> q.state
                 [] q.state \notin Refusals /\ data.version # VERSION -> "INVALID_VERSION"
                 [] q.state \notin Refusals /\ data.version = VERSION
                      /\ data.authorization # AUTHKEY -> "INVALID_AUTHKEY"
                 [] OTHER -> q.state
      BY <1>3, <1>8, <2>1
    <2>3. CompleteStates \cap (Refusals \cup {"DGRAMERROR", "ABORT"}) = {}
      BY DEF CompleteStates, PlainCommands, Refusals
    <2>4. CASE ~ IsCommand(r.line)
      <3>1. q.state = "DGRAM_INVALID_COMMAND" /\ q.state \in Refusals
        BY <1>1, <1>8, <2>1, <2>4 DEF Refusals
      <3>2. p.command = q.state
        BY <2>2, <3>1
      <3> QED BY <1>2, <1>8, <2>1, <2>2, <2>4, <3>1, <3>2 DEF p
    <2>5. CASE IsCommand(r.line)
      <3>1. q.state \in CompleteStates /\ done /\ q.state \notin Refusals
        BY <1>1, <1>8, <2>1, <2>3, <2>5
      <3>2. /\ r.version # VERSION => p.command = "INVALID_VERSION"
            /\ r.version = VERSION /\ r.key # AUTHKEY => p.command = "INVALID_AUTHKEY"
            /\ r.version = VERSION /\ r.key = AUTHKEY => p.command = q.state
        BY <1>2, <2>1, <2>2, <3>1
      <3>3. p.command # "DGRAMERROR" /\ p.command # "ABORT"
        BY <2>3, <3>1, <3>2
      <3>4. p.command \in three => p.command = q.state
        BY <3>2
      <3>5. /\ p.command \in three => p.data.username = ObtainUsername(Ended(r.line))
            /\ p.command \in two => p.data.password = ObtainPassword(Ended(r.line))
        BY <1>2, <1>5, <2>1, <2>2, <3>1, <3>4
      <3> QED BY <1>2, <1>8, <2>1, <2>2, <2>5, <3>1, <3>2, <3>3, <3>5 DEF p, done
    <2> QED BY <2>4, <2>5
  <1> QED BY <1>6, <1>7, <1>8

\* The command of a request that is executed, and its arguments.
LEMMA ExecutedCommand ==
  ASSUME NEW r \in Requests, NEW residue \in Residues, NEW held \in StaticValues, IsExecuted(r)
  PROVE  LET p == ParseDatagram(Render(r), residue, held)
         IN  /\ p.command \in CompleteStates
             /\ p.command = "DGRAM_BT_COMMAND" <=> CommandOf(r.line) = <<"B", "T">>
             /\ p.command = "DGRAM_BR_COMMAND" <=> CommandOf(r.line) = <<"B", "R">>
             /\ p.command = "DGRAM_HC_COMMAND" <=> CommandOf(r.line) = <<"H", "C">>
             /\ p.command = "DGRAM_CC_COMMAND" <=> CommandOf(r.line) = <<"C", "C">>
             /\ p.command = "DGRAM_LC_COMMAND" <=> CommandOf(r.line) = <<"L", "C">>
             /\ p.command = "DGRAM_LU_COMMAND" <=> CommandOf(r.line) = <<"L", "U">>
             /\ p.command = "DGRAM_DU_COMMAND" <=> CommandOf(r.line) = <<"D", "U">>
             /\ p.command = "DGRAM_AU_COMMAND" <=> CommandOf(r.line) = <<"A", "U">>
             /\ p.command = "DGRAM_MP_COMMAND" <=> CommandOf(r.line) = <<"M", "P">>
             /\ p.command \in {"DGRAM_AU_COMMAND", "DGRAM_MP_COMMAND", "DGRAM_DU_COMMAND"} =>
                  p.data.username = WordsOf(r.line)[1]
             /\ p.command \in {"DGRAM_AU_COMMAND", "DGRAM_MP_COMMAND"} =>
                  p.data.password = WordsOf(r.line)[2]
  <1> DEFINE p == ParseDatagram(Render(r), residue, held)
             w == Ended(r.line)
             n == Len(r.line)
             of(a, b) == CommandOf(r.line) = <<a, b>>
             s == p.command
  <1>1. HasKey(r) /\ ~ IsDiscarded(r) /\ IsCommand(r.line) /\ r.version = VERSION
        /\ r.key = AUTHKEY
    BY DEF IsExecuted
  <1>2. /\ s \in CompleteStates /\ CompleteAt(s, w, n + 1)
        /\ s \in {"DGRAM_AU_COMMAND", "DGRAM_MP_COMMAND", "DGRAM_DU_COMMAND"} =>
             p.data.username = ObtainUsername(w)
        /\ s \in {"DGRAM_AU_COMMAND", "DGRAM_MP_COMMAND"} => p.data.password = ObtainPassword(w)
    BY <1>1, ParsedRight
  <1>3. r.line \in Texts /\ n \in Nat /\ w[n + 1] = NUL /\ \A k \in 1 .. n : w[k] = r.line[k]
    BY PartsAreTexts, EndedLine, Zenon
  <1>4. /\ CompleteAt("DGRAM_BT_COMMAND", w, n + 1) => of("B", "T")
        /\ CompleteAt("DGRAM_BR_COMMAND", w, n + 1) => of("B", "R")
        /\ CompleteAt("DGRAM_HC_COMMAND", w, n + 1) => of("H", "C")
        /\ CompleteAt("DGRAM_CC_COMMAND", w, n + 1) => of("C", "C")
        /\ CompleteAt("DGRAM_LC_COMMAND", w, n + 1) => of("L", "C")
        /\ CompleteAt("DGRAM_LU_COMMAND", w, n + 1) => of("L", "U")
    <2>1. ASSUME NEW a, NEW b PROVE r.line = <<a, b>> => of(a, b)
      BY <1>3, TwoLetters
    <2> HIDE DEF of, w, n
    <2> QED BY <1>3, <2>1, CommandText, SMTT(30) DEF n
  <1>5. /\ CompleteAt("DGRAM_DU_COMMAND", w, n + 1) =>
             of("D", "U") /\ n > 3 /\ r.line[3] = Space /\ Arguments(r.line, 1)
        /\ CompleteAt("DGRAM_AU_COMMAND", w, n + 1) =>
             of("A", "U") /\ n > 3 /\ r.line[3] = Space /\ Arguments(r.line, 2)
        /\ CompleteAt("DGRAM_MP_COMMAND", w, n + 1) =>
             of("M", "P") /\ n > 3 /\ r.line[3] = Space /\ Arguments(r.line, 2)
    BY <1>3, CommandText, Zenon
  <1>6. ASSUME NEW a, NEW b, of(a, b) PROVE r.line[1] = a /\ r.line[2] = b
    BY <1>3, <1>6, TwoLetters DEF Spells
  <1>7. n > 3 /\ r.line[1] # Space /\ r.line[2] # Space /\ r.line[3] = Space =>
          /\ Arguments(r.line, 1) => ObtainUsername(w) = WordsOf(r.line)[1]
          /\ Arguments(r.line, 2) => /\ ObtainUsername(w) = WordsOf(r.line)[1]
                                     /\ ObtainPassword(w) = WordsOf(r.line)[2]
    BY <1>3, WordsCopied
  <1> DEFINE line == r.line
  <1> HIDE DEF of, w, n, s, line
  <1>8. s = "DGRAM_DU_COMMAND" => of("D", "U") /\ ObtainUsername(w) = WordsOf(line)[1]
    <2> SUFFICES ASSUME s = "DGRAM_DU_COMMAND"
                 PROVE  of("D", "U") /\ ObtainUsername(w) = WordsOf(line)[1]
      OBVIOUS
    <2>1. of("D", "U") /\ n > 3 /\ r.line[3] = Space /\ Arguments(r.line, 1)
      BY <1>2, <1>5
    <2>2. r.line[1] = "D" /\ r.line[2] = "U"
      BY <1>6, <2>1, Zenon
    <2>3. r.line[1] # Space /\ r.line[2] # Space
      BY <2>2 DEF Space
    <2> QED BY <1>7, <2>1, <2>3 DEF line
  <1>9. ASSUME NEW a \in {"A", "M"}, NEW b \in {"U", "P"}, of(a, b), n > 3, r.line[3] = Space,
                Arguments(r.line, 2)
         PROVE  ObtainUsername(w) = WordsOf(line)[1] /\ ObtainPassword(w) = WordsOf(line)[2]
    <2>1. r.line[1] # Space /\ r.line[2] # Space
      BY <1>6, <1>9, Zenon DEF Space
    <2> QED BY <1>7, <1>9, <2>1 DEF line
  <1>10. s = "DGRAM_AU_COMMAND" =>
           /\ of("A", "U")
           /\ ObtainUsername(w) = WordsOf(line)[1] /\ ObtainPassword(w) = WordsOf(line)[2]
    <2>1. s = "DGRAM_AU_COMMAND" =>
            of("A", "U") /\ n > 3 /\ r.line[3] = Space /\ Arguments(r.line, 2)
      BY <1>2, <1>5
    <2> QED BY <1>9, <2>1
  <1>11. s = "DGRAM_MP_COMMAND" =>
           /\ of("M", "P")
           /\ ObtainUsername(w) = WordsOf(line)[1] /\ ObtainPassword(w) = WordsOf(line)[2]
    <2>1. s = "DGRAM_MP_COMMAND" =>
            of("M", "P") /\ n > 3 /\ r.line[3] = Space /\ Arguments(r.line, 2)
      BY <1>2, <1>5
    <2> QED BY <1>9, <2>1
  <1>12. /\ s = "DGRAM_BT_COMMAND" => of("B", "T")
         /\ s = "DGRAM_BR_COMMAND" => of("B", "R")
         /\ s = "DGRAM_HC_COMMAND" => of("H", "C")
         /\ s = "DGRAM_CC_COMMAND" => of("C", "C")
         /\ s = "DGRAM_LC_COMMAND" => of("L", "C")
         /\ s = "DGRAM_LU_COMMAND" => of("L", "U")
    BY <1>2, <1>4
  <1>13. s \in {"DGRAM_BT_COMMAND", "DGRAM_BR_COMMAND", "DGRAM_HC_COMMAND", "DGRAM_CC_COMMAND",
                "DGRAM_LC_COMMAND", "DGRAM_LU_COMMAND", "DGRAM_DU_COMMAND", "DGRAM_AU_COMMAND",
                "DGRAM_MP_COMMAND"}
    BY <1>2 DEF CompleteStates, PlainCommands
  <1> DEFINE c == CommandOf(r.line)
  <1>14. /\ s = "DGRAM_BT_COMMAND" <=> c = <<"B", "T">>
         /\ s = "DGRAM_BR_COMMAND" <=> c = <<"B", "R">>
         /\ s = "DGRAM_HC_COMMAND" <=> c = <<"H", "C">>
         /\ s = "DGRAM_CC_COMMAND" <=> c = <<"C", "C">>
         /\ s = "DGRAM_LC_COMMAND" <=> c = <<"L", "C">>
         /\ s = "DGRAM_LU_COMMAND" <=> c = <<"L", "U">>
         /\ s = "DGRAM_DU_COMMAND" <=> c = <<"D", "U">>
         /\ s = "DGRAM_AU_COMMAND" <=> c = <<"A", "U">>
         /\ s = "DGRAM_MP_COMMAND" <=> c = <<"M", "P">>
    <2>1. ASSUME NEW a, NEW b PROVE of(a, b) <=> c = <<a, b>>
      BY DEF of
    <2>2. ASSUME NEW a, NEW b, c = <<a, b>> PROVE c[1] = a /\ c[2] = b
      BY <2>2
    <2> HIDE DEF c
    <2> DEFINE x == c[1]
               y == c[2]
    <2>3. /\ s = "DGRAM_BT_COMMAND" => of("B", "T")
          /\ s = "DGRAM_BR_COMMAND" => of("B", "R")
          /\ s = "DGRAM_HC_COMMAND" => of("H", "C")
          /\ s = "DGRAM_CC_COMMAND" => of("C", "C")
          /\ s = "DGRAM_LC_COMMAND" => of("L", "C")
          /\ s = "DGRAM_LU_COMMAND" => of("L", "U")
          /\ s = "DGRAM_DU_COMMAND" => of("D", "U")
          /\ s = "DGRAM_AU_COMMAND" => of("A", "U")
          /\ s = "DGRAM_MP_COMMAND" => of("M", "P")
      <3>1. s = "DGRAM_DU_COMMAND" => of("D", "U")
        BY <1>8
      <3>2. s = "DGRAM_AU_COMMAND" => of("A", "U")
        BY <1>10
      <3>3. s = "DGRAM_MP_COMMAND" => of("M", "P")
        BY <1>11
      <3> QED BY ONLY <1>12, <3>1, <3>2, <3>3
    <2>4. /\ s = "DGRAM_BT_COMMAND" => c = <<"B", "T">>
          /\ s = "DGRAM_BR_COMMAND" => c = <<"B", "R">>
          /\ s = "DGRAM_HC_COMMAND" => c = <<"H", "C">>
          /\ s = "DGRAM_CC_COMMAND" => c = <<"C", "C">>
          /\ s = "DGRAM_LC_COMMAND" => c = <<"L", "C">>
          /\ s = "DGRAM_LU_COMMAND" => c = <<"L", "U">>
          /\ s = "DGRAM_DU_COMMAND" => c = <<"D", "U">>
          /\ s = "DGRAM_AU_COMMAND" => c = <<"A", "U">>
          /\ s = "DGRAM_MP_COMMAND" => c = <<"M", "P">>
      BY ONLY <2>1, <2>3, Zenon
    <2>5. /\ c = <<"B", "T">> => x = "B" /\ y = "T"
          /\ c = <<"B", "R">> => x = "B" /\ y = "R"
          /\ c = <<"H", "C">> => x = "H" /\ y = "C"
          /\ c = <<"C", "C">> => x = "C" /\ y = "C"
          /\ c = <<"L", "C">> => x = "L" /\ y = "C"
          /\ c = <<"L", "U">> => x = "L" /\ y = "U"
          /\ c = <<"D", "U">> => x = "D" /\ y = "U"
          /\ c = <<"A", "U">> => x = "A" /\ y = "U"
          /\ c = <<"M", "P">> => x = "M" /\ y = "P"
      BY <2>2, Zenon
    <2> HIDE DEF x, y
    <2> QED BY ONLY <1>13, <2>4, <2>5, SMT
  <1> QED BY <1>2, <1>8, <1>10, <1>11, <1>14 DEF s, line

\* A user that the list has is one that the search finds, and LU lists the nodes.
LEMMA UsersFound ==
  ASSUME users \in Table, NEW u
  PROVE  UserExists(users, u) <=> HasUser(u)
  BY NodeOrNone, TableElements DEF HasUser

\* The strategies of a refusal and of every command.
LEMMA ReplyToRefusal ==
  ASSUME NEW s, NEW args, NEW st
  PROVE  /\ s = "DGRAMBADAUTH" => ReplyOf(s, args, st) = Status(103, args)
         /\ s = "DGRAM_INVALID_COMMAND" => ReplyOf(s, args, st) = Status(104, args)
         /\ s = "INVALID_VERSION" => ReplyOf(s, args, st) = Status(101, args)
         /\ s = "INVALID_AUTHKEY" => ReplyOf(s, args, st) = Status(100, args)
  BY SMTT(30) DEF ReplyOf

LEMMA ReplyOfCommand ==
  ASSUME NEW s, NEW args, NEW st, NEW reply, reply = ReplyOf(s, args, st)
  PROVE  /\ s = "DGRAM_BT_COMMAND" => reply = Statistics(st.bytesTransfered, args)
         /\ s = "DGRAM_BR_COMMAND" => reply = Statistics(st.bytesRecieved, args)
         /\ s = "DGRAM_HC_COMMAND" => reply = Statistics(st.historic, args)
         /\ s = "DGRAM_CC_COMMAND" => reply = Statistics(st.concurrent, args)
         /\ s = "DGRAM_LC_COMMAND" => reply = [Status(200, args) EXCEPT !.lines = Capabilities]
         /\ s = "DGRAM_LU_COMMAND" =>
              reply = [Status(200, args) EXCEPT !.lines = ListUsers(users)]
         /\ s = "DGRAM_DU_COMMAND" => reply = Status(200, args)
         /\ s = "DGRAM_AU_COMMAND" => reply = Status(200, args)
         /\ s = "DGRAM_MP_COMMAND" =>
              reply = Status(IF UserExists(users, args.username) THEN 200 ELSE 102, args)
  BY SMTT(30) DEF ReplyOf

\* What is expected is a reply.
LEMMA ExpectedIsReply ==
  ASSUME NEW r \in Requests
  PROVE  Expected(r) = [status |-> Expected(r).status, id |-> Expected(r).id,
                        number |-> Expected(r).number, lines |-> Expected(r).lines]
  <1> DEFINE c == CommandOf(r.line)
             answer == [status |-> 200, id |-> r.id, number |-> 0, lines |-> <<>>]
             failed(code) == [answer EXCEPT !.status = code]
             counts(n) == [answer EXCEPT !.number = n]
             IsReply(e) == e = [status |-> e.status, id |-> e.id, number |-> e.number,
                                lines |-> e.lines]
  <1>1. IsReply(answer) /\ IsReply(NoReply)
    BY DEF NoReply
  <1>2. ASSUME NEW x PROVE IsReply(failed(x)) /\ IsReply(counts(x))
    OBVIOUS
  <1>3. ASSUME NEW x PROVE IsReply([answer EXCEPT !.lines = x])
    OBVIOUS
  <1> DEFINE listed == [i \in DOMAIN users |-> <<users[i].name, users[i].password>>]
             code == CASE ~ HasKey(r) -> 103
                       [] HasKey(r) /\ ~ IsCommand(r.line) -> 104
                       [] HasKey(r) /\ IsCommand(r.line) ->
                            IF r.version # VERSION THEN 101 ELSE 100
             e == Expected(r)
  <1>4. /\ IsDiscarded(r) => e = NoReply
        /\ ~ IsDiscarded(r) /\ ~ IsExecuted(r) => e = failed(code)
        /\ IsExecuted(r) => e =
             CASE c = <<"B", "T">> -> counts(stats.bytesTransfered)
               [] c = <<"B", "R">> -> counts(stats.bytesRecieved + 1)
               [] c = <<"H", "C">> -> counts(stats.historic)
               [] c = <<"C", "C">> -> counts(stats.concurrent)
               [] c = <<"L", "C">> -> [answer EXCEPT !.lines = Capabilities]
               [] c = <<"L", "U">> -> [answer EXCEPT !.lines = listed]
               [] c = <<"M", "P">> /\ ~ HasUser(WordsOf(r.line)[1]) -> failed(102)
               [] OTHER -> answer
    <2>1. IsExecuted(r) => ~ IsDiscarded(r)
      BY Zenon DEF IsExecuted
    <2>2. CASE IsDiscarded(r)
      BY ONLY <2>1, <2>2, Zenon DEF Expected, e
    <2>3. CASE ~ IsDiscarded(r) /\ ~ IsExecuted(r)
      BY ONLY <2>1, <2>3, Zenon DEF Expected, e, code, failed, answer
    <2>4. CASE IsExecuted(r)
      BY ONLY <2>1, <2>4, Zenon DEF Expected, e, code, failed, answer, counts, listed, c
    <2> QED BY ONLY <2>1, <2>2, <2>3, <2>4, Zenon
  <1> HIDE DEF IsReply, answer, failed, counts, c, listed, code, e
  <1>5. IsReply(e)
    <2>1. CASE IsDiscarded(r)
      BY <1>1, <1>4, <2>1
    <2>2. CASE ~ IsDiscarded(r) /\ ~ IsExecuted(r)
      BY <1>2, <1>4, <2>2
    <2>3. CASE IsExecuted(r)
      BY <1>1, <1>2, <1>3, <1>4, <2>3, SMTT(30)
    <2> QED BY <2>1, <2>2, <2>3
  <1> QED BY <1>5 DEF IsReply, e

\* The refusal of a key that is none, whatever has become of the id.
LEMMA RefusalRight ==
  ASSUME NEW r \in Requests, NEW args, NEW st, ~ IsDiscarded(r), ~ HasKey(r)
  PROVE  LET reply == ReplyOf("DGRAMBADAUTH", args, st)
         IN  reply = [Expected(r) EXCEPT !.id = reply.id]
  <1>1. ~ IsExecuted(r)
    BY DEF IsExecuted
  <1>2. Expected(r) = [status |-> 103, id |-> r.id, number |-> 0, lines |-> <<>>]
    <2> DEFINE answer == [status |-> 200, id |-> r.id, number |-> 0, lines |-> <<>>]
               code == CASE ~ HasKey(r) -> 103
                         [] HasKey(r) /\ ~ IsCommand(r.line) -> 104
                         [] HasKey(r) /\ IsCommand(r.line) ->
                              IF r.version # VERSION THEN 101 ELSE 100
    <2>1. Expected(r) = [answer EXCEPT !.status = code]
      BY <1>1, Zenon DEF Expected
    <2>2. code = 103
      OBVIOUS
    <2> HIDE DEF code
    <2> QED BY <2>1, <2>2
  <1>3. ReplyOf("DGRAMBADAUTH", args, st) = Status(103, args)
    BY ReplyToRefusal
  <1> QED BY <1>2, <1>3 DEF Status

\* The reply of a strategy to the counters and the list it finds.
LEMMA ReplyRight ==
  ASSUME NEW r \in Requests, NEW residue \in Residues, NEW held \in StaticValues,
         users \in Table, stats \in Stats, ~ IsDiscarded(r), KeyFits(r)
  PROVE  LET p == ParseDatagram(Render(r), residue, held)
         IN  /\ p.command # "ABORT"
             /\ ReplyOf(p.command, p.data, AddRecievedBytes(stats, 1)) = Expected(r)
  <1> DEFINE p == ParseDatagram(Render(r), residue, held)
             s == p.command
             c == CommandOf(r.line)
             args == p.data
             counted == AddRecievedBytes(stats, 1)
             answer == [status |-> 200, id |-> r.id, number |-> 0, lines |-> <<>>]
             failed(code) == [answer EXCEPT !.status = code]
             counts(n) == [answer EXCEPT !.number = n]
  <1>1. args.uniqueID = r.id /\ s # "ABORT"
    BY ParsedRight
  <1>2. counted.bytesTransfered = stats.bytesTransfered
        /\ counted.bytesRecieved = stats.bytesRecieved + 1
        /\ counted.historic = stats.historic /\ counted.concurrent = stats.concurrent
    BY DEF AddRecievedBytes, Stats
  <1>3. ASSUME NEW code PROVE Status(code, args) = failed(code)
    BY <1>1 DEF Status
  <1>4. ASSUME NEW n PROVE Statistics(n, args) = counts(n)
    BY <1>1 DEF Status, Statistics
  <1>5. CASE ~ IsExecuted(r)
    <2>1. Expected(r) = failed(CASE ~ HasKey(r) -> 103
                        [] HasKey(r) /\ ~ IsCommand(r.line) -> 104
                        [] HasKey(r) /\ IsCommand(r.line) ->
                             IF r.version # VERSION THEN 101 ELSE 100)
      BY <1>5, Zenon DEF Expected
    <2>2. /\ s = "DGRAMBADAUTH" => ReplyOf(s, args, counted) = Status(103, args)
          /\ s = "DGRAM_INVALID_COMMAND" => ReplyOf(s, args, counted) = Status(104, args)
          /\ s = "INVALID_VERSION" => ReplyOf(s, args, counted) = Status(101, args)
          /\ s = "INVALID_AUTHKEY" => ReplyOf(s, args, counted) = Status(100, args)
      <3> HIDE DEF s, args, counted
      <3> QED BY ONLY ReplyToRefusal
    <2>3. /\ ~ HasKey(r) => s = "DGRAMBADAUTH"
          /\ HasKey(r) /\ ~ IsCommand(r.line) => s = "DGRAM_INVALID_COMMAND"
          /\ HasKey(r) /\ IsCommand(r.line) =>
               /\ r.version # VERSION => s = "INVALID_VERSION"
               /\ r.version = VERSION => s = "INVALID_AUTHKEY"
      BY <1>1, <1>5, ParsedRight DEF IsExecuted
    <2> HIDE DEF s, args, counted, answer, failed
    <2> QED BY <1>1, <1>3, <2>1, <2>2, <2>3 DEF s, args, counted, p
  <1>6. CASE IsExecuted(r)
    <2>1. Expected(r) =
            CASE c = <<"B", "T">> -> counts(stats.bytesTransfered)
              [] c = <<"B", "R">> -> counts(stats.bytesRecieved + 1)
              [] c = <<"H", "C">> -> counts(stats.historic)
              [] c = <<"C", "C">> -> counts(stats.concurrent)
              [] c = <<"L", "C">> -> [answer EXCEPT !.lines = Capabilities]
              [] c = <<"L", "U">> -> [answer EXCEPT !.lines =
                     [i \in DOMAIN users |-> <<users[i].name, users[i].password>>]]
              [] c = <<"M", "P">> /\ ~ HasUser(WordsOf(r.line)[1]) -> failed(102)
              [] OTHER -> answer
      BY <1>6, Zenon DEF Expected
    <2>2. /\ s \in CompleteStates
          /\ s = "DGRAM_BT_COMMAND" <=> c = <<"B", "T">>
          /\ s = "DGRAM_BR_COMMAND" <=> c = <<"B", "R">>
          /\ s = "DGRAM_HC_COMMAND" <=> c = <<"H", "C">>
          /\ s = "DGRAM_CC_COMMAND" <=> c = <<"C", "C">>
          /\ s = "DGRAM_LC_COMMAND" <=> c = <<"L", "C">>
          /\ s = "DGRAM_LU_COMMAND" <=> c = <<"L", "U">>
          /\ s = "DGRAM_DU_COMMAND" <=> c = <<"D", "U">>
          /\ s = "DGRAM_AU_COMMAND" <=> c = <<"A", "U">>
          /\ s = "DGRAM_MP_COMMAND" <=> c = <<"M", "P">>
          /\ s = "DGRAM_MP_COMMAND" => args.username = WordsOf(r.line)[1]
      BY <1>6, ExecutedCommand, SMTT(30)
    <2> DEFINE user == WordsOf(r.line)[1]
               listed == [i \in DOMAIN users |-> <<users[i].name, users[i].password>>]
               reply == ReplyOf(s, args, counted)
    <2>3. /\ s = "DGRAM_BT_COMMAND" => reply = Statistics(counted.bytesTransfered, args)
          /\ s = "DGRAM_BR_COMMAND" => reply = Statistics(counted.bytesRecieved, args)
          /\ s = "DGRAM_HC_COMMAND" => reply = Statistics(counted.historic, args)
          /\ s = "DGRAM_CC_COMMAND" => reply = Statistics(counted.concurrent, args)
          /\ s = "DGRAM_LC_COMMAND" => reply = [Status(200, args) EXCEPT !.lines = Capabilities]
          /\ s = "DGRAM_LU_COMMAND" =>
               reply = [Status(200, args) EXCEPT !.lines = ListUsers(users)]
          /\ s = "DGRAM_DU_COMMAND" => reply = Status(200, args)
          /\ s = "DGRAM_AU_COMMAND" => reply = Status(200, args)
          /\ s = "DGRAM_MP_COMMAND" =>
               reply = Status(IF UserExists(users, args.username) THEN 200 ELSE 102, args)
      <3>1. reply = ReplyOf(s, args, counted)
        OBVIOUS
      <3> HIDE DEF s, args, counted, reply
      <3> QED BY ONLY <3>1, ReplyOfCommand
    <2>4. Status(200, args) = answer /\ ListUsers(users) = listed
      BY <1>1 DEF Status, ListUsers
    <2>5. s = "DGRAM_MP_COMMAND" =>
            reply = IF HasUser(user) THEN answer ELSE failed(102)
      BY <1>3, <2>2, <2>3, <2>4, UsersFound, SMTT(30)
    <2>6. Expected(r) =
            CASE s = "DGRAM_BT_COMMAND" -> counts(stats.bytesTransfered)
              [] s = "DGRAM_BR_COMMAND" -> counts(stats.bytesRecieved + 1)
              [] s = "DGRAM_HC_COMMAND" -> counts(stats.historic)
              [] s = "DGRAM_CC_COMMAND" -> counts(stats.concurrent)
              [] s = "DGRAM_LC_COMMAND" -> [answer EXCEPT !.lines = Capabilities]
              [] s = "DGRAM_LU_COMMAND" -> [answer EXCEPT !.lines = listed]
              [] s = "DGRAM_MP_COMMAND" /\ ~ HasUser(user) -> failed(102)
              [] OTHER -> answer
      <3> HIDE DEF s, args, answer, failed, counts, listed
      <3> QED BY <2>1, <2>2 DEF listed
    <2>7. s \in {"DGRAM_BT_COMMAND", "DGRAM_BR_COMMAND", "DGRAM_HC_COMMAND", "DGRAM_CC_COMMAND",
                 "DGRAM_LC_COMMAND", "DGRAM_LU_COMMAND", "DGRAM_DU_COMMAND", "DGRAM_AU_COMMAND",
                 "DGRAM_MP_COMMAND"}
      BY <2>2 DEF CompleteStates, PlainCommands
    <2>8. reply = Expected(r)
      <3>1. /\ s = "DGRAM_BT_COMMAND" => reply = counts(stats.bytesTransfered)
            /\ s = "DGRAM_BR_COMMAND" => reply = counts(stats.bytesRecieved + 1)
            /\ s = "DGRAM_HC_COMMAND" => reply = counts(stats.historic)
            /\ s = "DGRAM_CC_COMMAND" => reply = counts(stats.concurrent)
        BY <1>2, <1>4, <2>3
      <3>2. /\ s = "DGRAM_LC_COMMAND" => reply = [answer EXCEPT !.lines = Capabilities]
            /\ s = "DGRAM_LU_COMMAND" => reply = [answer EXCEPT !.lines = listed]
            /\ s \in {"DGRAM_DU_COMMAND", "DGRAM_AU_COMMAND"} => reply = answer
        BY <2>3, <2>4, ZenonT(60)
      <3> HIDE DEF s, args, answer, failed, counts, listed, reply, user
      <3> QED BY <2>5, <2>6, <2>7, <3>1, <3>2, SMTT(30)
    <2> QED BY <1>1, <2>8
  <1> QED BY <1>5, <1>6

\* The automaton of parseMp3pCharacter accepts the lines of the protocol and nothing
\* else: whatever the datagrams, their order, what an earlier one left in the static
\* variable and what lies behind one in the buffer, each whose key line ends and fits its
\* array gets the reply that the text of its lines calls for, with its own id, computed
\* from the list and the counters it finds.  One with another key line is refused with
\* the status of that reply or discarded, or ends the process.
THEOREM RepliesAreTheProtocol == Spec => RepliesAreRight
  <1> DEFINE Right == stats'.bytesRecieved # stats.bytesRecieved =>
         LET r     == exchange'[1]
             reply == exchange'[2]
         IN  /\ phase' = "aborted" \/ reply = [Expected(r) EXCEPT !.id = reply.id]
             /\ KeyFits(r) \/ IsDiscarded(r) => phase' = "serving" /\ reply = Expected(r)
  <1>1. ASSUME IInv, [Next]_vars PROVE [Right]_vars
    <2> SUFFICES ASSUME Next, stats'.bytesRecieved # stats.bytesRecieved PROVE Right
      BY <1>1 DEF Right
    <2>1. PICK r \in Requests : HandleUdpRequest(r)
      <3>1. CountConnection => stats'.bytesRecieved = stats.bytesRecieved
        BY <1>1, Zenon DEF CountConnection, AddConcurrentConnection, RemoveConcurrentConnection,
                    IInv, Counted, Stats
      <3> QED BY <3>1, Zenon DEF Next, Start, FillList, EndOfRequest, LogIn, CloseSession, Terminate
    <2>2. PICK residue \in Residues : Handled(r, ParseDatagram(Render(r), residue, onSuccess))
      BY <2>1, RequestHandled
    <2> DEFINE p == ParseDatagram(Render(r), residue, onSuccess)
               answer == ReplyOf(p.command, p.data, AddRecievedBytes(stats, 1))
    <2>3. onSuccess \in StaticValues /\ users \in Table /\ stats \in Stats /\ phase = "serving"
      BY <1>1, <2>1, RequestHandled DEF IInv, Counted
    <2>4. /\ IsDiscarded(r) <=> p.command = "DGRAMERROR"
          /\ ~ IsDiscarded(r) /\ ~ HasKey(r) => p.command \in {"ABORT", "DGRAMBADAUTH"}
          /\ ~ IsDiscarded(r) /\ KeyFits(r) => p.command # "ABORT" /\ answer = Expected(r)
      BY <2>3, ParsedRight, ReplyRight
    <2>5. \/ p.command = "DGRAMERROR" /\ exchange' = <<r, NoReply>> /\ phase' = phase
          \/ p.command = "ABORT" /\ exchange' = <<r, NoReply>> /\ phase' = "aborted"
          \/ /\ p.command \notin {"DGRAMERROR", "ABORT"}
             /\ exchange' = <<r, answer>> /\ phase' = phase
      BY <2>2, Zenon DEF Handled
    <2>6. IsDiscarded(r) => NoReply = Expected(r)
      <3>1. IsExecuted(r) => ~ IsDiscarded(r)
        BY Zenon DEF IsExecuted
      <3> QED BY ONLY <3>1, Zenon DEF Expected
    <2>7. p.command = "DGRAMBADAUTH" /\ ~ IsDiscarded(r) /\ ~ HasKey(r) =>
            answer = [Expected(r) EXCEPT !.id = answer.id]
      BY RefusalRight
    <2>8. HasKey(r) => KeyFits(r)
      BY KeysFit
    <2> DEFINE e == Expected(r)
    <2>10. [e EXCEPT !.id = e.id] = e
      <3> HIDE DEF e
      <3>1. e = [status |-> e.status, id |-> e.id, number |-> e.number, lines |-> e.lines]
        BY ExpectedIsReply DEF e
      <3> QED BY <3>1
    <2> HIDE DEF p, answer, e
    <2>11. CASE p.command = "ABORT"
      <3>1. ~ IsDiscarded(r) /\ ~ KeyFits(r) /\ exchange'[1] = r /\ phase' = "aborted"
        BY <2>4, <2>5, <2>11, SMTT(30)
      <3> QED BY <3>1 DEF Right
    <2>12. CASE p.command # "ABORT" /\ (KeyFits(r) \/ IsDiscarded(r))
      <3>1. exchange' = <<r, e>> /\ phase' = "serving"
        BY <2>3, <2>4, <2>5, <2>6, <2>12, SMTT(30) DEF e
      <3>2. exchange'[1] = r /\ exchange'[2] = e
        BY <3>1, Pair
      <3> QED BY <2>10, <3>1, <3>2 DEF Right, e
    <2>13. CASE p.command # "ABORT" /\ ~ KeyFits(r) /\ ~ IsDiscarded(r)
      <3>1. exchange' = <<r, answer>> /\ answer = [Expected(r) EXCEPT !.id = answer.id]
        BY <2>4, <2>5, <2>7, <2>8, <2>13, SMTT(30)
      <3>2. exchange'[1] = r /\ exchange'[2] = answer
        BY <3>1, Pair
      <3> QED BY <2>13, <3>1, <3>2 DEF Right
    <2> QED BY <2>11, <2>12, <2>13
  <1> QED BY <1>1, Invariance, PTL DEF Spec, RepliesAreRight

-----------------------------------------------------------------------------
(* The changes *)

\* What an entry becomes is what the executed command carries.
LEMMA PasswordCommanded ==
  ASSUME IInv, NEW r \in Requests, HandleUdpRequest(r), phase' = "serving", NEW u \in Users,
         EntryOf(users, u).password # EntryOf(users', u).password
  PROVE  /\ IsExecuted(r)
         /\ TakesArguments(r.line) > 0
         /\ WordsOf(r.line)[1] = u
         /\ IF TakesArguments(r.line) = 1
            THEN EntryOf(users', u).password = NoPassword
            ELSE /\ EntryOf(users', u).password = WordsOf(r.line)[2]
                 /\ CommandOf(r.line) = <<"M", "P">> => HasUser(u)
  <1>0. PICK residue \in Residues :
          Handled(r, ParseDatagram(Render(r), residue, onSuccess))
    BY RequestHandled
  <1> DEFINE p == ParseDatagram(Render(r), residue, onSuccess)
             s == p.command
             args == p.data
             n == args.username
             given == EntryIn(args.password, EntryOf(users, n).connected)
             others == UsersAfter(s, args)
             c == CommandOf(r.line)
  <1>1. onSuccess \in StaticValues /\ users \in Table
    BY DEF IInv
  <1>2. s # "DGRAMERROR" /\ s # "ABORT" /\ users' = others
    <2>1. users' # users
      OBVIOUS
    <2> HIDE DEF s, args, others
    <2> QED BY <1>0, <2>1, SMTT(30) DEF Handled, s, args, others
  <1>3. /\ s = "DGRAM_AU_COMMAND" => Replaced(users, others, n, given)
        /\ s = "DGRAM_MP_COMMAND" =>
             IF UserExists(users, n) THEN Replaced(users, others, n, given) ELSE others = users
        /\ s = "DGRAM_DU_COMMAND" => Replaced(users, others, n, NoEntry)
        /\ s \notin {"DGRAM_AU_COMMAND", "DGRAM_MP_COMMAND", "DGRAM_DU_COMMAND"} => others = users
    BY <1>1, CommandReplaces
  <1>4. s \in {"DGRAM_AU_COMMAND", "DGRAM_MP_COMMAND", "DGRAM_DU_COMMAND"}
    <2> HIDE DEF s, others
    <2> QED BY <1>2, <1>3
  <1>5. IsExecuted(r)
    BY <1>1, <1>2, <1>4, ParsedRight, SMTT(30) DEF IsExecuted
  <1>6. /\ s = "DGRAM_DU_COMMAND" => c = <<"D", "U">>
        /\ s = "DGRAM_AU_COMMAND" => c = <<"A", "U">>
        /\ s = "DGRAM_MP_COMMAND" => c = <<"M", "P">>
        /\ c = <<"M", "P">> => s = "DGRAM_MP_COMMAND"
        /\ n = WordsOf(r.line)[1]
        /\ s \in {"DGRAM_AU_COMMAND", "DGRAM_MP_COMMAND"} => args.password = WordsOf(r.line)[2]
    BY <1>1, <1>4, <1>5, ExecutedCommand, SMTT(30)
  <1>7. /\ s = "DGRAM_DU_COMMAND" => TakesArguments(r.line) = 1
        /\ s \in {"DGRAM_AU_COMMAND", "DGRAM_MP_COMMAND"} => TakesArguments(r.line) = 2
    <2> HIDE DEF s
    <2> QED BY <1>6 DEF TakesArguments
  <1>8. given.password = args.password /\ NoEntry.password = NoPassword
    BY DEF NoEntry, EntryIn
  <1> HIDE DEF s, others, given, args, n, c
  <1>9. n = u
    BY <1>2, <1>3, <1>4 DEF Replaced
  <1>10. CASE s = "DGRAM_DU_COMMAND"
    <2>1. EntryOf(users', u) = NoEntry
      BY <1>2, <1>3, <1>9, <1>10 DEF Replaced
    <2> QED BY <1>5, <1>6, <1>7, <1>8, <1>9, <1>10, <2>1
  <1>11. CASE s \in {"DGRAM_AU_COMMAND", "DGRAM_MP_COMMAND"}
    <2>1. EntryOf(users', u) = given /\ (s = "DGRAM_MP_COMMAND" => UserExists(users, u))
      BY <1>2, <1>3, <1>9, <1>11 DEF Replaced
    <2>2. s = "DGRAM_MP_COMMAND" => HasUser(u)
      BY <1>1, <2>1, UsersFound
    <2> QED BY <1>5, <1>6, <1>7, <1>8, <1>9, <1>11, <2>1, <2>2 DEF c
  <1> QED BY <1>4, <1>10, <1>11

\* A user of the server that is serving appears, disappears or gets another password
\* only by an AU, MP or DU that is complete and has the version and the key of the
\* server: it is the user that the command line names, and the password that it
\* carries.  No session does it, and no datagram that is refused.
THEOREM ChangesAreTheOperators == Spec => ChangesAreCommanded
  <1> DEFINE Commanded == \A u \in Users :
         phase = "serving" /\ phase' = "serving"
             /\ EntryOf(users, u).password # EntryOf(users', u).password =>
           /\ exchange' # <<>>
           /\ LET r == exchange'[1] IN
                /\ IsExecuted(r)
                /\ TakesArguments(r.line) > 0
                /\ WordsOf(r.line)[1] = u
                /\ IF TakesArguments(r.line) = 1
                   THEN EntryOf(users', u).password = NoPassword
                   ELSE /\ EntryOf(users', u).password = WordsOf(r.line)[2]
                        /\ CommandOf(r.line) = <<"M", "P">> => HasUser(u)
  <1>1. ASSUME IInv, [Next]_vars PROVE [Commanded]_vars
    <2> SUFFICES ASSUME Next, NEW u \in Users, phase = "serving", phase' = "serving",
                        EntryOf(users, u).password # EntryOf(users', u).password
                 PROVE  /\ exchange' # <<>>
                        /\ LET r == exchange'[1] IN
                             /\ IsExecuted(r)
                             /\ TakesArguments(r.line) > 0
                             /\ WordsOf(r.line)[1] = u
                             /\ IF TakesArguments(r.line) = 1
                                THEN EntryOf(users', u).password = NoPassword
                                ELSE /\ EntryOf(users', u).password = WordsOf(r.line)[2]
                                     /\ CommandOf(r.line) = <<"M", "P">> => HasUser(u)
      BY <1>1
    <2>1. users # users'
      OBVIOUS
    <2>2. ASSUME NEW v \in Users, LogIn(v) \/ CloseSession(v) PROVE FALSE
      <3>1. users \in Table
        BY <1>1 DEF IInv
      <3>2. PICK c \in BOOLEAN : users' = ToggleUserConnected(users, v, c)
        BY <2>2, Zenon DEF LogIn, CloseSession
      <3>3. UserExists(users, v) /\ EntryOf(users', u) =
              IF u = v THEN EntryIn(EntryOf(users, v).password, c) ELSE EntryOf(users, u)
        BY <2>1, <3>1, <3>2, ToggleKeeps
      <3>4. EntryIn(EntryOf(users, v).password, c).password = EntryOf(users, v).password
        BY DEF EntryIn
      <3> QED BY <3>3, <3>4
    <2>3. PICK r \in Requests : HandleUdpRequest(r)
      BY <2>1, <2>2 DEF Next, Start, FillList, EndOfRequest, CountConnection, Terminate
    <2>4. exchange' # <<>> /\ exchange'[1] = r
      BY <2>3 DEF HandleUdpRequest
    <2> QED BY <1>1, <2>3, <2>4, PasswordCommanded
  <1> QED BY <1>1, Invariance, PTL DEF Spec, ChangesAreCommanded

-----------------------------------------------------------------------------
(* The refinement of UserRegistry *)

Registered(nodes) == [u \in Users |-> EntryOf(nodes, u)]

RegistryStep == [Registry!RegistryNext]_<<Registered(users),
    CASE phase = "serving" -> "open" [] phase \in {"stopped", "aborted"} -> "over"
      [] OTHER -> "closed">>

LEMMA RegisteredEmpty == Registered(<<>>) = Registry!Empty
  <1>1. \A u \in Users : EntryOf(<<>>, u) = Registry!Absent
    BY EmptyTable DEF NoEntry, EntryIn, Registry!Absent, Registry!Entry
  <1> QED BY <1>1 DEF Registered, Registry!Empty

\* The list changes in the entry of one user: a step Put of the registry.
LEMMA PutStep ==
  ASSUME NEW u \in Users, NEW e, phase = "serving", phase' = "serving",
         Replaced(users, users', u, e)
  PROVE  Registry!Put(u, e)
  <1>1. Registered(users') = [Registered(users) EXCEPT ![u] = e]
    BY Zenon DEF Registered, Replaced
  <1> QED BY <1>1 DEF Registry!Put, Registered

\* The list does not change, and the server goes on as it was: a stutter.
LEMMA NothingChanges ==
  ASSUME users' = users, phase' = phase \/ (phase \in Early /\ phase' \in Early)
  PROVE  RegistryStep
  BY DEF RegistryStep, Early, Registered

\* The process ends, and the list with it.
LEMMA ListCleared ==
  ASSUME phase = "serving", phase' \in {"stopped", "aborted"}, users' = <<>>
  PROVE  RegistryStep
  <1>1. Registered(users') = Registry!Empty
    BY RegisteredEmpty
  <1>2. Registry!Clear
    BY <1>1 DEF Registry!Clear, Registered
  <1> QED BY <1>2 DEF RegistryStep, Registry!RegistryNext, Registered

LEMMA HandleStep ==
  ASSUME NEW r \in Requests, IInv, HandleUdpRequest(r)
  PROVE  RegistryStep
  <1>0. PICK residue \in Residues :
          Handled(r, ParseDatagram(Render(r), residue, onSuccess))
    BY RequestHandled
  <1> DEFINE parsed == ParseDatagram(Render(r), residue, onSuccess)
  <1>1. phase = "serving"
    BY RequestHandled
  <1>2. \/ phase' = "serving" /\ users' = users
        \/ phase' = "serving" /\ users' = UsersAfter(parsed.command, parsed.data)
        \/ phase' = "aborted" /\ users' = RemoveAllUserNodes
    <2> HIDE DEF parsed
    <2> QED BY <1>1, <1>0, Zenon DEF Handled, parsed
  <1>3. CASE phase' = "serving" /\ users' = users
    BY <1>1, <1>3, NothingChanges, SMTT(30)
  <1>4. CASE phase' = "serving" /\ users' = UsersAfter(parsed.command, parsed.data)
    <2>1. \/ users' = users
          \/ \E u \in Users, p \in Passwords :
               Replaced(users, users', u, EntryIn(p, EntryOf(users, u).connected))
          \/ \E u \in Users : Replaced(users, users', u, NoEntry)
      BY <1>4, CommandChanges DEF IInv
    <2>2. ASSUME NEW u \in Users, NEW p \in Passwords,
                 Replaced(users, users', u, EntryIn(p, EntryOf(users, u).connected))
          PROVE  RegistryStep
      <3>1. Registry!Put(u, EntryIn(p, EntryOf(users, u).connected))
        BY <1>1, <1>4, <2>2, PutStep
      <3>2. Registry!Add(u, p)
        BY <3>1 DEF Registry!Add, Registry!Entry, EntryIn
      <3> QED BY <3>2 DEF RegistryStep, Registry!RegistryNext, Registered
    <2>3. ASSUME NEW u \in Users, Replaced(users, users', u, NoEntry)
          PROVE  RegistryStep
      <3>1. Registry!Put(u, NoEntry)
        BY <1>1, <1>4, <2>3, PutStep
      <3>2. Registry!Delete(u)
        BY <3>1 DEF Registry!Delete, Registry!Absent, Registry!Entry, NoEntry, EntryIn
      <3> QED BY <3>2 DEF RegistryStep, Registry!RegistryNext, Registered
    <2> QED BY <1>1, <1>4, <2>1, <2>2, <2>3, NothingChanges
  <1>5. CASE phase' = "aborted" /\ users' = RemoveAllUserNodes
    BY <1>1, <1>5, ListCleared DEF RemoveAllUserNodes
  <1> QED BY <1>2, <1>3, <1>4, <1>5

\* A registered user has an entry that is not the one of an unknown name.
LEMMA HasEntry ==
  ASSUME IInv, NEW u \in Users, UserExists(users, u)
  PROVE  /\ Registry!Has(u)
         /\ EntryOf(users, u).connected = UserIsConnected(users, u)
  <1>1. users \in Table
    BY DEF IInv
  <1>2. PICK i \in 1 .. Len(users) : users[i].name = u /\ GetUserNode(users, u) = i
    BY <1>1, NodeOrNone
  <1>3. EntryOf(users, u) = EntryIn(users[i].password, users[i].connected)
    BY <1>1, <1>2, EntryOfNode
  <1>4. users[i].password \in Passwords /\ users[i].connected \in BOOLEAN
    BY <1>1, TableElements
  <1>5. Registry!Has(u)
    BY <1>3, <1>4, BoundAssumption, SMTT(30)
       DEF Registry!Has, Registry!Absent, Registry!Entry, EntryIn
  <1>6. EntryOf(users, u).connected = users[i].connected
    BY <1>3 DEF EntryIn
  <1>7. UserIsConnected(users, u) = users[i].connected
    BY <1>2, <1>4 DEF UserIsConnected
  <1> QED BY <1>5, <1>6, <1>7

LEMMA SessionStep ==
  ASSUME NEW u \in Users, IInv, LogIn(u) \/ CloseSession(u)
  PROVE  RegistryStep
  <1>1. users \in Table /\ phase = "serving" /\ phase' = "serving"
    BY Zenon DEF IInv, LogIn, CloseSession
  <1>2. CASE ~ UserExists(users, u)
    <2>1. users' = users
      BY <1>1, <1>2, ToggleKeeps, Zenon DEF LogIn, CloseSession
    <2> QED BY <1>1, <2>1, NothingChanges
  <1>3. CASE UserExists(users, u)
    <2>1. Registry!Has(u) /\ EntryOf(users, u).connected = UserIsConnected(users, u)
      BY <1>3, HasEntry
    <2>2. CASE LogIn(u)
      <3>1. Replaced(users, users', u, EntryIn(EntryOf(users, u).password, TRUE))
        <4>1. users' = ToggleUserConnected(users, u, TRUE)
          BY <2>2 DEF LogIn
        <4>2. \A v : EntryOf(ToggleUserConnected(users, u, TRUE), v) =
                       IF v = u THEN EntryIn(EntryOf(users, u).password, TRUE)
                                ELSE EntryOf(users, v)
          BY <1>1, <1>3, ToggleKeeps, Zenon
        <4> QED BY <4>1, <4>2, Zenon DEF Replaced
      <3>2. ~ EntryOf(users, u).connected
        BY <2>1, <2>2 DEF LogIn
      <3>3. Registry!Put(u, EntryIn(EntryOf(users, u).password, TRUE))
        BY <1>1, <3>1, PutStep, Zenon
      <3>4. Registry!Connect(u)
        BY <2>1, <3>2, <3>3 DEF Registry!Connect, Registry!Entry, EntryIn
      <3> QED BY <3>4 DEF RegistryStep, Registry!RegistryNext, Registered
    <2>3. CASE CloseSession(u)
      <3>1. Replaced(users, users', u, EntryIn(EntryOf(users, u).password, FALSE))
        <4>1. users' = ToggleUserConnected(users, u, FALSE)
          BY <2>3 DEF CloseSession
        <4>2. \A v : EntryOf(ToggleUserConnected(users, u, FALSE), v) =
                       IF v = u THEN EntryIn(EntryOf(users, u).password, FALSE)
                                ELSE EntryOf(users, v)
          BY <1>1, <1>3, ToggleKeeps, Zenon
        <4> QED BY <4>1, <4>2, Zenon DEF Replaced
      <3>2. Registry!Put(u, EntryIn(EntryOf(users, u).password, FALSE))
        BY <1>1, <3>1, PutStep, Zenon
      <3>3. Registry!Disconnect(u)
        BY <2>1, <3>2 DEF Registry!Disconnect, Registry!Entry, EntryIn
      <3> QED BY <3>3 DEF RegistryStep, Registry!RegistryNext, Registered
    <2> QED BY <2>2, <2>3
  <1> QED BY <1>2, <1>3

LEMMA FillStep == ASSUME IInv, FillList PROVE RegistryStep
  <1>1. phase = "parsed" /\ users = <<>>
    BY DEF FillList, IInv, Early
  <1>2. CASE phase' = "crashed" /\ users' = <<>>
    BY <1>1, <1>2, NothingChanges DEF Early
  <1>3. CASE /\ phase' = "serving" /\ users' \in Table
             /\ \A i \in 1 .. Len(users') : users'[i].connected = FALSE
    <2>1. ASSUME NEW u \in Users
          PROVE  EntryOf(users', u) \in
                   {Registry!Entry(p, FALSE) : p \in Passwords \cup {NoPassword}}
      <3>1. CASE \E i \in 1 .. Len(users') : users'[i].name = u
        <4>1. PICK i \in 1 .. Len(users') : users'[i].name = u
          BY <3>1
        <4>2. EntryOf(users', u) = EntryIn(users'[i].password, FALSE)
          BY <1>3, <4>1, EntryOfNode, Zenon
        <4>3. users'[i].password \in Passwords
          BY <1>3, TableElements
        <4> QED BY <4>2, <4>3, Zenon DEF EntryIn, Registry!Entry
      <3>2. CASE ~ \E i \in 1 .. Len(users') : users'[i].name = u
        <4>1. EntryOf(users', u) = NoEntry
          BY <1>3, <3>2, EntryOfNone
        <4> QED BY <4>1, Zenon DEF NoEntry, EntryIn, Registry!Entry
      <3> QED BY <3>1, <3>2, Zenon
    <2>2. Registered(users') \in
            [Users -> {Registry!Entry(p, FALSE) : p \in Passwords \cup {NoPassword}}]
      BY <2>1, Zenon DEF Registered
    <2>3. Registry!Fill
      BY <1>1, <1>3, <2>2, Zenon DEF Registry!Fill, Registered
    <2> QED BY <2>3 DEF RegistryStep, Registry!RegistryNext, Registered
  <1> QED BY <1>2, <1>3, FillResult, Zenon

LEMMA StepOfRegistry == ASSUME IInv, [Next]_vars PROVE RegistryStep
  <1>1. CASE Start
    BY <1>1, NothingChanges DEF Start, Early
  <1>2. CASE FillList
    BY <1>2, FillStep
  <1>3. CASE \E r \in Requests : HandleUdpRequest(r)
    BY <1>3, HandleStep
  <1>4. CASE EndOfRequest
    BY <1>4, NothingChanges DEF EndOfRequest
  <1>5. CASE \E u \in Users : LogIn(u) \/ CloseSession(u)
    BY <1>5, SessionStep
  <1>6. CASE CountConnection
    BY <1>6, NothingChanges DEF CountConnection
  <1>7. CASE Terminate
    <2>1. phase = "serving" /\ phase' = "stopped" /\ users' = <<>>
      BY <1>7 DEF Terminate, RemoveAllUserNodes
    <2> QED BY <2>1, ListCleared
  <1>8. CASE UNCHANGED vars
    BY <1>8, NothingChanges DEF vars
  <1> QED BY <1>1, <1>2, <1>3, <1>4, <1>5, <1>6, <1>7, <1>8 DEF Next

\* The list is the registry that its three clients take it for: every operation of
\* the command line, of the monitor and of the sessions is one of UserRegistry on
\* the entry of one name, and leaves the entries of all others alone.
THEOREM ListIsRegistry == Spec => RegistrySpec
  <1>1. Init => Registry!RegistryInit
    <2> SUFFICES ASSUME Init PROVE Registry!RegistryInit
      OBVIOUS
    <2>1. Registered(users) = Registry!Empty
      BY RegisteredEmpty DEF Init
    <2> QED BY <2>1 DEF Init, Registry!RegistryInit, Registered
  <1>2. IInv /\ [Next]_vars => RegistryStep
    BY StepOfRegistry
  <1> QED BY <1>1, <1>2, Invariance, PTL
          DEF Spec, RegistrySpec, Registry!RegistrySpec, RegistryStep, Registered
=============================================================================
