-------------------------- MODULE Pop3ServerProofs --------------------------
(***************************************************************************)
(* The safety invariants of Pop3Server and of the loop around it, for      *)
(* every number of slots, every buffer size and every set of users,        *)
(* passwords and mails.                                                    *)
(*                                                                         *)
(* The invariants need each other, so they are proved as one, Inv.  It is  *)
(* made of a condition on each slot alone (Good), of ConnectedHasHolder,   *)
(* which relates the slots and the user list, and of the counts.  Every    *)
(* command ends in WriteToClient: WriteKeepsInv shows once what that       *)
(* preserves, and each command is left to show that the slot it hands over *)
(* is fit to be written (Serving) and leaves no flag without a holder.     *)
(*                                                                         *)
(* From Inv follow the two action properties, and the refinement of        *)
(* Maildrop, one step of which is proved for each handler: all but PASS,   *)
(* DELE, RSET, QUIT, a close and the delivery of mail are stutters.  A     *)
(* QUIT that is killed half way is a step of its own, QuitInterrupted.     *)
(*                                                                         *)
(* At the end, the main loop (EventLoop), which calls the handlers.        *)
(***************************************************************************)
EXTENDS EventLoop, FiniteSetTheorems, TLAPS

\* What holds of one slot, whatever the others are.
Good(c) ==
    /\ c \in Clients
    /\ ~ c.allocated => c = FreeClient
    /\ c.allocated => c.session # "ANY"
    /\ c.session = "AUTHENTICATION" => c.cache = NoCache
    /\ c.session = "TRANSACTION" => c.cache.owner \in Users
    /\ c.cache.owner \in Users =>
         c.allocated /\ c.username = c.cache.owner /\ c.cache.marked \subseteq c.cache.listed
    /\ c.io = "READING" => c.out = 0 /\ c.queued = 0 /\ c.command = "none"
    /\ c.out <= BUFFERSIZE

Serving(c) == Good(c) /\ c.allocated /\ c.io = "WRITING"

SlotsInv == client \in [Slots -> Clients] /\ \A s \in Slots : Good(client[s])

\* The user list: only a name that has a node can be flagged as connected.
RegistryOK(reg) ==
    /\ reg \in [Users -> Entries]
    /\ \A u \in Users : reg[u].connected => reg[u].password # NoPassword

DataInv ==
    /\ RegistryOK(registry)
    /\ maildir \in [Users -> SUBSET Mails]
    /\ status \in {"running", "stopped", "slotsFull", "acceptFailed", "openFailed",
                  "killed"}

CountInv ==
    /\ historic \in Nat
    /\ concurrent \in Nat
    /\ ConcurrentCoversOccupied

Inv == SlotsInv /\ DataInv /\ CountInv /\ ConnectedHasHolder

\* A flag set in reg has a holder once slot s has become c.
Held(s, c, reg) ==
    \A u \in Users : reg[u].connected =>
        \/ c.cache.owner = u
        \/ \E t \in Slots \ {s} : client[t].allocated /\ client[t].cache.owner = u

\* The step touches no slot but s, and leaves it closed or with that session and cache.
Leaves(s, session, cache) ==
    /\ client' = [client EXCEPT ![s] = client'[s]]
    /\ \/ client'[s] = FreeClient
       \/ client'[s].allocated /\ client'[s].session = session /\ client'[s].cache = cache

\* What the write branch can do to the session of its slot and to the mail.
KeepsSession(s) == Leaves(s, client[s].session, client[s].cache) /\ UNCHANGED maildir

OpensSession(s) ==
    /\ client[s].session = "AUTHENTICATION"
    /\ \E u \in Users :
         Leaves(s, "TRANSACTION", [owner |-> u, listed |-> maildir[u], marked |-> {}])
    /\ UNCHANGED maildir

MarksMail(s) ==
    /\ client[s].session = "TRANSACTION"
    /\ \E m \in ValidMails(client[s]) :
         Leaves(s, "TRANSACTION", [client[s].cache EXCEPT !.marked = @ \cup {m}])
    /\ UNCHANGED maildir

UnmarksMails(s) ==
    /\ client[s].session = "TRANSACTION"
    /\ Leaves(s, "TRANSACTION", [client[s].cache EXCEPT !.marked = {}])
    /\ UNCHANGED maildir

QuitsSession(s) ==
    /\ Leaves(s, "UPDATE", client[s].cache)
    /\ IF client[s].session = "TRANSACTION" THEN UnlinkMarked(s) ELSE UNCHANGED maildir

SessionStep(s) ==
    KeepsSession(s) \/ OpensSession(s) \/ MarksMail(s) \/ UnmarksMails(s) \/ QuitsSession(s)

-----------------------------------------------------------------------------
(* Operators on one slot *)

LEMMA FreeClientGood == Good(FreeClient)
  BY NamesAssumption, BufferAssumption
  DEF Good, FreeClient, NoCache, Clients, Caches, Names

LEMMA FreshClientServing ==
  ASSUME NEW r \in Replies
  PROVE  /\ Serving(PutUnchecked(InitClient(FreeClient), r))
         /\ PutUnchecked(InitClient(FreeClient), r).cache = NoCache
  <1> DEFINE c == InitClient(FreeClient)
             d == PutUnchecked(c, r)
  <1>1. /\ c \in Clients /\ c.allocated /\ c.session = "AUTHENTICATION"
        /\ c.io = "WRITING" /\ c.out = 0 /\ c.cache = NoCache
    BY FreeClientGood DEF Good, InitClient, FreeClient, Clients
  <1>2. r \in Nat /\ r <= BUFFERSIZE
    BY BufferAssumption DEF Replies
  <1> HIDE DEF c
  <1>3. /\ d \in Clients /\ d.allocated /\ d.session = "AUTHENTICATION"
        /\ d.io = "WRITING" /\ d.out = r /\ d.cache = NoCache
    BY <1>1, <1>2 DEF PutUnchecked, Clients
  <1> HIDE DEF d
  <1>4. NoCache.owner \notin Users
    BY NamesAssumption DEF NoCache
  <1>5. Serving(d) /\ d.cache = NoCache
    BY <1>2, <1>3, <1>4 DEF Serving, Good
  <1> QED BY <1>5 DEF c, d

\* A slot stays fit to be written when only its output and its work change.
LEMMA SameSession ==
  ASSUME NEW c, Serving(c), NEW d \in Clients,
         d.allocated = c.allocated, d.session = c.session, d.io = c.io,
         d.username = c.username, d.cache = c.cache, d.out <= BUFFERSIZE
  PROVE  Serving(d)
  BY DEF Serving, Good

LEMMA PutServing ==
  ASSUME NEW c, Serving(c), NEW n \in Nat
  PROVE  Serving(Put(c, n)) /\ Put(c, n).cache = c.cache /\ Put(c, n).session = c.session
  BY BufferAssumption DEF Serving, Good, Put, Clients, FreeClient

LEMMA PutUncheckedServing ==
  ASSUME NEW c, Serving(c), HasRoom(c), NEW n \in Replies
  PROVE  /\ Serving(PutUnchecked(c, n)) /\ PutUnchecked(c, n).cache = c.cache
         /\ PutUnchecked(c, n).session = c.session
  BY BufferAssumption DEF Serving, Good, PutUnchecked, HasRoom, Replies, Clients, FreeClient

LEMMA ContinueListServing ==
  ASSUME NEW c, Serving(c)
  PROVE  /\ Serving(ContinueList(c)) /\ ContinueList(c).cache = c.cache
         /\ ContinueList(c).session = c.session
  <1> DEFINE room  == IF HasRoom(c) THEN Free(c) - MAX_SINGLE_LINE_RESPONSE ELSE 0
             lines == IF room < c.work THEN room ELSE c.work
             d     == [c EXCEPT !.out = @ + lines, !.work = @ - lines]
  <1>1. lines \in Nat /\ lines <= c.work /\ c.out + lines <= BUFFERSIZE
    BY BufferAssumption DEF Serving, Good, HasRoom, Free, Clients
  <1>2. Serving(d) /\ d.cache = c.cache /\ d.session = c.session
    <2> HIDE DEF lines
    <2>1. /\ d \in Clients /\ d.allocated = c.allocated /\ d.session = c.session
          /\ d.io = c.io /\ d.username = c.username /\ d.cache = c.cache
          /\ d.out <= BUFFERSIZE
      <3> DEFINE o == c.out + lines
                 w == c.work - lines
      <3>1. c \in Clients /\ o \in Nat /\ w \in Nat /\ o <= BUFFERSIZE
        BY <1>1 DEF Serving, Good, Clients
      <3>2. d = [c EXCEPT !.out = o, !.work = w]
        OBVIOUS
      <3> HIDE DEF d, o, w
      <3> QED BY <3>1, <3>2 DEF Clients
    <2> HIDE DEF d
    <2> QED BY <2>1, SameSession
  <1>3. /\ Serving([d EXCEPT !.command = "LIST"])
        /\ Serving([d EXCEPT !.command = "none"])
        /\ [d EXCEPT !.command = "LIST"].cache = c.cache
        /\ [d EXCEPT !.command = "none"].cache = c.cache
        /\ [d EXCEPT !.command = "LIST"].session = c.session
        /\ [d EXCEPT !.command = "none"].session = c.session
    <2> HIDE DEF d
    <2> QED BY <1>2 DEF Serving, Good, Clients, FreeClient
  <1>4. /\ Serving(Put([d EXCEPT !.command = "none"], 1))
        /\ Put([d EXCEPT !.command = "none"], 1).cache = c.cache
        /\ Put([d EXCEPT !.command = "none"], 1).session = c.session
    <2> HIDE DEF d
    <2> QED BY <1>3, PutServing
  <1> QED BY <1>3, <1>4 DEF ContinueList

LEMMA ContinueRetrServing ==
  ASSUME NEW c, Serving(c)
  PROVE  /\ Serving(ContinueRetr(c)) /\ ContinueRetr(c).cache = c.cache
         /\ ContinueRetr(c).session = c.session
  <1>1. CASE ~ HasRoom(c)
    BY <1>1 DEF ContinueRetr, Serving, Good, Clients, FreeClient
  <1>2. CASE HasRoom(c) /\ c.work < Free(c)
    <2> DEFINE d == [c EXCEPT !.out = @ + c.work, !.work = 0, !.command = "none"]
    <2>1. Serving(d) /\ d.cache = c.cache /\ d.session = c.session
      <3>1. /\ d \in Clients /\ d.allocated = c.allocated /\ d.session = c.session
            /\ d.io = c.io /\ d.username = c.username /\ d.cache = c.cache
            /\ d.out <= BUFFERSIZE
        <4> DEFINE o == c.out + c.work
                   w == 0
        <4>1. c \in Clients /\ o \in Nat /\ w \in Nat /\ o <= BUFFERSIZE
          BY <1>2, BufferAssumption DEF Serving, Good, Free, HasRoom, Clients
        <4>2. d = [c EXCEPT !.out = o, !.work = w, !.command = "none"]
          OBVIOUS
        <4> HIDE DEF d, o, w
        <4> QED BY <4>1, <4>2 DEF Clients
      <3> HIDE DEF d
      <3> QED BY <3>1, SameSession
    <2>2. ContinueRetr(c) = Put(d, 1)
      BY <1>2 DEF ContinueRetr
    <2> HIDE DEF d
    <2> QED BY <2>1, <2>2, PutServing
  <1>3. CASE HasRoom(c) /\ ~ (c.work < Free(c))
    <2> DEFINE d == [c EXCEPT !.out = BUFFERSIZE, !.work = @ - Free(c), !.command = "RETR"]
    <2>1. Serving(d) /\ d.cache = c.cache /\ d.session = c.session
      <3>1. /\ d \in Clients /\ d.allocated = c.allocated /\ d.session = c.session
            /\ d.io = c.io /\ d.username = c.username /\ d.cache = c.cache
            /\ d.out <= BUFFERSIZE
        <4> DEFINE o == BUFFERSIZE
                   w == c.work - Free(c)
        <4>1. c \in Clients /\ o \in Nat /\ w \in Nat /\ o <= BUFFERSIZE
          BY <1>3, BufferAssumption DEF Serving, Good, Free, HasRoom, Clients
        <4>2. d = [c EXCEPT !.out = o, !.work = w, !.command = "RETR"]
          OBVIOUS
        <4> HIDE DEF d, o, w
        <4> QED BY <4>1, <4>2 DEF Clients
      <3> HIDE DEF d
      <3> QED BY <3>1, SameSession
    <2>2. ContinueRetr(c) = d
      BY <1>3 DEF ContinueRetr
    <2> QED BY <2>1, <2>2
  <1> QED BY <1>1, <1>2, <1>3

-----------------------------------------------------------------------------
(* Operators on the whole state *)

LEMMA ToggleOK ==
  ASSUME NEW reg, RegistryOK(reg), NEW u, NEW b \in BOOLEAN
  PROVE  /\ RegistryOK(Toggle(reg, u, b))
         /\ \A v \in Users : v # u => Toggle(reg, u, b)[v] = reg[v]
         /\ u \in Users => ~ Toggle(reg, u, FALSE)[u].connected
  BY DEF Toggle, Registered, RegistryOK, Entries

LEMMA SlotsFinite ==
  /\ IsFiniteSet(Slots)
  /\ IsFiniteSet(Occupied) /\ Cardinality(Occupied) \in Nat
  <1>1. IsFiniteSet(Slots)
    BY SlotsAssumption, FS_Interval DEF Slots
  <1> QED BY <1>1, FS_Subset, FS_CardinalityType DEF Occupied

\* When no slot gets occupied, the connections counted still cover the occupied.
LEMMA FewerOccupied ==
  ASSUME CountInv, Occupied' \subseteq Occupied, historic' = historic,
         concurrent' = concurrent
  PROVE  CountInv'
  <1>1. Cardinality(Occupied') <= Cardinality(Occupied) /\ Cardinality(Occupied') \in Nat
    BY SlotsFinite, FS_Subset, FS_CardinalityType
  <1> QED BY <1>1, SlotsFinite DEF CountInv, ConcurrentCoversOccupied
\* Closing a slot clears the flag that the slot held, and no other flag is left
\* without its holder.
LEMMA CloseKeepsSlots ==
  ASSUME Inv, NEW s \in Slots, NEW c, Good(c), NEW reg, RegistryOK(reg),
         Held(s, c, reg), CloseClient(s, c, reg)
  PROVE  SlotsInv' /\ RegistryOK(registry') /\ ConnectedHasHolder'
         /\ Occupied' \subseteq Occupied
  <1>1. SlotsInv' /\ Occupied' \subseteq Occupied
    <2>1. FreeClient \in Clients /\ Good(FreeClient) /\ ~ FreeClient.allocated
      BY FreeClientGood DEF Good, FreeClient
    <2> QED BY <2>1 DEF Inv, SlotsInv, CloseClient, Occupied
  <1>2. RegistryOK(registry')
    BY ToggleOK DEF CloseClient
  <1>3. ConnectedHasHolder'
    <2> SUFFICES ASSUME NEW u \in Users, registry'[u].connected
                 PROVE  \E t \in Slots : client'[t].allocated /\ client'[t].cache.owner = u
      BY DEF ConnectedHasHolder
    <2>1. u # c.username /\ reg[u].connected
      <3>1. registry' = Toggle(reg, c.username, FALSE)
        BY DEF CloseClient
      <3>2. u # c.username
        BY <3>1, ToggleOK
      <3>3. registry'[u] = reg[u]
        BY <3>1, <3>2 DEF Toggle, RegistryOK
      <3> QED BY <3>2, <3>3
    <2>2. c.cache.owner # u
      BY <2>1 DEF Good
    <2>3. PICK t \in Slots \ {s} : client[t].allocated /\ client[t].cache.owner = u
      BY <2>1, <2>2 DEF Held
    <2>4. client'[t] = client[t]
      BY <2>3 DEF CloseClient, Inv, SlotsInv
    <2> QED BY <2>3, <2>4
  <1> QED BY <1>1, <1>2, <1>3

LEMMA SettleGood ==
  ASSUME NEW c, Serving(c)
  PROVE  /\ Good(Settle(c)) /\ Settle(c).allocated /\ Settle(c).cache = c.cache
         /\ Settle(c).username = c.username /\ Settle(c).session = c.session
  BY DEF Serving, Good, Settle, Clients, FreeClient

\* writeToClient keeps the invariant when the slot it is called for is fit to be
\* written and every flag has its holder, and closes the slot or leaves its session.
LEMMA WriteKeepsInv ==
  ASSUME Inv, NEW s \in Slots, client[s].allocated, NEW c, Serving(c),
         NEW reg, RegistryOK(reg), Held(s, c, reg), WriteToClient(s, c, reg),
         maildir' \in [Users -> SUBSET Mails]
  PROVE  Inv' /\ Leaves(s, c.session, c.cache)
  <1>1. status' = status
    BY BufferAssumption DEF WriteToClient, Serving, Good, Clients
  <1>2. SlotsInv' /\ RegistryOK(registry') /\ ConnectedHasHolder'
        /\ Occupied' \subseteq Occupied /\ Leaves(s, c.session, c.cache)
    <2>0. client \in [Slots -> Clients]
      BY DEF Inv, SlotsInv
    <2>1. CASE CloseClient(s, c, reg)
      BY <2>0, <2>1, CloseKeepsSlots DEF Serving, CloseClient, Leaves
    <2>2. ASSUME NEW sent \in 0 .. c.out
          PROVE  LET d == Settle([c EXCEPT !.out = @ - sent])
                 IN  /\ Good(d) /\ d.allocated /\ d.cache = c.cache
                     /\ d.username = c.username /\ d.session = c.session
      <3> DEFINE e == [c EXCEPT !.out = @ - sent]
      <3>1. /\ e \in Clients /\ e.allocated = c.allocated /\ e.session = c.session
            /\ e.io = c.io /\ e.username = c.username /\ e.cache = c.cache
            /\ e.out <= BUFFERSIZE
        <4> DEFINE o == c.out - sent
        <4>1. c \in Clients /\ o \in Nat /\ o <= BUFFERSIZE
          BY <2>2, BufferAssumption DEF Serving, Good, Clients
        <4>2. e = [c EXCEPT !.out = o]
          OBVIOUS
        <4> HIDE DEF e, o
        <4> QED BY <4>1, <4>2 DEF Clients
      <3> HIDE DEF e
      <3>2. Serving(e)
        BY <3>1, SameSession
      <3>3. /\ Good(Settle(e)) /\ Settle(e).allocated /\ Settle(e).cache = c.cache
            /\ Settle(e).username = c.username /\ Settle(e).session = c.session
        BY <3>1, <3>2, SettleGood
      <3> QED BY <3>3 DEF e
    <2>3. ASSUME NEW d, Good(d), d.allocated, d.cache = c.cache, d.username = c.username,
                 CloseClient(s, d, reg)
          PROVE  SlotsInv' /\ RegistryOK(registry') /\ ConnectedHasHolder'
                 /\ Occupied' \subseteq Occupied /\ Leaves(s, c.session, c.cache)
      <3>1. Held(s, d, reg)
        BY <2>3 DEF Held
      <3>2. Leaves(s, c.session, c.cache)
        BY <2>0, <2>3 DEF CloseClient, Leaves
      <3> QED BY <2>3, <3>1, <3>2, CloseKeepsSlots
    <2>4. ASSUME NEW d, Good(d), d.allocated, d.cache = c.cache, d.session = c.session,
                 client' = [client EXCEPT ![s] = d], registry' = reg
          PROVE  SlotsInv' /\ RegistryOK(registry') /\ ConnectedHasHolder'
                 /\ Occupied' \subseteq Occupied /\ Leaves(s, c.session, c.cache)
      <3>1. SlotsInv' /\ Occupied' \subseteq Occupied
        BY <2>4 DEF Inv, SlotsInv, Occupied, Good
      <3>2. ConnectedHasHolder'
        BY <2>4 DEF ConnectedHasHolder, Held, Inv, SlotsInv
      <3>3. Leaves(s, c.session, c.cache)
        BY <2>0, <2>4 DEF Leaves
      <3> QED BY <2>4, <3>1, <3>2, <3>3
    <2> QED BY <2>1, <2>2, <2>3, <2>4 DEF WriteToClient
  <1>3. CountInv'
    BY <1>2, FewerOccupied DEF Inv, WriteToClient
  <1> QED BY <1>1, <1>2, <1>3 DEF Inv, DataInv
-----------------------------------------------------------------------------
(* The actions *)

LEMMA InitInv == Init => Inv
  <1> SUFFICES ASSUME Init PROVE Inv
    OBVIOUS
  <1>1. SlotsInv
    BY FreeClientGood DEF Init, SlotsInv, Good
  <1>2. DataInv
    BY DEF Init, DataInv, RegistryOK
  <1>3. Occupied = {}
    BY DEF Init, Occupied, FreeClient
  <1>4. CountInv
    BY <1>3, FS_EmptySet DEF Init, CountInv, ConcurrentCoversOccupied
  <1>5. ConnectedHasHolder
    BY DEF Init, ConnectedHasHolder
  <1> QED BY <1>1, <1>2, <1>4, <1>5 DEF Inv

LEMMA AcceptInv ==
  ASSUME Inv, NEW s \in Slots, AcceptConnection(s)
  PROVE  Inv'
  <1>1. client[s] = FreeClient
    BY DEF AcceptConnection, Inv, SlotsInv, Good
  <1>2. PICK r \in Replies :
          client' = [client EXCEPT ![s] = PutUnchecked(InitClient(FreeClient), r)]
    BY <1>1 DEF AcceptConnection
  <1> DEFINE c == PutUnchecked(InitClient(FreeClient), r)
  <1>3. Serving(c)
    BY FreshClientServing
  <1> HIDE DEF c
  <1>4. SlotsInv'
    BY <1>2, <1>3 DEF Inv, SlotsInv, Serving, Good, c
  <1>5. ConnectedHasHolder'
    <2> SUFFICES ASSUME NEW u \in Users, registry'[u].connected
                 PROVE  \E t \in Slots : client'[t].allocated /\ client'[t].cache.owner = u
      BY DEF ConnectedHasHolder
    <2>1. PICK t \in Slots : client[t].allocated /\ client[t].cache.owner = u
      BY DEF AcceptConnection, Inv, ConnectedHasHolder
    <2>2. t # s
      BY <2>1 DEF AcceptConnection
    <2> QED BY <1>2, <2>1, <2>2 DEF Inv, SlotsInv
  <1>6. Occupied' = Occupied \cup {s} /\ s \notin Occupied
    BY <1>2, <1>3 DEF Occupied, Inv, SlotsInv, Serving, AcceptConnection, c
  <1>7. Cardinality(Occupied') = Cardinality(Occupied) + 1
    BY <1>6, SlotsFinite, FS_AddElement
  <1>8. CountInv'
    BY <1>7, SlotsFinite DEF Inv, CountInv, ConcurrentCoversOccupied, AcceptConnection
  <1>9. DataInv'
    BY DEF Inv, DataInv, AcceptConnection
  <1> QED BY <1>4, <1>5, <1>8, <1>9 DEF Inv

LEMMA ReadEOFInv ==
  ASSUME Inv, NEW s \in Slots, ReadEOF(s)
  PROVE  Inv'
  <1>1. Good(client[s]) /\ RegistryOK(registry) /\ client[s].allocated
    BY DEF Inv, SlotsInv, DataInv, ReadEOF
  <1>2. Held(s, client[s], registry)
    BY DEF Held, Inv, ConnectedHasHolder
  <1>3. CloseClient(s, client[s], registry)
    BY DEF ReadEOF
  <1>4. SlotsInv' /\ RegistryOK(registry') /\ ConnectedHasHolder'
    BY <1>1, <1>2, <1>3, CloseKeepsSlots
  <1>5. Occupied' = Occupied \ {s} /\ s \in Occupied
    BY <1>1, <1>3 DEF CloseClient, Occupied, Inv, SlotsInv, FreeClient
  <1>6. Cardinality(Occupied') = Cardinality(Occupied) - 1
    BY <1>5, SlotsFinite, FS_RemoveElement
  <1>7. Cardinality(Occupied) \in Nat /\ Cardinality(Occupied) # 0
    BY <1>5, SlotsFinite, FS_EmptySet
  <1>8. CountInv'
    BY <1>6, <1>7 DEF Inv, CountInv, ConcurrentCoversOccupied, ReadEOF
  <1> QED BY <1>4, <1>8 DEF Inv, DataInv, ReadEOF

LEMMA ReadCommandsInv ==
  ASSUME Inv, NEW s \in Slots, ReadCommands(s)
  PROVE  Inv'
  <1>1. PICK n \in 0 .. MaxPipeline :
          client' = [client EXCEPT ![s].queued = @ + n, ![s].io = "WRITING"]
    BY DEF ReadCommands
  <1> DEFINE c == [client[s] EXCEPT !.queued = @ + n, !.io = "WRITING"]
  <1>2. client' = [client EXCEPT ![s] = c]
    BY <1>1 DEF Inv, SlotsInv
  <1>3. /\ c \in Clients /\ c.allocated /\ c.session = client[s].session
        /\ c.io = "WRITING" /\ c.username = client[s].username
        /\ c.cache = client[s].cache /\ c.out = client[s].out
    <2> DEFINE q == client[s].queued + n
    <2>1. client[s] \in Clients /\ q \in Nat /\ client[s].allocated
      BY BoundsAssumption DEF Inv, SlotsInv, ReadCommands, Clients
    <2>2. c = [client[s] EXCEPT !.queued = q, !.io = "WRITING"]
      OBVIOUS
    <2> HIDE DEF c, q
    <2> QED BY <2>1, <2>2 DEF Clients
  <1> HIDE DEF c
  <1>4. Good(c)
    <2>1. Good(client[s]) /\ client[s].allocated
      BY DEF Inv, SlotsInv, ReadCommands
    <2> QED BY <1>3, <2>1 DEF Good
  <1>5. SlotsInv'
    BY <1>2, <1>4 DEF Inv, SlotsInv, Good
  <1>6. ConnectedHasHolder' /\ Occupied' = Occupied
    BY <1>2, <1>3 DEF Inv, SlotsInv, ConnectedHasHolder, Occupied, ReadCommands
  <1>7. CountInv'
    BY <1>6, FewerOccupied DEF Inv, ReadCommands
  <1> QED BY <1>5, <1>6, <1>7 DEF Inv, DataInv, ReadCommands

\* Most commands leave the user list and the owner of the slot's mailbox alone.
LEMMA PlainWriteInv ==
  ASSUME Inv, NEW s \in Slots, client[s].allocated, NEW c, Serving(c),
         c.cache.owner = client[s].cache.owner, WriteToClient(s, c, registry),
         maildir' \in [Users -> SUBSET Mails]
  PROVE  Inv' /\ Leaves(s, c.session, c.cache)
  <1>1. Held(s, c, registry)
    BY DEF Held, Inv, ConnectedHasHolder
  <1>2. RegistryOK(registry)
    BY DEF Inv, DataInv
  <1> QED BY <1>1, <1>2, WriteKeepsInv

LEMMA SlotServing ==
  ASSUME Inv, NEW s \in Slots, Writable(s)
  PROVE  Serving(client[s]) /\ client[s].allocated
  BY DEF Inv, SlotsInv, Writable, Serving

LEMMA DequeuedServing ==
  ASSUME Inv, NEW s \in Slots, TakesCommand(s)
  PROVE  /\ Serving(Dequeued(s)) /\ HasRoom(Dequeued(s)) /\ client[s].allocated
         /\ Dequeued(s).cache = client[s].cache
         /\ Dequeued(s).username = client[s].username
         /\ Dequeued(s).session = client[s].session
         /\ Dequeued(s).command = "none"
  <1> DEFINE q == client[s].queued - 1
             d == Dequeued(s)
  <1>1. Serving(client[s]) /\ client[s].allocated
    BY SlotServing DEF TakesCommand
  <1>2. client[s] \in Clients /\ q \in Nat
    BY <1>1 DEF Serving, Good, TakesCommand, Clients
  <1>3. d = [client[s] EXCEPT !.queued = q]
    BY DEF Dequeued
  <1> HIDE DEF d, q
  <1>4. /\ d \in Clients /\ d.allocated = client[s].allocated
        /\ d.session = client[s].session /\ d.io = client[s].io
        /\ d.username = client[s].username /\ d.cache = client[s].cache
        /\ d.out = client[s].out /\ d.command = client[s].command
    BY <1>2, <1>3 DEF Clients
  <1>5. Serving(d) /\ HasRoom(d)
    BY <1>1, <1>4, SameSession DEF Serving, Good, HasRoom, TakesCommand
  <1> QED BY <1>1, <1>4, <1>5 DEF d, TakesCommand

\* The changes that commands make to a fit slot keep it fit.
LEMMA UsernameServing ==
  ASSUME NEW c, Serving(c), c.session = "AUTHENTICATION", NEW u \in Names
  PROVE  LET d == [c EXCEPT !.username = u]
         IN  Serving(d) /\ d.cache = c.cache /\ d.session = c.session /\ d.out = c.out
  BY NamesAssumption DEF Serving, Good, Clients, NoCache

LEMMA MarkServing ==
  ASSUME NEW c, Serving(c), NEW m \in c.cache.listed
  PROVE  LET d == [c EXCEPT !.cache.marked = @ \cup {m}]
         IN  /\ Serving(d) /\ d.session = c.session
             /\ d.cache = [c.cache EXCEPT !.marked = @ \cup {m}]
             /\ d.cache.owner = c.cache.owner
  BY NamesAssumption DEF Serving, Good, Clients, Caches, NoCache

LEMMA UnmarkServing ==
  ASSUME NEW c, Serving(c), c.session = "TRANSACTION"
  PROVE  LET d == [c EXCEPT !.cache.marked = {}]
         IN  /\ Serving(d) /\ d.session = c.session
             /\ d.cache = [c.cache EXCEPT !.marked = {}]
             /\ d.cache.owner = c.cache.owner
  BY NamesAssumption DEF Serving, Good, Clients, Caches, NoCache

LEMMA UpdateServing ==
  ASSUME NEW c, Serving(c)
  PROVE  LET d == [c EXCEPT !.session = "UPDATE"]
         IN  Serving(d) /\ d.cache = c.cache /\ d.session = "UPDATE"
  BY NamesAssumption DEF Serving, Good, Clients

LEMMA WorkServing ==
  ASSUME NEW c, Serving(c), NEW n \in Nat
  PROVE  /\ LET d == [c EXCEPT !.work = n]
            IN  Serving(d) /\ d.cache = c.cache /\ d.session = c.session
         /\ LET d == [c EXCEPT !.command = "none", !.work = 0]
            IN  Serving(d) /\ d.cache = c.cache /\ d.session = c.session
  BY NamesAssumption DEF Serving, Good, Clients

\* A login sets the flag of a registered user, and the slot holds it.
LEMMA PassAcceptedInv ==
  ASSUME Inv, NEW s \in Slots, PassAccepted(s)
  PROVE  Inv' /\ OpensSession(s)
  <1> DEFINE u == client[s].username
             new == [owner |-> u, listed |-> maildir[u], marked |-> {}]
             c == [Dequeued(s) EXCEPT !.session = "TRANSACTION", !.cache = new]
             reg == Toggle(registry, u, TRUE)
  <1>1. PICK r \in Replies : WriteToClient(s, PutUnchecked(c, r), reg)
    BY DEF PassAccepted
  <1>2. u \in Users /\ registry[u].password # NoPassword
    BY NamesAssumption DEF PassAccepted, ValidPassword
  <1>3. TakesCommand(s) /\ UNCHANGED maildir
    BY DEF PassAccepted
  <1>4. new \in Caches /\ new.owner = u /\ new.marked \subseteq new.listed
    BY <1>2 DEF Caches, Names, Inv, DataInv
  <1> HIDE DEF new
  <1>5. Serving(c) /\ HasRoom(c) /\ c.cache = new /\ c.session = "TRANSACTION"
    <2>1. /\ Serving(Dequeued(s)) /\ HasRoom(Dequeued(s))
          /\ Dequeued(s).username = u
      BY <1>3, DequeuedServing
    <2>2. /\ c \in Clients /\ c.allocated /\ c.session = "TRANSACTION"
          /\ c.io = "WRITING" /\ c.username = u /\ c.cache = new
          /\ c.out = Dequeued(s).out
      BY <1>4, <2>1 DEF Serving, Good, Clients
    <2> HIDE DEF c
    <2>3. Serving(c) /\ HasRoom(c)
      BY <1>2, <1>4, <2>1, <2>2 DEF Serving, Good, HasRoom
    <2> QED BY <2>2, <2>3
  <1> HIDE DEF c
  <1>6. RegistryOK(reg)
    BY ToggleOK DEF Inv, DataInv
  <1>7. Held(s, PutUnchecked(c, r), reg)
    <2>1. PutUnchecked(c, r).cache.owner = u
      BY <1>4, <1>5, PutUncheckedServing
    <2>2. client[s].cache.owner \notin Users
      BY NamesAssumption DEF PassAccepted, Inv, SlotsInv, Good, NoCache
    <2>3. \A v \in Users : reg[v].connected => v = u \/ registry[v].connected
      BY DEF Toggle, Inv, DataInv, RegistryOK
    <2> QED BY <2>1, <2>2, <2>3 DEF Held, Inv, ConnectedHasHolder
  <1>8. /\ client[s].allocated /\ Serving(PutUnchecked(c, r))
        /\ PutUnchecked(c, r).cache = new /\ PutUnchecked(c, r).session = "TRANSACTION"
    BY <1>3, <1>5, PutUncheckedServing DEF TakesCommand, Writable
  <1> HIDE DEF reg
  <1>9. Inv' /\ Leaves(s, "TRANSACTION", new)
    BY <1>1, <1>3, <1>6, <1>7, <1>8, WriteKeepsInv DEF Inv, DataInv
  <1>10. OpensSession(s)
    BY <1>2, <1>3, <1>9 DEF PassAccepted, OpensSession, new
  <1> QED BY <1>9, <1>10

\* The commands that leave the user list alone and neither open nor end a session.
LEMMA SessionCommandInv ==
  ASSUME Inv, NEW s \in Slots,
         \/ Reject(s) \/ User(s) \/ PassRefused(s) \/ Inform(s) \/ Dele(s) \/ Rset(s)
         \/ Quit(s) \/ List(s) \/ Retr(s)
  PROVE  Inv' /\ SessionStep(s)
  <1> DEFINE c == Dequeued(s)
  <1>0. TakesCommand(s)
    BY DEF Reject, User, PassRefused, Inform, Dele, Rset, Quit, List, Retr, InTransaction
  <1>1. /\ Serving(c) /\ HasRoom(c) /\ client[s].allocated /\ c.cache = client[s].cache
        /\ c.username = client[s].username /\ c.session = client[s].session
    BY <1>0, DequeuedServing
  <1>2. Replies \subseteq Nat /\ maildir \in [Users -> SUBSET Mails]
    BY DEF Replies, Inv, DataInv
  <1> HIDE DEF c
  <1>3. CASE Reject(s)
    <2>1. PICK r \in Replies : WriteToClient(s, PutUnchecked(c, r), registry)
      BY <1>3 DEF Reject, c
    <2> DEFINE d == PutUnchecked(c, r)
    <2>2. /\ Serving(d) /\ d.cache = client[s].cache /\ d.session = client[s].session
          /\ WriteToClient(s, d, registry)
      BY <1>1, <2>1, PutUncheckedServing
    <2>3. UNCHANGED maildir
      BY <1>3 DEF Reject
    <2> HIDE DEF d
    <2> QED BY <1>1, <1>2, <2>2, <2>3, PlainWriteInv DEF SessionStep, KeepsSession
  <1>4. CASE User(s)
    <2>1. PICK u \in Names, r \in Replies :
            WriteToClient(s, PutUnchecked([c EXCEPT !.username = u], r), registry)
      BY <1>4 DEF User, c
    <2> DEFINE d == [c EXCEPT !.username = u]
    <2>2. Serving(d) /\ d.cache = c.cache /\ HasRoom(d) /\ d.session = c.session
      BY <1>1, <1>4, UsernameServing DEF User, HasRoom
    <2> HIDE DEF d
    <2>3. /\ Serving(PutUnchecked(d, r)) /\ PutUnchecked(d, r).cache = client[s].cache
          /\ PutUnchecked(d, r).session = client[s].session
      BY <1>1, <2>2, PutUncheckedServing
    <2>4. WriteToClient(s, PutUnchecked(d, r), registry)
      BY <2>1 DEF d
    <2>5. UNCHANGED maildir
      BY <1>4 DEF User
    <2> QED BY <1>1, <1>2, <2>3, <2>4, <2>5, PlainWriteInv DEF SessionStep, KeepsSession
  <1>5. ASSUME PassRefused(s) \/ Inform(s)
        PROVE  Inv' /\ SessionStep(s)
    <2>1. PICK r \in Replies : WriteToClient(s, Put(c, r), registry)
      BY <1>5 DEF PassRefused, Inform, c
    <2> DEFINE d == Put(c, r)
    <2>2. /\ Serving(d) /\ d.cache = client[s].cache /\ d.session = client[s].session
          /\ WriteToClient(s, d, registry)
      BY <1>1, <1>2, <2>1, PutServing
    <2>3. UNCHANGED maildir
      BY <1>5 DEF PassRefused, Inform
    <2> HIDE DEF d
    <2> QED BY <1>1, <1>2, <2>2, <2>3, PlainWriteInv DEF SessionStep, KeepsSession
  <1>6. CASE Dele(s)
    <2>1. PICK m \in ValidMails(client[s]), r \in Replies :
            WriteToClient(s, Put([c EXCEPT !.cache.marked = @ \cup {m}], r), registry)
      BY <1>6 DEF Dele, c
    <2> DEFINE d == [c EXCEPT !.cache.marked = @ \cup {m}]
    <2>2. /\ Serving(d) /\ d.session = c.session /\ d.cache.owner = c.cache.owner
          /\ d.cache = [c.cache EXCEPT !.marked = @ \cup {m}]
      <3>1. m \in c.cache.listed
        BY <1>1 DEF ValidMails
      <3> QED BY <1>1, <3>1, MarkServing
    <2>3. WriteToClient(s, Put(d, r), registry)
      BY <2>1
    <2> HIDE DEF d
    <2>4. /\ Serving(Put(d, r)) /\ Put(d, r).cache.owner = client[s].cache.owner
          /\ Put(d, r).session = client[s].session
          /\ Put(d, r).cache = [client[s].cache EXCEPT !.marked = @ \cup {m}]
      BY <1>1, <1>2, <2>2, PutServing
    <2>5. client[s].session = "TRANSACTION" /\ UNCHANGED maildir
      BY <1>6 DEF Dele, InTransaction
    <2>6. Inv' /\ Leaves(s, "TRANSACTION", [client[s].cache EXCEPT !.marked = @ \cup {m}])
      <3> DEFINE e == Put(d, r)
      <3>1. /\ Serving(e) /\ e.cache.owner = client[s].cache.owner
            /\ e.session = "TRANSACTION" /\ e.cache = [client[s].cache EXCEPT !.marked = @ \cup {m}]
            /\ WriteToClient(s, e, registry)
        BY <2>3, <2>4, <2>5
      <3> HIDE DEF e
      <3>2. Inv' /\ Leaves(s, e.session, e.cache)
        BY <1>1, <1>2, <2>5, <3>1, PlainWriteInv
      <3> QED BY <3>1, <3>2
    <2> QED BY <2>5, <2>6 DEF SessionStep, MarksMail
  <1>7. CASE Rset(s)
    <2>1. PICK r \in Replies :
            WriteToClient(s, Put([c EXCEPT !.cache.marked = {}], r), registry)
      BY <1>7 DEF Rset, c
    <2> DEFINE d == [c EXCEPT !.cache.marked = {}]
    <2>2. /\ Serving(d) /\ d.session = c.session /\ d.cache.owner = c.cache.owner
          /\ d.cache = [c.cache EXCEPT !.marked = {}]
      BY <1>1, <1>7, UnmarkServing DEF Rset, InTransaction
    <2>3. WriteToClient(s, Put(d, r), registry)
      BY <2>1
    <2> HIDE DEF d
    <2>4. /\ Serving(Put(d, r)) /\ Put(d, r).cache.owner = client[s].cache.owner
          /\ Put(d, r).session = client[s].session
          /\ Put(d, r).cache = [client[s].cache EXCEPT !.marked = {}]
      BY <1>1, <1>2, <2>2, PutServing
    <2>5. client[s].session = "TRANSACTION" /\ UNCHANGED maildir
      BY <1>7 DEF Rset, InTransaction
    <2>6. Inv' /\ Leaves(s, "TRANSACTION", [client[s].cache EXCEPT !.marked = {}])
      <3> DEFINE e == Put(d, r)
      <3>1. /\ Serving(e) /\ e.cache.owner = client[s].cache.owner
            /\ e.session = "TRANSACTION" /\ e.cache = [client[s].cache EXCEPT !.marked = {}]
            /\ WriteToClient(s, e, registry)
        BY <2>3, <2>4, <2>5
      <3> HIDE DEF e
      <3>2. Inv' /\ Leaves(s, e.session, e.cache)
        BY <1>1, <1>2, <2>5, <3>1, PlainWriteInv
      <3> QED BY <3>1, <3>2
    <2> QED BY <2>5, <2>6 DEF SessionStep, UnmarksMails
  <1>8. CASE Quit(s)
    <2>1. PICK r \in Replies :
            WriteToClient(s, Put([c EXCEPT !.session = "UPDATE"], r), registry)
      BY <1>8 DEF Quit, c
    <2> DEFINE d == [c EXCEPT !.session = "UPDATE"]
    <2>2. Serving(d) /\ d.cache = c.cache /\ d.session = "UPDATE"
      BY <1>1, UpdateServing
    <2>3. WriteToClient(s, Put(d, r), registry)
      BY <2>1
    <2> HIDE DEF d
    <2>4. /\ Serving(Put(d, r)) /\ Put(d, r).cache = client[s].cache
          /\ Put(d, r).session = "UPDATE"
      BY <1>1, <1>2, <2>2, PutServing
    <2>5. maildir' \in [Users -> SUBSET Mails]
      BY <1>2, <1>8 DEF Quit, UnlinkMarked
    <2>6. Inv' /\ Leaves(s, "UPDATE", client[s].cache)
      BY <1>1, <2>3, <2>4, <2>5, PlainWriteInv
    <2> QED BY <1>8, <2>6 DEF Quit, SessionStep, QuitsSession
  <1>9. CASE List(s)
    <2>1. PICK n \in ListLengths(client[s]), r \in Replies :
            WriteToClient(s, ContinueList([Put(c, r) EXCEPT !.work = n]), registry)
      BY <1>9 DEF List, c
    <2>2. n \in Nat
      <3>1. ValidMails(client[s]) \subseteq Mails
        BY DEF ValidMails, Inv, SlotsInv, Clients, Caches
      <3>2. Cardinality(ValidMails(client[s])) \in Nat
        BY <3>1, MailsAssumption, FS_Subset, FS_CardinalityType
      <3> QED BY <3>2 DEF ListLengths
    <2> DEFINE e == Put(c, r)
               d == [e EXCEPT !.work = n]
    <2>3. Serving(e) /\ e.cache = c.cache /\ e.session = c.session
      BY <1>1, <1>2, PutServing
    <2>4. WriteToClient(s, ContinueList(d), registry)
      BY <2>1
    <2> HIDE DEF e
    <2>5. Serving(d) /\ d.cache = c.cache /\ d.session = c.session
      BY <2>2, <2>3, WorkServing
    <2> HIDE DEF d
    <2>6. /\ Serving(ContinueList(d)) /\ ContinueList(d).cache = client[s].cache
          /\ ContinueList(d).session = client[s].session
      BY <1>1, <2>5, ContinueListServing
    <2>7. UNCHANGED maildir
      BY <1>9 DEF List
    <2> QED BY <1>1, <1>2, <2>4, <2>6, <2>7, PlainWriteInv DEF SessionStep, KeepsSession
  <1>10. CASE Retr(s)
    <2>1. PICK n \in 0 .. MaxBody, r \in Replies :
            WriteToClient(s, ContinueRetr([Put(c, r) EXCEPT !.work = n]), registry)
      BY <1>10 DEF Retr, c
    <2> DEFINE e == Put(c, r)
               d == [e EXCEPT !.work = n]
    <2>2. n \in Nat
      BY BoundsAssumption
    <2>3. Serving(e) /\ e.cache = c.cache /\ e.session = c.session
      BY <1>1, <1>2, PutServing
    <2>4. WriteToClient(s, ContinueRetr(d), registry)
      BY <2>1
    <2> HIDE DEF e
    <2>5. Serving(d) /\ d.cache = c.cache /\ d.session = c.session
      BY <2>2, <2>3, WorkServing
    <2> HIDE DEF d
    <2>6. /\ Serving(ContinueRetr(d)) /\ ContinueRetr(d).cache = client[s].cache
          /\ ContinueRetr(d).session = client[s].session
      BY <1>1, <2>5, ContinueRetrServing
    <2>7. UNCHANGED maildir
      BY <1>10 DEF Retr
    <2> QED BY <1>1, <1>2, <2>4, <2>6, <2>7, PlainWriteInv DEF SessionStep, KeepsSession
  <1> QED BY <1>3, <1>4, <1>5, <1>6, <1>7, <1>8, <1>9, <1>10
\* The handler goes on with the command it was executing, or only sends.
LEMMA ResumeInv ==
  ASSUME Inv, NEW s \in Slots,
         SendOnly(s) \/ ResumeList(s) \/ ResumeRetr(s) \/ AbandonRetr(s)
  PROVE  Inv' /\ SessionStep(s)
  <1> DEFINE c == client[s]
  <1>1. Serving(c) /\ c.allocated
    BY SlotServing DEF SendOnly, ResumeList, ResumeRetr, AbandonRetr
  <1>2. maildir' \in [Users -> SUBSET Mails] /\ UNCHANGED maildir
    BY DEF Inv, DataInv, SendOnly, ResumeList, ResumeRetr, AbandonRetr
  <1>3. CASE SendOnly(s)
    BY <1>1, <1>2, <1>3, PlainWriteInv DEF SendOnly, SessionStep, KeepsSession
  <1>4. CASE ResumeList(s)
    BY <1>1, <1>2, <1>4, ContinueListServing, PlainWriteInv
       DEF ResumeList, SessionStep, KeepsSession
  <1>5. CASE ResumeRetr(s)
    BY <1>1, <1>2, <1>5, ContinueRetrServing, PlainWriteInv
       DEF ResumeRetr, SessionStep, KeepsSession
  <1>6. CASE AbandonRetr(s)
    <2> DEFINE d == [c EXCEPT !.command = "none", !.work = 0]
    <2>1. Serving(d) /\ d.cache = c.cache /\ d.session = c.session
      BY <1>1, WorkServing
    <2>2. WriteToClient(s, d, registry)
      BY <1>6 DEF AbandonRetr
    <2> HIDE DEF d
    <2> QED BY <1>1, <1>2, <2>1, <2>2, PlainWriteInv DEF SessionStep, KeepsSession
  <1> QED BY <1>3, <1>4, <1>5, <1>6

\* Steps that touch no slot: the monitor, the mail system, three of the exits.
LEMMA OutsideInv ==
  ASSUME Inv, Monitor \/ RefuseConnection \/ AcceptFails \/ (\E s \in Slots : RetrMissingMail(s))
                \/ (\E u \in Users, m \in Mails : MailArrives(u, m))
  PROVE  Inv'
  <1>1. UNCHANGED <<client, historic, concurrent>>
    BY DEF Monitor, RefuseConnection, AcceptFails, RetrMissingMail, MailArrives, AddUser,
           ModifyPassword, DeleteUser
  <1>2. SlotsInv' /\ CountInv'
    BY <1>1 DEF Inv, SlotsInv, CountInv, ConcurrentCoversOccupied, Occupied
  <1>3. CASE Monitor
    <2>1. /\ RegistryOK(registry')
          /\ \A u \in Users : registry'[u].connected => registry[u].connected
      <3>1. ASSUME NEW u \in Users, DeleteUser(u)
            PROVE  /\ RegistryOK(registry')
                   /\ \A v \in Users : registry'[v].connected => registry[v].connected
        BY <3>1 DEF DeleteUser, NotRegistered, RegistryOK, Entries, Inv, DataInv
      <3>2. ASSUME NEW u \in Users, NEW p \in Passwords, AddUser(u, p)
            PROVE  /\ RegistryOK(registry')
                   /\ \A v \in Users : registry'[v].connected => registry[v].connected
        BY <3>2, NamesAssumption DEF AddUser, Registered, RegistryOK, Entries, Inv, DataInv
      <3>3. ASSUME NEW u \in Users, NEW p \in Passwords, ModifyPassword(u, p)
            PROVE  /\ RegistryOK(registry')
                   /\ \A v \in Users : registry'[v].connected => registry[v].connected
        BY <3>3, NamesAssumption DEF ModifyPassword, Registered, RegistryOK, Entries, Inv, DataInv
      <3> QED BY <1>3, <3>1, <3>2, <3>3 DEF Monitor
    <2>2. ConnectedHasHolder'
      BY <1>1, <2>1 DEF ConnectedHasHolder, Inv
    <2>3. UNCHANGED <<maildir, status>>
      BY <1>3 DEF Monitor, AddUser, ModifyPassword, DeleteUser
    <2> QED BY <1>2, <2>1, <2>2, <2>3 DEF Inv, DataInv
  <1>4. CASE RefuseConnection \/ AcceptFails \/ \E s \in Slots : RetrMissingMail(s)
    BY <1>2, <1>4 DEF RefuseConnection, AcceptFails, RetrMissingMail, Inv, DataInv,
                      ConnectedHasHolder
  <1>5. CASE \E u \in Users, m \in Mails : MailArrives(u, m)
    BY <1>2, <1>5 DEF MailArrives, Inv, DataInv, ConnectedHasHolder
  <1> QED BY <1>3, <1>4, <1>5

LEMMA TerminateInv ==
  ASSUME Inv, Terminate
  PROVE  Inv'
  <1>1. SlotsInv'
    BY FreeClientGood DEF Terminate, SlotsInv, Good
  <1>2. Occupied' = {}
    BY DEF Terminate, Occupied, FreeClient
  <1>3. CountInv'
    BY <1>2, FewerOccupied DEF Terminate, Inv
  <1>4. DataInv'
    BY DEF Terminate, Inv, DataInv, RegistryOK, NotRegistered, Entries
  <1>5. ConnectedHasHolder'
    BY DEF Terminate, ConnectedHasHolder, NotRegistered
  <1> QED BY <1>1, <1>3, <1>4, <1>5 DEF Inv

\* A kill leaves what a signal leaves, but for the files that are gone.
LEMMA QuitInterruptedInv ==
  ASSUME Inv, NEW s \in Slots, QuitInterrupted(s)
  PROVE  Inv'
  <1>1. SlotsInv'
    BY FreeClientGood DEF QuitInterrupted, SlotsInv, Good
  <1>2. Occupied' = {}
    BY DEF QuitInterrupted, Occupied, FreeClient
  <1>3. CountInv'
    BY <1>2, FewerOccupied DEF QuitInterrupted, Inv
  <1>4. maildir' \in [Users -> SUBSET Mails]
    BY DEF QuitInterrupted, UnlinkMarked, Inv, DataInv
  <1>5. RegistryOK(registry') /\ ConnectedHasHolder'
    BY DEF QuitInterrupted, RegistryOK, ConnectedHasHolder, NotRegistered, Entries
  <1>6. status' = "killed"
    BY DEF QuitInterrupted
  <1> QED BY <1>1, <1>3, <1>4, <1>5, <1>6 DEF Inv, DataInv

\* Inv is inductive.
LEMMA NextInv == Inv /\ [Next]_vars => Inv'
  <1> SUFFICES ASSUME Inv, [Next]_vars PROVE Inv'
    OBVIOUS
  <1>1. CASE \E s \in Slots : AcceptConnection(s)
    BY <1>1, AcceptInv
  <1>2. CASE \E s \in Slots : ReadCommands(s)
    BY <1>2, ReadCommandsInv
  <1>3. CASE \E s \in Slots : ReadEOF(s)
    BY <1>3, ReadEOFInv
  <1>4. CASE \E s \in Slots : Serve(s)
    BY <1>4, PassAcceptedInv, SessionCommandInv, ResumeInv, OutsideInv DEF Serve, Execute
  <1>5. CASE \/ RefuseConnection \/ AcceptFails \/ Monitor
             \/ \E u \in Users, m \in Mails : MailArrives(u, m)
    BY <1>5, OutsideInv
  <1>6. CASE Terminate
    BY <1>6, TerminateInv
  <1>7. CASE \E s \in Slots : QuitInterrupted(s)
    BY <1>7, QuitInterruptedInv
  <1>8. CASE UNCHANGED vars
    BY <1>8 DEF vars, Inv, SlotsInv, DataInv, CountInv, ConnectedHasHolder,
                ConcurrentCoversOccupied, Occupied
  <1> QED BY <1>1, <1>2, <1>3, <1>4, <1>5, <1>6, <1>7, <1>8 DEF Next

\* Inv gives each of the invariants that the runs check.
LEMMA InvImplies ==
  Inv => /\ TypeOK /\ FreeSlotsAreClean /\ SessionOwnsCache /\ ReadingOwesNothing
         /\ BufferNeverOverflows /\ ConnectedHasHolder /\ ConcurrentCoversOccupied
  BY DEF Inv, SlotsInv, DataInv, CountInv, RegistryOK, Good, TypeOK, FreeSlotsAreClean,
         SessionOwnsCache, ReadingOwesNothing, BufferNeverOverflows

-----------------------------------------------------------------------------
(* A handler and the other slots *)

LEMMA WriteOnlyOwnSlot ==
  ASSUME NEW s \in Slots, NEW t \in Slots \ {s}, client \in [Slots -> Clients],
         NEW c, NEW reg, WriteToClient(s, c, reg)
  PROVE  client'[t] = client[t]
  <1>1. client' = [client EXCEPT ![s] = client'[s]]
    <2>1. ASSUME NEW d, client' = [client EXCEPT ![s] = d]
          PROVE  client' = [client EXCEPT ![s] = client'[s]]
      BY <2>1
    <2> QED BY <2>1 DEF WriteToClient, CloseClient
  <1> QED BY <1>1

\* handleClients changes no slot but the one it was called for.
LEMMA OnlyOwnSlot ==
  ASSUME NEW s \in Slots, NEW t \in Slots \ {s}, client \in [Slots -> Clients],
         AcceptConnection(s) \/ ReadCommands(s) \/ ReadEOF(s) \/ Serve(s)
  PROVE  client'[t] = client[t]
  <1>1. CASE AcceptConnection(s)
    BY <1>1 DEF AcceptConnection
  <1>2. CASE ReadCommands(s)
    BY <1>2 DEF ReadCommands
  <1>3. CASE ReadEOF(s)
    BY <1>3 DEF ReadEOF, CloseClient
  <1>4. CASE RetrMissingMail(s)
    BY <1>4 DEF RetrMissingMail
  <1>5. CASE SendOnly(s) \/ ResumeList(s) \/ ResumeRetr(s) \/ AbandonRetr(s)
    BY <1>5, WriteOnlyOwnSlot DEF SendOnly, ResumeList, ResumeRetr, AbandonRetr
  <1>6. CASE Reject(s) \/ User(s) \/ PassAccepted(s) \/ PassRefused(s) \/ Inform(s)
    BY <1>6, WriteOnlyOwnSlot DEF Reject, User, PassAccepted, PassRefused, Inform
  <1>7. CASE Dele(s) \/ Rset(s) \/ Quit(s) \/ List(s) \/ Retr(s)
    BY <1>7, WriteOnlyOwnSlot DEF Dele, Rset, Quit, List, Retr
  <1> QED BY <1>1, <1>2, <1>3, <1>4, <1>5, <1>6, <1>7 DEF Serve, Execute

-----------------------------------------------------------------------------
(* The sessions and the mail *)

\* A connection takes a free slot and starts a session in it.
AcceptsSession(s) ==
    /\ ~ client[s].allocated
    /\ client' = [client EXCEPT ![s] = client'[s]]
    /\ client'[s].session = "AUTHENTICATION"
    /\ UNCHANGED maildir

\* The write branch does to a session one of five things, or exits.
LEMMA ServeIsSessionStep ==
  ASSUME Inv, NEW s \in Slots, Serve(s)
  PROVE  SessionStep(s) \/ UNCHANGED <<client, maildir>>
  <1>1. CASE PassAccepted(s)
    BY <1>1, PassAcceptedInv DEF SessionStep
  <1>2. CASE RetrMissingMail(s)
    BY <1>2 DEF RetrMissingMail
  <1>3. CASE SendOnly(s) \/ ResumeList(s) \/ ResumeRetr(s) \/ AbandonRetr(s)
    BY <1>3, ResumeInv
  <1>4. CASE \/ Reject(s) \/ User(s) \/ PassRefused(s) \/ Inform(s) \/ Dele(s) \/ Rset(s)
             \/ Quit(s) \/ List(s) \/ Retr(s)
    BY <1>4, SessionCommandInv
  <1> QED BY <1>1, <1>2, <1>3, <1>4 DEF Serve, Execute

\* All that a step of the server can do to the sessions and the mail.
LEMMA StepsOfSessions ==
  ASSUME Inv, [Next]_vars
  PROVE  \/ \E s \in Slots : AcceptsSession(s) \/ SessionStep(s) \/ QuitInterrupted(s)
         \/ UNCHANGED client /\ \E u \in Users, m \in Mails : MailArrives(u, m)
         \/ Terminate
         \/ UNCHANGED <<client, maildir>>
  <1>1. client \in [Slots -> Clients]
    BY DEF Inv, SlotsInv
  <1>2. ASSUME NEW s \in Slots, AcceptConnection(s) PROVE AcceptsSession(s)
    <2>1. client[s] = FreeClient
      BY <1>2 DEF AcceptConnection, Inv, SlotsInv, Good
    <2>2. PICK r \in Replies :
            client' = [client EXCEPT ![s] = PutUnchecked(InitClient(FreeClient), r)]
      BY <1>2, <2>1 DEF AcceptConnection
    <2> DEFINE c == PutUnchecked(InitClient(FreeClient), r)
    <2>3. c.session = "AUTHENTICATION"
      BY DEF PutUnchecked, InitClient, FreeClient
    <2> HIDE DEF c
    <2>4. client' = [client EXCEPT ![s] = c]
      BY <2>2 DEF c
    <2> QED BY <1>1, <1>2, <2>3, <2>4 DEF AcceptConnection, AcceptsSession
  <1>3. ASSUME NEW s \in Slots, ReadCommands(s) PROVE KeepsSession(s)
    <2>1. PICK n \in 0 .. MaxPipeline :
            client' = [client EXCEPT ![s].queued = @ + n, ![s].io = "WRITING"]
      BY <1>3 DEF ReadCommands
    <2> DEFINE q == client[s].queued + n
               c == [client[s] EXCEPT !.queued = q, !.io = "WRITING"]
    <2>2. client' = [client EXCEPT ![s] = c]
      BY <1>1, <2>1
    <2>3. c.allocated = client[s].allocated /\ c.session = client[s].session
          /\ c.cache = client[s].cache
      <3> HIDE DEF q
      <3> QED BY <1>1 DEF Clients
    <2> HIDE DEF c
    <2> QED BY <1>1, <1>3, <2>2, <2>3 DEF ReadCommands, KeepsSession, Leaves
  <1>4. ASSUME NEW s \in Slots, ReadEOF(s) PROVE KeepsSession(s)
    BY <1>1, <1>4 DEF ReadEOF, CloseClient, KeepsSession, Leaves
  <1>5. ASSUME NEW s \in Slots, Serve(s)
        PROVE  SessionStep(s) \/ UNCHANGED <<client, maildir>>
    BY <1>5, ServeIsSessionStep
  <1>6. CASE RefuseConnection \/ AcceptFails \/ Monitor \/ UNCHANGED vars
    BY <1>6 DEF RefuseConnection, AcceptFails, Monitor, DeleteUser, AddUser, ModifyPassword,
                vars
  <1>7. ASSUME NEW u \in Users, NEW m \in Mails, MailArrives(u, m) PROVE UNCHANGED client
    BY <1>7 DEF MailArrives
  <1> QED BY <1>2, <1>3, <1>4, <1>5, <1>6, <1>7 DEF Next, SessionStep

\* What a step does to its slot is all it does to the sessions.
LEMMA NextAdvances ==
  ASSUME Inv, [Next]_vars
  PROVE  \A s \in Slots : Advances(s)
  <1> SUFFICES ASSUME NEW t \in Slots PROVE Advances(t)
    OBVIOUS
  <1>1. client \in [Slots -> Clients] /\ Good(client[t])
    BY DEF Inv, SlotsInv
  <1>2. CASE UNCHANGED client
    BY <1>2 DEF Advances
  <1>3. CASE Terminate \/ \E s \in Slots : QuitInterrupted(s)
    BY <1>3 DEF Terminate, QuitInterrupted, Advances, FreeClient
  <1>4. ASSUME NEW s \in Slots, AcceptsSession(s) \/ SessionStep(s) PROVE Advances(t)
    <2>1. CASE t # s
      <3>1. client' = [client EXCEPT ![s] = client'[s]]
        BY <1>4 DEF AcceptsSession, SessionStep, KeepsSession, OpensSession, MarksMail,
                    UnmarksMails, QuitsSession, Leaves
      <3>2. client'[t] = client[t]
        BY <1>1, <2>1, <3>1
      <3> QED BY <3>2 DEF Advances
    <2>2. CASE t = s
      <3>1. CASE AcceptsSession(s)
        BY <2>2, <3>1 DEF AcceptsSession, Advances
      <3>2. CASE client'[s] = FreeClient
        BY <2>2, <3>2 DEF FreeClient, Advances
      <3>3. CASE SessionStep(s) /\ client'[s] # FreeClient
        BY <1>1, <2>2, <3>3 DEF SessionStep, KeepsSession, OpensSession, MarksMail,
           UnmarksMails, QuitsSession, Leaves, Advances, Good, Clients
      <3> QED BY <1>4, <3>1, <3>2, <3>3
    <2> QED BY <2>1, <2>2
  <1> QED BY <1>2, <1>3, <1>4, StepsOfSessions

\* Only a QUIT takes mails away, also one that is cut short: marked ones of its owner.
LEMMA NextRemovesByQuit ==
  ASSUME Inv, [Next]_vars
  PROVE  \A u \in Users : \A m \in maildir[u] \ maildir'[u] : QuitRemoves(u, m)
  <1> SUFFICES ASSUME NEW u \in Users, NEW m \in maildir[u] \ maildir'[u]
               PROVE  QuitRemoves(u, m)
    OBVIOUS
  <1>1. maildir \in [Users -> SUBSET Mails]
    BY DEF Inv, DataInv
  <1>2. ~ UNCHANGED maildir
    OBVIOUS
  <1>3. ~ Terminate
    BY <1>2 DEF Terminate
  <1>4. ASSUME NEW v \in Users, NEW n \in Mails, MailArrives(v, n) PROVE FALSE
    BY <1>1, <1>4 DEF MailArrives
  <1>5. PICK s \in Slots : QuitsSession(s) \/ QuitInterrupted(s)
    BY <1>2, <1>3, <1>4, StepsOfSessions
       DEF AcceptsSession, SessionStep, KeepsSession, OpensSession, MarksMail, UnmarksMails
  <1>6. client[s].session = "TRANSACTION" /\ UnlinkMarked(s)
    BY <1>2, <1>5 DEF QuitsSession, QuitInterrupted, InTransaction
  <1> DEFINE o == client[s].cache.owner
  <1>7. o \in Users /\ client[s].username = o
    BY <1>6 DEF Inv, SlotsInv, Good
  <1>8. PICK kept \in SUBSET client[s].cache.marked :
          maildir' = [maildir EXCEPT ![o] = @ \ (client[s].cache.marked \ kept)]
    BY <1>6 DEF UnlinkMarked
  <1>9. o = u /\ m \in client[s].cache.marked
    BY <1>1, <1>7, <1>8
  <1>10. client'[s].session \in {"UPDATE", "ANY"}
    BY <1>5 DEF QuitsSession, QuitInterrupted, Leaves, FreeClient
  <1> QED BY <1>6, <1>7, <1>9, <1>10 DEF QuitRemoves

-----------------------------------------------------------------------------
(* The server implements Maildrop *)

\* What Maildrop sees of the slots: the mapping of Pop3Server!Drops.
Holds == [s \in Slots |-> IF InSession(s) THEN client[s].cache.owner ELSE NoUser]
Seen == [s \in Slots |-> IF InSession(s) THEN client[s].cache.listed ELSE {}]
Marks == [s \in Slots |-> IF InSession(s) THEN client[s].cache.marked ELSE {}]

SeesNothing(s) == Holds[s] = NoUser /\ Seen[s] = {} /\ Marks[s] = {}

\* A step that touches one slot changes the view of that session only.
LEMMA ViewOfOneSlot ==
  ASSUME NEW s \in Slots, client \in [Slots -> Clients],
         client' = [client EXCEPT ![s] = client'[s]]
  PROVE  /\ Holds' = [Holds EXCEPT ![s] =
                        IF InSession(s)' THEN client'[s].cache.owner ELSE NoUser]
         /\ Seen' = [Seen EXCEPT ![s] = IF InSession(s)' THEN client'[s].cache.listed ELSE {}]
         /\ Marks' = [Marks EXCEPT ![s] = IF InSession(s)' THEN client'[s].cache.marked ELSE {}]
  <1>1. \A t \in Slots \ {s} : client'[t] = client[t]
    OBVIOUS
  <1> QED BY <1>1 DEF Holds, Seen, Marks, InSession

\* A slot that leaves TRANSACTION ends the session that Maildrop sees, if it sees one.
LEMMA ViewEnds ==
  ASSUME NEW s \in Slots, client \in [Slots -> Clients],
         client' = [client EXCEPT ![s] = client'[s]], ~ InSession(s)'
  PROVE  /\ Holds' = [Holds EXCEPT ![s] = NoUser]
         /\ Seen' = [Seen EXCEPT ![s] = {}]
         /\ Marks' = [Marks EXCEPT ![s] = {}]
         /\ ~ InSession(s) => UNCHANGED <<Holds, Seen, Marks>>
  <1>1. /\ Holds' = [Holds EXCEPT ![s] = NoUser]
        /\ Seen' = [Seen EXCEPT ![s] = {}]
        /\ Marks' = [Marks EXCEPT ![s] = {}]
    BY ViewOfOneSlot
  <1>2. ~ InSession(s) => Holds[s] = NoUser /\ Seen[s] = {} /\ Marks[s] = {}
    BY DEF Holds, Seen, Marks
  <1>3. ASSUME NEW f, NEW v, f = [t \in Slots |-> f[t]], f[s] = v
        PROVE  [f EXCEPT ![s] = v] = f
    BY <1>3
  <1>4. /\ Holds = [t \in Slots |-> Holds[t]] /\ Seen = [t \in Slots |-> Seen[t]]
        /\ Marks = [t \in Slots |-> Marks[t]]
    BY DEF Holds, Seen, Marks
  <1> QED BY <1>1, <1>2, <1>3, <1>4

\* The view keeps what the slot keeps.
LEMMA ViewKept ==
  ASSUME NEW s \in Slots, client \in [Slots -> Clients],
         client' = [client EXCEPT ![s] = client'[s]],
         client'[s].session = client[s].session, client'[s].cache = client[s].cache
  PROVE  UNCHANGED <<Holds, Seen, Marks>>
  <1>1. \A t \in Slots :
          client'[t].session = client[t].session /\ client'[t].cache = client[t].cache
    OBVIOUS
  <1> QED BY <1>1 DEF Holds, Seen, Marks, InSession

\* The files that a QUIT unlinks are marked mails of the maildrop it has open.
LEMMA RemovesMarked ==
  ASSUME NEW s \in Slots, InSession(s), UnlinkMarked(s)
  PROVE  Drops!Removes(s)
  <1>1. Holds[s] = client[s].cache.owner /\ Marks[s] = client[s].cache.marked
    BY DEF Holds, Marks
  <1>2. \E kept \in SUBSET Marks[s] :
          maildir' = [maildir EXCEPT ![Holds[s]] = @ \ (Marks[s] \ kept)]
    BY <1>1 DEF UnlinkMarked
  <1> QED BY <1>2 DEF Drops!Removes, Holds, Marks

\* Each thing that can happen to a session is one step of Maildrop, or none.
LEMMA SessionStepIsMaildropStep ==
  ASSUME Inv, NEW s \in Slots, AcceptsSession(s) \/ SessionStep(s)
  PROVE  \/ \E u \in Users : Drops!Open(s, u)
         \/ \E m \in Mails : Drops!Mark(s, m)
         \/ Drops!Unmark(s) \/ Drops!Commit(s) \/ Drops!Drop(s)
         \/ UNCHANGED <<Holds, Seen, Marks, maildir>>
  <1> DEFINE Goal == \/ \E u \in Users : Drops!Open(s, u)
                     \/ \E m \in Mails : Drops!Mark(s, m)
                     \/ Drops!Unmark(s) \/ Drops!Commit(s) \/ Drops!Drop(s)
                     \/ UNCHANGED <<Holds, Seen, Marks, maildir>>
  <1>1. client \in [Slots -> Clients] /\ Good(client[s]) /\ NoUser \notin Users
    BY NamesAssumption DEF Inv, SlotsInv
  <1>2. client' = [client EXCEPT ![s] = client'[s]]
    BY DEF AcceptsSession, SessionStep, KeepsSession, OpensSession, MarksMail,
           UnmarksMails, QuitsSession, Leaves
  <1>3. InSession(s) => /\ Holds[s] = client[s].cache.owner /\ Seen[s] = client[s].cache.listed
                        /\ Marks[s] = client[s].cache.marked
                        /\ Holds[s] \in Users /\ Holds[s] # NoUser
    BY <1>1 DEF Holds, Seen, Marks, InSession, Good
  <1>4. ASSUME ~ InSession(s)', UNCHANGED maildir
        PROVE  Goal
    <2>1. /\ Holds' = [Holds EXCEPT ![s] = NoUser]
          /\ Seen' = [Seen EXCEPT ![s] = {}]
          /\ Marks' = [Marks EXCEPT ![s] = {}]
          /\ ~ InSession(s) => UNCHANGED <<Holds, Seen, Marks>>
      BY <1>1, <1>2, <1>4, ViewEnds
    <2>2. InSession(s) => Drops!Drop(s)
      BY <1>3, <1>4, <2>1 DEF Drops!Drop, Drops!Ends, Holds, Seen, Marks
    <2> QED BY <1>4, <2>1, <2>2
  <1>5. CASE AcceptsSession(s)
    <2>1. ~ InSession(s)' /\ UNCHANGED maildir
      BY <1>5 DEF AcceptsSession, InSession
    <2> QED BY <1>4, <2>1
  <1>6. CASE KeepsSession(s)
    <2>1. CASE client'[s] = FreeClient
      BY <1>4, <1>6, <2>1 DEF KeepsSession, InSession, FreeClient
    <2>2. CASE client'[s] # FreeClient
      BY <1>1, <1>2, <1>6, <2>2, ViewKept DEF KeepsSession, Leaves
    <2> QED BY <2>1, <2>2
  <1>7. CASE OpensSession(s)
    <2>1. CASE client'[s] = FreeClient
      BY <1>4, <1>7, <2>1 DEF OpensSession, InSession, FreeClient
    <2>2. CASE client'[s] # FreeClient
      <3>1. PICK u \in Users :
              /\ client'[s].session = "TRANSACTION"
              /\ client'[s].cache = [owner |-> u, listed |-> maildir[u], marked |-> {}]
        BY <1>7, <2>2 DEF OpensSession, Leaves
      <3>2. SeesNothing(s)
        BY <1>7 DEF OpensSession, SeesNothing, Holds, Seen, Marks, InSession
      <3>3. /\ Holds' = [Holds EXCEPT ![s] = u]
            /\ Seen' = [Seen EXCEPT ![s] = maildir[u]]
            /\ Marks' = [Marks EXCEPT ![s] = {}]
        BY <1>1, <1>2, <3>1, ViewOfOneSlot DEF InSession
      <3>4. Marks' = Marks
        BY <3>2, <3>3 DEF SeesNothing, Marks
      <3>5. Drops!Open(s, u)
        BY <1>7, <3>2, <3>3, <3>4 DEF SeesNothing, OpensSession, Drops!Open, Holds, Seen, Marks
      <3> QED BY <3>5
    <2> QED BY <2>1, <2>2
  <1>8. CASE MarksMail(s)
    <2>1. CASE client'[s] = FreeClient
      BY <1>4, <1>8, <2>1 DEF MarksMail, InSession, FreeClient
    <2>2. CASE client'[s] # FreeClient
      <3>1. PICK m \in ValidMails(client[s]) :
              /\ client'[s].session = "TRANSACTION"
              /\ client'[s].cache = [client[s].cache EXCEPT !.marked = @ \cup {m}]
        BY <1>8, <2>2 DEF MarksMail, Leaves
      <3>2. /\ client'[s].cache.owner = client[s].cache.owner
            /\ client'[s].cache.listed = client[s].cache.listed
            /\ client'[s].cache.marked = client[s].cache.marked \cup {m}
        BY <1>1, <3>1 DEF Clients, Caches
      <3>3. InSession(s) /\ m \in Mails /\ m \in Seen[s] \ Marks[s]
        BY <1>1, <1>3, <1>8 DEF MarksMail, InSession, ValidMails, Clients, Caches
      <3>4. /\ Holds' = Holds /\ Seen' = Seen
            /\ Marks' = [Marks EXCEPT ![s] = @ \cup {m}]
        <4>1. /\ Holds' = [Holds EXCEPT ![s] = Holds[s]]
              /\ Seen' = [Seen EXCEPT ![s] = Seen[s]]
              /\ Marks' = [Marks EXCEPT ![s] = Marks[s] \cup {m}]
          <5>1. InSession(s)'
            BY <3>1 DEF InSession
          <5>2. /\ Holds[s] = client'[s].cache.owner /\ Seen[s] = client'[s].cache.listed
                /\ Marks[s] \cup {m} = client'[s].cache.marked
            BY <1>3, <3>2, <3>3
          <5> QED BY <1>1, <1>2, <5>1, <5>2, ViewOfOneSlot
        <4> QED BY <4>1 DEF Holds, Seen, Marks
      <3>5. Drops!Mark(s, m)
        BY <1>3, <1>8, <3>3, <3>4 DEF MarksMail, Drops!Mark, Holds, Seen, Marks
      <3> QED BY <3>3, <3>5
    <2> QED BY <2>1, <2>2
  <1>9. CASE UnmarksMails(s)
    <2>1. CASE client'[s] = FreeClient
      BY <1>4, <1>9, <2>1 DEF UnmarksMails, InSession, FreeClient
    <2>2. CASE client'[s] # FreeClient
      <3>1. /\ client'[s].session = "TRANSACTION"
            /\ client'[s].cache = [client[s].cache EXCEPT !.marked = {}]
        BY <1>9, <2>2 DEF UnmarksMails, Leaves
      <3>2. /\ client'[s].cache.owner = client[s].cache.owner
            /\ client'[s].cache.listed = client[s].cache.listed
            /\ client'[s].cache.marked = {}
        BY <1>1, <3>1 DEF Clients, Caches
      <3>3. InSession(s)
        BY <1>9 DEF UnmarksMails, InSession
      <3>4. /\ Holds' = Holds /\ Seen' = Seen
            /\ Marks' = [Marks EXCEPT ![s] = {}]
        <4>1. /\ Holds' = [Holds EXCEPT ![s] = Holds[s]]
              /\ Seen' = [Seen EXCEPT ![s] = Seen[s]]
              /\ Marks' = [Marks EXCEPT ![s] = {}]
          BY <1>1, <1>2, <1>3, <3>1, <3>2, <3>3, ViewOfOneSlot DEF InSession
        <4> QED BY <4>1 DEF Holds, Seen, Marks
      <3>5. Drops!Unmark(s)
        BY <1>3, <1>9, <3>3, <3>4 DEF UnmarksMails, Drops!Unmark, Holds, Seen, Marks
      <3> QED BY <3>5
    <2> QED BY <2>1, <2>2
  <1>10. CASE QuitsSession(s)
    <2>1. ~ InSession(s)'
      BY <1>10 DEF QuitsSession, Leaves, InSession, FreeClient
    <2>2. CASE ~ InSession(s)
      BY <1>4, <1>10, <2>1, <2>2 DEF QuitsSession, InSession
    <2>3. CASE InSession(s)
      <3>1. /\ Holds' = [Holds EXCEPT ![s] = NoUser]
            /\ Seen' = [Seen EXCEPT ![s] = {}]
            /\ Marks' = [Marks EXCEPT ![s] = {}]
        BY <1>1, <1>2, <2>1, ViewEnds
      <3>2. Drops!Removes(s)
        BY <1>3, <1>10, <2>3, RemovesMarked DEF QuitsSession, InSession
      <3>3. Drops!Commit(s)
        BY <1>3, <2>3, <3>1, <3>2 DEF Drops!Commit, Drops!Ends, Holds, Seen, Marks
      <3> QED BY <3>3
    <2> QED BY <2>2, <2>3
  <1> QED BY <1>5, <1>6, <1>7, <1>8, <1>9, <1>10 DEF SessionStep

\* Every step of the server is a step of Maildrop, or none.
LEMMA NextIsMaildropStep ==
  ASSUME Inv, [Next]_vars
  PROVE  [Drops!MaildropNext]_(Drops!maildropVars)
  <1>1. CASE UNCHANGED <<Holds, Seen, Marks, maildir>>
    BY <1>1 DEF Drops!maildropVars, Holds, Seen, Marks
  <1>2. ASSUME NEW s \in Slots, AcceptsSession(s) \/ SessionStep(s)
        PROVE  [Drops!MaildropNext]_(Drops!maildropVars)
    BY <1>1, <1>2, SessionStepIsMaildropStep DEF Drops!MaildropNext
  <1>3. ASSUME NEW u \in Users, NEW m \in Mails, UNCHANGED client, MailArrives(u, m)
        PROVE  Drops!MaildropNext
    <2>1. UNCHANGED <<Holds, Seen, Marks>>
      BY <1>3 DEF Holds, Seen, Marks, InSession
    <2>2. Drops!Arrive(u, m)
      BY <1>3, <2>1 DEF MailArrives, Drops!Arrive, Holds, Seen, Marks
    <2> QED BY <2>2 DEF Drops!MaildropNext
  <1>4. ASSUME client' = [s \in Slots |-> FreeClient]
        PROVE  Drops!AllEnd
    <2>1. /\ Holds' = [s \in Slots |-> NoUser] /\ Seen' = [s \in Slots |-> {}]
          /\ Marks' = [s \in Slots |-> {}]
      BY <1>4 DEF Holds, Seen, Marks, InSession, FreeClient
    <2> QED BY <2>1 DEF Drops!AllEnd, Holds, Seen, Marks
  <1>5. CASE Terminate
    <2>1. Drops!DropAll
      BY <1>4, <1>5 DEF Terminate, Drops!DropAll
    <2> QED BY <2>1 DEF Drops!MaildropNext
  <1>6. ASSUME NEW s \in Slots, QuitInterrupted(s)
        PROVE  Drops!MaildropNext
    <2>1. InSession(s) /\ UnlinkMarked(s) /\ client' = [t \in Slots |-> FreeClient]
      BY <1>6 DEF QuitInterrupted, InTransaction, InSession
    <2>2. Drops!Removes(s) /\ Drops!AllEnd
      BY <1>4, <2>1, RemovesMarked
    <2>3. Holds[s] # NoUser
      BY <2>1, NamesAssumption DEF Holds, InSession, Inv, SlotsInv, Good
    <2>4. Drops!CommitCut(s)
      BY <2>2, <2>3 DEF Drops!CommitCut, Holds
    <2> QED BY <2>4 DEF Drops!MaildropNext
  <1>7. CASE UNCHANGED <<client, maildir>>
    BY <1>1, <1>7 DEF Holds, Seen, Marks, InSession
  <1> QED BY <1>2, <1>3, <1>5, <1>6, <1>7, StepsOfSessions

-----------------------------------------------------------------------------
(* The theorems *)

\* Inv holds in every reachable state.
THEOREM Invariance == Spec => []Inv
  BY InitInv, NextInv, PTL DEF Spec

\* Every field always has its type; in particular concurrentConnections, which is
\* unsigned in the code, never goes below zero.
THEOREM TypeCorrect == Spec => []TypeOK
  BY Invariance, InvImplies, PTL

\* A free slot is always as memset leaves it.
THEOREM CleanSlots == Spec => []FreeSlotsAreClean
  BY Invariance, InvImplies, PTL

\* State, user name and mailbox of a slot always agree.
THEOREM CacheOwnership == Spec => []SessionOwnsCache
  BY Invariance, InvImplies, PTL

\* The server never waits for a client it still owes something.
THEOREM NothingOwed == Spec => []ReadingOwesNothing
  BY Invariance, InvImplies, PTL

\* The FATAL branch of writeDataToBuffer is never taken.
THEOREM NoOverflow == Spec => []BufferNeverOverflows
  BY Invariance, InvImplies, PTL

\* No user is locked out: a set flag always has a live session behind it.
THEOREM NoLockLeak == Spec => []ConnectedHasHolder
  BY Invariance, InvImplies, PTL

\* The count the monitor reports is never below the number of open connections.
THEOREM CountCovers == Spec => []ConcurrentCoversOccupied
  BY Invariance, InvImplies, PTL

\* No order of commands, closes and reuses of a slot takes a session back.
THEOREM SessionsAdvance == Spec => SessionOnlyAdvances
  <1>1. Inv /\ [Next]_vars => [\A s \in Slots : Advances(s)]_vars
    BY NextAdvances
  <1> QED BY <1>1, Invariance, PTL DEF Spec, SessionOnlyAdvances

\* No mail is lost but by the QUIT of a session of its owner that marked it.
THEOREM OnlyQuitRemoves == Spec => MailRemovedOnlyByQuit
  <1>1. Inv /\ [Next]_vars
          => [\A u \in Users : \A m \in maildir[u] \ maildir'[u] : QuitRemoves(u, m)]_vars
    BY NextRemovesByQuit
  <1> QED BY <1>1, Invariance, PTL DEF Spec, MailRemovedOnlyByQuit

\* The server keeps the promise of Maildrop: a session sees its maildrop as it was at
\* login, and no mail ever leaves a maildrop but marked mails of one session, in the one
\* step that ends it by QUIT, or by a kill in the middle of its QUIT.  That all of the
\* marked mails leave is not claimed: the code does not look at what unlink returns.
THEOREM ServerIsMaildrop == Spec => MaildropSpec
  <1>1. Init => Drops!MaildropInit
    BY DEF Init, Drops!MaildropInit, InSession, FreeClient
  <1>2. Inv /\ [Next]_vars => [Drops!MaildropNext]_(Drops!maildropVars)
    BY NextIsMaildropStep
  <1> QED BY <1>1, <1>2, Invariance, PTL DEF Spec, MaildropSpec, Drops!MaildropSpec

-----------------------------------------------------------------------------
(***************************************************************************)
(* The main loop runs these handlers, and calls each of them on a state    *)
(* that select spoke of.  That it runs them makes every invariant above    *)
(* one of the loop.  That its sets are current has to hold from the moment *)
(* they are filled (SetsAreCurrent), and needs that a handler changes no   *)
(* slot but its own (OnlyOwnSlot).                                         *)
(***************************************************************************)

\* From Prepare to the end of the round, the sets tell the state of their slots.
SetsAreCurrent ==
    pc \in {"select", "accept", "monitor", "clients"} =>
        /\ \A s \in readFds : client[s].allocated /\ client[s].io = "READING"
        /\ \A s \in writeFds : client[s].allocated /\ client[s].io = "WRITING"

LoopInv == Inv /\ LoopTypeOK /\ SetsAreCurrent

-----------------------------------------------------------------------------
(* The loop runs the handlers *)

\* Each step of the loop, of a peer or of the signal is a step of Pop3Server, or none.
LEMMA LoopStepIsNext == [LoopNext]_allVars => [Next]_vars
  <1> SUFFICES ASSUME [LoopNext]_allVars PROVE Next \/ UNCHANGED vars
    OBVIOUS
  <1>1. CASE TestRunning
    BY <1>1 DEF TestRunning, Next
  <1>2. CASE Prepare \/ SelectReturns \/ Signal \/ UNCHANGED allVars
    BY <1>2 DEF Prepare, SelectReturns, Signal, allVars
  <1>3. CASE ServeAccept
    BY <1>3 DEF ServeAccept, Next
  <1>4. CASE ServeMonitor
    BY <1>4 DEF ServeMonitor, Next
  <1>5. ASSUME NEW s \in Slots, HandleClient(s) PROVE Next \/ UNCHANGED vars
    BY <1>5 DEF HandleClient, ReadFromClient, ReadError, ServeClient, Next
  <1>6. ASSUME NEW s \in Slots, PeerCloses(s) \/ PeerReads(s) PROVE UNCHANGED vars
    BY <1>6 DEF PeerCloses, PeerReads, Arrives
  <1> QED BY <1>1, <1>2, <1>3, <1>4, <1>5, <1>6 DEF LoopNext, LoopStep

-----------------------------------------------------------------------------
(* The steps of the loop *)

LEMMA LoopInitInv == LoopInit => LoopInv
  BY InitInv DEF LoopInit, LoopInv, LoopTypeOK, SetsAreCurrent

\* Each of the places the round can go to is one of the loop.
LEMMA NextPartIsPlace ==
  ASSUME NEW sockets
  PROVE  NextPart(sockets) \in {"accept", "monitor", "clients"}
  BY DEF NextPart

LEMMA PrepareInv ==
  ASSUME LoopInv, Prepare
  PROVE  LoopTypeOK' /\ SetsAreCurrent'
  BY DEF LoopInv, Prepare, GoTo, ClientsSockets, LoopTypeOK, SetsAreCurrent, vars

\* select reports a subset of what it was asked about.
LEMMA SelectInv ==
  ASSUME LoopInv, SelectReturns
  PROVE  LoopTypeOK' /\ SetsAreCurrent'
  <1>1. /\ readFds' \subseteq readFds /\ writeFds' \subseteq writeFds
        /\ passive' \subseteq {"tcp", "udp"}
        /\ UNCHANGED <<client, caught, peer, full>>
    BY DEF SelectReturns, MustRead, MustWrite, vars
  <1>2. pc = "select" /\ pc' \in {"accept", "monitor", "clients", "ended"}
    BY NextPartIsPlace DEF SelectReturns, GoTo
  <1> QED BY <1>1, <1>2 DEF LoopInv, LoopTypeOK, SetsAreCurrent

\* A new connection takes a slot that was free, so none that is in a set; the monitor
\* changes no slot.
LEMMA PassiveInv ==
  ASSUME LoopInv, ServeAccept \/ ServeMonitor
  PROVE  LoopTypeOK' /\ SetsAreCurrent'
  <1>1. /\ UNCHANGED <<readFds, writeFds, caught, peer, full>>
        /\ passive' \subseteq passive
    BY DEF ServeAccept, ServeMonitor
  <1>2. /\ pc \in {"accept", "monitor"}
        /\ pc' \in {"accept", "monitor", "clients", "ended"}
    BY NextPartIsPlace DEF ServeAccept, ServeMonitor, GoTo
  <1>3. \A t \in Slots : client[t].allocated => client'[t] = client[t]
    <2>1. CASE UNCHANGED client
      BY <2>1
    <2>2. ASSUME NEW s \in Slots, AcceptConnection(s), NEW t \in Slots, client[t].allocated
          PROVE  client'[t] = client[t]
      <3>1. t # s
        BY <2>2 DEF AcceptConnection
      <3> QED BY <2>2, <3>1, OnlyOwnSlot DEF LoopInv, Inv, SlotsInv
    <2> QED BY <2>1, <2>2 DEF ServeAccept, ServeMonitor, RefuseConnection, AcceptFails,
               Monitor, DeleteUser, AddUser, ModifyPassword, vars
  <1> QED BY <1>1, <1>2, <1>3 DEF LoopInv, LoopTypeOK, SetsAreCurrent

\* A slot leaves the sets when it is served, and its handler leaves the others alone.
LEMMA HandleInv ==
  ASSUME LoopInv, NEW s \in Slots, HandleClient(s)
  PROVE  LoopTypeOK' /\ SetsAreCurrent'
  <1>1. /\ pc = "clients" /\ pc' \in {"clients", "ended"}
        /\ readFds' = readFds \ {s} /\ writeFds' = writeFds \ {s}
        /\ UNCHANGED <<passive, caught>>
    BY DEF HandleClient, GoTo
  <1>2. pc' = "clients" => \A t \in Slots \ {s} : client'[t] = client[t]
    <2>1. \/ UNCHANGED client \/ ReadCommands(s) \/ ReadEOF(s) \/ Serve(s)
          \/ QuitInterrupted(s)
      BY DEF HandleClient, ReadFromClient, ReadError, ServeClient, vars
    <2>2. QuitInterrupted(s) => pc' = "ended"
      BY DEF HandleClient, GoTo, QuitInterrupted
    <2> QED BY <2>1, <2>2, OnlyOwnSlot DEF LoopInv, Inv, SlotsInv
  <1>3. peer' \in [Slots -> {"open", "eof", "reset"}] /\ full' \in [Slots -> BOOLEAN]
    <2>1. ReadError(s) \/ Settled(s)
      BY DEF HandleClient, ReadFromClient, ServeClient
    <2>2. CASE ReadError(s)
      BY <2>2 DEF ReadError, LoopInv, LoopTypeOK
    <2>3. CASE Settled(s)
      BY <2>3 DEF Settled, LoopInv, LoopTypeOK
    <2> QED BY <2>1, <2>2, <2>3
  <1> QED BY <1>1, <1>2, <1>3 DEF LoopInv, LoopTypeOK, SetsAreCurrent

\* The peers and the signal touch no slot; a signal in select empties the sets.
LEMMA OutsideLoopInv ==
  ASSUME LoopInv,
         TestRunning \/ Signal \/ UNCHANGED allVars
           \/ \E s \in Slots : PeerCloses(s) \/ PeerReads(s)
  PROVE  LoopTypeOK' /\ SetsAreCurrent'
  <1>1. CASE TestRunning
    BY <1>1 DEF TestRunning, GoTo, LoopInv, LoopTypeOK, SetsAreCurrent
  <1>2. CASE Signal
    BY <1>2 DEF Signal, vars, LoopInv, LoopTypeOK, SetsAreCurrent
  <1>3. CASE UNCHANGED allVars
    BY <1>3 DEF allVars, vars, loopVars, LoopInv, LoopTypeOK, SetsAreCurrent
  <1>4. ASSUME NEW s \in Slots, PeerCloses(s) \/ PeerReads(s)
        PROVE  LoopTypeOK' /\ SetsAreCurrent'
    <2>1. /\ peer' \in [Slots -> {"open", "eof", "reset"}]
          /\ full' \in [Slots -> BOOLEAN]
      <3>1. peer \in [Slots -> {"open", "eof", "reset"}] /\ full \in [Slots -> BOOLEAN]
        BY DEF LoopInv, LoopTypeOK
      <3>2. CASE PeerCloses(s)
        BY <3>1, <3>2 DEF PeerCloses
      <3>3. CASE PeerReads(s)
        BY <3>1, <3>3 DEF PeerReads
      <3> QED BY <1>4, <3>2, <3>3
    <2>2. UNCHANGED <<client, pc, passive, readFds, writeFds, caught>>
      BY <1>4 DEF PeerCloses, PeerReads, Arrives, vars
    <2> QED BY <2>1, <2>2 DEF LoopInv, LoopTypeOK, SetsAreCurrent
  <1> QED BY <1>1, <1>2, <1>3, <1>4

\* LoopInv is inductive.
LEMMA LoopNextInv == LoopInv /\ [LoopNext]_allVars => LoopInv'
  <1> SUFFICES ASSUME LoopInv, [LoopNext]_allVars PROVE LoopInv'
    OBVIOUS
  <1>1. Inv'
    BY LoopStepIsNext, NextInv DEF LoopInv
  <1>2. LoopTypeOK' /\ SetsAreCurrent'
    BY PrepareInv, SelectInv, PassiveInv, HandleInv, OutsideLoopInv DEF LoopNext, LoopStep
  <1> QED BY <1>1, <1>2 DEF LoopInv

-----------------------------------------------------------------------------
(* The theorems *)

\* The loop implements Pop3Server: whatever is pipelined, reset or signalled, it takes
\* no step that is not one call of a handler.  What is proved of Pop3Server therefore
\* holds of the loop.
THEOREM LoopImplementsHandlers == LoopSpec => HandlersSpec
  <1>1. LoopInit => Init
    BY DEF LoopInit
  <1> QED BY <1>1, LoopStepIsNext, PTL DEF LoopSpec, HandlersSpec, Spec

\* LoopInv holds in every reachable state.
THEOREM LoopInvariance == LoopSpec => []LoopInv
  BY LoopInitInv, LoopNextInv, PTL DEF LoopSpec

\* The variables of the loop always have their types, and no slot is in both sets.
THEOREM LoopTypeCorrect == LoopSpec => []LoopTypeOK
  <1>1. LoopInv => LoopTypeOK
    BY DEF LoopInv
  <1> QED BY <1>1, LoopInvariance, PTL

\* No client is served on readiness that is out of date, however many slots are ready
\* in one round and whatever accept did before them.
THEOREM ReadinessStaysCurrent == LoopSpec => []ReadinessIsCurrent
  <1>1. LoopInv => ReadinessIsCurrent
    BY DEF LoopInv, SetsAreCurrent, ReadinessIsCurrent
  <1> QED BY <1>1, LoopInvariance, PTL

\* And no invariant of the server is lost in the loop.
THEOREM LoopKeepsInvariants ==
  LoopSpec => [](/\ TypeOK /\ FreeSlotsAreClean /\ SessionOwnsCache /\ ReadingOwesNothing
                 /\ BufferNeverOverflows /\ ConnectedHasHolder /\ ConcurrentCoversOccupied)
  BY LoopImplementsHandlers, Invariance, InvImplies, PTL DEF HandlersSpec
=============================================================================
