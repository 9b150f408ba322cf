------------------------- MODULE SocketServerProofs -------------------------
(***************************************************************************)
(* Proofs about the slots of the sockets transport, for any number of      *)
(* slots and clients, and every interleaving of the acceptor, the handler  *)
(* and connections that close: the two threads share the slots without a   *)
(* lock, and while the clients fit into them no connection is forgotten.   *)
(* Then about the answers: each client is answered what it asked.          *)
(***************************************************************************)
EXTENDS SocketServer, FiniteSetTheorems, WellFoundedInduction, TLAPS

ClientStates == {"new", "idle", "writing", "reading", "stalled", "closed"}

Types ==
  /\ setup \in Setups
  /\ client \in [Client -> [state : ClientStates, call : Nat, sent : Nat]]
  /\ backlog \in Seq(Client) /\ file \in [Fd -> Client \cup {None}]
  /\ slots \in [Slot -> Fd \cup {None}] /\ ready \subseteq Slot
  /\ acceptor \in [pc : {"accept", "assign", "done"}, fd : Fd \cup {None}, i : Slot]
  /\ handler.pc \in {"poll", "scan", "close", "clear", "send", "done", "killed"}
  /\ handler.i \in Slot /\ handler.fd \in Fd \cup {None}
  /\ handler = [pc |-> handler.pc, i |-> handler.i, fd |-> handler.fd, tx |-> handler.tx]

\* asio uses neither thread, and the threads no coroutine.
Kinds ==
  IF setup.asio THEN acceptor.pc = "accept" /\ handler.pc = "poll" /\ \A i \in Slot : slots[i] = None
  ELSE \A c \in Client : coroutine[c] = None

\* The acceptor has an open socket in hand while it looks for a slot.
Accepting == IF acceptor.pc = "assign" THEN acceptor.fd \in Fd /\ file[acceptor.fd] # None
             ELSE acceptor.fd = None

\* The slots the handler still has to look at, or works on, are taken.
Handling ==
  /\ handler.pc \in {"close", "send"} => slots[handler.i] = handler.fd /\ handler.fd # None
  /\ handler.pc = "clear" => slots[handler.i] # None
  /\ handler.pc \in {"scan", "close", "clear", "send"} =>
       \A i \in ready : i > handler.i \/ (i = handler.i /\ handler.pc = "scan") => slots[i] # None

\* Slots name different open sockets, but for the one that is about to be freed.
Distinct ==
  \A i \in Slot : slots[i] # None /\ ~Clearing(i) =>
    /\ file[slots[i]] # None
    /\ \A j \in Slot \ {i} : slots[j] = slots[i] => Clearing(j)
    /\ acceptor.fd # slots[i]

\* While there are slots enough, every open socket is in one that stays, or about to be.
Enough == ~setup.asio /\ Cardinality(setup.clients) <= MaxClients
Seated ==
  Enough => \A f \in Fd : file[f] # None =>
              acceptor.fd = f \/ \E i \in Slot : slots[i] = f /\ ~Clearing(i)

\* Clients that are still to come, open sockets, and slots that are taken or were when the
\* acceptor passed them: never more than there are clients.
Fresh == {c \in setup.clients : client[c].state = "new"}
Coming == Cardinality(Fresh) + Len(backlog)
Open == {f \in Fd : file[f] # None}
Full == {i \in Slot : slots[i] # None \/ (acceptor.pc = "assign" /\ i < acceptor.i)}
InHand == IF acceptor.pc = "assign" THEN 1 ELSE 0
Counted ==
  ~setup.asio =>
    /\ Cardinality(Open) + Coming <= Cardinality(setup.clients)
    /\ Cardinality(Full) + InHand + Coming <= Cardinality(setup.clients)

SlotsInv == Types /\ Kinds /\ Accepting /\ Handling /\ Distinct /\ Seated /\ Counted

-----------------------------------------------------------------------------
(* Counting.                                                               *)

\* A set of natural numbers has a least element.
LEMMA Least ==
  ASSUME NEW T, T \subseteq Nat, T # {} PROVE Min(T) \in T
<1> DEFINE R == {ss \in Nat \X Nat : ss[1] < ss[2]}
<1>1. IsWellFoundedOn(R, Nat)
  BY NatLessThanWellFounded DEF OpToRel
<1>2. \E x \in T : \A y \in T : <<y, x>> \notin R
  BY <1>1, WFMin, Zenon
<1>3. \A x, y \in T : <<y, x>> \notin R => x <= y
  OBVIOUS
<1> QED BY <1>2, <1>3 DEF Min

\* How the number of elements changes with one element, or none.
LEMMA Count ==
  ASSUME NEW S, IsFiniteSet(S)
  PROVE  /\ Cardinality(S) \in Nat
         /\ \A T \in SUBSET S : IsFiniteSet(T) /\ Cardinality(T) <= Cardinality(S)
         /\ \A x : IsFiniteSet(S \cup {x}) /\ Cardinality(S \cup {x}) <= Cardinality(S) + 1
         /\ \A x \in S : Cardinality(S \ {x}) = Cardinality(S) - 1
<1>1. Cardinality(S) \in Nat
  BY FS_CardinalityType
<1>2. \A T \in SUBSET S : IsFiniteSet(T) /\ Cardinality(T) <= Cardinality(S)
  BY FS_Subset
<1>3. ASSUME NEW x PROVE IsFiniteSet(S \cup {x}) /\ Cardinality(S \cup {x}) <= Cardinality(S) + 1
  <2>1. IsFiniteSet(S \cup {x})
    BY FS_AddElement, Zenon
  <2>2. Cardinality(S \cup {x}) = IF x \in S THEN Cardinality(S) ELSE Cardinality(S) + 1
    BY FS_AddElement, Zenon
  <2>3. Cardinality(S \cup {x}) = Cardinality(S) \/ Cardinality(S \cup {x}) = Cardinality(S) + 1
    BY <2>2, Zenon
  <2> QED BY <1>1, <2>1, <2>3
<1>4. ASSUME NEW x \in S PROVE Cardinality(S \ {x}) = Cardinality(S) - 1
  BY FS_RemoveElement, Zenon
<1> QED BY <1>1, <1>2, <1>3, <1>4

\* The sets that are counted are finite.
Sizes ==
  /\ IsFiniteSet(Fd) /\ Cardinality(Fd) = Cardinality(Client) /\ Cardinality(Client) \in Nat
  /\ IsFiniteSet(Slot) /\ Cardinality(Slot) = MaxClients
  /\ IsFiniteSet(setup.clients) /\ Cardinality(setup.clients) \in Nat
  /\ Cardinality(setup.clients) <= Cardinality(Client)
  /\ IsFiniteSet(Open) /\ IsFiniteSet(Full) /\ IsFiniteSet(Fresh)
  /\ Cardinality(Open) \in Nat /\ Cardinality(Full) \in Nat /\ Cardinality(Fresh) \in Nat
  /\ Len(backlog) \in Nat /\ InHand \in Nat /\ Coming \in Nat

\* They follow from the types: every queue is finite.
LEMMA Finite == Types => Sizes
<1> SUFFICES ASSUME Types PROVE Sizes
  OBVIOUS
<1>1. IsFiniteSet(Client) /\ MaxClients \in Nat \ {0} /\ setup.clients \subseteq Client
  BY SocketAssumption DEF Types
<1>2. Cardinality(Client) \in Nat
  BY <1>1, FS_CardinalityType
<1>3. IsFiniteSet(Fd) /\ Cardinality(Fd) = Cardinality(Client)
  BY <1>2, FS_Interval DEF Fd
<1>4. IsFiniteSet(Slot) /\ Cardinality(Slot) = MaxClients
  BY <1>1, FS_Interval DEF Slot
<1>5. /\ IsFiniteSet(setup.clients) /\ Cardinality(setup.clients) \in Nat
      /\ Cardinality(setup.clients) <= Cardinality(Client)
  BY <1>1, Count
<1>6. Open \in SUBSET Fd /\ Full \in SUBSET Slot /\ Fresh \in SUBSET setup.clients
  BY DEF Open, Full, Fresh
<1>7. IsFiniteSet(Open) /\ IsFiniteSet(Full) /\ IsFiniteSet(Fresh)
  BY <1>3, <1>4, <1>5, <1>6, Count
<1>8. Cardinality(Open) \in Nat /\ Cardinality(Full) \in Nat /\ Cardinality(Fresh) \in Nat
  BY <1>7, Count
<1>9. Len(backlog) \in Nat
  BY DEF Types
<1>10. InHand \in Nat
  BY DEF InHand
<1>11. Coming \in Nat
  BY <1>8, <1>9 DEF Coming
<1> QED BY <1>1, <1>2, <1>3, <1>4, <1>5, <1>7, <1>8, <1>9, <1>10, <1>11 DEF Sizes

\* While a connection waits to be accepted there is a free descriptor for it.
LEMMA FreeDescriptor ==
  ASSUME SlotsInv, ~setup.asio, backlog # <<>>
  PROVE  LowestFree \in Fd /\ file[LowestFree] = None
<1> DEFINE Unused == {f \in Fd : file[f] = None}
<1>1. Len(backlog) > 0
  BY DEF SlotsInv, Types
<1>2. Cardinality(Open) < Cardinality(Fd)
  BY <1>1, Finite DEF SlotsInv, Counted, Coming, Sizes
<1>3. Unused # {}
  <2>1. SUFFICES ASSUME Unused = {} PROVE Open = Fd
    BY <1>2, Finite DEF SlotsInv, Sizes
  <2> QED BY <2>1 DEF Open
<1>4. Unused \subseteq Nat
  BY DEF Fd
<1>5. LowestFree \in Unused
  BY <1>3, <1>4, Least DEF LowestFree
<1> QED BY <1>5

\* The number of clients to come, open sockets and slots goes down, or one moves on.
LEMMA CountedGoesOn ==
  ASSUME SlotsInv, Types', UNCHANGED setup,
         ~setup.asio =>
           /\ Cardinality(Open)' + Coming' <= Cardinality(Open) + Coming
           /\ Cardinality(Full)' + InHand' + Coming' <= Cardinality(Full) + InHand + Coming
  PROVE  Counted'
<1>1. Sizes
  BY Finite DEF SlotsInv
<1>2. Sizes'
  <2>1. (Types => Sizes)'
    BY Finite, PTL
  <2> QED BY <2>1
<1>3. /\ Cardinality(Open) \in Nat /\ Cardinality(Full) \in Nat /\ InHand \in Nat /\ Coming \in Nat
      /\ Cardinality(setup.clients) \in Nat
  BY <1>1 DEF Sizes
<1>4. Cardinality(Open)' \in Nat /\ Cardinality(Full)' \in Nat /\ InHand' \in Nat /\ Coming' \in Nat
  BY <1>2 DEF Sizes
<1> QED BY <1>3, <1>4 DEF SlotsInv, Counted

\* Nothing that is counted changes.
LEMMA CountedSame ==
  ASSUME SlotsInv, Types', UNCHANGED setup, Coming' = Coming,
         Open' = Open, Full' = Full, InHand' = InHand
  PROVE  Counted'
BY DEF SlotsInv, Counted

-----------------------------------------------------------------------------
(* The steps.                                                              *)

\* At first everybody is still to come.
LEMMA SlotsInit == Init => SlotsInv
<1> SUFFICES ASSUME Init PROVE SlotsInv
  OBVIOUS
<1>1. 1 \in Slot /\ None \notin Fd
  BY SocketAssumption DEF Slot, Fd
<1>2. Types
  BY <1>1 DEF Init, Types, ClientStates
<1>3. Open = {} /\ Full = {} /\ Fresh = setup.clients /\ InHand = 0
  BY <1>2, SocketAssumption DEF Init, Open, Full, Fresh, InHand, Types
<1>4. Cardinality({}) = 0
  BY FS_EmptySet
<1>5. Counted
  BY <1>2, <1>3, <1>4, Finite DEF Counted, Coming, Init, Sizes
<1>6. Kinds /\ Accepting /\ Handling
  BY DEF Init, Kinds, Accepting, Handling
<1>7. Distinct /\ Seated
  BY DEF Init, Distinct, Seated
<1> QED BY <1>2, <1>5, <1>6, <1>7 DEF SlotsInv

\* What leaves the descriptors, the slots and the threads alone keeps what is said of them.
LEMMA SlotsSame ==
  ASSUME SlotsInv, UNCHANGED <<setup, file, slots, ready, acceptor, handler, coroutine>>
  PROVE  Kinds' /\ Accepting' /\ Handling' /\ Distinct' /\ Seated'
<1>1. Kinds' /\ Accepting' /\ Handling'
  BY DEF SlotsInv, Kinds, Accepting, Handling
<1>2. Distinct' /\ Seated'
  BY DEF SlotsInv, Distinct, Seated, Enough, Clearing
<1> QED BY <1>1, <1>2

\* A client that connects waits in the backlog; the other calls touch nothing of the server.
LEMMA SlotsClient ==
  ASSUME SlotsInv, UNCHANGED setup, NEW c \in Client, Calls(c) \/ Close(c) \/ Stall(c)
  PROVE  SlotsInv'
<1>1. UNCHANGED <<file, slots, ready, acceptor, handler, coroutine>>
  BY DEF Calls, Connect, Write, ReadAnswer, Close, Stall, server
<1>2. CASE Connect(c)
  <2>1. /\ client' = [client EXCEPT ![c].state = "idle"] /\ backlog' = Append(backlog, c)
        /\ client[c].state = "new" /\ c \in setup.clients
    BY <1>2 DEF Connect
  <2>2. client' \in [Client -> [state : ClientStates, call : Nat, sent : Nat]]
    BY <2>1 DEF SlotsInv, Types, ClientStates
  <2>3. backlog' \in Seq(Client) /\ Len(backlog') = Len(backlog) + 1 /\ Len(backlog) \in Nat
    BY <2>1 DEF SlotsInv, Types
  <2>4. Types'
    BY <1>1, <2>2, <2>3 DEF SlotsInv, Types
  <2>5. Fresh' = Fresh \ {c} /\ c \in Fresh
    BY <2>1 DEF SlotsInv, Types, Fresh
  <2>6. Cardinality(Fresh)' = Cardinality(Fresh) - 1
    BY <2>5, Finite, Count DEF SlotsInv, Sizes
  <2>7. Coming' = Coming
    BY <2>3, <2>6, Finite DEF SlotsInv, Coming, Sizes
  <2>8. Open' = Open /\ Full' = Full /\ InHand' = InHand
    BY <1>1 DEF Open, Full, InHand
  <2>9. Counted'
    BY <2>4, <2>7, <2>8, CountedSame
  <2> QED BY <1>1, <2>4, <2>9, SlotsSame DEF SlotsInv
<1>3. CASE Write(c) \/ ReadAnswer(c) \/ Close(c) \/ Stall(c)
  <2>1. UNCHANGED backlog
    BY <1>3 DEF Write, ReadAnswer, Close, Stall, server
  <2>2. /\ client' \in [Client -> [state : ClientStates, call : Nat, sent : Nat]]
        /\ \A d \in Client : client'[d].state = "new" <=> client[d].state = "new"
    <3> DEFINE R == [state : ClientStates, call : Nat, sent : Nat]
    <3>1. client \in [Client -> R] /\ client[c] \in R /\ client[c].state # "new"
      BY <1>3 DEF SlotsInv, Types, Write, ReadAnswer, Close, Stall
    <3>2. PICK r : client' = [client EXCEPT ![c] = r] /\ r \in R /\ r.state # "new"
      <4>1. CASE Write(c) /\ client[c].state = "idle"
        <5>1. [state |-> IF setup.pieces = 1 THEN "reading" ELSE "writing",
               call |-> client[c].call + 1, sent |-> 1] \in R
          BY <3>1 DEF ClientStates
        <5> QED BY <4>1, <5>1 DEF Write
      <4>2. CASE Write(c) /\ client[c].state = "writing"
        <5>1. [state |-> IF client[c].sent + 1 = setup.pieces THEN "reading" ELSE "writing",
               call |-> client[c].call, sent |-> client[c].sent + 1] \in R
          BY <3>1 DEF ClientStates
        <5> QED BY <4>2, <5>1 DEF Write
      <4>3. CASE ReadAnswer(c) \/ Close(c) \/ Stall(c)
        <5>1. PICK l \in {"idle", "closed", "stalled"} : client' = [client EXCEPT ![c].state = l]
          BY <4>3 DEF ReadAnswer, Close, Stall
        <5>2. [client[c] EXCEPT !.state = l] \in R /\ l # "new"
          BY <3>1 DEF ClientStates
        <5> QED BY <3>1, <5>1, <5>2
      <4> QED BY <1>3, <4>1, <4>2, <4>3 DEF Write
    <3> QED BY <3>1, <3>2
  <2>3. Types'
    BY <1>1, <2>1, <2>2 DEF SlotsInv, Types
  <2>4. Fresh' = Fresh
    BY <2>2, SocketAssumption DEF SlotsInv, Types, Fresh
  <2>5. Coming' = Coming
    BY <2>1, <2>4 DEF Coming
  <2>6. Open' = Open /\ Full' = Full /\ InHand' = InHand
    BY <1>1 DEF Open, Full, InHand
  <2>7. Counted'
    BY <2>3, <2>5, <2>6, CountedSame
  <2> QED BY <1>1, <2>3, <2>7, SlotsSame DEF SlotsInv
<1> QED BY <1>2, <1>3 DEF Calls

\* The acceptor ends, or takes a connection, for which there is a descriptor nobody uses.
LEMMA SlotsAccept == ASSUME SlotsInv, UNCHANGED setup, Accept PROVE SlotsInv'
<1>1. /\ ~setup.asio /\ acceptor.pc = "accept" /\ acceptor.fd = None
      /\ UNCHANGED <<client, slots, ready, handler, coroutine>>
  BY DEF SlotsInv, Accepting, Accept
<1>2. Fresh' = Fresh
  BY <1>1 DEF Fresh
<1>3. CASE acceptor' = [acceptor EXCEPT !.pc = "done"] /\ UNCHANGED <<backlog, file>>
  <2>1. Types' /\ acceptor'.pc = "done" /\ acceptor'.fd = None
    BY <1>1, <1>3 DEF SlotsInv, Types
  <2>2. Open' = Open /\ Full' = Full /\ InHand' = InHand /\ Coming' = Coming
    BY <1>1, <1>2, <1>3, <2>1 DEF Open, Full, InHand, Coming
  <2>3. Kinds' /\ Accepting' /\ Handling' /\ Distinct' /\ Seated'
    BY <1>1, <1>3, <2>1
       DEF SlotsInv, Kinds, Accepting, Handling, Distinct, Seated, Enough, Clearing
  <2> QED BY <2>1, <2>2, <2>3, CountedSame DEF SlotsInv
<1>4. CASE running /\ backlog # <<>> /\ ~(acceptor'.pc = "done")
  <2> DEFINE f == LowestFree
  <2>1. f \in Fd /\ file[f] = None /\ f # None
    BY <1>1, <1>4, FreeDescriptor, SocketAssumption DEF Fd
  <2>2. /\ file' = [file EXCEPT ![f] = Head(backlog)] /\ backlog' = Tail(backlog)
        /\ acceptor' = [pc |-> "assign", fd |-> f, i |-> 1]
    BY <1>1, <1>4 DEF Accept, SlotsInv, Types
  <2> HIDE DEF f
  <2>3. /\ Head(backlog) \in Client /\ Head(backlog) # None /\ backlog' \in Seq(Client)
        /\ Len(backlog') = Len(backlog) - 1
    BY <1>4, <2>2, SocketAssumption DEF SlotsInv, Types
  <2>4. 1 \in Slot
    BY SocketAssumption DEF Slot
  <2>5. Types'
    BY <1>1, <2>1, <2>2, <2>3, <2>4 DEF SlotsInv, Types
  <2>6. file'[f] # None /\ \A g \in Fd \ {f} : file'[g] = file[g]
    BY <2>1, <2>2, <2>3 DEF SlotsInv, Types
  <2>7. Kinds' /\ Accepting' /\ Handling'
    BY <1>1, <2>1, <2>2, <2>6 DEF SlotsInv, Kinds, Accepting, Handling
  <2>8. Distinct'
    BY <1>1, <2>1, <2>2, <2>6 DEF SlotsInv, Types, Distinct, Clearing
  <2>9. Seated'
    <3>1. acceptor'.fd = f /\ None \notin Fd
      BY <2>2, SocketAssumption DEF Fd
    <3>2. ASSUME Enough, NEW g \in Fd, g # f, file'[g] # None
          PROVE  \E i \in Slot : slots'[i] = g /\ ~Clearing(i)'
      BY <1>1, <2>6, <3>1, <3>2 DEF SlotsInv, Seated, Clearing
    <3>3. Enough' = Enough
      BY DEF Enough
    <3> QED BY <3>1, <3>2, <3>3 DEF Seated
  <2>10. Open' = Open \cup {f}
    BY <2>1, <2>6 DEF Open
  <2>11. Cardinality(Open)' <= Cardinality(Open) + 1
    BY <2>10, Finite, Count DEF SlotsInv, Sizes
  <2>12. Full' = Full
    BY <1>1, <2>2 DEF Full, Slot
  <2>13. InHand = 0 /\ InHand' = 1 /\ Coming' = Coming - 1
    BY <1>1, <1>2, <2>2, <2>3, Finite DEF SlotsInv, InHand, Coming, Sizes
  <2>14. Sizes /\ Sizes'
    <3>1. (Types => Sizes)'
      BY Finite, PTL
    <3> QED BY <2>5, <3>1, Finite DEF SlotsInv
  <2>15. /\ Cardinality(Open)' + Coming' <= Cardinality(Open) + Coming
         /\ Cardinality(Full)' + InHand' + Coming' <= Cardinality(Full) + InHand + Coming
    BY <2>11, <2>12, <2>13, <2>14 DEF Sizes
  <2> QED BY <2>5, <2>7, <2>8, <2>9, <2>15, CountedGoesOn DEF SlotsInv
<1> QED BY <1>1, <1>3, <1>4 DEF Accept, SlotsInv, Types

\* The acceptor puts the socket into a free slot, or passes one that is taken.  If it has
\* passed them all, more clients have come than there are slots.
LEMMA SlotsAssign == ASSUME SlotsInv, UNCHANGED setup, Assign PROVE SlotsInv'
<1> DEFINE k == acceptor.i fd == acceptor.fd
<1>1. /\ acceptor.pc = "assign" /\ k \in Slot /\ fd \in Fd /\ file[fd] # None /\ InHand = 1
      /\ ~setup.asio /\ UNCHANGED <<client, backlog, file, ready, handler, coroutine>>
  BY DEF SlotsInv, Types, Kinds, Accepting, InHand, Assign
<1>2. Fresh' = Fresh /\ Open' = Open /\ Coming' = Coming
  BY <1>1 DEF Fresh, Open, Coming
<1>3. None \notin Fd /\ 1 \in Slot
  BY SocketAssumption DEF Fd, Slot
<1>4. Enough' = Enough
  BY DEF Enough
<1>5. CASE Free(k) /\ slots' = [slots EXCEPT ![k] = fd]
           /\ acceptor' = [pc |-> "accept", fd |-> None, i |-> 1]
  <2>1. slots[k] = None /\ slots'[k] = fd /\ \A i \in Slot \ {k} : slots'[i] = slots[i]
    BY <1>1, <1>5 DEF SlotsInv, Types, Free
  <2>2. Types'
    BY <1>1, <1>3, <1>5 DEF SlotsInv, Types
  <2>3. Kinds' /\ Accepting'
    BY <1>1, <1>5 DEF SlotsInv, Kinds, Accepting
  <2>4. Handling'
    BY <1>1, <1>3, <2>1 DEF SlotsInv, Types, Handling
  <2>5. \A i \in Slot : Clearing(i)' = Clearing(i)
    BY <1>1 DEF Clearing
  <2>6. ~Clearing(k)
    BY <2>1 DEF SlotsInv, Clearing, Handling
  <2>7. Distinct'
    <3>1. ASSUME NEW i \in Slot, slots'[i] # None, ~Clearing(i)
          PROVE  /\ file'[slots'[i]] # None
                 /\ \A j \in Slot \ {i} : slots'[j] = slots'[i] => Clearing(j)
      <4>1. CASE i = k
        BY <1>1, <1>3, <2>1, <4>1 DEF SlotsInv, Distinct
      <4>2. CASE i # k
        BY <1>1, <2>1, <3>1, <4>2 DEF SlotsInv, Distinct
      <4> QED BY <4>1, <4>2
    <3>2. acceptor'.fd = None
      BY <1>5
    <3> QED BY <2>5, <3>1, <3>2 DEF Distinct
  <2>8. Seated'
    <3>1. ASSUME Enough, NEW f \in Fd, file[f] # None
          PROVE  \E i \in Slot : slots'[i] = f /\ ~Clearing(i)
      <4>1. CASE f = fd
        BY <1>1, <2>1, <2>6, <4>1
      <4>2. CASE f # fd
        <5>1. PICK i \in Slot : slots[i] = f /\ ~Clearing(i)
          BY <3>1, <4>2 DEF SlotsInv, Seated
        <5>2. i # k
          BY <1>3, <2>1, <5>1
        <5> QED BY <2>1, <5>1, <5>2
      <4> QED BY <4>1, <4>2
    <3> QED BY <1>1, <1>4, <2>5, <3>1 DEF Seated
  <2>9. Cardinality(Full)' <= Cardinality(Full) + 1
    <3>1. Full' \subseteq Full \cup {k}
      BY <1>5, <2>1 DEF Full
    <3>2. /\ IsFiniteSet(Full \cup {k}) /\ Cardinality(Full \cup {k}) <= Cardinality(Full) + 1
          /\ Cardinality(Full) \in Nat
      BY Finite, Count DEF SlotsInv, Sizes
    <3>3. Cardinality(Full)' <= Cardinality(Full \cup {k}) /\ Cardinality(Full \cup {k}) \in Nat
      BY <3>1, <3>2, Count
    <3>4. Cardinality(Full)' \in Nat
      BY <3>1, <3>2, Count
    <3> QED BY <3>2, <3>3, <3>4
  <2>10. InHand' = 0
    BY <1>5 DEF InHand
  <2>11. Sizes /\ Sizes'
    <3>1. (Types => Sizes)'
      BY Finite, PTL
    <3> QED BY <2>2, <3>1, Finite DEF SlotsInv
  <2>12. /\ Cardinality(Open)' + Coming' <= Cardinality(Open) + Coming
         /\ Cardinality(Full)' + InHand' + Coming' <= Cardinality(Full) + InHand + Coming
    BY <1>1, <1>2, <2>9, <2>10, <2>11 DEF Sizes
  <2> QED BY <2>2, <2>3, <2>4, <2>7, <2>8, <2>12, CountedGoesOn DEF SlotsInv
<1>6. CASE slots[k] # None /\ UNCHANGED slots /\ k < MaxClients
           /\ acceptor' = [acceptor EXCEPT !.i = k + 1]
  <2>1. k + 1 \in Slot /\ k \in Nat
    BY <1>1, <1>6, SocketAssumption DEF Slot
  <2>2. /\ acceptor'.pc = "assign" /\ acceptor'.fd = fd /\ acceptor'.i = k + 1
        /\ acceptor' \in [pc : {"accept", "assign", "done"}, fd : Fd \cup {None}, i : Slot]
    BY <1>1, <1>6, <2>1 DEF SlotsInv, Types
  <2>3. Types'
    BY <1>1, <1>6, <2>2 DEF SlotsInv, Types
  <2>4. Kinds' /\ Accepting' /\ Handling' /\ Distinct' /\ Seated'
    BY <1>1, <1>4, <1>6, <2>2
       DEF SlotsInv, Kinds, Accepting, Handling, Distinct, Seated, Clearing
  <2>5. Full' = Full
    <3>1. \A i \in Slot : i < k + 1 <=> i < k \/ i = k
      BY <1>1 DEF Slot
    <3> QED BY <1>1, <1>6, <2>2, <3>1 DEF Full
  <2>6. InHand' = InHand
    BY <1>1, <2>2 DEF InHand
  <2> QED BY <1>2, <2>3, <2>4, <2>5, <2>6, CountedSame DEF SlotsInv
<1>7. CASE slots[k] # None /\ UNCHANGED slots /\ k = MaxClients
           /\ acceptor' = [pc |-> "accept", fd |-> None, i |-> 1]
  <2>1. Types'
    BY <1>1, <1>3, <1>7 DEF SlotsInv, Types
  <2>2. Kinds' /\ Accepting' /\ Handling' /\ Distinct'
    BY <1>1, <1>7 DEF SlotsInv, Kinds, Accepting, Handling, Distinct, Clearing
  <2>3. Full = Slot
    <3>1. \A i \in Slot : i < MaxClients \/ i = MaxClients
      BY SocketAssumption DEF Slot
    <3> QED BY <1>1, <1>7, <3>1 DEF Full
  <2>4. Sizes /\ Sizes'
    <3>1. (Types => Sizes)'
      BY Finite, PTL
    <3> QED BY <2>1, <3>1, Finite DEF SlotsInv
  <2>5. MaxClients \in Nat /\ MaxClients < Cardinality(setup.clients)
    BY <1>1, <2>3, <2>4, SocketAssumption DEF SlotsInv, Counted, Sizes
  <2>6. Seated'
    BY <1>4, <2>4, <2>5 DEF Seated, Enough, Sizes
  <2>7. Full' \subseteq Full /\ InHand' = 0
    BY <1>7 DEF Full, InHand
  <2>8. Cardinality(Full)' <= Cardinality(Full)
    BY <2>4, <2>7, Count DEF Sizes
  <2>9. /\ Cardinality(Open)' + Coming' <= Cardinality(Open) + Coming
        /\ Cardinality(Full)' + InHand' + Coming' <= Cardinality(Full) + InHand + Coming
    BY <1>1, <1>2, <2>4, <2>7, <2>8 DEF Sizes
  <2> QED BY <2>1, <2>2, <2>6, <2>9, CountedGoesOn DEF SlotsInv
<1>8. k = MaxClients \/ k < MaxClients
  BY <1>1, SocketAssumption DEF Slot
<1> QED BY <1>1, <1>5, <1>6, <1>7, <1>8 DEF Assign, Free

\* After a slot the handler looks at the next one, or polls again.
LEMMA NextSlotIs ==
  ASSUME Types
  PROVE  LET h == NextSlot(handler) IN
         /\ h = [pc |-> h.pc, i |-> h.i, fd |-> h.fd, tx |-> h.tx] /\ h.i \in Slot /\ h.fd = None
         /\ h.pc = "poll" \/ (h.pc = "scan" /\ h.i = handler.i + 1)
<1>1. 1 \in Slot /\ handler.i \in Slot /\ MaxClients \in Nat
  BY SocketAssumption DEF Types, Slot
<1>2. CASE handler.i = MaxClients
  BY <1>1, <1>2 DEF NextSlot, LastSlot, Polling
<1>3. CASE handler.i # MaxClients
  <2>1. handler.i + 1 \in Slot
    BY <1>1, <1>3 DEF Slot
  <2> QED BY <1>3, <2>1 DEF NextSlot, LastSlot
<1> QED BY <1>2, <1>3

\* The handler polls, receives or sends: it only looks at the slots.
LEMMA SlotsLook == ASSUME SlotsInv, UNCHANGED setup, Poll \/ Recv \/ SendAnswer PROVE SlotsInv'
<1>1. /\ UNCHANGED <<client, backlog, file, slots, acceptor, coroutine>>
      /\ ~setup.asio /\ handler.pc \in {"poll", "scan", "send"}
  BY DEF SlotsInv, Types, Kinds, Poll, Recv, SendAnswer
<1>2. /\ ready' \subseteq Slot
      /\ handler'.pc \in {"poll", "scan", "close", "send", "done", "killed"}
      /\ handler'.i \in Slot /\ handler'.fd \in Fd \cup {None}
      /\ handler' = [pc |-> handler'.pc, i |-> handler'.i, fd |-> handler'.fd, tx |-> handler'.tx]
      /\ Handling'
  <2>1. CASE handler' = NextSlot(handler) /\ handler.pc \in {"scan", "send"} /\ UNCHANGED ready
    <3>1. \A i \in ready : i > handler.i => slots[i] # None
      BY <2>1 DEF SlotsInv, Handling
    <3>2. handler.i \in Int /\ ready \subseteq Int
      BY DEF SlotsInv, Types, Slot
    <3>3. handler'.pc = "scan" =>
            \A i \in ready : i > handler'.i \/ i = handler'.i => slots[i] # None
      BY <2>1, <3>1, <3>2, NextSlotIs DEF SlotsInv
    <3>4. handler'.pc \in {"poll", "scan"}
      BY <2>1, NextSlotIs DEF SlotsInv
    <3>5. Handling'
      BY <1>1, <2>1, <3>3, <3>4 DEF Handling
    <3> QED BY <2>1, <3>4, <3>5, NextSlotIs DEF SlotsInv, Types
  <2>2. CASE Poll
    <3>1. CASE handler' = [handler EXCEPT !.pc = "done"] /\ UNCHANGED ready
      BY <3>1 DEF SlotsInv, Types, Handling
    <3>2. CASE /\ handler' = [handler EXCEPT !.pc = "scan"]
               /\ ready' \subseteq {i \in Slot : slots[i] # None}
      BY <1>1, <3>2 DEF SlotsInv, Types, Handling
    <3> QED BY <2>2, <3>1, <3>2 DEF Poll
  <2>3. CASE Recv /\ handler' # NextSlot(handler)
    <3>1. PICK l \in {"close", "send"}, tx \in {handler'.tx} :
            handler' = [pc |-> l, i |-> handler.i, fd |-> slots[handler.i], tx |-> tx]
      <4>1. CASE handler' = [handler EXCEPT !.pc = "close", !.fd = slots[handler.i]]
        BY <4>1 DEF SlotsInv, Types
      <4>2. CASE handler' = [handler EXCEPT !.pc = "send", !.fd = slots[handler.i],
                               !.tx = Answer(file[slots[handler.i]], up[file[slots[handler.i]]])]
        BY <4>2 DEF SlotsInv, Types
      <4> QED BY <2>3, <4>1, <4>2 DEF Recv
    <3>2. handler.pc = "scan" /\ handler.i \in ready /\ UNCHANGED ready
      BY <2>3 DEF Recv
    <3>3. slots[handler.i] # None /\ \A i \in ready : i > handler.i => slots[i] # None
      BY <3>2 DEF SlotsInv, Handling
    <3>4. Handling'
      BY <1>1, <3>1, <3>2, <3>3 DEF Handling
    <3> QED BY <3>1, <3>2, <3>4 DEF SlotsInv, Types
  <2>4. CASE SendAnswer /\ handler' # NextSlot(handler)
    <3>1. /\ handler.pc = "send" /\ UNCHANGED ready
          /\ \/ \E n \in 1..Len(handler.tx) :
                  handler' = [handler EXCEPT !.tx = SubSeq(handler.tx, n + 1, Len(handler.tx))]
             \/ handler' = [handler EXCEPT !.pc = "killed"]
      BY <2>4 DEF SendAnswer
    <3>2. PICK l \in {"send", "killed"} :
            handler' = [pc |-> l, i |-> handler.i, fd |-> handler.fd, tx |-> handler'.tx]
      BY <3>1 DEF SlotsInv, Types
    <3>3. Handling'
      BY <1>1, <3>1, <3>2 DEF SlotsInv, Handling
    <3> QED BY <3>1, <3>2, <3>3 DEF SlotsInv, Types
  <2> QED BY <2>1, <2>2, <2>3, <2>4 DEF Poll, Recv, SendAnswer
<1>3. Types'
  BY <1>1, <1>2 DEF SlotsInv, Types
<1>4. Kinds' /\ Accepting'
  BY <1>1 DEF SlotsInv, Kinds, Accepting
<1>5. \A i \in Slot : ~Clearing(i) /\ ~Clearing(i)'
  BY <1>1, <1>2 DEF Clearing
<1>6. Distinct' /\ Seated'
  BY <1>1, <1>5 DEF SlotsInv, Distinct, Seated, Enough
<1>7. Fresh' = Fresh /\ Open' = Open /\ Full' = Full /\ InHand' = InHand /\ Coming' = Coming
  BY <1>1 DEF Fresh, Open, Full, InHand, Coming
<1> QED BY <1>2, <1>3, <1>4, <1>6, <1>7, CountedSame DEF SlotsInv

\* The handler closes a socket: its slot is the only one that names it.
LEMMA SlotsClose == ASSUME SlotsInv, UNCHANGED setup, CloseSocket PROVE SlotsInv'
<1> DEFINE k == handler.i fd == handler.fd
<1>1. /\ handler.pc = "close" /\ k \in Slot /\ slots[k] = fd /\ fd \in Fd /\ ~setup.asio
      /\ UNCHANGED <<client, backlog, slots, ready, acceptor, coroutine>>
  BY DEF SlotsInv, Types, Kinds, Handling, CloseSocket
<1>2. handler' = [pc |-> "clear", i |-> k, fd |-> fd, tx |-> handler.tx]
  BY DEF SlotsInv, Types, CloseSocket
<1>3. file'[fd] = None /\ \A f \in Fd \ {fd} : file'[f] = file[f]
  BY <1>1 DEF SlotsInv, Types, CloseSocket
<1>4. Types'
  BY <1>1, <1>2 DEF SlotsInv, Types, CloseSocket
<1>5. None \notin Fd
  BY SocketAssumption DEF Fd
<1>6. \A i \in Slot : ~Clearing(i) /\ (Clearing(i)' <=> i = k)
  BY <1>1, <1>2 DEF Clearing
<1>7. \A i \in Slot \ {k} : slots[i] # fd
  BY <1>1, <1>5, <1>6 DEF SlotsInv, Distinct
<1>8. acceptor.fd # fd
  BY <1>1, <1>5, <1>6 DEF SlotsInv, Distinct
<1>9. Kinds' /\ Accepting' /\ Handling'
  BY <1>1, <1>2, <1>3, <1>5, <1>8 DEF SlotsInv, Kinds, Accepting, Handling
<1>10. Distinct'
  BY <1>1, <1>3, <1>6, <1>7 DEF SlotsInv, Types, Distinct
<1>11. Seated'
  <2>1. ASSUME Enough, NEW f \in Fd, file'[f] # None
        PROVE  acceptor.fd = f \/ \E i \in Slot : slots[i] = f /\ i # k
    BY <1>1, <1>3, <2>1 DEF SlotsInv, Seated
  <2> QED BY <1>1, <1>6, <2>1 DEF Seated, Enough
<1>12. /\ Full' = Full /\ InHand' = InHand /\ Coming' = Coming /\ Open' \subseteq Open
  BY <1>1, <1>3 DEF Full, InHand, Coming, Fresh, Open
<1>13. Sizes /\ Sizes'
  <2>1. (Types => Sizes)'
    BY Finite, PTL
  <2> QED BY <1>4, <2>1, Finite DEF SlotsInv
<1>14. Cardinality(Open)' <= Cardinality(Open)
  BY <1>12, <1>13, Count DEF Sizes
<1>15. /\ Cardinality(Open)' + Coming' <= Cardinality(Open) + Coming
       /\ Cardinality(Full)' + InHand' + Coming' <= Cardinality(Full) + InHand + Coming
  BY <1>12, <1>13, <1>14 DEF Sizes
<1> QED BY <1>4, <1>9, <1>10, <1>11, <1>15, CountedGoesOn DEF SlotsInv

\* The handler frees the slot, whatever its descriptor has become by now.
LEMMA SlotsClear == ASSUME SlotsInv, UNCHANGED setup, ClearSlot PROVE SlotsInv'
<1> DEFINE k == handler.i
<1>1. /\ handler.pc = "clear" /\ k \in Slot /\ ~setup.asio
      /\ UNCHANGED <<client, backlog, file, ready, acceptor, coroutine>>
  BY DEF SlotsInv, Types, Kinds, ClearSlot
<1>2. /\ slots' = [slots EXCEPT ![k] = None] /\ handler' = NextSlot(handler)
      /\ slots'[k] = None /\ \A i \in Slot \ {k} : slots'[i] = slots[i]
  BY <1>1 DEF SlotsInv, Types, ClearSlot, Cleared
<1>3. handler'.pc = "poll" \/ (handler'.pc = "scan" /\ handler'.i = k + 1)
  BY <1>2, NextSlotIs DEF SlotsInv
<1>4. Types'
  BY <1>1, <1>2, <1>3, NextSlotIs DEF SlotsInv, Types
<1>5. Handling'
  <2>1. k \in Int /\ ready \subseteq Slot /\ Slot \subseteq Int
    BY <1>1 DEF SlotsInv, Types, Slot
  <2>2. \A i \in ready : i > k => slots'[i] # None
    BY <1>1, <1>2, <2>1 DEF SlotsInv, Handling
  <2>3. \A i \in ready : i > k + 1 \/ i = k + 1 => i > k
    BY <2>1
  <2> QED BY <1>1, <1>3, <2>2, <2>3 DEF Handling
<1>6. \A i \in Slot : ~Clearing(i)' /\ (Clearing(i) <=> i = k)
  BY <1>1, <1>3 DEF Clearing
<1>7. Kinds' /\ Accepting'
  BY <1>1 DEF SlotsInv, Kinds, Accepting
<1>8. Distinct'
  BY <1>1, <1>2, <1>6 DEF SlotsInv, Distinct
<1>9. Seated'
  BY <1>1, <1>2, <1>6 DEF SlotsInv, Seated, Enough
<1>10. Full' \subseteq Full /\ InHand' = InHand /\ Coming' = Coming /\ Open' = Open
  BY <1>1, <1>2 DEF Full, InHand, Coming, Fresh, Open
<1>11. Sizes /\ Sizes'
  <2>1. (Types => Sizes)'
    BY Finite, PTL
  <2> QED BY <1>4, <2>1, Finite DEF SlotsInv
<1>12. Cardinality(Full)' <= Cardinality(Full)
  BY <1>10, <1>11, Count DEF Sizes
<1>13. /\ Cardinality(Open)' + Coming' <= Cardinality(Open) + Coming
       /\ Cardinality(Full)' + InHand' + Coming' <= Cardinality(Full) + InHand + Coming
  BY <1>10, <1>11, <1>12 DEF Sizes
<1> QED BY <1>4, <1>5, <1>7, <1>8, <1>9, <1>13, CountedGoesOn DEF SlotsInv

\* asio has no slots.
LEMMA SlotsAsync == ASSUME SlotsInv, UNCHANGED setup, Async PROVE SlotsInv'
<1>1. setup.asio /\ UNCHANGED <<client, slots, ready, acceptor, handler>>
  <2>1. CASE AcceptAsync
    BY <2>1 DEF AcceptAsync
  <2>2. ASSUME NEW c \in Client, ReadAsync(c) \/ WriteAsync(c)
        PROVE  setup.asio /\ UNCHANGED <<client, slots, ready, acceptor, handler>>
    <3>1. coroutine[c] # None /\ UNCHANGED <<client, slots, ready, acceptor, handler>>
      <4>1. <<>> # None
        BY SocketAssumption
      <4> QED BY <2>2, <4>1 DEF ReadAsync, WriteAsync
    <3> QED BY <3>1 DEF SlotsInv, Kinds
  <2> QED BY <2>1, <2>2 DEF Async
<1>2. file' \in [Fd -> Client \cup {None}] /\ backlog' \in Seq(Client)
  <2>1. CASE AcceptAsync
    <3>1. Head(backlog) \in Client /\ Tail(backlog) \in Seq(Client)
      BY <2>1 DEF SlotsInv, Types, AcceptAsync
    <3> QED BY <2>1, <3>1 DEF SlotsInv, Types, AcceptAsync
  <2>2. CASE \E c \in Client : ReadAsync(c) \/ WriteAsync(c)
    BY <2>2 DEF SlotsInv, Types, ReadAsync, WriteAsync, Gone
  <2> QED BY <2>1, <2>2 DEF Async
<1>3. Types'
  BY <1>1, <1>2 DEF SlotsInv, Types
<1>4. Kinds' /\ Accepting' /\ Handling' /\ Distinct' /\ Seated' /\ Counted'
  BY <1>1 DEF SlotsInv, Kinds, Accepting, Handling, Distinct, Seated, Enough, Counted
<1> QED BY <1>3, <1>4 DEF SlotsInv

\* No step of the acceptor, the handler, the coroutines, the clients or the destructor
\* breaks the invariant.
LEMMA SlotsNext == SlotsInv /\ [Next]_vars => SlotsInv'
<1> SUFFICES ASSUME SlotsInv, [Next]_vars PROVE SlotsInv'
  OBVIOUS
<1>1. UNCHANGED setup
  BY DEF Next, vars
<1>2. CASE UNCHANGED <<client, backlog, file, slots, ready, acceptor, handler, coroutine>>
  <2>1. Types'
    BY <1>1, <1>2 DEF SlotsInv, Types
  <2>2. Coming' = Coming /\ Open' = Open /\ Full' = Full /\ InHand' = InHand
    BY <1>1, <1>2 DEF Coming, Fresh, Open, Full, InHand
  <2> QED BY <1>1, <1>2, <2>1, <2>2, SlotsSame, CountedSame DEF SlotsInv
<1>3. CASE Accept
  BY <1>1, <1>3, SlotsAccept
<1>4. CASE Assign
  BY <1>1, <1>4, SlotsAssign
<1>5. CASE Poll \/ Recv \/ SendAnswer
  BY <1>1, <1>5, SlotsLook
<1>6. CASE CloseSocket
  BY <1>1, <1>6, SlotsClose
<1>7. CASE ClearSlot
  BY <1>1, <1>7, SlotsClear
<1>8. CASE Async
  BY <1>1, <1>8, SlotsAsync
<1>9. CASE Stop
  BY <1>2, <1>9 DEF Stop
<1>10. ASSUME NEW c \in Client, Calls(c) \/ Close(c) \/ Stall(c) PROVE SlotsInv'
  BY <1>1, <1>10, SlotsClient
<1> QED BY <1>2, <1>3, <1>4, <1>5, <1>6, <1>7, <1>8, <1>9, <1>10
        DEF Next, vars, Acceptor, Handler

-----------------------------------------------------------------------------
(* The theorem.                                                            *)

\* For any number of slots and clients: no open socket is in two slots and each slot names an
\* open one, but for the slot whose socket the handler has just closed, and while there are
\* as many slots as clients no connection is forgotten, although the acceptor and the handler
\* write the slots without a lock and the kernel gives closed descriptors out again.
THEOREM SlotsAlwaysSound == Spec => []ServerSound
<1>1. SlotsInv => ServerSound
  <2> SUFFICES ASSUME SlotsInv PROVE ServerSound
    OBVIOUS
  <2>1. TypeOK
    BY DEF SlotsInv, Types, TypeOK
  <2>2. SlotsSound
    BY DEF SlotsInv, Distinct, Seated, Enough, SlotsSound
  <2> QED BY <2>1, <2>2 DEF ServerSound
<1> QED BY <1>1, SlotsInit, SlotsNext, PTL DEF Spec

-----------------------------------------------------------------------------
(* The answers.  What a client has sent is taken, piece after piece, or is *)
(* still on its way; what the handler or a coroutine writes, and all that  *)
(* a client receives, is for that client.                                  *)

Piece == Nat \X Nat
Answered == Client \X Seq(Piece) \X Nat

DataTypes ==
  /\ up \in [Client -> Seq(Piece)] /\ taken \in [Client -> Seq(Piece)]
  /\ down \in [Client -> Seq(Answered)] /\ results \in [Client -> Seq(Seq(Answered))]
  /\ handler.tx \in Seq(Answered) /\ coroutine \in [Client -> Seq(Answered) \cup {None}]

\* A call is begun after all pieces of the last one's request were sent.
Begun(c) ==
  /\ client[c].state = "new" => client[c].call = 0
  /\ client[c].state \in {"new", "idle"} => client[c].sent = IF client[c].call = 0 THEN 0 ELSE setup.pieces
  /\ client[c].state = "writing" => client[c].sent < setup.pieces
  /\ client[c].state = "reading" => client[c].sent = setup.pieces
  /\ client[c].state \in {"writing", "reading"} => client[c].call > 0 /\ client[c].sent > 0

\* What was taken and what is on its way are the pieces sent, in their order; only of
\* a client that has closed something may have been thrown away.
All(c) == taken[c] \o up[c]
Ordered(c) ==
  /\ Consecutive(All(c)) /\ \A j \in DOMAIN All(c) : WasSent(c, All(c)[j])
  /\ ~Closed(c) => /\ All(c) = <<>> => client[c].call = 0
                   /\ All(c) # <<>> => All(c)[Len(All(c))] = <<client[c].call, client[c].sent>>
  /\ c \in failing \/ c \in reset => Closed(c)

\* Answers are for the client they are sent to.
For(c, s) == \A j \in DOMAIN s : s[j][1] = c
Home(c) ==
  /\ For(c, down[c]) /\ \A k \in DOMAIN results[c] : For(c, results[c][k])
  /\ coroutine[c] # None => For(c, coroutine[c])
  /\ handler.pc = "send" /\ file[handler.fd] = c => For(c, handler.tx)

\* Who waits to be accepted does so once, and has no coroutine yet.
Queued ==
  /\ \A i, j \in DOMAIN backlog : backlog[i] = backlog[j] => i = j
  /\ \A i \in DOMAIN backlog : client[backlog[i]].state # "new" /\ coroutine[backlog[i]] = None
  /\ \A c \in Client : client[c].state = "new" => coroutine[c] = None

\* With messages of one piece: while a client waits for its answer the call is at one
\* place, and otherwise at none.
Asked(c) == Answer(c, Request(client[c].call))
Serving(c) == handler.pc = "send" /\ file[handler.fd] = c
Writing(c) == coroutine[c] # None /\ coroutine[c] # <<>>
Nowhere(c) == up[c] = <<>> /\ down[c] = <<>> /\ ~Serving(c) /\ ~Writing(c)
OnePlace(c) ==
  \/ up[c] = Request(client[c].call) /\ down[c] = <<>> /\ ~Serving(c) /\ ~Writing(c)
  \/ up[c] = <<>> /\ down[c] = <<>> /\ Serving(c) /\ ~Writing(c) /\ handler.tx = Asked(c)
  \/ up[c] = <<>> /\ down[c] = <<>> /\ ~Serving(c) /\ Writing(c) /\ coroutine[c] = Asked(c)
  \/ up[c] = <<>> /\ down[c] = Asked(c) /\ ~Serving(c) /\ ~Writing(c)
Turn(c) ==
  setup.pieces = 1 =>
    /\ \A k \in DOMAIN results[c] : results[c][k] = Answer(c, Request(k))
    /\ ~Closed(c) => /\ client[c].state # "writing"
                     /\ client[c].state \in {"new", "idle"} => Nowhere(c) /\ Len(results[c]) = client[c].call
                     /\ client[c].state = "reading" => OnePlace(c) /\ Len(results[c]) + 1 = client[c].call

Talk(c) == Begun(c) /\ Ordered(c) /\ Home(c) /\ Turn(c)
AnswersInv == SlotsInv /\ DataTypes /\ Queued /\ \A c \in Client : Talk(c)

-----------------------------------------------------------------------------
(* Sequences.                                                              *)

\* A sequence with an element more.
LEMMA AppendOf ==
  ASSUME NEW S, NEW s \in Seq(S), NEW x \in S
  PROVE  /\ DOMAIN s = 1..Len(s) /\ Len(s) \in Nat /\ Append(s, x) \in Seq(S)
         /\ DOMAIN Append(s, x) = 1..(Len(s) + 1) /\ Len(Append(s, x)) = Len(s) + 1
         /\ Append(s, x)[Len(s) + 1] = x /\ Append(s, x) # <<>>
         /\ \A i \in 1..Len(s) : Append(s, x)[i] = s[i]
OBVIOUS

\* A part of a sequence has elements of it.
LEMMA PartOf ==
  \A S : \A s \in Seq(S) : \A m \in 1..(Len(s) + 1), n \in 0..Len(s) :
    /\ SubSeq(s, m, n) \in Seq(S)
    /\ \A i \in DOMAIN SubSeq(s, m, n) : \E j \in DOMAIN s : SubSeq(s, m, n)[i] = s[j]
<1> SUFFICES ASSUME NEW S, NEW s \in Seq(S), NEW m \in 1..(Len(s) + 1), NEW n \in 0..Len(s)
             PROVE  /\ SubSeq(s, m, n) \in Seq(S)
                    /\ \A i \in DOMAIN SubSeq(s, m, n) : \E j \in DOMAIN s : SubSeq(s, m, n)[i] = s[j]
  BY Zenon
<1>1. SubSeq(s, m, n) \in Seq(S)
  OBVIOUS
<1>2. ASSUME NEW i \in DOMAIN SubSeq(s, m, n) PROVE i + m - 1 \in DOMAIN s /\ SubSeq(s, m, n)[i] = s[i + m - 1]
  OBVIOUS
<1> QED BY <1>1, <1>2

\* Two sequences, one after the other.
LEMMA JoinOf ==
  ASSUME NEW S, NEW s \in Seq(S), NEW t \in Seq(S)
  PROVE  /\ DOMAIN s = 1..Len(s) /\ Len(s) \in Nat /\ Len(t) \in Nat
         /\ DOMAIN (s \o t) = 1..(Len(s) + Len(t))
         /\ s \o t \in Seq(S) /\ Len(s \o t) = Len(s) + Len(t) /\ s \o <<>> = s /\ <<>> \o t = t
         /\ \A i \in DOMAIN s : /\ i \in DOMAIN (s \o t) /\ (s \o t)[i] = s[i]
                               /\ i # 1 => i - 1 \in DOMAIN s
         /\ \A i \in DOMAIN (s \o t) : (\E j \in DOMAIN s : (s \o t)[i] = s[j]) \/ (\E j \in DOMAIN t : (s \o t)[i] = t[j])
         /\ \A x \in S : s \o Append(t, x) = Append(s \o t, x)
<1>1. s \o t \in Seq(S) /\ Len(s \o t) = Len(s) + Len(t)
  OBVIOUS
<1>2. s \o <<>> = s /\ <<>> \o t = t
  OBVIOUS
<1>3. \A i \in DOMAIN s : i \in DOMAIN (s \o t) /\ (s \o t)[i] = s[i] /\ (i # 1 => i - 1 \in DOMAIN s)
  OBVIOUS
<1>4. ASSUME NEW i \in DOMAIN (s \o t)
      PROVE (\E j \in DOMAIN s : (s \o t)[i] = s[j]) \/ (\E j \in DOMAIN t : (s \o t)[i] = t[j])
  <2>1. CASE i \in 1..Len(s)
    BY <2>1
  <2>2. CASE i \notin 1..Len(s)
    <3>1. i - Len(s) \in DOMAIN t /\ (s \o t)[i] = t[i - Len(s)]
      BY <2>2
    <3> QED BY <3>1
  <2> QED BY <2>1, <2>2
<1>5. ASSUME NEW x \in S PROVE s \o Append(t, x) = Append(s \o t, x)
  OBVIOUS
<1>6. DOMAIN s = 1..Len(s) /\ Len(s) \in Nat /\ Len(t) \in Nat /\ DOMAIN (s \o t) = 1..(Len(s) + Len(t))
  OBVIOUS
<1> QED BY <1>1, <1>2, <1>3, <1>4, <1>5, <1>6

\* A request and an answer of one piece.
LEMMA OnePiece ==
  ASSUME setup.pieces = 1
  PROVE  /\ \A n : Request(n) = <<<<n, 1>>>>
         /\ \A c, p : Answer(c, p) = <<<<c, p, 1>>>>
BY DEF Request, Answer

-----------------------------------------------------------------------------
(* The steps.                                                              *)

\* At first nothing is sent.
LEMMA AnswersInit == Init => AnswersInv
<1> SUFFICES ASSUME Init PROVE AnswersInv
  OBVIOUS
<1>1. SlotsInv
  BY SlotsInit
<1>2. <<>> \in Seq(Piece) /\ <<>> \in Seq(Answered) /\ <<>> \in Seq(Seq(Answered)) /\ <<>> \o <<>> = <<>>
      /\ DOMAIN <<>> = {}
  OBVIOUS
<1>3. DataTypes /\ Queued
  BY <1>2 DEF Init, DataTypes, Queued
<1>4. ASSUME NEW c \in Client PROVE Talk(c)
  <2>1. Begun(c) /\ Home(c)
    BY <1>2 DEF Init, Begun, Home, For
  <2>2. Ordered(c)
    BY <1>2 DEF Init, Ordered, All, Consecutive, Closed
  <2>3. Turn(c)
    BY <1>2 DEF Init, Turn, Nowhere, Serving, Writing, Closed
  <2> QED BY <2>1, <2>2, <2>3 DEF Talk
<1> QED BY <1>1, <1>3, <1>4 DEF AnswersInv

\* What does not touch a client and its data keeps what is said of it.
LEMMA TalkSame ==
  ASSUME NEW c \in Client, Talk(c), UNCHANGED setup,
         client'[c] = client[c], up'[c] = up[c], taken'[c] = taken[c], down'[c] = down[c],
         results'[c] = results[c], coroutine'[c] \in {coroutine[c], None, <<>>}, 
         Writing(c)' = Writing(c), c \in failing' \/ c \in reset' => c \in failing \/ c \in reset \/ Closed(c),
         Serving(c)' => Serving(c) /\ handler'.tx = handler.tx, Serving(c) => Serving(c)'
  PROVE  Talk(c)'
<1>1. Begun(c)'
  BY DEF Talk, Begun
<1>2. Ordered(c)'
  BY DEF Talk, Ordered, All, Consecutive, After, WasSent, Closed
<1>3. Home(c)'
  <2>1. DOMAIN <<>> = {}
    OBVIOUS
  <2>2. coroutine'[c] # None => For(c, coroutine'[c])
    BY <2>1 DEF Talk, Home, For
  <2>3. Serving(c)' => For(c, handler'.tx)
    BY DEF Talk, Home, Serving
  <2> QED BY <2>2, <2>3 DEF Talk, Home, Serving, For
<1>4. Turn(c)'
  <2> SUFFICES ASSUME setup.pieces = 1 PROVE Turn(c)'
    BY DEF Turn
  <2>1. Asked(c)' = Asked(c) /\ \A n : Request(n)' = Request(n) /\ Answer(c, Request(n))' = Answer(c, Request(n))
    BY DEF Asked, Answer, Request
  <2>2. Closed(c)' = Closed(c) /\ (Nowhere(c) => Nowhere(c)')
    BY DEF Closed, Nowhere
  <2>3. Writing(c)' => coroutine'[c] = coroutine[c]
    BY DEF Writing
  <2>4. OnePlace(c) => OnePlace(c)'
    BY <2>1, <2>3 DEF OnePlace
  <2> QED BY <2>1, <2>2, <2>4 DEF Talk, Turn
<1> QED BY <1>1, <1>2, <1>3, <1>4 DEF Talk

\* A client connects.
LEMMA AnswersConnect ==
  ASSUME AnswersInv, SlotsInv', UNCHANGED setup, NEW c \in Client, Connect(c) PROVE AnswersInv'
<1>1. /\ client' = [client EXCEPT ![c].state = "idle"] /\ client[c].state = "new"
      /\ backlog' = Append(backlog, c) /\ backlog \in Seq(Client)
      /\ UNCHANGED <<up, down, reset, failing, file, handler, coroutine, taken, results>>
  BY DEF AnswersInv, SlotsInv, Types, Connect, net
<1>2. /\ client'[c].state = "idle" /\ client'[c].call = client[c].call /\ client'[c].sent = client[c].sent
      /\ \A d \in Client : d # c => client'[d] = client[d]
  BY <1>1 DEF AnswersInv, SlotsInv, Types
<1>3. DataTypes'
  BY <1>1 DEF AnswersInv, DataTypes
<1>4. Queued'
  <2>1. /\ \A i \in DOMAIN backlog' : (i \in DOMAIN backlog /\ backlog'[i] = backlog[i])
                                      \/ (i = Len(backlog) + 1 /\ backlog'[i] = c)
        /\ \A i \in DOMAIN backlog : backlog[i] # c /\ backlog[i] \in Client
    BY <1>1, AppendOf DEF AnswersInv, Queued
  <2>2. \A i, j \in DOMAIN backlog' : backlog'[i] = backlog'[j] => i = j
    BY <2>1 DEF AnswersInv, Queued
  <2>3. coroutine[c] = None
    BY <1>1 DEF AnswersInv, Queued
  <2> QED BY <1>1, <1>2, <2>1, <2>2, <2>3 DEF AnswersInv, Queued
<1>5. ASSUME NEW d \in Client PROVE Talk(d)'
  <2>1. CASE d # c
    BY <1>1, <1>2, <2>1, TalkSame DEF AnswersInv, Serving, Writing
  <2>2. CASE d = c
    <3>1. Begun(c)'
      BY <1>1, <1>2 DEF AnswersInv, Talk, Begun
    <3>2. Ordered(c)'
      BY <1>1, <1>2 DEF AnswersInv, Talk, Ordered, All, Consecutive, After, WasSent, Closed
    <3>3. Home(c)'
      BY <1>1 DEF AnswersInv, Talk, Home, For
    <3>4. Turn(c)'
      BY <1>1, <1>2 DEF AnswersInv, Talk, Turn, Nowhere, Serving, Writing, Closed, Answer, Request
    <3> QED BY <2>2, <3>1, <3>2, <3>3, <3>4 DEF Talk
  <2> QED BY <2>1, <2>2
<1> QED BY <1>3, <1>4, <1>5 DEF AnswersInv

\* A client writes the next piece of its request.
LEMMA AnswersWrite ==
  ASSUME AnswersInv, SlotsInv', UNCHANGED setup, NEW c \in Client, Write(c) PROVE AnswersInv'
<1> DEFINE x == <<client'[c].call, client'[c].sent>>
<1>1. /\ up' = [up EXCEPT ![c] = Append(@, x)] /\ up \in [Client -> Seq(Piece)]
      /\ taken \in [Client -> Seq(Piece)]
      /\ UNCHANGED <<down, reset, failing, backlog, file, handler, coroutine, taken, results>>
  BY DEF AnswersInv, DataTypes, Write, server
<1>2. /\ client[c].call \in Nat /\ client[c].sent \in Nat /\ setup.pieces \in Nat \ {0}
      /\ client'[c].call \in Nat /\ client'[c].sent \in Nat
      /\ \A d \in Client : d # c => client'[d] = client[d]
  BY SocketAssumption DEF AnswersInv, SlotsInv, Types, Write
<1>3. \/ /\ client[c].state = "idle" /\ client'[c].call = client[c].call + 1 /\ client'[c].sent = 1
         /\ client'[c].state = IF setup.pieces = 1 THEN "reading" ELSE "writing"
      \/ /\ client[c].state = "writing" /\ client'[c].call = client[c].call /\ client'[c].sent = client[c].sent + 1
         /\ client'[c].state = IF client[c].sent + 1 = setup.pieces THEN "reading" ELSE "writing"
  BY DEF AnswersInv, SlotsInv, Types, Write
<1>4. x \in Piece /\ up'[c] = Append(up[c], x) /\ \A d \in Client : d # c => up'[d] = up[d]
  BY <1>1, <1>2 DEF Piece
<1>5. DataTypes'
  BY <1>1, <1>4 DEF AnswersInv, DataTypes
<1>6. Queued'
  <2>1. \A i \in DOMAIN backlog : backlog[i] \in Client
    BY DEF AnswersInv, SlotsInv, Types
  <2>2. client'[c].state # "new"
    BY <1>3
  <2> QED BY <1>1, <1>2, <2>1, <2>2 DEF AnswersInv, Queued
<1>7. ASSUME NEW d \in Client, d # c PROVE Talk(d)'
  BY <1>1, <1>2, <1>4, <1>7, TalkSame DEF AnswersInv, Serving, Writing
<1>8. Begun(c)'
  BY <1>2, <1>3 DEF AnswersInv, Talk, Begun
<1>9. Home(c)'
  BY <1>1 DEF AnswersInv, Talk, Home, For
<1>10. Ordered(c)'
  <2> DEFINE s == All(c)
  <2>1. s \in Seq(Piece) /\ All(c)' = Append(s, x)
    BY <1>1, <1>4, JoinOf DEF All
  <2>2. Begun(c) /\ Ordered(c) /\ ~Closed(c) /\ ~Closed(c)' /\ c \notin failing' /\ c \notin reset'
    BY <1>1, <1>3 DEF AnswersInv, Talk, Ordered, Closed
  <2>3. /\ s = <<>> => client[c].call = 0
        /\ s # <<>> => s[Len(s)] = <<client[c].call, client[c].sent>>
    BY <2>2 DEF Ordered
  <2>4. /\ \A j \in DOMAIN s : s[j] = IF j = 1 THEN <<1, 1>> ELSE After(s[j - 1])
        /\ \A j \in DOMAIN s : WasSent(c, s[j])
    BY <2>2 DEF Ordered, Consecutive
  <2>5. s = <<>> => x = <<1, 1>>
    BY <1>2, <1>3, <2>2, <2>3 DEF Begun
  <2>6. s # <<>> => x = After(s[Len(s)])
    <3>1. CASE client[c].state = "idle" /\ client[c].call = 0
      <4>1. ASSUME s # <<>> PROVE FALSE
        <5>1. Len(s) \in DOMAIN s /\ s[Len(s)] = <<client[c].call, client[c].sent>>
          BY <2>1, <2>3, <4>1
        <5>2. s[1] = <<1, 1>> /\ 1 \in DOMAIN s /\ WasSent(c, s[1])
          BY <2>1, <2>4, <4>1
        <5> QED BY <2>2, <3>1, <5>2 DEF WasSent, Begun
      <4> QED BY <4>1
    <3>2. CASE client[c].state = "idle" /\ client[c].call # 0
      <4>1. client[c].sent = setup.pieces
        BY <2>2, <3>2 DEF Begun
      <4> QED BY <1>2, <1>3, <2>3, <3>2, <4>1 DEF After
    <3>3. CASE client[c].state = "writing"
      <4>1. client[c].sent < setup.pieces
        BY <2>2, <3>3 DEF Begun
      <4> QED BY <1>2, <1>3, <2>3, <3>3, <4>1 DEF After
    <3> QED BY <1>3, <3>1, <3>2, <3>3
  <2> HIDE DEF s, x
  <2>7. /\ DOMAIN s = 1..Len(s) /\ Len(s) \in Nat /\ Append(s, x) # <<>>
        /\ DOMAIN Append(s, x) = 1..(Len(s) + 1) /\ Len(Append(s, x)) = Len(s) + 1
        /\ Append(s, x)[Len(s) + 1] = x /\ \A i \in 1..Len(s) : Append(s, x)[i] = s[i]
    BY <1>4, <2>1, AppendOf
  <2>8. \A j \in 1..(Len(s) + 1) :
          Append(s, x)[j] = IF j = 1 THEN <<1, 1>> ELSE After(Append(s, x)[j - 1])
    <3> SUFFICES ASSUME NEW j \in 1..(Len(s) + 1)
                 PROVE  Append(s, x)[j] = IF j = 1 THEN <<1, 1>> ELSE After(Append(s, x)[j - 1])
      OBVIOUS
    <3>1. CASE j <= Len(s)
      <4>1. j \in 1..Len(s) /\ (j # 1 => j - 1 \in 1..Len(s))
        BY <2>7, <3>1
      <4> QED BY <2>4, <2>7, <4>1
    <3>2. CASE j = Len(s) + 1 /\ Len(s) = 0
      <4>1. s = <<>>
        BY <2>1, <3>2
      <4> QED BY <2>5, <2>7, <3>2, <4>1
    <3>3. CASE j = Len(s) + 1 /\ Len(s) # 0
      <4>1. j - 1 = Len(s) /\ Len(s) \in 1..Len(s) /\ j # 1
        BY <2>7, <3>3
      <4>2. s # <<>>
        BY <2>1, <3>3
      <4> QED BY <2>6, <2>7, <3>3, <4>1, <4>2
    <3> QED BY <2>7, <3>1, <3>2, <3>3
  <2>9. \A j \in 1..(Len(s) + 1) : \/ Append(s, x)[j][1] < client'[c].call
                                   \/ Append(s, x)[j][1] = client'[c].call /\ Append(s, x)[j][2] <= client'[c].sent
    <3> SUFFICES ASSUME NEW y \in Piece, WasSent(c, y) \/ y = x
                 PROVE  y[1] < client'[c].call \/ (y[1] = client'[c].call /\ y[2] <= client'[c].sent)
      <4>1. \A j \in 1..(Len(s) + 1) : j \in 1..Len(s) \/ j = Len(s) + 1
        BY <2>7
      <4>2. \A j \in 1..Len(s) : s[j] \in Piece
        BY <2>1
      <4> QED BY <1>4, <2>4, <2>7, <4>1, <4>2
    <3>1. y[1] \in Nat /\ y[2] \in Nat
      BY DEF Piece
    <3>2. CASE y = x
      BY <1>2, <3>2 DEF x
    <3>3. CASE WasSent(c, y)
      BY <1>2, <1>3, <3>1, <3>3 DEF WasSent
    <3> QED BY <3>2, <3>3
  <2>10. Consecutive(All(c))'
    BY <2>1, <2>7, <2>8 DEF Consecutive, After
  <2>11. \A j \in DOMAIN All(c)' : WasSent(c, All(c)[j])'
    BY <2>1, <2>7, <2>9 DEF WasSent
  <2>12. All(c)' # <<>> /\ All(c)'[Len(All(c)')] = <<client'[c].call, client'[c].sent>>
    BY <2>1, <2>7 DEF x
  <2> QED BY <2>2, <2>10, <2>11, <2>12 DEF Ordered
<1>11. Turn(c)'
  <2> SUFFICES ASSUME setup.pieces = 1 PROVE Turn(c)'
    BY DEF Turn
  <2>1. /\ client[c].state = "idle" /\ client'[c].state = "reading"
        /\ client'[c].call = client[c].call + 1 /\ client'[c].sent = 1
    BY <1>3 DEF AnswersInv, Talk, Turn, Closed
  <2>2. Nowhere(c) /\ Len(results[c]) = client[c].call
    BY <2>1 DEF AnswersInv, Talk, Turn, Closed
  <2>3. up'[c] = <<<<client'[c].call, 1>>>>
    BY <1>4, <2>1, <2>2 DEF Nowhere
  <2>4. OnePlace(c)'
    BY <1>1, <2>2, <2>3, OnePiece DEF OnePlace, Nowhere, Serving, Writing, Request
  <2>5. \A k \in DOMAIN results[c] : results[c][k] = Answer(c, Request(k))'
    BY DEF AnswersInv, Talk, Turn, Answer, Request
  <2> QED BY <1>1, <1>2, <2>1, <2>2, <2>4, <2>5 DEF Turn, Closed
<1> QED BY <1>5, <1>6, <1>7, <1>8, <1>9, <1>10, <1>11 DEF AnswersInv, Talk

\* An answer is for the client it is made for.
LEMMA AnswerFor ==
  ASSUME Types, NEW c \in Client, NEW s \in Seq(Piece)
  PROVE  Answer(c, s) \in Seq(Answered) /\ For(c, Answer(c, s)) /\ Answer(c, s) # <<>>
<1>1. setup.pieces \in Nat \ {0}
  BY SocketAssumption DEF Types
<1>2. Answer(c, s) \in Seq(Answered)
  BY <1>1 DEF Answer, Answered
<1> QED BY <1>1, <1>2 DEF Answer, For

\* Of a connection that failed what is unread is thrown away: its client has closed.
LEMMA ResetTalk ==
  ASSUME NEW c \in Client, Talk(c), DataTypes, Closed(c),
         UNCHANGED <<setup, client, down, results, taken>>, coroutine'[c] \in {coroutine[c], None},
         up'[c] = <<>>, Serving(c)' => Serving(c) /\ handler'.tx = handler.tx
  PROVE  Talk(c)'
<1>1. Closed(c)'
  BY DEF Closed
<1>2. Begun(c)'
  BY DEF Talk, Begun
<1>3. Ordered(c)'
  <2> DEFINE s == taken[c] \o up[c]
  <2>1. taken[c] \in Seq(Piece) /\ up[c] \in Seq(Piece) /\ s \in Seq(Piece)
    BY JoinOf DEF DataTypes
  <2>2. All(c)' = taken[c]
    BY <2>1, JoinOf DEF All
  <2>3. \A j \in DOMAIN taken[c] : j \in DOMAIN s /\ s[j] = taken[c][j] /\ (j # 1 => j - 1 \in DOMAIN taken[c])
    <3> DEFINE a == taken[c]
               b == up[c]
    <3>1. a \in Seq(Piece) /\ b \in Seq(Piece)
      BY <2>1
    <3> HIDE DEF a, b
    <3>2. \A j \in DOMAIN a : j \in DOMAIN (a \o b) /\ (a \o b)[j] = a[j] /\ (j # 1 => j - 1 \in DOMAIN a)
      BY <3>1, JoinOf
    <3> QED BY <3>2 DEF a, b
  <2>4. Consecutive(s) /\ \A j \in DOMAIN s : WasSent(c, s[j])
    BY DEF Talk, Ordered, All
  <2> HIDE DEF s
  <2>5. Consecutive(taken[c]) /\ \A j \in DOMAIN taken[c] : WasSent(c, taken[c][j])
    BY <2>3, <2>4 DEF Consecutive
  <2>6. Consecutive(All(c))' /\ \A j \in DOMAIN All(c)' : WasSent(c, All(c)[j])'
    BY <2>2, <2>5 DEF Consecutive, WasSent, After
  <2> QED BY <1>1, <2>6 DEF Ordered
<1>4. Home(c)'
  BY DEF Talk, Home, For, Serving
<1>5. Turn(c)'
  BY <1>1 DEF Talk, Turn, Answer, Request
<1> QED BY <1>2, <1>3, <1>4, <1>5 DEF Talk

\* What recv() returns is taken.
LEMMA TakeTalk ==
  ASSUME NEW c \in Client, Talk(c), DataTypes, UNCHANGED <<setup, client, reset, failing>>,
         up' = [up EXCEPT ![c] = <<>>], taken' = [taken EXCEPT ![c] = @ \o up[c]]
  PROVE  Begun(c)' /\ Ordered(c)'
<1>1. taken[c] \in Seq(Piece) /\ up[c] \in Seq(Piece) /\ taken[c] \o up[c] \in Seq(Piece)
  BY JoinOf DEF DataTypes
<1>2. taken'[c] = taken[c] \o up[c] /\ up'[c] = <<>>
  BY DEF DataTypes
<1>3. All(c)' = All(c)
  BY <1>1, <1>2, JoinOf, ZenonT(60) DEF All
<1> QED BY <1>3 DEF Talk, Begun, Ordered, Consecutive, After, WasSent, Closed

\* A client reads its answer.
LEMMA AnswersRead ==
  ASSUME AnswersInv, SlotsInv', UNCHANGED setup, NEW c \in Client, ReadAnswer(c) PROVE AnswersInv'
<1>1. /\ client[c].state = "reading" /\ client' = [client EXCEPT ![c].state = "idle"]
      /\ results' = [results EXCEPT ![c] = Append(@, down[c])] /\ down' = [down EXCEPT ![c] = <<>>]
      /\ results \in [Client -> Seq(Seq(Answered))] /\ down \in [Client -> Seq(Answered)]
      /\ UNCHANGED <<up, reset, failing, backlog, file, handler, coroutine, taken>>
  BY DEF AnswersInv, DataTypes, ReadAnswer, server
<1>2. /\ client'[c].state = "idle" /\ client'[c].call = client[c].call /\ client'[c].sent = client[c].sent
      /\ results'[c] = Append(results[c], down[c]) /\ down'[c] = <<>>
      /\ \A d \in Client : d # c => client'[d] = client[d] /\ results'[d] = results[d] /\ down'[d] = down[d]
  BY <1>1 DEF AnswersInv, SlotsInv, Types
<1>3. /\ Len(results[c]) \in Nat /\ DOMAIN results'[c] = 1..(Len(results[c]) + 1)
      /\ Len(results'[c]) = Len(results[c]) + 1 /\ DOMAIN results[c] = 1..Len(results[c])
      /\ results'[c][Len(results[c]) + 1] = down[c]
      /\ \A k \in 1..Len(results[c]) : results'[c][k] = results[c][k]
      /\ results'[c] \in Seq(Seq(Answered))
  <2>1. results[c] \in Seq(Seq(Answered)) /\ down[c] \in Seq(Answered)
    BY <1>1
  <2> QED BY <1>2, <2>1, AppendOf
<1>4. \A k \in DOMAIN results'[c] : (k \in DOMAIN results[c] /\ results'[c][k] = results[c][k])
                                    \/ (k = Len(results[c]) + 1 /\ results'[c][k] = down[c])
  BY <1>3
<1>5. DataTypes'
  BY <1>1, <1>3 DEF AnswersInv, DataTypes
<1>6. Queued'
  <2>1. \A i \in DOMAIN backlog : backlog[i] \in Client
    BY DEF AnswersInv, SlotsInv, Types
  <2> QED BY <1>1, <1>2, <2>1 DEF AnswersInv, Queued
<1>7. ASSUME NEW d \in Client, d # c PROVE Talk(d)'
  BY <1>1, <1>2, <1>7, TalkSame DEF AnswersInv, Serving, Writing
<1>8. Begun(c)' /\ Ordered(c)'
  <2>1. Begun(c) /\ Turn(c) /\ client[c].sent \in Nat /\ setup.pieces \in Nat
    BY SocketAssumption DEF AnswersInv, Talk, SlotsInv, Types
  <2>2. Ordered(c)'
    BY <1>1, <1>2, ZenonT(60) DEF AnswersInv, Talk, Ordered, All, Consecutive, After, WasSent, Closed
  <2> QED BY <1>1, <1>2, <2>1, <2>2 DEF Begun
<1>9. Home(c)'
  <2>1. DOMAIN <<>> = {}
    OBVIOUS
  <2>2. For(c, down[c]) /\ \A k \in DOMAIN results[c] : For(c, results[c][k])
    BY DEF AnswersInv, Talk, Home
  <2>3. \A k \in DOMAIN results'[c] : For(c, results'[c][k])
    BY <1>4, <2>2
  <2>4. For(c, down'[c])
    BY <1>2, <2>1 DEF For
  <2>5. For(c, handler.tx) = For(c, handler'.tx) /\ For(c, coroutine[c]) = For(c, coroutine'[c])
    BY <1>1
  <2> QED BY <1>1, <2>3, <2>4, <2>5 DEF AnswersInv, Talk, Home, For
<1>10. Turn(c)'
  <2> SUFFICES ASSUME setup.pieces = 1 PROVE Turn(c)'
    BY DEF Turn
  <2>1. OnePlace(c) /\ Len(results[c]) + 1 = client[c].call /\ down[c] # <<>>
    BY <1>1 DEF AnswersInv, Talk, Turn, Closed, ReadAnswer
  <2>2. up[c] = <<>> /\ down[c] = Asked(c) /\ ~Serving(c) /\ ~Writing(c)
    BY <2>1 DEF OnePlace
  <2>3. Nowhere(c)'
    BY <1>1, <1>2, <2>2 DEF Nowhere, Serving, Writing
  <2>4. \A k \in DOMAIN results[c] : results[c][k] = Answer(c, Request(k))
    BY DEF AnswersInv, Talk, Turn
  <2>5. \A k \in DOMAIN results'[c] : results'[c][k] = Answer(c, Request(k))
    BY <1>4, <2>1, <2>2, <2>4 DEF Asked
  <2>6. \A k \in DOMAIN results'[c] : results'[c][k] = Answer(c, Request(k))'
    BY <2>5 DEF Answer, Request
  <2> QED BY <1>2, <1>3, <2>1, <2>3, <2>6 DEF Turn
<1> QED BY <1>5, <1>6, <1>7, <1>8, <1>9, <1>10 DEF AnswersInv, Talk

\* A client closes: what has come for it is dropped.
LEMMA AnswersClose ==
  ASSUME AnswersInv, SlotsInv', UNCHANGED setup, NEW c \in Client, Close(c) PROVE AnswersInv'
<1>1. /\ client[c].state \in {"idle", "writing", "reading", "stalled"} /\ client' = [client EXCEPT ![c].state = "closed"]
      /\ failing' \in {failing, failing \cup {c}} /\ reset' \in {reset, reset \cup {c}} /\ down' = [down EXCEPT ![c] = <<>>]
      /\ down \in [Client -> Seq(Answered)]
      /\ UNCHANGED <<up, backlog, file, handler, coroutine, taken, results>>
  BY DEF AnswersInv, DataTypes, Close, server
<1>2. /\ client'[c].state = "closed" /\ client'[c].call = client[c].call /\ client'[c].sent = client[c].sent
      /\ down'[c] = <<>> /\ \A d \in Client : d # c => client'[d] = client[d] /\ down'[d] = down[d]
  BY <1>1 DEF AnswersInv, SlotsInv, Types
<1>3. DataTypes'
  BY <1>1 DEF AnswersInv, DataTypes
<1>4. Queued'
  <2>1. \A i \in DOMAIN backlog : backlog[i] \in Client
    BY DEF AnswersInv, SlotsInv, Types
  <2> QED BY <1>1, <1>2, <2>1 DEF AnswersInv, Queued
<1>5. ASSUME NEW d \in Client, d # c PROVE Talk(d)'
  BY <1>1, <1>2, <1>5, TalkSame DEF AnswersInv, Serving, Writing
<1>6. Begun(c)' /\ Ordered(c)'
  BY <1>1, <1>2, ZenonT(60) DEF AnswersInv, Talk, Begun, Ordered, All, Consecutive, After, WasSent, Closed
<1>7. Home(c)'
  <2>1. DOMAIN <<>> = {}
    OBVIOUS
  <2> QED BY <1>1, <1>2, <2>1 DEF AnswersInv, Talk, Home, For
<1>8. Turn(c)'
  BY <1>1, <1>2 DEF AnswersInv, Talk, Turn, Closed, Answer, Request
<1> QED BY <1>3, <1>4, <1>5, <1>6, <1>7, <1>8 DEF AnswersInv, Talk

\* A client stalls: nothing more is said of its turn.
LEMMA AnswersStall ==
  ASSUME AnswersInv, SlotsInv', UNCHANGED setup, NEW c \in Client, Stall(c) PROVE AnswersInv'
<1>1. /\ client[c].state \in {"idle", "writing", "reading"} /\ client' = [client EXCEPT ![c].state = "stalled"]
      /\ UNCHANGED <<up, down, reset, failing, backlog, file, handler, coroutine, taken, results>>
  BY DEF Stall, server, net
<1>2. /\ client'[c].state = "stalled" /\ client'[c].call = client[c].call /\ client'[c].sent = client[c].sent
      /\ \A d \in Client : d # c => client'[d] = client[d]
  BY <1>1 DEF AnswersInv, SlotsInv, Types
<1>3. DataTypes'
  BY <1>1 DEF AnswersInv, DataTypes
<1>4. Queued'
  <2>1. \A i \in DOMAIN backlog : backlog[i] \in Client
    BY DEF AnswersInv, SlotsInv, Types
  <2> QED BY <1>1, <1>2, <2>1 DEF AnswersInv, Queued
<1>5. ASSUME NEW d \in Client, d # c PROVE Talk(d)'
  BY <1>1, <1>2, <1>5, TalkSame DEF AnswersInv, Serving, Writing
<1>6. Begun(c)' /\ Ordered(c)'
  BY <1>1, <1>2, ZenonT(60) DEF AnswersInv, Talk, Begun, Ordered, All, Consecutive, After, WasSent, Closed
<1>7. Home(c)'
  BY <1>1, <1>2 DEF AnswersInv, Talk, Home, For
<1>8. Turn(c)'
  BY <1>1, <1>2 DEF AnswersInv, Talk, Turn, Closed, Answer, Request
<1> QED BY <1>3, <1>4, <1>5, <1>6, <1>7, <1>8 DEF AnswersInv, Talk

\* What a socket of the server in use is: one of a client, that is not given out again.
LEMMA InUse ==
  ASSUME SlotsInv, NEW i \in Slot, slots[i] # None, ~Clearing(i)
  PROVE  slots[i] \in Fd /\ file[slots[i]] \in Client
BY DEF SlotsInv, Types, Distinct

\* The acceptor takes a connection; the descriptor it gets is nobody's.
LEMMA AnswersAccept ==
  ASSUME AnswersInv, SlotsInv', UNCHANGED setup, Accept PROVE AnswersInv'
<1>1. ~setup.asio /\ UNCHANGED <<client, up, down, reset, failing, handler, coroutine, taken, results>>
  BY DEF Accept, net
<1>2. DataTypes'
  BY <1>1 DEF AnswersInv, DataTypes
<1>3. handler.pc = "send" => handler.fd \in Fd /\ file[handler.fd] \in Client
  <2>1. handler.pc = "send" => slots[handler.i] = handler.fd /\ handler.fd # None /\ handler.i \in Slot
                               /\ ~Clearing(handler.i)
    BY DEF AnswersInv, SlotsInv, Handling, Types, Clearing
  <2> QED BY <2>1, InUse DEF AnswersInv
<1>4. handler.pc = "send" => file'[handler.fd] = file[handler.fd]
  <2>1. CASE UNCHANGED file
    BY <2>1
  <2>2. CASE backlog # <<>> /\ file' = [file EXCEPT ![LowestFree] = Head(backlog)]
    <3>1. LowestFree \in Fd /\ file[LowestFree] = None
      BY <1>1, <2>2, FreeDescriptor DEF AnswersInv
    <3> HIDE DEF LowestFree
    <3> QED BY <1>3, <2>2, <3>1, SocketAssumption DEF AnswersInv, SlotsInv, Types
  <2> QED BY <2>1, <2>2 DEF Accept
<1>5. Queued'
  <2>1. CASE UNCHANGED backlog
    BY <1>1, <2>1 DEF AnswersInv, Queued
  <2>2. CASE backlog # <<>> /\ backlog' = Tail(backlog)
    <3>1. backlog \in Seq(Client)
      BY DEF AnswersInv, SlotsInv, Types
    <3>2. \A i \in DOMAIN backlog' : /\ i \in Int /\ i + 1 \in DOMAIN backlog
                                     /\ backlog'[i] = backlog[i + 1]
      BY <2>2, <3>1
    <3> QED BY <1>1, <3>2 DEF AnswersInv, Queued
  <2> QED BY <2>1, <2>2 DEF Accept
<1>6. ASSUME NEW c \in Client PROVE Talk(c)'
  BY <1>1, <1>4, TalkSame DEF AnswersInv, Serving, Writing
<1> QED BY <1>2, <1>5, <1>6 DEF AnswersInv

\* Steps of the server that neither receive nor send nor accept.
LEMMA AnswersQuiet ==
  ASSUME AnswersInv, SlotsInv',
         UNCHANGED <<setup, client, up, down, reset, failing, backlog, coroutine, taken, results>>,
         \/ UNCHANGED <<handler, file>>
         \/ handler.pc # "send" /\ handler'.pc # "send" /\ handler'.tx \in {handler.tx, <<>>}
  PROVE  AnswersInv'
<1>1. <<>> \in Seq(Answered)
  OBVIOUS
<1>2. DataTypes' /\ Queued'
  BY <1>1 DEF AnswersInv, DataTypes, Queued
<1>3. ASSUME NEW c \in Client PROVE Talk(c)'
  BY TalkSame DEF AnswersInv, Serving, Writing
<1> QED BY <1>2, <1>3 DEF AnswersInv

\* The handler takes what has come for a request, and writes the answer for its client.
LEMMA AnswersRecv ==
  ASSUME AnswersInv, SlotsInv', UNCHANGED setup, Recv PROVE AnswersInv'
<1> DEFINE i == handler.i
<1>1. /\ handler.pc = "scan" /\ i \in Slot
      /\ UNCHANGED <<client, down, backlog, file, coroutine, results>>
      /\ up \in [Client -> Seq(Piece)] /\ taken \in [Client -> Seq(Piece)]
      /\ handler = [pc |-> handler.pc, i |-> handler.i, fd |-> handler.fd, tx |-> handler.tx]
  BY DEF AnswersInv, SlotsInv, Types, DataTypes, Recv, net, Reset, Take
<1>2. i \in ready => file[slots[i]] \in Client /\ slots[i] \in Fd
  <2>1. i \in ready => slots[i] # None /\ ~Clearing(i)
    BY <1>1 DEF AnswersInv, SlotsInv, Handling, Clearing
  <2> QED BY <1>1, <2>1, InUse DEF AnswersInv
<1>3. CASE handler' = NextSlot(handler) /\ UNCHANGED <<net, taken>>
  <2>1. handler'.pc # "send" /\ handler'.tx = <<>>
    BY <1>3 DEF NextSlot, Polling
  <2> QED BY <1>1, <1>3, <2>1, AnswersQuiet DEF net
<1>4. CASE handler' = [handler EXCEPT !.pc = "close", !.fd = slots[i]] /\ UNCHANGED <<net, taken>>
  <2>1. handler'.pc # "send" /\ handler'.tx = handler.tx
    BY <1>1, <1>4
  <2> QED BY <1>1, <1>4, <2>1, AnswersQuiet DEF net
<1>5. ASSUME NEW c \in Client, i \in ready, c = file[slots[i]], c \in failing, Reset(c),
             handler' = NextSlot(handler), UNCHANGED <<taken, reset>>
      PROVE  AnswersInv'
  <2>1. handler'.pc # "send" /\ handler'.tx = <<>> /\ <<>> \in Seq(Answered) /\ <<>> \in Seq(Piece)
    BY <1>5 DEF NextSlot, Polling
  <2>2. up' = [up EXCEPT ![c] = <<>>] /\ failing' = failing \ {c} /\ Closed(c)
    BY <1>2, <1>5 DEF Reset, AnswersInv, Talk, Ordered
  <2>3. DataTypes' /\ Queued'
    BY <1>1, <1>5, <2>1, <2>2 DEF AnswersInv, DataTypes, Queued
  <2>4. ASSUME NEW d \in Client, d # c PROVE Talk(d)'
    BY <1>1, <1>5, <2>1, <2>2, <2>4, TalkSame DEF AnswersInv, Serving, Writing
  <2>5. Talk(c)'
    <3>1. Talk(c) /\ DataTypes /\ up'[c] = <<>> /\ ~Serving(c)'
      BY <1>1, <2>1, <2>2 DEF AnswersInv, DataTypes, Serving
    <3> QED BY <1>1, <1>5, <2>2, <3>1, ResetTalk
  <2> QED BY <2>3, <2>4, <2>5 DEF AnswersInv
<1>6. ASSUME NEW c \in Client, i \in ready, c = file[slots[i]], c \notin failing, up[c] # <<>>, Take(c),
             UNCHANGED <<down, reset, failing>>,
             handler' = [handler EXCEPT !.pc = "send", !.fd = slots[i], !.tx = Answer(c, up[c])]
      PROVE  AnswersInv'
  <2>1. /\ handler'.pc = "send" /\ file'[handler'.fd] = c /\ handler'.tx = Answer(c, up[c])
    BY <1>1, <1>6
  <2>2. /\ up' = [up EXCEPT ![c] = <<>>] /\ taken' = [taken EXCEPT ![c] = @ \o up[c]]
        /\ taken[c] \o up[c] \in Seq(Piece) /\ <<>> \in Seq(Piece)
    BY <1>1, <1>2, <1>6, JoinOf DEF Take
  <2>3. Answer(c, up[c]) \in Seq(Answered) /\ For(c, Answer(c, up[c]))
    BY <1>1, <1>2, <1>6, AnswerFor DEF AnswersInv, SlotsInv
  <2>4. DataTypes' /\ Queued'
    BY <1>1, <2>1, <2>2, <2>3, SMTT(40) DEF AnswersInv, DataTypes, Queued
  <2>5. ASSUME NEW d \in Client, d # c PROVE Talk(d)'
    BY <1>1, <1>6, <2>1, <2>2, <2>5, TalkSame, SMTT(40) DEF AnswersInv, Serving, Writing
  <2>6. Begun(c)' /\ Ordered(c)'
    <3>1. Talk(c) /\ DataTypes
      BY DEF AnswersInv
    <3> QED BY <1>1, <1>6, <2>2, <3>1, TakeTalk
  <2>7. Home(c)'
    <3>1. Home(c)
      BY DEF AnswersInv, Talk
    <3>2. down' = down /\ results' = results /\ coroutine' = coroutine
      BY <1>1
    <3>3. For(c, handler'.tx)
      BY <2>1, <2>3
    <3> QED BY ONLY <3>1, <3>2, <3>3 DEF Home, For
  <2>8. Turn(c)'
    <3> SUFFICES ASSUME setup.pieces = 1 PROVE Turn(c)'
      BY DEF Turn
    <3>1. Turn(c) /\ Serving(c)' /\ up'[c] = <<>> /\ ~Serving(c)
      BY <1>1, <1>2, <2>1, <2>2 DEF AnswersInv, Talk, Serving
    <3>2. OnePlace(c) => up[c] = Request(client[c].call) /\ down[c] = <<>> /\ ~Writing(c)
      BY <1>6 DEF OnePlace
    <3>3. OnePlace(c) => OnePlace(c)'
      BY <1>1, <2>1, <3>1, <3>2 DEF OnePlace, Asked, Answer, Request, Writing
    <3>4. ~Nowhere(c)
      BY <1>6 DEF Nowhere
    <3> QED BY <1>1, <1>2, <3>1, <3>3, <3>4 DEF Turn, Closed, Answer, Request, AnswersInv, SlotsInv, Types, ClientStates
  <2> QED BY <1>2, <1>6, <2>4, <2>5, <2>6, <2>7, <2>8 DEF AnswersInv, Talk
<1> QED BY <1>2, <1>3, <1>4, <1>5, <1>6 DEF Recv

\* What is sent of an answer, and what is left of it, is for the same client.
LEMMA PartFor ==
  ASSUME NEW c, NEW s \in Seq(Answered), NEW t \in Seq(Answered), For(c, s), For(c, t), NEW n \in 1..Len(t)
  PROVE  /\ s \o SubSeq(t, 1, n) \in Seq(Answered) /\ For(c, s \o SubSeq(t, 1, n))
         /\ SubSeq(t, n + 1, Len(t)) \in Seq(Answered) /\ For(c, SubSeq(t, n + 1, Len(t)))
         /\ s = <<>> /\ Len(t) = 1 => s \o SubSeq(t, 1, n) = t /\ SubSeq(t, n + 1, Len(t)) = <<>>
<1> DEFINE first == SubSeq(t, 1, n)
           rest == SubSeq(t, n + 1, Len(t))
<1>1. 1 \in 1..(Len(t) + 1) /\ n \in 0..Len(t) /\ n + 1 \in 1..(Len(t) + 1) /\ Len(t) \in 0..Len(t)
  OBVIOUS
<1>8. \A a \in 1..(Len(t) + 1), b \in 0..Len(t) :
        /\ SubSeq(t, a, b) \in Seq(Answered)
        /\ \A i \in DOMAIN SubSeq(t, a, b) : \E j \in DOMAIN t : SubSeq(t, a, b)[i] = t[j]
  BY PartOf
<1>2. /\ first \in Seq(Answered) /\ \A i \in DOMAIN first : \E j \in DOMAIN t : first[i] = t[j]
      /\ rest \in Seq(Answered) /\ \A i \in DOMAIN rest : \E j \in DOMAIN t : rest[i] = t[j]
  <2>1. first \in Seq(Answered) /\ \A i \in DOMAIN first : \E j \in DOMAIN t : first[i] = t[j]
    BY <1>8, <1>1, Zenon
  <2>2. rest \in Seq(Answered) /\ \A i \in DOMAIN rest : \E j \in DOMAIN t : rest[i] = t[j]
    BY <1>8, <1>1, Zenon
  <2> QED BY <2>1, <2>2
<1>3. Len(t) = 1 => first = t /\ rest = <<>>
  OBVIOUS
<1>4. s = <<>> => s \o first = first
  BY <1>2, JoinOf
<1> HIDE DEF first, rest
<1>5. For(c, first) /\ For(c, rest)
  BY <1>2 DEF For
<1>6. s \o first \in Seq(Answered) /\ \A i \in DOMAIN (s \o first) :
        (\E j \in DOMAIN s : (s \o first)[i] = s[j]) \/ (\E j \in DOMAIN first : (s \o first)[i] = first[j])
  BY <1>2, JoinOf, ZenonT(60)
<1>7. For(c, s \o first)
  BY <1>5, <1>6 DEF For
<1> QED BY <1>2, <1>3, <1>4, <1>5, <1>6, <1>7 DEF first, rest

\* The handler sends some of the answer to the client it received from.
LEMMA AnswersSend ==
  ASSUME AnswersInv, SlotsInv', UNCHANGED setup, SendAnswer PROVE AnswersInv'
<1>1. /\ handler.pc = "send" /\ handler.i \in Slot /\ slots[handler.i] = handler.fd /\ handler.fd # None
      /\ UNCHANGED <<client, up, backlog, file, coroutine, taken, results>>
      /\ down \in [Client -> Seq(Answered)] /\ handler.tx \in Seq(Answered)
      /\ handler = [pc |-> handler.pc, i |-> handler.i, fd |-> handler.fd, tx |-> handler.tx]
  BY DEF AnswersInv, SlotsInv, Types, Handling, DataTypes, SendAnswer
<1>2. PICK c \in Client : c = file[handler.fd]
  <2>1. ~Clearing(handler.i)
    BY <1>1 DEF Clearing
  <2> QED BY <1>1, <2>1, InUse DEF AnswersInv
<1> DEFINE sent(n) == down[c] \o SubSeq(handler.tx, 1, n)
           rest(n) == SubSeq(handler.tx, n + 1, Len(handler.tx))
<1>3. PICK n \in Nat :
        \/ /\ n \in 1..Len(handler.tx) /\ down' = IF Closed(c) THEN down ELSE [down EXCEPT ![c] = sent(n)]
           /\ handler' = IF n = Len(handler.tx) THEN NextSlot(handler) ELSE [handler EXCEPT !.tx = rest(n)]
           /\ failing' = failing /\ reset' \in {reset, reset \cup {c}} /\ (reset' # reset => Closed(c))
        \/ /\ n = 0 /\ UNCHANGED <<down, reset>> /\ failing' = failing \ {c} /\ c \in reset
           /\ handler' = NextSlot(handler) \/ handler' = [handler EXCEPT !.pc = "killed"]
  <2>1. ASSUME NEW n \in 1..Len(handler.tx), SendSome(c, handler.tx, n)
        PROVE  /\ down' = IF Closed(c) THEN down ELSE [down EXCEPT ![c] = sent(n)]
               /\ failing' = failing /\ reset' \in {reset, reset \cup {c}} /\ (reset' # reset => Closed(c))
    BY <2>1 DEF SendSome
  <2>2. ASSUME NEW n \in 1..Len(handler.tx), SendSome(c, handler.tx, n),
               handler' = IF n = Len(handler.tx) THEN NextSlot(handler) ELSE [handler EXCEPT !.tx = rest(n)]
        PROVE  \E m \in Nat :
                 /\ m \in 1..Len(handler.tx) /\ down' = IF Closed(c) THEN down ELSE [down EXCEPT ![c] = sent(m)]
                 /\ handler' = IF m = Len(handler.tx) THEN NextSlot(handler) ELSE [handler EXCEPT !.tx = rest(m)]
                 /\ failing' = failing /\ reset' \in {reset, reset \cup {c}} /\ (reset' # reset => Closed(c))
    <3>1. n \in Nat
      OBVIOUS
    <3> QED BY <2>1, <2>2, <3>1
  <2>3. CASE \E n \in 1..Len(handler.tx) :
               /\ SendSome(c, handler.tx, n)
               /\ handler' = IF n = Len(handler.tx) THEN NextSlot(handler) ELSE [handler EXCEPT !.tx = rest(n)]
    BY <2>2, <2>3
  <2>4. CASE SendFails(c) /\ (handler' = NextSlot(handler) \/ handler' = [handler EXCEPT !.pc = "killed"])
    BY <2>4 DEF SendFails
  <2> QED BY <1>2, <2>3, <2>4 DEF SendAnswer, SendTo
<1>4. For(c, down[c]) /\ For(c, handler.tx) /\ down[c] \in Seq(Answered) /\ Ordered(c)
  BY <1>1, <1>2 DEF AnswersInv, Talk, Home
<1>5. n \in 1..Len(handler.tx) =>
        /\ sent(n) \in Seq(Answered) /\ For(c, sent(n)) /\ rest(n) \in Seq(Answered) /\ For(c, rest(n))
        /\ down[c] = <<>> /\ Len(handler.tx) = 1 => sent(n) = handler.tx
  BY <1>1, <1>4, PartFor
<1> HIDE DEF sent, rest
<1>6. \/ handler'.pc # "send" /\ handler'.tx \in {<<>>, handler.tx}
      \/ handler'.pc = "send" /\ handler'.fd = handler.fd /\ handler'.tx = rest(n) /\ n \in 1..Len(handler.tx)
         /\ n # Len(handler.tx)
  BY <1>1, <1>3 DEF NextSlot, Polling
<1>7. /\ n \in 1..Len(handler.tx) \/ Closed(c)
      /\ down' = IF Closed(c) THEN down ELSE [down EXCEPT ![c] = sent(n)]
      /\ \A d : d \in failing' \/ d \in reset' => d \in failing \/ d \in reset \/ (d = c /\ Closed(c))
  BY <1>3, <1>4 DEF Ordered
<1>8. down'[c] \in Seq(Answered) /\ For(c, down'[c])
  BY <1>1, <1>4, <1>5, <1>7
<1>9. \A d \in Client : d # c => down'[d] = down[d]
  BY <1>1, <1>7
<1>10. DataTypes' /\ Queued'
  <2>1. <<>> \in Seq(Answered)
    OBVIOUS
  <2>2. handler'.tx \in Seq(Answered) /\ down' \in [Client -> Seq(Answered)]
    BY <1>1, <1>5, <1>6, <1>7, <2>1
  <2> QED BY <1>1, <2>2 DEF AnswersInv, DataTypes, Queued
<1>11. ASSUME NEW d \in Client, d # c PROVE Talk(d)'
  <2>1. ~Serving(d) /\ ~Serving(d)'
    BY <1>1, <1>2, <1>6, <1>11 DEF Serving
  <2> QED BY <1>1, <1>7, <1>9, <1>11, <2>1, TalkSame DEF AnswersInv, Writing
<1>12. Begun(c)' /\ Ordered(c)'
  BY <1>1, <1>7 DEF AnswersInv, Talk, Begun, Ordered, All, Consecutive, After, WasSent, Closed
<1>13. Home(c)'
  <2>1. For(c, down'[c])
    BY <1>8
  <2>2. handler'.pc = "send" => For(c, handler'.tx)
    BY <1>5, <1>6
  <2>3. \A k \in DOMAIN results[c] : For(c, results[c][k])
    BY DEF AnswersInv, Talk, Home
  <2>4. coroutine[c] # None => For(c, coroutine[c])
    BY DEF AnswersInv, Talk, Home
  <2> QED BY <1>1, <2>1, <2>2, <2>3, <2>4 DEF Home, For
<1>14. Turn(c)'
  <2> SUFFICES ASSUME setup.pieces = 1 PROVE Turn(c)'
    BY DEF Turn
  <2>1. Turn(c) /\ Serving(c)
    BY <1>1, <1>2 DEF AnswersInv, Talk, Serving
  <2>2. \A k \in DOMAIN results[c] : (results[c][k] = Answer(c, Request(k)))'
    BY <1>1, <2>1 DEF Turn, Answer, Request
  <2>3. CASE Closed(c) \/ client[c].state = "stalled"
    BY <1>1, <2>2, <2>3 DEF Turn, Closed
  <2>4. CASE ~Closed(c) /\ client[c].state # "stalled"
    <3>1. ~Nowhere(c) /\ client[c].state = "reading"
      BY <2>1, <2>4 DEF Nowhere, Turn, AnswersInv, SlotsInv, Types, ClientStates, Closed
    <3>2. up[c] = <<>> /\ down[c] = <<>> /\ ~Writing(c) /\ handler.tx = Asked(c)
      BY <2>1, <2>4, <3>1 DEF Turn, OnePlace
    <3>3. Len(handler.tx) = 1
      BY <3>2, OnePiece DEF Asked
    <3>4. down'[c] = Asked(c)
      BY <1>1, <1>5, <1>7, <2>4, <3>2, <3>3
    <3>5. handler'.pc # "send"
      <4>1. n = Len(handler.tx)
        BY <1>7, <2>4, <3>3
      <4> QED BY <1>6, <4>1
    <3>6. OnePlace(c)'
      BY <1>1, <3>2, <3>4, <3>5 DEF OnePlace, Serving, Writing, Asked, Answer, Request
    <3> QED BY <1>1, <2>1, <2>2, <2>4, <3>1, <3>6 DEF Turn, Closed
  <2> QED BY <2>3, <2>4
<1> QED BY <1>10, <1>11, <1>12, <1>13, <1>14 DEF AnswersInv, Talk

\* asio accepts a connection, and a coroutine begins to read from it.
LEMMA AnswersAcceptAsync ==
  ASSUME AnswersInv, SlotsInv', UNCHANGED setup, AcceptAsync PROVE AnswersInv'
<1>1. /\ backlog # <<>> /\ backlog \in Seq(Client) /\ backlog' = Tail(backlog)
      /\ coroutine' = [coroutine EXCEPT ![Head(backlog)] = <<>>]
      /\ coroutine \in [Client -> Seq(Answered) \cup {None}]
      /\ UNCHANGED <<client, up, down, reset, failing, handler, taken, results>> /\ handler.pc = "poll"
  BY DEF AnswersInv, SlotsInv, Types, Kinds, DataTypes, AcceptAsync, net
<1>2. PICK c \in Client : c = Head(backlog)
  BY <1>1
<1>3. /\ 1 \in DOMAIN backlog /\ c = backlog[1]
      /\ \A i \in DOMAIN backlog' : i \in Int /\ i + 1 \in DOMAIN backlog /\ i + 1 # 1
                                    /\ backlog'[i] = backlog[i + 1]
  BY <1>1, <1>2
<1>4. coroutine[c] = None /\ client[c].state # "new"
  BY <1>3 DEF AnswersInv, Queued
<1>5. coroutine'[c] = <<>> /\ \A d \in Client : d # c => coroutine'[d] = coroutine[d]
  BY <1>1, <1>2
<1>6. DataTypes'
  <2>1. <<>> \in Seq(Answered)
    OBVIOUS
  <2> QED BY <1>1, <2>1 DEF AnswersInv, DataTypes
<1>7. Queued'
  <2>1. \A i \in DOMAIN backlog' : backlog'[i] # c /\ backlog'[i] \in Client
    BY <1>1, <1>3 DEF AnswersInv, Queued
  <2>2. \A i, j \in DOMAIN backlog' : backlog'[i] = backlog'[j] => i = j
    BY <1>3 DEF AnswersInv, Queued
  <2> QED BY <1>1, <1>3, <1>4, <1>5, <2>1, <2>2 DEF AnswersInv, Queued
<1>8. ASSUME NEW d \in Client PROVE Talk(d)'
  <2>1. ~Serving(d) /\ ~Serving(d)'
    BY <1>1 DEF Serving
  <2>2. Writing(d)' = Writing(d) /\ coroutine'[d] \in {coroutine[d], None, <<>>}
    BY <1>4, <1>5 DEF Writing
  <2> QED BY <1>1, <2>1, <2>2, TalkSame DEF AnswersInv
<1> QED BY <1>6, <1>7, <1>8 DEF AnswersInv

\* A coroutine reads: what has come is a request, or the connection has ended.
LEMMA AnswersReadAsync ==
  ASSUME AnswersInv, SlotsInv', UNCHANGED setup, NEW c \in Client, ReadAsync(c) PROVE AnswersInv'
<1>1. /\ coroutine[c] = <<>> /\ UNCHANGED <<client, backlog, handler, results, down>>
      /\ handler.pc = "poll"
      /\ coroutine \in [Client -> Seq(Answered) \cup {None}]
      /\ up \in [Client -> Seq(Piece)] /\ taken \in [Client -> Seq(Piece)]
  <2>1. <<>> # None
    BY SocketAssumption
  <2> QED BY <2>1 DEF AnswersInv, SlotsInv, Types, Kinds, DataTypes, ReadAsync, net
<1>2. \A d \in Client : ~Serving(d) /\ ~Serving(d)'
  BY <1>1 DEF Serving
<1>3. CASE Gone(c) /\ Closed(c) /\ UNCHANGED taken /\ (UNCHANGED <<up, failing>> \/ Reset(c)) /\ UNCHANGED reset
  <2>1. coroutine' = [coroutine EXCEPT ![c] = None] /\ coroutine'[c] = None
        /\ \A d \in Client : d # c => coroutine'[d] = coroutine[d]
    BY <1>1, <1>3 DEF Gone
  <2>2. up' \in {up, [up EXCEPT ![c] = <<>>]} /\ failing' \subseteq failing /\ <<>> \in Seq(Piece)
    BY <1>3 DEF Reset
  <2>3. DataTypes'
    BY <1>1, <1>3, <2>1, <2>2 DEF AnswersInv, DataTypes
  <2>4. Queued'
    BY <1>1, <2>1 DEF AnswersInv, SlotsInv, Types, Queued
  <2>5. ASSUME NEW d \in Client, d # c PROVE Talk(d)'
    <3>1. up'[d] = up[d]
      BY <1>1, <2>2, <2>5
    <3> QED BY <1>1, <1>2, <1>3, <2>1, <2>2, <2>5, <3>1, TalkSame DEF AnswersInv, Writing
  <2>6. Talk(c)'
    <3>1. CASE UNCHANGED <<up, reset, failing>>
      <4>1. Writing(c)' = Writing(c)
        BY <1>1, <2>1 DEF Writing
      <4> QED BY <1>1, <1>2, <1>3, <2>1, <3>1, <4>1, TalkSame DEF AnswersInv
    <3>2. CASE Reset(c)
      <4>1. up'[c] = <<>> /\ coroutine'[c] = None
        BY <1>1, <2>1, <3>2 DEF Reset
      <4>2. Talk(c) /\ DataTypes
        BY DEF AnswersInv
      <4> QED BY <1>1, <1>2, <1>3, <4>1, <4>2, ResetTalk
    <3> QED BY <1>3, <3>1, <3>2
  <2> QED BY <2>3, <2>4, <2>5, <2>6 DEF AnswersInv
<1>4. CASE /\ c \notin failing /\ up[c] # <<>> /\ Take(c) /\ UNCHANGED <<reset, failing>>
           /\ coroutine' = [coroutine EXCEPT ![c] = Answer(c, up[c])]
  <2>1. coroutine'[c] = Answer(c, up[c]) /\ \A d \in Client : d # c => coroutine'[d] = coroutine[d]
    BY <1>1, <1>4
  <2>2. /\ up' = [up EXCEPT ![c] = <<>>] /\ taken' = [taken EXCEPT ![c] = @ \o up[c]]
        /\ taken[c] \o up[c] \in Seq(Piece) /\ <<>> \in Seq(Piece)
    BY <1>1, <1>4, JoinOf DEF Take
  <2>3. Answer(c, up[c]) \in Seq(Answered) /\ For(c, Answer(c, up[c])) /\ Answer(c, up[c]) # <<>>
    BY <1>1, AnswerFor DEF AnswersInv, SlotsInv
  <2>4. DataTypes'
    BY <1>1, <1>4, <2>2, <2>3 DEF AnswersInv, DataTypes
  <2>5. Queued'
    <3>1. coroutine[c] # None
      BY <1>1, SocketAssumption
    <3>2. client[c].state # "new" /\ \A i \in DOMAIN backlog : backlog[i] # c /\ backlog[i] \in Client
      BY <3>1 DEF AnswersInv, SlotsInv, Types, Queued
    <3> QED BY <1>1, <2>1, <3>2 DEF AnswersInv, Queued
  <2>6. ASSUME NEW d \in Client, d # c PROVE Talk(d)'
    BY <1>1, <1>2, <1>4, <2>1, <2>2, <2>6, TalkSame DEF AnswersInv, Writing
  <2>7. Begun(c)' /\ Ordered(c)'
    <3>1. Talk(c) /\ DataTypes
      BY DEF AnswersInv
    <3> QED BY <1>1, <1>4, <2>2, <3>1, TakeTalk
  <2>8. Home(c)'
    BY <1>1, <1>2, <2>1, <2>3 DEF AnswersInv, Talk, Home, For
  <2>9. Turn(c)'
    <3> SUFFICES ASSUME setup.pieces = 1 PROVE Turn(c)'
      BY DEF Turn
    <3>1. Turn(c) /\ up'[c] = <<>> /\ ~Serving(c) /\ ~Serving(c)' /\ ~Writing(c)
      BY <1>1, <1>2, <2>2 DEF AnswersInv, Talk, Writing
    <3>2. OnePlace(c) => up[c] = Request(client[c].call) /\ down[c] = <<>>
      BY <1>4, <3>1 DEF OnePlace
    <3>3. Writing(c)'
      BY <2>1, <2>3, SocketAssumption DEF Writing, Answered, Piece
    <3>4. OnePlace(c) => OnePlace(c)'
      BY <1>1, <2>1, <3>1, <3>2, <3>3 DEF OnePlace, Asked, Answer, Request
    <3>5. ~Nowhere(c)
      BY <1>4 DEF Nowhere
    <3> QED BY <1>1, <3>1, <3>4, <3>5
            DEF Turn, Closed, Answer, Request, AnswersInv, SlotsInv, Types, ClientStates
  <2> QED BY <1>4, <2>4, <2>5, <2>6, <2>7, <2>8, <2>9 DEF AnswersInv, Talk
<1>5. c \in failing => Closed(c)
  BY DEF AnswersInv, Talk, Ordered
<1> QED BY <1>3, <1>4, <1>5 DEF ReadAsync, net

\* A coroutine writes some of the answer to its own connection.
LEMMA AnswersWriteAsync ==
  ASSUME AnswersInv, SlotsInv', UNCHANGED setup, NEW c \in Client, WriteAsync(c) PROVE AnswersInv'
<1>1. /\ coroutine[c] # None /\ coroutine[c] # <<>> /\ coroutine[c] \in Seq(Answered)
      /\ UNCHANGED <<client, up, backlog, handler, taken, results>>
      /\ handler.pc = "poll"
      /\ coroutine \in [Client -> Seq(Answered) \cup {None}] /\ down \in [Client -> Seq(Answered)]
  BY DEF AnswersInv, SlotsInv, Types, Kinds, DataTypes, WriteAsync
<1>2. \A d \in Client : ~Serving(d) /\ ~Serving(d)'
  BY <1>1 DEF Serving
<1> DEFINE sent(n) == down[c] \o SubSeq(coroutine[c], 1, n)
           rest(n) == SubSeq(coroutine[c], n + 1, Len(coroutine[c]))
<1>3. PICK n \in Nat :
        \/ /\ n \in 1..Len(coroutine[c]) /\ down' = IF Closed(c) THEN down ELSE [down EXCEPT ![c] = sent(n)]
           /\ coroutine' = [coroutine EXCEPT ![c] = rest(n)]
           /\ failing' = failing /\ reset' \in {reset, reset \cup {c}} /\ (reset' # reset => Closed(c))
        \/ /\ n = 0 /\ UNCHANGED <<down, reset>> /\ failing' = failing \ {c} /\ c \in reset
           /\ coroutine' = [coroutine EXCEPT ![c] = None]
  <2>1. ASSUME NEW n \in 1..Len(coroutine[c]), SendSome(c, coroutine[c], n),
               coroutine' = [coroutine EXCEPT ![c] = rest(n)]
        PROVE  \E m \in Nat :
                 /\ m \in 1..Len(coroutine[c]) /\ down' = IF Closed(c) THEN down ELSE [down EXCEPT ![c] = sent(m)]
                 /\ coroutine' = [coroutine EXCEPT ![c] = rest(m)]
                 /\ failing' = failing /\ reset' \in {reset, reset \cup {c}} /\ (reset' # reset => Closed(c))
    <3>1. /\ down' = IF Closed(c) THEN down ELSE [down EXCEPT ![c] = sent(n)]
          /\ failing' = failing /\ reset' \in {reset, reset \cup {c}} /\ (reset' # reset => Closed(c))
      BY <2>1 DEF SendSome
    <3>2. n \in Nat
      OBVIOUS
    <3> QED BY <2>1, <3>1, <3>2
  <2>2. CASE \E n \in 1..Len(coroutine[c]) :
               SendSome(c, coroutine[c], n) /\ coroutine' = [coroutine EXCEPT ![c] = rest(n)]
    BY <2>1, <2>2
  <2>3. CASE SendFails(c) /\ Gone(c)
    BY <2>3 DEF SendFails, Gone
  <2> QED BY <2>2, <2>3 DEF WriteAsync
<1>4. For(c, down[c]) /\ For(c, coroutine[c]) /\ down[c] \in Seq(Answered) /\ Ordered(c)
  BY <1>1 DEF AnswersInv, Talk, Home
<1>5. n \in 1..Len(coroutine[c]) =>
        /\ sent(n) \in Seq(Answered) /\ For(c, sent(n)) /\ rest(n) \in Seq(Answered) /\ For(c, rest(n))
        /\ down[c] = <<>> /\ Len(coroutine[c]) = 1 => sent(n) = coroutine[c] /\ (n = 1 => rest(n) = <<>>)
  BY <1>1, <1>4, PartFor
<1> HIDE DEF sent, rest
<1>6. /\ n \in 1..Len(coroutine[c]) \/ Closed(c)
      /\ coroutine' = IF n \in 1..Len(coroutine[c]) THEN [coroutine EXCEPT ![c] = rest(n)]
                      ELSE [coroutine EXCEPT ![c] = None]
      /\ down' = IF Closed(c) THEN down ELSE [down EXCEPT ![c] = sent(n)]
      /\ \A d : d \in failing' \/ d \in reset' => d \in failing \/ d \in reset \/ (d = c /\ Closed(c))
  BY <1>3, <1>4 DEF Ordered
<1>7. /\ \A d \in Client : d # c => down'[d] = down[d] /\ coroutine'[d] = coroutine[d]
      /\ Closed(c) => down'[c] = down[c]
      /\ ~Closed(c) => down'[c] = sent(n) /\ coroutine'[c] = rest(n)
      /\ coroutine'[c] = IF n \in 1..Len(coroutine[c]) THEN rest(n) ELSE None
  BY <1>1, <1>6
<1>8. DataTypes'
  BY <1>1, <1>5, <1>6 DEF AnswersInv, DataTypes
<1>9. Queued'
  BY <1>1, <1>7, SMTT(40) DEF AnswersInv, SlotsInv, Types, Queued
<1>10. ASSUME NEW d \in Client, d # c PROVE Talk(d)'
  BY <1>1, <1>2, <1>6, <1>7, <1>10, TalkSame DEF AnswersInv, Writing
<1>11. Begun(c)' /\ Ordered(c)'
  BY <1>1, <1>6 DEF AnswersInv, Talk, Begun, Ordered, All, Consecutive, After, WasSent, Closed
<1>12. Home(c)'
  <2>1. For(c, down'[c]) /\ (coroutine'[c] # None => For(c, coroutine'[c]))
    BY <1>4, <1>5, <1>6, <1>7
  <2>2. \A k \in DOMAIN results[c] : For(c, results[c][k])
    BY DEF AnswersInv, Talk, Home
  <2> QED BY <1>1, <2>1, <2>2 DEF Home, For
<1>13. Turn(c)'
  <2> SUFFICES ASSUME setup.pieces = 1 PROVE Turn(c)'
    BY DEF Turn
  <2>1. Turn(c) /\ Writing(c) /\ ~Serving(c)
    BY <1>1, <1>2 DEF AnswersInv, Talk, Writing
  <2>2. \A k \in DOMAIN results[c] : (results[c][k] = Answer(c, Request(k)))'
    BY <1>1, <2>1 DEF Turn, Answer, Request
  <2>3. CASE Closed(c) \/ client[c].state = "stalled"
    BY <1>1, <2>2, <2>3 DEF Turn, Closed
  <2>4. CASE ~Closed(c) /\ client[c].state # "stalled"
    <3>1. ~Nowhere(c) /\ client[c].state = "reading"
      BY <2>1, <2>4 DEF Nowhere, Turn, AnswersInv, SlotsInv, Types, ClientStates, Closed
    <3>2. up[c] = <<>> /\ down[c] = <<>> /\ coroutine[c] = Asked(c)
      BY <2>1, <2>4, <3>1 DEF Turn, OnePlace
    <3>3. Len(coroutine[c]) = 1
      BY <3>2, OnePiece DEF Asked
    <3>4. down'[c] = Asked(c) /\ coroutine'[c] = <<>>
      BY <1>5, <1>6, <1>7, <2>4, <3>2, <3>3
    <3>5. OnePlace(c)'
      BY <1>1, <1>2, <3>2, <3>4 DEF OnePlace, Writing, Asked, Answer, Request
    <3> QED BY <1>1, <2>1, <2>2, <2>4, <3>1, <3>5 DEF Turn, Closed
  <2> QED BY <2>3, <2>4
<1> QED BY <1>8, <1>9, <1>10, <1>11, <1>12, <1>13 DEF AnswersInv, Talk

\* No step of the clients, the threads or the coroutines breaks the invariant.
LEMMA AnswersNext == AnswersInv /\ [Next]_vars => AnswersInv'
<1> SUFFICES ASSUME AnswersInv, [Next]_vars PROVE AnswersInv'
  OBVIOUS
<1>1. UNCHANGED setup /\ SlotsInv'
  BY SlotsNext DEF AnswersInv, Next, vars
<1>2. ASSUME NEW c \in Client, Calls(c) \/ Close(c) \/ Stall(c) PROVE AnswersInv'
  BY <1>1, <1>2, AnswersConnect, AnswersWrite, AnswersRead, AnswersClose, AnswersStall DEF Calls
<1>3. CASE Accept
  BY <1>1, <1>3, AnswersAccept
<1>4. CASE UNCHANGED vars \/ Assign \/ Stop
  BY <1>1, <1>4, AnswersQuiet DEF vars, Assign, Stop, net
<1>5. CASE Poll \/ CloseSocket \/ ClearSlot
  <2>1. handler = [pc |-> handler.pc, i |-> handler.i, fd |-> handler.fd, tx |-> handler.tx]
    BY DEF AnswersInv, SlotsInv, Types
  <2>2. handler.pc # "send" /\ handler'.pc # "send" /\ handler'.tx \in {handler.tx, <<>>}
    <3>1. CASE Poll
      BY <2>1, <3>1 DEF Poll
    <3>2. CASE CloseSocket
      BY <2>1, <3>2 DEF CloseSocket
    <3>3. CASE ClearSlot
      BY <2>1, <3>3 DEF ClearSlot, NextSlot, Polling
    <3> QED BY <1>5, <3>1, <3>2, <3>3
  <2> QED BY <1>1, <1>5, <2>2, AnswersQuiet DEF Poll, CloseSocket, ClearSlot, net
<1>6. CASE Recv
  BY <1>1, <1>6, AnswersRecv
<1>7. CASE SendAnswer
  BY <1>1, <1>7, AnswersSend
<1>8. CASE Async
  BY <1>1, <1>8, AnswersAcceptAsync, AnswersReadAsync, AnswersWriteAsync DEF Async
<1> QED BY <1>2, <1>3, <1>4, <1>5, <1>6, <1>7, <1>8 DEF Next, Acceptor, Handler

\* For any number of slots and clients, in both transports, whoever closes when: the pieces
\* of a client's requests are taken in their order, none twice, none left out and none not
\* yet sent, whatever comes back is for the client it comes to, and with messages of one
\* piece every call returns the answer to the request it made, although one recv() is taken
\* for a request and answers carry no number.
THEOREM AnswersAlwaysSound == Spec => []AnswersSound
<1>1. AnswersInv => AnswersSound
  <2> SUFFICES ASSUME AnswersInv, NEW c \in Client
               PROVE  /\ Consecutive(taken[c]) /\ \A j \in DOMAIN taken[c] : WasSent(c, taken[c][j])
                      /\ \A k \in DOMAIN results[c] : \A j \in DOMAIN results[c][k] : results[c][k][j][1] = c
                      /\ \A j \in DOMAIN down[c] : down[c][j][1] = c
                      /\ setup.pieces = 1 =>
                           \A k \in DOMAIN results[c] : results[c][k] = Answer(c, Request(k))
    BY DEF AnswersSound, AnswersGoHome, AnswersFit
  <2>1. Talk(c) /\ taken[c] \in Seq(Piece) /\ up[c] \in Seq(Piece)
    BY DEF AnswersInv, DataTypes
  <2> DEFINE a == taken[c]
             b == up[c]
  <2>2. Consecutive(a \o b) /\ \A j \in DOMAIN (a \o b) : WasSent(c, (a \o b)[j])
    BY <2>1 DEF Talk, Ordered, All
  <2>3. a \in Seq(Piece) /\ b \in Seq(Piece)
    BY <2>1
  <2> HIDE DEF a, b
  <2>4. \A j \in DOMAIN a : j \in DOMAIN (a \o b) /\ (a \o b)[j] = a[j] /\ (j # 1 => j - 1 \in DOMAIN a)
    BY <2>3, JoinOf
  <2>5. Consecutive(a) /\ \A j \in DOMAIN a : WasSent(c, a[j])
    BY <2>2, <2>4 DEF Consecutive
  <2> QED BY <2>1, <2>5 DEF Talk, Home, Turn, For, a
<1> QED BY <1>1, AnswersInit, AnswersNext, PTL DEF Spec
=============================================================================
