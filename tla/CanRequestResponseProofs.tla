---------------------- MODULE CanRequestResponseProofs ----------------------
(***************************************************************************)
(* Proofs about requests and responses over CAN: the variables keep their  *)
(* types, messages do not become more, with prompt answers a call returns  *)
(* the answer to what it asked, and no answer serves two calls.            *)
(***************************************************************************)
EXTENDS CanRequestResponse, FiniteSetTheorems, TLAPS

-----------------------------------------------------------------------------
(* Type correctness.                                                       *)

Transfers == [left : 0..1, parts : Seq(Content), from : Nodes \cup {None}]
Messages == [from : Nodes, what : Content]

\* A transfer under way has had a part sent, and only clients write to the server.
Types ==
  /\ setup \in Setups
  /\ calls \in [Client -> 0..MaxCalls] /\ waiting \subseteq Client
  /\ txBuffer \in [Nodes -> Content]
  /\ sending \in [Links -> Transfers]
  /\ \A p \in Links : sending[p] # Idle => sending[p].parts # <<>>
  /\ received \in [Nodes -> Seq(Messages)]
  /\ \A i \in DOMAIN received[Server] : received[Server][i].from \in Client
  /\ queue \in [Client -> Seq(Content)] /\ \A c \in Client : Len(queue[c]) <= 1
  /\ putting \in [Client -> Content \cup {None}] /\ answer \in [Client -> Content \cup {None}]
  /\ lost \in 0..MaxLost

\* The two ends of a link are nodes, one of them the server.
LEMMA LinkEnds ==
  \A p \in Links : /\ p = <<p[1], p[2]>> /\ p[1] \in Nodes /\ p[2] \in Nodes
                   /\ p[2] = Server => p[1] \in Client
                   /\ p[2] # Server => p[1] = Server /\ p[2] \in Client
BY SystemAssumption DEF SystemAssumption, Links, Nodes

\* Every client has a link to the server and one back.
LEMMA LinksOf == \A c \in Client : <<c, Server>> \in Links /\ <<Server, c>> \in Links
BY DEF Links

\* Statuses and garbled messages are contents.
LEMMA StatusContent ==
  {ServerError, BadRequest, Garbled, Status("none")} \subseteq Content
BY DEF Content

\* Requests of the calls that a client may make are contents, and so are the responses.
LEMMA RequestContent ==
  \A c \in Client, k \in 1..MaxCalls : Req(c, k) \in Content /\ Resp(Req(c, k)) \in Content
BY DEF Req, Resp, Content

\* What the server replies to any content is a content (requestCallback).
LEMMA ReplyContent == \A q \in Content : Reply(q) \in Content
<1> SUFFICES ASSUME NEW q \in Content PROVE Reply(q) \in Content
  OBVIOUS
<1>1. CASE q.kind = "request"
  <2>1. q \in [kind : {"request", "response"}, who : Client, call : 1..MaxCalls]
    BY <1>1 DEF Content, ServerError, BadRequest, Garbled, Status
  <2>2. Resp(q) \in [kind : {"request", "response"}, who : Client, call : 1..MaxCalls]
    BY <2>1 DEF Resp
  <2> QED BY <1>1, <2>2 DEF Reply, Content
<1>2. CASE q.kind # "request"
  BY <1>2, StatusContent DEF Reply
<1> QED BY <1>1, <1>2

\* The parts of a message make a content.
LEMMA WholeContent == \A s \in Seq(Content) : s # <<>> => WholeOf(s) \in Content
<1> SUFFICES ASSUME NEW s \in Seq(Content), s # <<>> PROVE WholeOf(s) \in Content
  OBVIOUS
<1>1. s[1] \in Content
  OBVIOUS
<1> QED BY <1>1, StatusContent DEF WholeOf

\* A message given to isotp_fast_send is a transfer that has a part sent.
LEMMA SentTypes ==
  ASSUME NEW s \in [Links -> Transfers], NEW from \in Nodes, NEW to, <<from, to>> \in Links,
         NEW x \in Content, NEW long,
         \A p \in Links : s[p] # Idle => s[p].parts # <<>>
  PROVE  /\ Sent(s, from, to, x, long) \in [Links -> Transfers]
         /\ \A p \in Links : Sent(s, from, to, x, long)[p] # Idle
                               => Sent(s, from, to, x, long)[p].parts # <<>>
<1> DEFINE t == Transfer(from, IF long THEN 1 ELSE 0, <<x>>)
<1>1. <<x>> \in Seq(Content) /\ <<x>> # <<>>
  OBVIOUS
<1>2. t \in Transfers /\ t.parts # <<>>
  BY <1>1 DEF Transfer, Transfers
<1> QED BY <1>2 DEF Sent

\* The initial state is typed.
LEMMA TypesInit == Init => Types
<1> SUFFICES ASSUME Init PROVE Types
  OBVIOUS
<1> USE SystemAssumption DEF SystemAssumption
<1>1. Idle \in Transfers
  BY DEF Idle, Transfer, Transfers
<1>2. <<>> \in Seq(Messages) /\ <<>> \in Seq(Content) /\ Len(<<>>) <= 1
  OBVIOUS
<1>3. Status("none") \in Content
  BY StatusContent
<1>4. Server \in Nodes
  BY DEF Nodes
<1> QED BY <1>1, <1>2, <1>3, <1>4 DEF Init, Types

\* Every step keeps the types.
LEMMA TypesNext == Types /\ [Next]_vars => Types'
<1> SUFFICES ASSUME Types, [Next]_vars PROVE Types'
  OBVIOUS
<1> USE SystemAssumption DEF SystemAssumption
<1>0. /\ Server \in Nodes /\ Client \subseteq Nodes
      /\ Idle \in Transfers
  BY DEF Nodes, Idle, Transfer, Transfers
<1>1. CASE UNCHANGED vars
  BY <1>1 DEF vars, Types
<1>2. ASSUME NEW p \in Links, UNCHANGED setup, NextPart(p) PROVE Types'
  <2>1. txBuffer[p[1]] \in Content /\ sending[p].parts \in Seq(Content)
    BY LinkEnds DEF Types, Transfers
  <2>2. /\ Append(sending[p].parts, txBuffer[p[1]]) \in Seq(Content)
        /\ Append(sending[p].parts, txBuffer[p[1]]) # <<>>
    BY <2>1
  <2>3. /\ Transfer(p[1], 0, Append(sending[p].parts, txBuffer[p[1]])) \in Transfers
        /\ Transfer(p[1], 0, Append(sending[p].parts, txBuffer[p[1]])).parts # <<>>
    BY <2>2, LinkEnds DEF Transfer, Transfers
  <2> QED BY <1>2, <2>3 DEF Types, NextPart
<1>3. ASSUME NEW p \in Links, UNCHANGED setup, Arrives(p) PROVE Types'
  <2> DEFINE msg == [from |-> p[1], what |-> WholeOf(sending[p].parts)]
  <2>1. sending[p].parts \in Seq(Content) /\ sending[p].parts # <<>>
    BY <1>3 DEF Types, Transfers, Arrives
  <2>2. msg \in Messages
    BY <2>1, WholeContent, LinkEnds DEF Messages
  <2>3. received[p[2]] \in Seq(Messages) /\ Append(received[p[2]], msg) \in Seq(Messages)
    BY <2>2, LinkEnds DEF Types
  <2>4. received' = [received EXCEPT ![p[2]] = Append(@, msg)]
    BY <1>3 DEF Arrives
  <2>5. received' \in [Nodes -> Seq(Messages)]
    BY <2>3, <2>4 DEF Types
  <2>6. \A i \in DOMAIN received'[Server] : received'[Server][i].from \in Client
    <3>1. CASE p[2] = Server
      <4>1. received'[Server] = Append(received[Server], msg) /\ msg.from \in Client
        BY <3>1, <2>4, <1>0, LinkEnds DEF Types
      <4>2. received[Server] \in Seq(Messages)
        BY <1>0 DEF Types
      <4> HIDE DEF msg
      <4> QED BY <4>1, <4>2 DEF Types
    <3>2. CASE p[2] # Server
      BY <3>2, <2>4, <1>0 DEF Types
    <3> QED BY <3>1, <3>2
  <2>7. sending' \in [Links -> Transfers] /\ \A l \in Links : sending'[l] # Idle => sending'[l].parts # <<>>
    BY <1>3, <1>0 DEF Types, Arrives
  <2> QED BY <1>3, <2>5, <2>6, <2>7 DEF Types, Arrives
<1>4. ASSUME NEW p \in Links, UNCHANGED setup, Lose(p) PROVE Types'
  BY <1>4, <1>0, SMTT(40) DEF Types, Lose
<1>5. ASSUME UNCHANGED setup, ServerReceives PROVE Types'
  <2> DEFINE msg == Head(received[Server])
             x == Reply(msg.what)
  <2>1. received[Server] \in Seq(Messages) /\ received[Server] # <<>>
    BY <1>5, <1>0 DEF Types, ServerReceives
  <2>2. msg \in Messages /\ Tail(received[Server]) \in Seq(Messages)
    BY <2>1
  <2>3. msg.from \in Client
    BY <2>1 DEF Types
  <2>4. x \in Content
    BY <2>2, ReplyContent DEF Messages
  <2>5. <<Server, msg.from>> \in Links
    BY <2>3, LinksOf
  <2>6. \E long \in BOOLEAN : sending' = Sent(sending, Server, msg.from, x, long)
    BY <1>5 DEF ServerReceives
  <2> HIDE DEF msg, x
  <2>7. sending' \in [Links -> Transfers] /\ \A l \in Links : sending'[l] # Idle => sending'[l].parts # <<>>
    <3> PICK long \in BOOLEAN : sending' = Sent(sending, Server, msg.from, x, long)
      BY <2>6
    <3>1. sending \in [Links -> Transfers] /\ \A l \in Links : sending[l] # Idle => sending[l].parts # <<>>
      BY DEF Types
    <3> QED BY <3>1, <2>4, <2>5, <1>0, SentTypes
  <2>8. received' = [received EXCEPT ![Server] = Tail(@)]
    BY <1>5 DEF ServerReceives
  <2>9. received' \in [Nodes -> Seq(Messages)]
    BY <2>8, <2>2 DEF Types
  <2>10. \A i \in DOMAIN received'[Server] : received'[Server][i].from \in Client
    <3>1. received'[Server] = Tail(received[Server])
      BY <2>8, <1>0 DEF Types
    <3> QED BY <3>1, <2>1 DEF Types
  <2>11. txBuffer' \in [Nodes -> Content]
    BY <1>5, <2>4 DEF Types, ServerReceives, msg, x
  <2> QED BY <1>5, <2>7, <2>9, <2>10, <2>11 DEF Types, ServerReceives
<1>6. ASSUME NEW c \in Client, UNCHANGED setup, ClientReceives(c) PROVE Types'
  <2>1. received[c] \in Seq(Messages) /\ received[c] # <<>> /\ c # Server
    BY <1>6, <1>0 DEF Types, ClientReceives
  <2>2. Head(received[c]) \in Messages /\ Tail(received[c]) \in Seq(Messages)
    BY <2>1
  <2>3. Head(received[c]).what \in Content
    BY <2>2 DEF Messages
  <2> QED BY <1>6, <2>1, <2>2, <2>3, <1>0 DEF Types, ClientReceives
<1>7. ASSUME NEW c \in Client, UNCHANGED setup, Put(c) PROVE Types'
  <2>1. putting[c] \in Content
    BY <1>7 DEF Types, Put
  <2>2. <<putting[c]>> \in Seq(Content) /\ Len(<<putting[c]>>) <= 1
    BY <2>1
  <2> QED BY <1>7, <2>2 DEF Types, Put
<1>8. ASSUME NEW c \in Client, UNCHANGED setup, PutFails(c) PROVE Types'
  <2>1. ServerError \in Content /\ <<c, Server>> \in Links /\ c \in Nodes
    BY StatusContent, LinksOf, <1>0
  <2>2. sending' \in [Links -> Transfers] /\ \A l \in Links : sending'[l] # Idle => sending'[l].parts # <<>>
    <3>1. sending' = Sent(sending, c, Server, ServerError, FALSE)
      BY <1>8 DEF PutFails
    <3>2. sending \in [Links -> Transfers] /\ \A l \in Links : sending[l] # Idle => sending[l].parts # <<>>
      BY DEF Types
    <3> QED BY <2>1, <3>1, <3>2, <1>0, SentTypes
  <2> QED BY <1>8, <2>2 DEF Types, PutFails
<1>9. ASSUME NEW c \in Client, UNCHANGED setup, Call(c) PROVE Types'
  <2>1. calls[c] + 1 \in 1..MaxCalls
    BY <1>9 DEF Types, Call
  <2>2. calls' \in [Client -> 0..MaxCalls] /\ calls'[c] = calls[c] + 1
    BY <1>9, <2>1 DEF Types, Call
  <2>3. Req(c, calls'[c]) \in Content
    BY <2>1, <2>2, RequestContent
  <2>4. <<c, Server>> \in Links /\ c \in Nodes
    BY LinksOf, <1>0
  <2>5. \E long : sending' = Sent(sending, c, Server, Req(c, calls'[c]), long)
    BY <1>9 DEF Call
  <2>6. sending' \in [Links -> Transfers] /\ \A l \in Links : sending'[l] # Idle => sending'[l].parts # <<>>
    <3>1. PICK long : sending' = Sent(sending, c, Server, Req(c, calls'[c]), long)
      BY <2>5
    <3>2. sending \in [Links -> Transfers] /\ \A l \in Links : sending[l] # Idle => sending[l].parts # <<>>
      BY DEF Types
    <3> QED BY <3>1, <3>2, <2>3, <2>4, SentTypes
  <2>7. txBuffer' \in [Nodes -> Content]
    BY <1>9, <2>3 DEF Types, Call
  <2> QED BY <1>9, <2>2, <2>6, <2>7 DEF Types, Call
<1>10. ASSUME NEW c \in Client, UNCHANGED setup, Read(c) PROVE Types'
  <2>1. queue[c] \in Seq(Content) /\ queue[c] # <<>> /\ Len(queue[c]) <= 1
    BY <1>10 DEF Types, Read
  <2>2. Head(queue[c]) \in Content /\ Tail(queue[c]) \in Seq(Content) /\ Len(Tail(queue[c])) <= 1
    BY <2>1
  <2> QED BY <1>10, <2>2 DEF Types, Read
<1>11. ASSUME NEW c \in Client, UNCHANGED setup, TimesOut(c) PROVE Types'
  BY <1>11 DEF Types, TimesOut
<1> QED BY <1>1, <1>2, <1>3, <1>4, <1>5, <1>6, <1>7, <1>8, <1>9, <1>10, <1>11 DEF Next, Step

\* The invariant of the types is the one the run checks.
LEMMA TypesImply == Types => TypeOK
<1> SUFFICES ASSUME Types PROVE TypeOK
  OBVIOUS
<1>1. ASSUME NEW p \in Links
      PROVE  sending[p].left \in 0..1 /\ \A i \in DOMAIN sending[p].parts : sending[p].parts[i] \in Content
  BY DEF Types, Transfers
<1>2. ASSUME NEW n \in Nodes, NEW i \in DOMAIN received[n] PROVE received[n][i].what \in Content
  <2>1. received[n] \in Seq(Messages)
    BY DEF Types
  <2>2. received[n][i] \in Messages
    BY <2>1, <1>2
  <2> QED BY <2>2 DEF Messages
<1> QED BY <1>1, <1>2 DEF Types, TypeOK

\* In every behaviour the variables keep their types: for any clients, calls and losses.
THEOREM RequestsTypeCorrect == Spec => []TypeOK
<1>1. Spec => []Types
  BY TypesInit, TypesNext, PTL DEF Spec
<1> QED BY <1>1, TypesImply, PTL

-----------------------------------------------------------------------------
(* Messages replace one another.                                           *)

\* The places in a queue whose messages are from c, and their number, as AskedBy counts them.
FromPlaces(s, c) == {i \in DOMAIN s : s[i].from = c}
Counted(s, c) == Cardinality(FromPlaces(s, c))

\* The messages of one sender in a queue can be counted.
LEMMA CountedType ==
  ASSUME NEW s \in Seq(Messages), NEW c
  PROVE  IsFiniteSet(FromPlaces(s, c)) /\ Counted(s, c) \in Nat
<1>1. FromPlaces(s, c) \subseteq 1..Len(s) /\ Len(s) \in Int
  BY DEF FromPlaces
<1>2. IsFiniteSet(1..Len(s))
  BY <1>1, FS_Interval
<1>3. IsFiniteSet(FromPlaces(s, c))
  BY <1>1, <1>2, FS_Subset
<1> QED BY <1>3, FS_CardinalityType DEF Counted

\* A message that is queued counts once, for its sender.
LEMMA CountedAppend ==
  ASSUME NEW s \in Seq(Messages), NEW m \in Messages, NEW c
  PROVE  Counted(Append(s, m), c) = Counted(s, c) + One(m.from = c)
<1> DEFINE S == FromPlaces(s, c)
           T == FromPlaces(Append(s, m), c)
<1>0. Append(s, m) \in Seq(Messages)
  OBVIOUS
<1>1. IsFiniteSet(S) /\ Len(s) + 1 \notin S /\ Cardinality(S) \in Nat
  <2>1. IsFiniteSet(S) /\ Cardinality(S) \in Nat
    BY CountedType DEF Counted
  <2>2. Len(s) + 1 \notin S
    BY DEF FromPlaces
  <2> QED BY <2>1, <2>2
<1>2. CASE m.from = c
  <2>1. T = S \cup {Len(s) + 1}
    BY <1>2 DEF FromPlaces
  <2>2. Cardinality(T) = Cardinality(S) + 1
    BY <1>1, <2>1, FS_AddElement
  <2> QED BY <2>2, <1>2 DEF Counted, One
<1>3. CASE m.from # c
  <2>1. T = S
    BY <1>3 DEF FromPlaces
  <2> QED BY <2>1, <1>1, <1>3 DEF Counted, One
<1> QED BY <1>2, <1>3

\* A message that is taken from the head of a queue counts no more.
LEMMA CountedTail ==
  ASSUME NEW s \in Seq(Messages), s # <<>>, NEW c
  PROVE  Counted(s, c) = Counted(Tail(s), c) + One(Head(s).from = c)
<1> DEFINE S == FromPlaces(s, c)
           T == FromPlaces(Tail(s), c)
           f == [i \in T |-> i + 1]
<1>1. Tail(s) \in Seq(Messages) /\ Len(Tail(s)) = Len(s) - 1 /\ Len(s) \in Nat \ {0}
  OBVIOUS
<1>2. IsFiniteSet(S) /\ IsFiniteSet(T)
  BY <1>1, CountedType
<1>3. T = {i \in 1..(Len(s) - 1) : s[i + 1].from = c}
  BY <1>1 DEF FromPlaces
<1>4. f \in Bijection(T, S \ {1})
  <2>1. S = {i \in 1..Len(s) : s[i].from = c}
    BY DEF FromPlaces
  <2> HIDE DEF S, T
  <2>2. \A i \in T : i \in Nat /\ i + 1 \in S \ {1}
    BY <1>1, <1>3, <2>1
  <2>3. \A j \in S \ {1} : j - 1 \in T /\ f[j - 1] = j
    BY <1>1, <1>3, <2>1
  <2>4. f \in [T -> S \ {1}]
    BY <2>2
  <2>5. \A i, j \in T : f[i] = f[j] => i = j
    BY <2>2
  <2> QED BY <2>3, <2>4, <2>5 DEF Bijection, Injection, Surjection, IsInjective
<1>5. Cardinality(S \ {1}) = Cardinality(T)
  BY <1>2, <1>4, FS_Bijection DEF ExistsBijection
<1>6. Cardinality(S \ {1}) = IF 1 \in S THEN Cardinality(S) - 1 ELSE Cardinality(S)
  BY <1>2, FS_RemoveElement
<1>7. 1 \in S <=> Head(s).from = c
  BY <1>1 DEF FromPlaces
<1>8. Cardinality(S) \in Nat /\ Cardinality(T) \in Nat
  BY <1>2, FS_CardinalityType
<1>9. Counted(s, c) = Cardinality(S) /\ Counted(Tail(s), c) = Cardinality(T)
  BY DEF Counted
<1> HIDE DEF S, T
<1> QED BY <1>5, <1>6, <1>7, <1>8, <1>9 DEF One

\* What MessagesOf adds up are natural numbers.
LEMMA Summands ==
  ASSUME Types, NEW c \in Client
  PROVE  /\ AskedBy(c) = Counted(received[Server], c) /\ AskedBy(c) \in Nat
         /\ Len(received[c]) \in Nat /\ Len(queue[c]) \in Nat /\ calls[c] \in Nat
<1> USE SystemAssumption DEF SystemAssumption
<1>1. received[Server] \in Seq(Messages) /\ received[c] \in Seq(Messages) /\ queue[c] \in Seq(Content)
  BY DEF Types, Nodes
<1>2. calls[c] \in Nat
  BY DEF Types
<1>3. AskedBy(c) = Counted(received[Server], c)
  BY DEF AskedBy, Counted, FromPlaces
<1> QED BY <1>1, <1>2, <1>3, CountedType

\* A condition counts zero or one.
LEMMA OneType == \A b : One(b) \in 0..1
BY DEF One

\* A message replaces the one that is being sent on the same link and no other.
LEMMA SentElsewhere ==
  ASSUME NEW s \in [Links -> Transfers], NEW from, NEW to, NEW x, NEW long,
         NEW p \in Links, p # <<from, to>>
  PROVE  Sent(s, from, to, x, long)[p] = s[p]
BY DEF Sent

\* Between a client and the server there are never more messages than the client has made
\* calls: an answer takes the place of a request, an error that of an answer which found the
\* queue full, and "bad request" that of the error (onRequestResponseReceived).
THEOREM NothingEverMultiplies == Spec => []NothingMultiplies
<1> USE SystemAssumption DEF SystemAssumption
<1>1. Init => NothingMultiplies
  <2> SUFFICES ASSUME Init, NEW c \in Client PROVE MessagesOf(c) <= calls[c]
    BY DEF NothingMultiplies
  <2>1. sending[<<c, Server>>] = Idle /\ sending[<<Server, c>>] = Idle
    BY LinksOf DEF Init
  <2>2. received[c] = <<>> /\ queue[c] = <<>> /\ putting[c] = None /\ calls[c] = 0 /\ received[Server] = <<>>
    BY DEF Init, Nodes
  <2>3. AskedBy(c) = 0
    <3>1. {i \in DOMAIN received[Server] : received[Server][i].from = c} = {}
      BY <2>2
    <3> QED BY <3>1, FS_EmptySet DEF AskedBy
  <2> QED BY <2>1, <2>2, <2>3 DEF MessagesOf, One
<1>2. Types /\ NothingMultiplies /\ [Next]_vars => NothingMultiplies'
  <2> SUFFICES ASSUME Types, Types', NothingMultiplies, [Next]_vars, NEW c \in Client
               PROVE  MessagesOf(c)' <= calls'[c]
    BY TypesNext DEF NothingMultiplies
  <2>0. /\ <<c, Server>> \in Links /\ <<Server, c>> \in Links /\ <<c, Server>> # <<Server, c>>
        /\ Server \in Nodes /\ c \in Nodes /\ c # Server
        /\ MessagesOf(c) <= calls[c]
        /\ One(sending[<<c, Server>>] # Idle) \in 0..1 /\ One(sending[<<Server, c>>] # Idle) \in 0..1
        /\ One(sending'[<<c, Server>>] # Idle) \in 0..1 /\ One(sending'[<<Server, c>>] # Idle) \in 0..1
        /\ One(putting[c] # None) \in 0..1 /\ One(putting'[c] # None) \in 0..1
    BY LinksOf, OneType DEF Nodes, NothingMultiplies
  <2>1. /\ AskedBy(c) = Counted(received[Server], c) /\ AskedBy(c) \in Nat
        /\ Len(received[c]) \in Nat /\ Len(queue[c]) \in Nat /\ calls[c] \in Nat
    BY Summands
  <2>2. /\ AskedBy(c)' = Counted(received'[Server], c) /\ AskedBy(c)' \in Nat
        /\ Len(received'[c]) \in Nat /\ Len(queue'[c]) \in Nat /\ calls'[c] \in Nat
    <3>1. received'[Server] \in Seq(Messages) /\ received'[c] \in Seq(Messages) /\ queue'[c] \in Seq(Content)
      BY <2>0 DEF Types
    <3>2. calls'[c] \in Nat
      BY DEF Types
    <3>3. AskedBy(c)' = Counted(received'[Server], c)
      BY DEF AskedBy, Counted, FromPlaces
    <3> QED BY <3>1, <3>2, <3>3, CountedType
  <2> DEFINE T == One(sending[<<c, Server>>] # Idle)
             A == AskedBy(c)
             F == One(sending[<<Server, c>>] # Idle)
             R == Len(received[c])
             P == One(putting[c] # None)
             Q == Len(queue[c])
  <2>3. /\ T + A + F + R + P + Q <= calls[c]
        /\ T' + A' + F' + R' + P' + Q' <= calls'[c] => MessagesOf(c)' <= calls'[c]
    BY <2>0 DEF MessagesOf
  <2>4. /\ T \in 0..1 /\ T' \in 0..1 /\ F \in 0..1 /\ F' \in 0..1 /\ P \in 0..1 /\ P' \in 0..1
        /\ A \in Nat /\ A' \in Nat /\ R \in Nat /\ R' \in Nat /\ Q \in Nat /\ Q' \in Nat
        /\ calls[c] \in Nat /\ calls'[c] \in Nat
    BY <2>0, <2>1, <2>2
  <2>5. /\ sending'[<<c, Server>>] = sending[<<c, Server>>] => T' = T
        /\ sending'[<<Server, c>>] = sending[<<Server, c>>] => F' = F
        /\ received'[Server] = received[Server] => A' = A
        /\ received'[c] = received[c] => R' = R
        /\ putting'[c] = putting[c] => P' = P
        /\ queue'[c] = queue[c] => Q' = Q
    BY <2>1, <2>2
  <2>6. /\ sending[<<c, Server>>] # Idle => T = 1
        /\ sending[<<Server, c>>] # Idle => F = 1
        /\ sending'[<<c, Server>>] = Idle => T' = 0
        /\ sending'[<<Server, c>>] = Idle => F' = 0
        /\ putting[c] # None => P = 1
        /\ putting'[c] = None => P' = 0
    BY DEF One
  <2>7. sending \in [Links -> Transfers] /\ received \in [Nodes -> Seq(Messages)]
    BY DEF Types
  <2> HIDE DEF T, A, F, R, P, Q
  <2> SUFFICES T' + A' + F' + R' + P' + Q' <= calls'[c]
    BY <2>3
  <2>8. CASE UNCHANGED vars
    BY <2>8, <2>3, <2>4, <2>5 DEF vars
  <2>9. ASSUME NEW p \in Links, UNCHANGED setup, NextPart(p) \/ Lose(p)
        PROVE  T' + A' + F' + R' + P' + Q' <= calls'[c]
    <3>1. sending[p] # Idle /\ \A q \in Links \ {p} : sending'[q] = sending[q]
      BY <2>9, <2>7 DEF NextPart, Lose, Idle, Transfer
    <3>2. T' <= T /\ F' <= F
      BY <3>1, <2>0, <2>4, <2>5, <2>6
    <3>3. A' = A /\ R' = R /\ P' = P /\ Q' = Q /\ calls' = calls
      BY <2>9, <2>5 DEF NextPart, Lose
    <3> QED BY <3>2, <3>3, <2>3, <2>4
  <2>10. ASSUME NEW p \in Links, UNCHANGED setup, Arrives(p)
         PROVE  T' + A' + F' + R' + P' + Q' <= calls'[c]
    <3> DEFINE m == [from |-> p[1], what |-> WholeOf(sending[p].parts)]
    <3>1. m \in Messages /\ m.from = p[1]
      <4>1. sending[p].parts \in Seq(Content) /\ sending[p].parts # <<>>
        BY <2>10 DEF Types, Transfers, Arrives
      <4> QED BY <4>1, WholeContent, LinkEnds DEF Messages
    <3>2. received' = [received EXCEPT ![p[2]] = Append(@, m)]
      BY <2>10 DEF Arrives
    <3>3. sending[p] # Idle /\ sending'[p] = Idle /\ \A q \in Links \ {p} : sending'[q] = sending[q]
      BY <2>10, <2>7 DEF Arrives
    <3>4. P' = P /\ Q' = Q /\ calls' = calls
      BY <2>10, <2>5 DEF Arrives
    <3> HIDE DEF m
    <3>5. CASE p[2] = Server
      <4>1. A' = A + One(p[1] = c) /\ R' = R
        <5>1. received[Server] \in Seq(Messages) /\ received'[Server] = Append(received[Server], m)
          BY <3>2, <3>5, <2>0, <2>7
        <5>2. A = Counted(received[Server], c) /\ A' = Counted(received'[Server], c)
          BY <2>1, <2>2 DEF A
        <5>3. R' = R
          BY <3>2, <3>5, <2>0, <2>5, <2>7
        <5> QED BY <5>1, <5>2, <5>3, <3>1, CountedAppend
      <4>2. F' = F
        BY <3>3, <3>5, <2>0, <2>5
      <4>3. CASE p[1] = c
        <5>1. p = <<c, Server>>
          BY <4>3, <3>5, LinkEnds
        <5> QED BY <5>1, <4>1, <4>2, <4>3, <3>3, <3>4, <2>3, <2>4, <2>6 DEF One
      <4>4. CASE p[1] # c
        <5>1. T' = T
          BY <4>4, <3>3, <2>0, <2>5
        <5> QED BY <5>1, <4>1, <4>2, <4>4, <3>4, <2>3, <2>4 DEF One
      <4> QED BY <4>3, <4>4
    <3>6. CASE p[2] # Server
      <4>1. p[1] = Server /\ A' = A /\ T' = T
        BY <3>2, <3>3, <3>6, <2>0, <2>5, <2>7, LinkEnds
      <4>2. CASE p[2] = c
        <5>1. p = <<Server, c>>
          BY <4>1, <4>2, LinkEnds
        <5>2. received[c] \in Seq(Messages) /\ received'[c] = Append(received[c], m)
          BY <3>2, <4>2, <2>0, <2>7
        <5>3. R' = R + 1
          BY <5>2, <3>1 DEF R
        <5> QED BY <5>1, <5>3, <4>1, <3>3, <3>4, <2>3, <2>4, <2>6
      <4>3. CASE p[2] # c
        <5>1. R' = R /\ F' = F
          BY <4>3, <3>2, <3>3, <2>0, <2>5, <2>7
        <5> QED BY <5>1, <4>1, <3>4, <2>3, <2>4
      <4> QED BY <4>2, <4>3
    <3> QED BY <3>5, <3>6
  <2>11. ASSUME UNCHANGED setup, ServerReceives
         PROVE  T' + A' + F' + R' + P' + Q' <= calls'[c]
    <3> DEFINE h == Head(received[Server])
    <3>1. /\ received[Server] \in Seq(Messages) /\ received[Server] # <<>> /\ h.from \in Client
          /\ received'[Server] = Tail(received[Server])
      <4>1. received[Server] \in Seq(Messages) /\ received[Server] # <<>>
        BY <2>11, <2>0, <2>7 DEF ServerReceives
      <4>2. h.from \in Client
        BY <4>1 DEF Types
      <4> QED BY <4>1, <4>2, <2>11, <2>0, <2>7 DEF ServerReceives
    <3>2. \E x, long : sending' = Sent(sending, Server, h.from, x, long)
      BY <2>11 DEF ServerReceives
    <3>3. received'[c] = received[c] /\ putting' = putting /\ queue' = queue /\ calls' = calls
      BY <2>11, <2>0, <2>7 DEF ServerReceives
    <3> HIDE DEF h
    <3>4. A = A' + One(h.from = c)
      <4>1. A = Counted(received[Server], c) /\ A' = Counted(received'[Server], c)
        BY <2>1, <2>2 DEF A
      <4> QED BY <4>1, <3>1, CountedTail DEF h
    <3>5. T' = T
      <4>1. PICK x, long : sending' = Sent(sending, Server, h.from, x, long)
        BY <3>2
      <4>2. <<c, Server>> # <<Server, h.from>>
        BY <2>0
      <4> QED BY <4>1, <4>2, <2>0, <2>5, <2>7, SentElsewhere
    <3>6. h.from # c => F' = F
      <4> SUFFICES ASSUME h.from # c PROVE F' = F
        OBVIOUS
      <4>1. PICK x, long : sending' = Sent(sending, Server, h.from, x, long)
        BY <3>2
      <4>2. <<Server, c>> # <<Server, h.from>> /\ <<Server, c>> \in Links /\ sending \in [Links -> Transfers]
        BY <2>0, <2>7
      <4>3. sending'[<<Server, c>>] = sending[<<Server, c>>]
        BY ONLY <4>1, <4>2, SentElsewhere
      <4> QED BY <2>5, <4>3
    <3>7. R' = R /\ P' = P /\ Q' = Q /\ calls'[c] = calls[c]
      BY <3>3, <2>5
    <3> QED BY <3>4, <3>5, <3>6, <3>7, <2>3, <2>4 DEF One
  <2>12. ASSUME NEW d \in Client, UNCHANGED setup, ClientReceives(d)
         PROVE  T' + A' + F' + R' + P' + Q' <= calls'[c]
    <3>1. T' = T /\ F' = F /\ Q' = Q /\ A' = A /\ calls' = calls
      BY <2>12, <2>0, <2>5, <2>7 DEF ClientReceives
    <3>2. CASE d = c
      <4>1. received[c] \in Seq(Messages) /\ received[c] # <<>> /\ received'[c] = Tail(received[c])
        BY <2>12, <3>2, <2>0, <2>7 DEF ClientReceives
      <4>2. R' = R - 1
        BY <4>1 DEF R
      <4>3. P = 0
        BY <2>12, <3>2 DEF ClientReceives, P, One
      <4> QED BY <4>2, <4>3, <3>1, <2>3, <2>4
    <3>3. CASE d # c
      <4>1. R' = R /\ P' = P
        BY <2>12, <3>3, <2>0, <2>5, <2>7 DEF ClientReceives, Types
      <4> QED BY <4>1, <3>1, <2>3, <2>4
    <3> QED BY <3>2, <3>3
  <2>13. ASSUME NEW d \in Client, UNCHANGED setup, Put(d)
         PROVE  T' + A' + F' + R' + P' + Q' <= calls'[c]
    <3>1. T' = T /\ F' = F /\ A' = A /\ R' = R /\ calls' = calls
      BY <2>13, <2>0, <2>5 DEF Put
    <3>2. CASE d = c
      <4>1. P = 1 /\ P' = 0
        BY <2>13, <3>2, <2>6 DEF Put, Types
      <4>2. queue[c] = <<>> /\ \E x : queue'[c] = <<x>>
        BY <2>13, <3>2 DEF Put, QueueRoom, Types
      <4>3. Q = 0 /\ Q' = 1
        BY <4>2 DEF Q
      <4> QED BY <4>1, <4>3, <3>1, <2>3, <2>4
    <3>3. CASE d # c
      <4>1. Q' = Q /\ P' = P
        BY <2>13, <3>3, <2>5 DEF Put, Types
      <4> QED BY <4>1, <3>1, <2>3, <2>4
    <3> QED BY <3>2, <3>3
  <2>14. ASSUME NEW d \in Client, UNCHANGED setup, PutFails(d)
         PROVE  T' + A' + F' + R' + P' + Q' <= calls'[c]
    <3>1. PICK long : sending' = Sent(sending, d, Server, ServerError, long)
      BY <2>14 DEF PutFails
    <3>2. A' = A /\ R' = R /\ Q' = Q /\ calls' = calls
      BY <2>14, <2>5 DEF PutFails
    <3>3. F' = F
      <4>1. <<Server, c>> # <<d, Server>>
        BY SystemAssumption DEF SystemAssumption
      <4> QED BY <4>1, <3>1, <2>0, <2>5, <2>7, SentElsewhere
    <3>4. CASE d = c
      <4>1. P = 1 /\ P' = 0
        BY <2>14, <3>4, <2>6 DEF PutFails, Types
      <4> QED BY <4>1, <3>2, <3>3, <2>3, <2>4
    <3>5. CASE d # c
      <4>1. T' = T
        <5>1. <<c, Server>> # <<d, Server>>
          BY <3>5
        <5> QED BY <5>1, <3>1, <2>0, <2>5, <2>7, SentElsewhere
      <4>2. P' = P
        BY <2>14, <3>5, <2>5 DEF PutFails, Types
      <4> QED BY <4>1, <4>2, <3>2, <3>3, <2>3, <2>4
    <3> QED BY <3>4, <3>5
  <2>15. ASSUME NEW d \in Client, UNCHANGED setup, Call(d)
         PROVE  T' + A' + F' + R' + P' + Q' <= calls'[c]
    <3>1. \E long : sending' = Sent(sending, d, Server, Req(d, calls'[d]), long)
      BY <2>15 DEF Call
    <3>2. A' = A /\ R' = R /\ Q' = Q /\ P' = P
      BY <2>15, <2>5 DEF Call
    <3>3. F' = F
      <4>1. <<Server, c>> # <<d, Server>>
        BY SystemAssumption DEF SystemAssumption
      <4>2. PICK long : sending' = Sent(sending, d, Server, Req(d, calls'[d]), long)
        BY <3>1
      <4> QED BY <4>1, <4>2, <2>0, <2>5, <2>7, SentElsewhere
    <3>4. CASE d = c
      <4>1. calls'[c] = calls[c] + 1
        BY <2>15, <3>4 DEF Call, Types
      <4> QED BY <4>1, <3>2, <3>3, <2>3, <2>4
    <3>5. CASE d # c
      <4>1. T' = T
        <5>1. PICK long : sending' = Sent(sending, d, Server, Req(d, calls'[d]), long)
          BY <3>1
        <5>2. <<c, Server>> # <<d, Server>>
          BY <3>5
        <5> QED BY <5>1, <5>2, <2>0, <2>5, <2>7, SentElsewhere
      <4>2. calls'[c] = calls[c]
        BY <2>15, <3>5 DEF Call, Types
      <4> QED BY <4>1, <4>2, <3>2, <3>3, <2>3, <2>4
    <3> QED BY <3>4, <3>5
  <2>16. ASSUME NEW d \in Client, UNCHANGED setup, Read(d) \/ TimesOut(d)
         PROVE  T' + A' + F' + R' + P' + Q' <= calls'[c]
    <3>1. T' = T /\ F' = F /\ A' = A /\ R' = R /\ P' = P /\ calls' = calls
      BY <2>16, <2>5 DEF Read, TimesOut
    <3>2. Q' <= Q
      <4>1. CASE queue'[c] = queue[c]
        BY <4>1, <2>4, <2>5
      <4>2. CASE queue'[c] # queue[c]
        <5>1. queue[c] \in Seq(Content) /\ queue[c] # <<>> /\ queue'[c] = Tail(queue[c])
          BY <4>2, <2>16 DEF Read, TimesOut, Types
        <5> QED BY <5>1 DEF Q
      <4> QED BY <4>1, <4>2
    <3> QED BY <3>1, <3>2, <2>3, <2>4
  <2> QED BY <2>8, <2>9, <2>10, <2>11, <2>12, <2>13, <2>14, <2>15, <2>16 DEF Next, Step
<1>3. Spec => []Types
  BY TypesInit, TypesNext, PTL DEF Spec
<1> QED BY <1>1, <1>2, <1>3, PTL DEF Spec

-----------------------------------------------------------------------------
(* The answers fit.  While answers are prompt, the conversation of a       *)
(* client is in one place at a time: its request is being sent, or waits   *)
(* at the server, or the response is being sent, has arrived, is being put *)
(* into the queue, or is in the queue.  Long messages need a single caller.*)

Apart == setup.prompt /\ (setup.long => \A c, d \in setup.callers : c = d)

Place == {"asking", "asked", "answering", "answered", "putting", "queued"}
At(c, s) ==
  \/ s = "asking" /\ sending[<<c, Server>>] # Idle
  \/ s = "asked" /\ \E i \in DOMAIN received[Server] : received[Server][i].from = c
  \/ s = "answering" /\ sending[<<Server, c>>] # Idle
  \/ s = "answered" /\ received[c] # <<>>
  \/ s = "putting" /\ putting[c] # None
  \/ s = "queued" /\ queue[c] # <<>>

OnePlace ==
  /\ waiting \subseteq setup.callers
  /\ \A c \in Client, s, t \in Place : At(c, s) /\ At(c, t) => s = t
  /\ \A c \in Client, s \in Place : At(c, s) => c \in waiting

\* There is one message of the conversation at that place.
OneMessage ==
  /\ \A i, j \in DOMAIN received[Server] : received[Server][i].from = received[Server][j].from => i = j
  /\ \A c \in Client : Len(received[c]) <= 1

\* What is at each place is the request of the last call, or the response to it.
AllOf(t, x, from) == /\ \A i \in DOMAIN t.parts : t.parts[i] = x
                     /\ t.left > 0 => setup.long /\ txBuffer[from] = x
Question(c) == Req(c, calls[c])
Conversation ==
  /\ \A c \in Client : AllOf(sending[<<c, Server>>], Question(c), c)
  /\ \A i \in DOMAIN received[Server] : received[Server][i].what = Question(received[Server][i].from)
  /\ \A c \in Client : AllOf(sending[<<Server, c>>], Resp(Question(c)), Server)
  /\ \A c \in Client : \A i \in DOMAIN received[c] : received[c][i].what = Resp(Question(c))
  /\ \A c \in Client : putting[c] # None => putting[c] = Resp(Question(c))
  /\ \A c \in Client : queue[c] # <<>> => queue[c][1] = Resp(Question(c))
  /\ \A c \in Client : answer[c] # None => answer[c] = Resp(Question(c))

InTurn == Apart => OnePlace /\ OneMessage /\ Conversation

Turn == Types /\ Apart /\ OnePlace /\ OneMessage /\ Conversation

\* With a single caller, setup.long asks for nothing more.
LEMMA SingleCaller ==
  ASSUME setup \in Setups, setup.prompt, setup.long => Cardinality(setup.callers) = 1
  PROVE  Apart
<1>1. CASE setup.long
  <2>1. IsFiniteSet(setup.callers)
    BY SystemAssumption, FS_Subset DEF SystemAssumption
  <2>2. \E x : setup.callers = {x}
    BY <1>1, <2>1, FS_Singleton
  <2> QED BY <2>2 DEF Apart
<1>2. CASE ~setup.long
  BY <1>2 DEF Apart
<1> QED BY <1>1, <1>2

\* A conversation that goes from one place to another, or nowhere, stays in one place.
LEMMA Moves ==
  ASSUME OnePlace, UNCHANGED <<setup, waiting>>,
         NEW c \in Client, NEW old \in Place, At(c, old), NEW new \in Place,
         \A d \in Client, s \in Place : At(d, s)' => (d = c /\ s = new) \/ (At(d, s) /\ ~(d = c /\ s = old))
  PROVE  OnePlace'
<1>1. ASSUME NEW s \in Place, At(c, s)' PROVE s = new
  BY <1>1 DEF OnePlace
<1>2. \A d \in Client, s \in Place : d # c /\ At(d, s)' => At(d, s)
  OBVIOUS
<1>3. \A d \in Client, s, t \in Place : At(d, s)' /\ At(d, t)' => s = t
  <2>1. TAKE d \in Client, s, t \in Place
  <2>2. HAVE At(d, s)' /\ At(d, t)'
  <2>3. CASE d = c
    BY <1>1, <2>2, <2>3
  <2>4. CASE d # c
    BY <1>2, <2>2, <2>4 DEF OnePlace
  <2> QED BY <2>3, <2>4
<1>4. \A d \in Client, s \in Place : At(d, s)' => d \in waiting'
  BY <1>1, <1>2 DEF OnePlace
<1>5. waiting' \subseteq setup'.callers
  BY DEF OnePlace
<1> HIDE DEF Place
<1> QED BY <1>3, <1>4, <1>5 DEF OnePlace

\* Where nobody comes to a new place, nothing changes.
LEMMA Stays ==
  ASSUME OnePlace, UNCHANGED setup, waiting' \subseteq setup.callers,
         \A d \in Client, s \in Place : At(d, s)' => At(d, s) /\ d \in waiting'
  PROVE  OnePlace'
BY Zenon DEF OnePlace

\* NextPart sends another part of the same message.
LEMMA NextPartTurn ==
  ASSUME Turn, UNCHANGED setup, NEW p \in Links, NextPart(p)
  PROVE  OnePlace' /\ OneMessage' /\ Conversation'
<1> USE DEF Turn
<1> DEFINE x == txBuffer[p[1]]
<1>1. /\ sending[p].left > 0 /\ sending[p].parts \in Seq(Content) /\ sending[p] # Idle
      /\ sending' = [sending EXCEPT ![p] = Transfer(p[1], 0, Append(@.parts, x))]
      /\ UNCHANGED <<calls, waiting, txBuffer, received, queue, putting, answer>>
  BY DEF NextPart, Types, Transfers, Idle, Transfer
<1>2. sending'[p].parts = Append(sending[p].parts, x) /\ sending'[p].left = 0
  BY <1>1 DEF Types, Transfer
<1>3. \A l \in Links : l # p => sending'[l] = sending[l]
  BY <1>1 DEF Types
<1>4. \A d \in Client, s \in Place : At(d, s)' => At(d, s)
  BY <1>1, <1>3, LinksOf DEF At
<1>5. OnePlace'
  BY <1>1, <1>4, Stays DEF OnePlace
<1>6. OneMessage'
  BY <1>1 DEF OneMessage
<1>7. ASSUME NEW q, AllOf(sending[p], q, p[1]) PROVE AllOf(sending[p], q, p[1])'
  <2>1. x = q
    BY <1>1, <1>7 DEF AllOf
  <2> HIDE DEF x
  <2>2. \A i \in DOMAIN sending'[p].parts : sending'[p].parts[i] = q
    BY <1>1, <1>2, <1>7, <2>1, SMTT(40) DEF AllOf
  <2> QED BY <1>2, <2>2 DEF AllOf
<1>8. ASSUME NEW q, NEW l \in Links, l # p, AllOf(sending[l], q, l[1]) PROVE AllOf(sending[l], q, l[1])'
  BY <1>1, <1>3, <1>8 DEF AllOf
<1>9. \A q : \A l \in Links : AllOf(sending[l], q, l[1]) => AllOf(sending[l], q, l[1])'
  BY <1>7, <1>8
<1> QED BY <1>1, <1>5, <1>6, <1>9, LinksOf DEF Conversation, Question

\* A link that is idle says nothing.
LEMMA IdleSays == \A x, from : AllOf(Idle, x, from)
BY DEF AllOf, Idle, Transfer

\* A message that arrives has left the bus (Arrives on the way to the server).
LEMMA RequestArrivesTurn ==
  ASSUME Turn, UNCHANGED setup, NEW c \in Client, Arrives(<<c, Server>>)
  PROVE  OnePlace' /\ OneMessage' /\ Conversation'
<1> USE DEF Turn
<1> DEFINE p == <<c, Server>>
           msg == [from |-> c, what |-> WholeOf(sending[p].parts)]
<1>1. /\ p \in Links /\ sending[p] # Idle /\ sending[p].parts \in Seq(Content) /\ sending[p].parts # <<>>
      /\ UNCHANGED <<calls, waiting, txBuffer, queue, putting, answer>>
  BY LinksOf DEF Arrives, Types, Transfers
<1>2. received[Server] \in Seq(Messages) /\ received'[Server] = Append(received[Server], msg)
  BY DEF Arrives, Types, Nodes
<1>3. \A d \in Client : received'[d] = received[d]
  BY SystemAssumption DEF Arrives, Types, Nodes, SystemAssumption
<1>4. sending'[p] = Idle /\ \A l \in Links : l # p => sending'[l] = sending[l]
  BY <1>1 DEF Arrives, Types
<1>5. At(c, "asking")
  BY <1>1 DEF At
<1>6. msg.what = Question(c)
  <2>1. \A i \in DOMAIN sending[p].parts : sending[p].parts[i] = Question(c)
    BY DEF Conversation, AllOf
  <2> QED BY <1>1, <2>1 DEF WholeOf
<1> HIDE DEF p, msg
<1>7. msg.from = c
  BY DEF msg
<1>8. DOMAIN received'[Server] = 1..Len(received[Server]) + 1 /\ Len(received[Server]) \in Nat
      /\ DOMAIN received[Server] = 1..Len(received[Server])
      /\ received'[Server][Len(received[Server]) + 1] = msg
      /\ \A i \in 1..Len(received[Server]) : received'[Server][i] = received[Server][i]
  BY <1>2
<1>9. \A i \in DOMAIN received[Server] : received[Server][i].from # c
  BY <1>5 DEF OnePlace, At, Place
<1>10. \A d \in Client, s \in Place :
         At(d, s)' => (d = c /\ s = "asked") \/ (At(d, s) /\ ~(d = c /\ s = "asking"))
  <2>1. \A d \in Client : <<d, Server>> \in Links /\ <<Server, d>> \in Links /\ d # Server
    BY LinksOf, SystemAssumption DEF SystemAssumption
  <2>2. \A d \in Client : /\ d # c => sending'[<<d, Server>>] = sending[<<d, Server>>]
                          /\ sending'[<<Server, d>>] = sending[<<Server, d>>]
    BY <1>4, <2>1 DEF p
  <2>3. \A d \in Client : (\E i \in DOMAIN received'[Server] : received'[Server][i].from = d)
                            => d = c \/ \E i \in DOMAIN received[Server] : received[Server][i].from = d
    BY <1>7, <1>8
  <2> QED BY <1>1, <1>3, <1>4, <2>2, <2>3 DEF At, p
<1>11. OnePlace'
  BY <1>1, <1>5, <1>10, Moves DEF Place
<1>12. OneMessage'
  <2>1. ASSUME NEW i \in DOMAIN received'[Server], NEW j \in DOMAIN received'[Server],
               received'[Server][i].from = received'[Server][j].from
        PROVE  i = j
    <3>1. CASE i \in DOMAIN received[Server] /\ j \in DOMAIN received[Server]
      BY <1>8, <2>1, <3>1 DEF OneMessage
    <3>2. \A k \in DOMAIN received'[Server] :
            received'[Server][k].from = c <=> k = Len(received[Server]) + 1
      BY <1>7, <1>8, <1>9, SMTT(40)
    <3> QED BY <1>8, <2>1, <3>1, <3>2, SMTT(40)
  <2>2. \A d \in Client : Len(received'[d]) <= 1
    BY <1>3 DEF OneMessage
  <2> QED BY <2>1, <2>2 DEF OneMessage
<1>13. \A i \in DOMAIN received'[Server] : received'[Server][i].what = Question(received'[Server][i].from)
  BY <1>6, <1>7, <1>8 DEF Conversation
<1>14. \A l \in Links : \A q, from : AllOf(sending[l], q, from) => AllOf(sending[l], q, from)'
  <2>1. TAKE l \in Links
  <2>2. CASE l = p
    BY <1>4, <2>2 DEF AllOf, Idle, Transfer
  <2>3. CASE l # p
    BY <1>1, <1>4, <2>3 DEF AllOf
  <2> QED BY <2>2, <2>3
<1>15. \A d : Question(d)' = Question(d)
  BY <1>1 DEF Question
<1>16. \A d \in Client : AllOf(sending[<<d, Server>>], Question(d), d)'
                      /\ AllOf(sending[<<Server, d>>], Resp(Question(d)), Server)'
  BY <1>1, <1>14, LinksOf DEF Conversation, Question
<1>17. (\A i \in DOMAIN received[Server] : received[Server][i].what = Question(received[Server][i].from))'
  BY <1>13, <1>15
<1> QED BY <1>1, <1>3, <1>11, <1>12, <1>15, <1>16, <1>17, ZenonT(60) DEF Conversation

\* The same on the way back.
LEMMA ResponseArrivesTurn ==
  ASSUME Turn, UNCHANGED setup, NEW c \in Client, Arrives(<<Server, c>>)
  PROVE  OnePlace' /\ OneMessage' /\ Conversation'
<1> USE DEF Turn
<1> DEFINE p == <<Server, c>>
           msg == [from |-> Server, what |-> WholeOf(sending[p].parts)]
<1>1. /\ p \in Links /\ sending[p] # Idle /\ sending[p].parts \in Seq(Content) /\ sending[p].parts # <<>>
      /\ UNCHANGED <<calls, waiting, txBuffer, queue, putting, answer>>
  BY LinksOf DEF Arrives, Types, Transfers
<1>2. received[c] \in Seq(Messages) /\ received'[c] = Append(received[c], msg)
  BY DEF Arrives, Types, Nodes
<1>3. received'[Server] = received[Server] /\ \A d \in Client : d # c => received'[d] = received[d]
  BY SystemAssumption DEF Arrives, Types, Nodes, SystemAssumption
<1>4. sending'[p] = Idle /\ \A l \in Links : l # p => sending'[l] = sending[l]
  BY <1>1 DEF Arrives, Types
<1>5. At(c, "answering")
  BY <1>1 DEF At
<1>6. msg.what = Resp(Question(c))
  <2>1. \A i \in DOMAIN sending[p].parts : sending[p].parts[i] = Resp(Question(c))
    BY DEF Conversation, AllOf
  <2> QED BY <1>1, <2>1 DEF WholeOf
<1>7. received[c] = <<>>
  BY <1>5 DEF OnePlace, At, Place
<1> HIDE DEF p, msg
<1>8. received'[c] = <<msg>>
  BY <1>2, <1>7
<1>9. \A d \in Client, s \in Place :
        At(d, s)' => (d = c /\ s = "answered") \/ (At(d, s) /\ ~(d = c /\ s = "answering"))
  <2>1. \A d \in Client : <<d, Server>> \in Links /\ <<Server, d>> \in Links /\ d # Server
    BY LinksOf, SystemAssumption DEF SystemAssumption
  <2>2. \A d \in Client : /\ d # c => sending'[<<Server, d>>] = sending[<<Server, d>>]
                          /\ sending'[<<d, Server>>] = sending[<<d, Server>>]
    BY <1>4, <2>1 DEF p
  <2> QED BY <1>1, <1>3, <1>4, <2>2 DEF At, p
<1>10. OnePlace'
  BY <1>1, <1>5, <1>9, Moves DEF Place
<1>11. OneMessage'
  <2>1. Len(received'[c]) <= 1
    BY <1>8
  <2>2. \A d \in Client : Len(received'[d]) <= 1
    BY <1>3, <2>1 DEF OneMessage
  <2> QED BY <1>3, <2>2 DEF OneMessage
<1>12. \A d \in Client : \A i \in DOMAIN received'[d] : received'[d][i].what = Resp(Question(d))
  BY <1>3, <1>6, <1>8 DEF Conversation
<1>13. \A l \in Links : \A q, from : AllOf(sending[l], q, from) => AllOf(sending[l], q, from)'
  <2>1. TAKE l \in Links
  <2>2. CASE l = p
    BY <1>4, <2>2 DEF AllOf, Idle, Transfer
  <2>3. CASE l # p
    BY <1>1, <1>4, <2>3 DEF AllOf
  <2> QED BY <2>2, <2>3
<1> QED BY <1>1, <1>3, <1>10, <1>11, <1>12, <1>13, LinksOf DEF Conversation, Question

\* A loss ends a conversation.
LEMMA LoseTurn ==
  ASSUME Turn, UNCHANGED setup, NEW p \in Links, Lose(p)
  PROVE  OnePlace' /\ OneMessage' /\ Conversation'
<1> USE DEF Turn
<1>1. /\ sending'[p] = Idle /\ \A l \in Links : l # p => sending'[l] = sending[l]
      /\ UNCHANGED <<calls, waiting, txBuffer, received, queue, putting, answer>>
  BY DEF Lose, Types
<1>2. \A d \in Client, s \in Place : At(d, s)' => At(d, s)
  BY <1>1, LinksOf DEF At
<1>3. OnePlace'
  BY <1>1, <1>2, Stays DEF OnePlace
<1>4. OneMessage'
  BY <1>1 DEF OneMessage
<1>5. \A l \in Links : \A q, from : AllOf(sending[l], q, from) => AllOf(sending[l], q, from)'
  BY <1>1, IdleSays, ZenonT(60) DEF AllOf
<1> QED BY <1>1, <1>3, <1>4, <1>5, LinksOf DEF Conversation, Question

\* What is left of a queue without its first message.
LEMMA TailOf ==
  ASSUME NEW S, NEW s \in Seq(S), s # <<>>
  PROVE  /\ Len(s) \in Nat /\ Len(s) > 0 /\ DOMAIN s = 1..Len(s)
         /\ DOMAIN Tail(s) = 1..Len(s) - 1 /\ \A i \in 1..Len(s) - 1 : Tail(s)[i] = s[i + 1]
<1>1. Len(s) \in Nat /\ Len(s) > 0 /\ DOMAIN s = 1..Len(s)
  OBVIOUS
<1>2. Tail(s) \in Seq(S) /\ Len(Tail(s)) = Len(s) - 1
  BY <1>1
<1>3. DOMAIN Tail(s) = 1..Len(s) - 1
  BY <1>2
<1>4. \A i \in 1..Len(s) - 1 : Tail(s)[i] = s[i + 1]
  BY <1>1
<1> QED BY <1>1, <1>3, <1>4

\* Only a request has kind "request", and it is answered.
LEMMA ReplyToRequest == \A c, k : Reply(Req(c, k)) = Resp(Req(c, k)) /\ Resp(Req(c, k)).kind = "response"
BY DEF Reply, Req, Resp

\* The server takes a request and starts sending the response (onRequestResponseReceived).
\* The transmit buffer it overwrites is not being sent from: with long messages, the
\* only caller is the one who asks.
LEMMA ServerReceivesTurn ==
  ASSUME Turn, UNCHANGED setup, ServerReceives
  PROVE  OnePlace' /\ OneMessage' /\ Conversation'
<1> USE DEF Turn
<1> DEFINE c == Head(received[Server]).from
           x == Resp(Question(c))
           p == <<Server, c>>
<1>1. /\ received[Server] \in Seq(Messages) /\ received[Server] # <<>>
      /\ received' = [received EXCEPT ![Server] = Tail(@)]
      /\ UNCHANGED <<calls, waiting, queue, putting, answer>>
  BY DEF ServerReceives, Types, Nodes
<1>2. 1 \in DOMAIN received[Server] /\ Head(received[Server]) = received[Server][1]
  BY <1>1
<1>3. c \in Client /\ p \in Links /\ Head(received[Server]).what = Question(c)
  BY <1>2, LinksOf DEF Types, Conversation
<1>4. Reply(Head(received[Server]).what) = x /\ x.kind = "response"
  BY <1>3, ReplyToRequest DEF Question
<1>5. /\ txBuffer' = [txBuffer EXCEPT ![Server] = x]
      /\ sending' = [sending EXCEPT ![p] = Transfer(Server, IF setup.long THEN 1 ELSE 0, <<x>>)]
  BY <1>4 DEF ServerReceives, Sent
<1>6. /\ received'[Server] = Tail(received[Server])
      /\ \A d \in Client : received'[d] = received[d] /\ txBuffer'[d] = txBuffer[d]
      /\ txBuffer'[Server] = x
  BY <1>1, <1>5, SystemAssumption DEF Types, Nodes, SystemAssumption
<1>7. /\ sending'[p] = Transfer(Server, IF setup.long THEN 1 ELSE 0, <<x>>)
      /\ \A l \in Links : l # p => sending'[l] = sending[l]
  BY <1>3, <1>5 DEF Types
<1>8. At(c, "asked")
  BY <1>2 DEF At
<1>9. Len(received[Server]) \in Nat /\ Len(received[Server]) > 0
      /\ DOMAIN received[Server] = 1..Len(received[Server])
      /\ DOMAIN received'[Server] = 1..Len(received[Server]) - 1
      /\ \A i \in 1..Len(received[Server]) - 1 : received'[Server][i] = received[Server][i + 1]
  BY <1>1, <1>6, TailOf
<1>10. \A i \in DOMAIN received'[Server] : i + 1 \in DOMAIN received[Server] /\ i + 1 # 1
                                         /\ received'[Server][i] = received[Server][i + 1]
  BY <1>9
<1>11. \A i \in DOMAIN received'[Server] : received'[Server][i].from # c
  BY <1>2, <1>10 DEF OneMessage
<1> HIDE DEF c, x, p
<1>12. \A d \in Client, s \in Place :
         At(d, s)' => (d = c /\ s = "answering") \/ (At(d, s) /\ ~(d = c /\ s = "asked"))
  <2>1. \A d \in Client : <<d, Server>> \in Links /\ <<Server, d>> \in Links /\ d # Server
    BY LinksOf, SystemAssumption DEF SystemAssumption
  <2>2. \A d \in Client : /\ d # c => sending'[<<Server, d>>] = sending[<<Server, d>>]
                          /\ sending'[<<d, Server>>] = sending[<<d, Server>>]
    BY <1>7, <2>1 DEF p
  <2>3. \A d \in Client : (\E i \in DOMAIN received'[Server] : received'[Server][i].from = d)
                            => d # c /\ \E i \in DOMAIN received[Server] : received[Server][i].from = d
    BY <1>10, <1>11
  <2> QED BY <1>1, <1>6, <2>2, <2>3 DEF At
<1>13. OnePlace'
  BY <1>1, <1>3, <1>8, <1>12, Moves DEF Place
<1>14. OneMessage'
  <2>1. ASSUME NEW i \in DOMAIN received'[Server], NEW j \in DOMAIN received'[Server],
               received'[Server][i].from = received'[Server][j].from
        PROVE  i = j
    <3>1. i + 1 = j + 1
      BY <1>10, <2>1 DEF OneMessage
    <3> QED BY <1>9, <2>1, <3>1
  <2>2. \A d \in Client : Len(received'[d]) <= 1
    BY <1>6 DEF OneMessage
  <2> QED BY <2>1, <2>2 DEF OneMessage
<1>15. \A d : Question(d)' = Question(d)
  BY <1>1 DEF Question
<1>16. ASSUME NEW d \in Client PROVE AllOf(sending[<<d, Server>>], Question(d), d)'
  <2>1. <<d, Server>> \in Links /\ <<d, Server>> # p
    BY LinksOf, SystemAssumption DEF SystemAssumption, p
  <2> QED BY <1>6, <1>7, <1>15, <2>1 DEF Conversation, AllOf
<1>17. ASSUME NEW d \in Client PROVE AllOf(sending[<<Server, d>>], Resp(Question(d)), Server)'
  <2>1. <<Server, d>> \in Links
    BY LinksOf
  <2>2. CASE d = c
    <3>1. sending'[<<Server, d>>].parts = <<x>> /\ x = Resp(Question(d))'
          /\ (sending'[<<Server, d>>].left > 0 => setup.long)
      BY <1>7, <1>15, <2>2 DEF p, x, Transfer
    <3> QED BY <1>6, <3>1 DEF AllOf
  <2>3. CASE d # c
    <3>1. sending'[<<Server, d>>] = sending[<<Server, d>>]
      BY <1>7, <2>1, <2>3 DEF p
    <3>2. ~(sending[<<Server, d>>].left > 0)
      <4>1. SUFFICES ASSUME sending[<<Server, d>>].left > 0 PROVE FALSE
        OBVIOUS
      <4>2. At(d, "answering") /\ setup.long
        BY <4>1 DEF At, Idle, Transfer, Conversation, AllOf
      <4>3. d \in setup.callers /\ c \in setup.callers
        BY <1>3, <1>8, <4>2 DEF OnePlace, Place
      <4> QED BY <2>3, <4>2, <4>3 DEF Apart
    <3> QED BY <1>15, <3>1, <3>2 DEF Conversation, AllOf
  <2> QED BY <2>2, <2>3
<1>18. (\A i \in DOMAIN received[Server] : received[Server][i].what = Question(received[Server][i].from))'
  <2>1. \A i \in DOMAIN received'[Server] : received'[Server][i].what = Question(received'[Server][i].from)
    BY <1>10 DEF Conversation
  <2> QED BY <1>15, <2>1
<1> QED BY <1>1, <1>6, <1>13, <1>14, <1>15, <1>16, <1>17, <1>18 DEF Conversation

\* A client's work queue takes a response (ClientReceives) ...
LEMMA ClientReceivesTurn ==
  ASSUME Turn, UNCHANGED setup, NEW c \in Client, ClientReceives(c)
  PROVE  OnePlace' /\ OneMessage' /\ Conversation'
<1> USE DEF Turn
<1>1. /\ received[c] \in Seq(Messages) /\ received[c] # <<>>
      /\ received' = [received EXCEPT ![c] = Tail(@)]
      /\ putting' = [putting EXCEPT ![c] = Head(received[c]).what]
      /\ UNCHANGED <<calls, waiting, txBuffer, sending, queue, answer>>
  BY DEF ClientReceives, Types, Nodes
<1>2. 1 \in DOMAIN received[c] /\ Head(received[c]) = received[c][1] /\ Len(received[c]) <= 1
  BY <1>1 DEF OneMessage
<1>3. received'[c] = <<>>
  BY <1>1, <1>2 DEF Types, Nodes
<1>4. received'[Server] = received[Server] /\ \A d \in Client : d # c => received'[d] = received[d]
  BY <1>1, SystemAssumption DEF Types, Nodes, SystemAssumption
<1>5. putting'[c] = Resp(Question(c)) /\ \A d \in Client : d # c => putting'[d] = putting[d]
  BY <1>1, <1>2 DEF Types, Conversation
<1>6. At(c, "answered")
  BY <1>1 DEF At
<1>7. \A d \in Client, s \in Place :
        At(d, s)' => (d = c /\ s = "putting") \/ (At(d, s) /\ ~(d = c /\ s = "answered"))
  BY <1>1, <1>3, <1>4, <1>5 DEF At
<1>8. OnePlace'
  BY <1>1, <1>6, <1>7, Moves DEF Place
<1>9. OneMessage'
  <2>1. \A d \in Client : Len(received'[d]) <= 1
    BY <1>3, <1>4 DEF OneMessage
  <2> QED BY <1>4, <2>1 DEF OneMessage
<1>10. \A d : Question(d)' = Question(d)
  BY <1>1 DEF Question
<1>11. \A d \in Client : \A i \in DOMAIN received'[d] : received'[d][i].what = Resp(Question(d))
  BY <1>3, <1>4 DEF Conversation
<1> QED BY <1>1, <1>4, <1>5, <1>8, <1>9, <1>10, <1>11 DEF Conversation, AllOf

\* ... and puts it into the queue (Put).
LEMMA PutTurn ==
  ASSUME Turn, UNCHANGED setup, NEW c \in Client, Put(c)
  PROVE  OnePlace' /\ OneMessage' /\ Conversation'
<1> USE DEF Turn
<1>1. /\ putting[c] # None /\ putting'[c] = None /\ queue'[c] = <<putting[c]>>
      /\ \A d \in Client : d # c => putting'[d] = putting[d] /\ queue'[d] = queue[d]
      /\ UNCHANGED <<calls, waiting, txBuffer, sending, received, answer>>
  BY DEF Put, Types
<1>2. At(c, "putting")
  BY <1>1 DEF At
<1>3. \A d \in Client, s \in Place :
        At(d, s)' => (d = c /\ s = "queued") \/ (At(d, s) /\ ~(d = c /\ s = "putting"))
  BY <1>1 DEF At
<1>4. OnePlace'
  BY <1>1, <1>2, <1>3, Moves DEF Place
<1>5. OneMessage'
  BY <1>1 DEF OneMessage
<1>6. \A d : Question(d)' = Question(d)
  BY <1>1 DEF Question
<1>7. \A d \in Client : queue'[d] # <<>> => queue'[d][1] = Resp(Question(d))
  BY <1>1 DEF Conversation
<1>8. \A d \in Client : putting'[d] # None => putting'[d] = Resp(Question(d))
  BY <1>1 DEF Conversation
<1> QED BY <1>1, <1>4, <1>5, <1>6, <1>7, <1>8 DEF Conversation, AllOf

\* The queue is never full: a client has one conversation at a time.
LEMMA PutFailsTurn ==
  ASSUME Turn, NEW c \in Client, PutFails(c)
  PROVE  FALSE
BY DEF Turn, PutFails, QueueRoom, OnePlace, At, Place

\* A call begins a conversation where there was none (Call).
LEMMA CallTurn ==
  ASSUME Turn, UNCHANGED setup, NEW c \in Client, Call(c)
  PROVE  OnePlace' /\ OneMessage' /\ Conversation'
<1> USE DEF Turn
<1> DEFINE p == <<c, Server>>
           x == Req(c, calls'[c])
<1>1. /\ c \in setup.callers /\ c \notin waiting /\ waiting' = waiting \cup {c}
      /\ calls' = [calls EXCEPT ![c] = @ + 1]
      /\ txBuffer' = [txBuffer EXCEPT ![c] = x]
      /\ answer' = [answer EXCEPT ![c] = None]
      /\ UNCHANGED <<received, queue, putting>>
  BY DEF Call
<1>2. sending' = [sending EXCEPT ![p] = Transfer(c, IF setup.long THEN 1 ELSE 0, <<x>>)]
  BY DEF Call, Sent
<1>3. /\ p \in Links /\ sending'[p] = Transfer(c, IF setup.long THEN 1 ELSE 0, <<x>>)
      /\ \A l \in Links : l # p => sending'[l] = sending[l]
  BY <1>2, LinksOf DEF Types
<1>4. /\ txBuffer'[c] = x /\ \A n \in Nodes : n # c => txBuffer'[n] = txBuffer[n]
      /\ answer'[c] = None /\ \A d \in Client : d # c => answer'[d] = answer[d]
  BY <1>1 DEF Types, Nodes
<1>5. \A d : d # c => Question(d)' = Question(d)
  BY <1>1 DEF Question, Types
<1>6. Question(c)' = x
  BY DEF Question
<1>7. \A s \in Place : ~At(c, s)
  BY <1>1 DEF OnePlace
<1> HIDE DEF p, x
<1>8. \A d \in Client, s \in Place : At(d, s)' => (d = c /\ s = "asking") \/ At(d, s)
  <2>1. \A d \in Client : <<d, Server>> \in Links /\ <<Server, d>> \in Links /\ d # Server
    BY LinksOf, SystemAssumption DEF SystemAssumption
  <2>2. \A d \in Client : /\ d # c => sending'[<<d, Server>>] = sending[<<d, Server>>]
                          /\ sending'[<<Server, d>>] = sending[<<Server, d>>]
    BY <1>3, <2>1 DEF p
  <2> QED BY <1>1, <2>2 DEF At
<1>9. OnePlace'
  <2>1. \A d \in Client, s, t \in Place : At(d, s)' /\ At(d, t)' => s = t
    BY <1>7, <1>8 DEF OnePlace
  <2>2. \A d \in Client, s \in Place : At(d, s)' => d \in waiting'
    BY <1>1, <1>8 DEF OnePlace
  <2>3. waiting' \subseteq setup'.callers
    BY <1>1 DEF OnePlace
  <2> HIDE DEF Place
  <2> QED BY <2>1, <2>2, <2>3 DEF OnePlace
<1>10. OneMessage'
  BY <1>1 DEF OneMessage
<1>11. ASSUME NEW d \in Client PROVE AllOf(sending[<<d, Server>>], Question(d), d)'
  <2>1. <<d, Server>> \in Links /\ d \in Nodes
    BY LinksOf DEF Nodes
  <2>2. CASE d = c
    <3>1. sending'[<<d, Server>>].parts = <<x>> /\ (sending'[<<d, Server>>].left > 0 => setup.long)
      BY <1>3, <2>2 DEF p, Transfer
    <3> QED BY <1>4, <1>6, <2>2, <3>1 DEF AllOf
  <2>3. CASE d # c
    BY <1>3, <1>4, <1>5, <2>1, <2>3 DEF p, Conversation, AllOf
  <2> QED BY <2>2, <2>3
<1>12. ASSUME NEW d \in Client PROVE AllOf(sending[<<Server, d>>], Resp(Question(d)), Server)'
  <2>1. <<Server, d>> \in Links /\ <<Server, d>> # p /\ Server \in Nodes /\ Server # c
    BY LinksOf, SystemAssumption DEF SystemAssumption, p, Nodes
  <2>2. sending'[<<Server, d>>] = sending[<<Server, d>>] /\ txBuffer'[Server] = txBuffer[Server]
    BY <1>3, <1>4, <2>1
  <2>3. CASE d = c
    <3>1. sending[<<Server, d>>] = Idle
      BY <1>7, <2>3 DEF At, Place
    <3> QED BY <2>2, <3>1 DEF AllOf, Idle, Transfer
  <2>4. CASE d # c
    BY <1>5, <2>2, <2>4 DEF Conversation, AllOf
  <2> QED BY <2>3, <2>4
<1>13. (\A i \in DOMAIN received[Server] : received[Server][i].what = Question(received[Server][i].from))'
  <2>1. \A i \in DOMAIN received[Server] : received[Server][i].from # c
    BY <1>7 DEF At, Place
  <2> QED BY <1>1, <1>5, <2>1 DEF Conversation
<1>14. received[c] = <<>> /\ putting[c] = None /\ queue[c] = <<>>
  BY <1>7 DEF At, Place
<1>15. ASSUME NEW d \in Client
       PROVE  /\ (\A i \in DOMAIN received[d] : received[d][i].what = Resp(Question(d)))'
              /\ (putting[d] # None => putting[d] = Resp(Question(d)))'
              /\ (queue[d] # <<>> => queue[d][1] = Resp(Question(d)))'
              /\ (answer[d] # None => answer[d] = Resp(Question(d)))'
  <2>1. CASE d = c
    BY <1>1, <1>4, <1>14, <2>1
  <2>2. CASE d # c
    BY <1>1, <1>4, <1>5, <2>2 DEF Conversation
  <2> QED BY <2>1, <2>2
<1> QED BY <1>9, <1>10, <1>11, <1>12, <1>13, <1>15 DEF Conversation

\* read() takes the response out of the queue and ends the conversation (Read).
LEMMA ReadTurn ==
  ASSUME Turn, UNCHANGED setup, NEW c \in Client, Read(c)
  PROVE  OnePlace' /\ OneMessage' /\ Conversation'
<1> USE DEF Turn
<1>1. /\ queue[c] # <<>> /\ queue[c] \in Seq(Content) /\ Len(queue[c]) <= 1
      /\ answer' = [answer EXCEPT ![c] = Head(queue[c])]
      /\ queue' = [queue EXCEPT ![c] = Tail(@)] /\ waiting' = waiting \ {c}
      /\ UNCHANGED <<calls, txBuffer, sending, received, putting>>
  BY DEF Read, Types
<1>2. /\ queue'[c] = <<>> /\ answer'[c] = queue[c][1]
      /\ \A d \in Client : d # c => queue'[d] = queue[d] /\ answer'[d] = answer[d]
  BY <1>1 DEF Types
<1>3. At(c, "queued")
  BY <1>1 DEF At
<1>4. \A d \in Client, s \in Place : At(d, s)' => At(d, s) /\ d # c
  <2>1. \A s \in Place : At(c, s) => s = "queued"
    BY <1>3 DEF OnePlace, Place
  <2>2. \A d \in Client, s \in Place : At(d, s)' => At(d, s)
    BY <1>1, <1>2 DEF At
  <2>3. ~At(c, "queued")'
    BY <1>2 DEF At
  <2> QED BY <2>1, <2>2, <2>3
<1>5. \A d \in Client, s \in Place : At(d, s)' => At(d, s) /\ d \in waiting'
  BY <1>1, <1>4 DEF OnePlace
<1>6. OnePlace'
  <2>1. waiting' \subseteq setup.callers
    BY <1>1 DEF OnePlace
  <2> QED BY <1>5, <2>1, Stays
<1>7. OneMessage'
  BY <1>1 DEF OneMessage
<1>8. \A d : Question(d)' = Question(d)
  BY <1>1 DEF Question
<1>9. \A d \in Client : /\ queue'[d] # <<>> => queue'[d][1] = Resp(Question(d))
                       /\ answer'[d] # None => answer'[d] = Resp(Question(d))
  BY <1>1, <1>2 DEF Conversation
<1> QED BY <1>1, <1>6, <1>7, <1>8, <1>9 DEF Conversation, AllOf

\* A call that is given up has no conversation left (TimesOut, with prompt answers).
LEMMA TimesOutTurn ==
  ASSUME Turn, UNCHANGED setup, NEW c \in Client, TimesOut(c)
  PROVE  OnePlace' /\ OneMessage' /\ Conversation'
<1> USE DEF Turn
<1>1. /\ queue[c] = <<>> /\ waiting' = waiting \ {c} /\ ~Underway(c)
      /\ UNCHANGED <<calls, txBuffer, sending, received, queue, putting, answer>>
  BY DEF TimesOut, Apart
<1>2. \A s \in Place : ~At(c, s)
  BY <1>1 DEF At, Underway
<1>3. \A d \in Client, s \in Place : At(d, s)' => At(d, s)
  BY <1>1 DEF At
<1>4. \A d \in Client, s \in Place : At(d, s)' => At(d, s) /\ d \in waiting'
  BY <1>1, <1>2, <1>3 DEF OnePlace
<1>5. OnePlace'
  <2>1. waiting' \subseteq setup.callers
    BY <1>1 DEF OnePlace
  <2> QED BY <1>4, <2>1, Stays
<1> QED BY <1>1, <1>5 DEF OneMessage, Conversation, AllOf, Question

\* The invariant holds at first: nobody has called.
LEMMA InTurnInit == Init => InTurn
<1> SUFFICES ASSUME Init PROVE OnePlace /\ OneMessage /\ Conversation
  BY DEF InTurn
<1> USE DEF Init
<1>1. \A c \in Client, s \in Place : ~At(c, s)
  BY LinksOf DEF At, Nodes
<1>2. OnePlace
  BY <1>1 DEF OnePlace
<1>3. OneMessage
  BY DEF OneMessage, Nodes
<1>4. Conversation
  <2>1. \A c \in Client : /\ AllOf(sending[<<c, Server>>], Question(c), c)
                         /\ AllOf(sending[<<Server, c>>], Resp(Question(c)), Server)
    BY LinksOf, IdleSays
  <2>2. received[Server] = <<>> /\ \A c \in Client : received[c] = <<>>
    BY DEF Nodes
  <2>3. \A c \in Client : putting[c] = None /\ queue[c] = <<>> /\ answer[c] = None
    OBVIOUS
  <2>4. DOMAIN received[Server] = {} /\ \A c \in Client : DOMAIN received[c] = {}
    BY <2>2
  <2> HIDE DEF Init
  <2> QED BY <2>1, <2>3, <2>4, Zenon DEF Conversation
<1> QED BY <1>2, <1>3, <1>4

\* Every step keeps it.
LEMMA InTurnNext == Types /\ InTurn /\ [Next]_vars => InTurn'
<1> SUFFICES ASSUME Types, InTurn, [Next]_vars, Apart' PROVE OnePlace' /\ OneMessage' /\ Conversation'
  BY DEF InTurn
<1>1. UNCHANGED setup
  BY DEF Next, vars
<1>2. Apart
  BY <1>1 DEF Apart
<1>3. Turn
  BY <1>2 DEF Turn, InTurn
<1>4. CASE UNCHANGED vars
  BY <1>3, <1>4 DEF Turn, vars, OnePlace, OneMessage, Conversation, At, AllOf, Question
<1>5. ASSUME NEW p \in Links, Arrives(p) PROVE OnePlace' /\ OneMessage' /\ Conversation'
  <2>1. CASE p[2] = Server
    BY <1>1, <1>3, <1>5, <2>1, LinkEnds, RequestArrivesTurn
  <2>2. CASE p[2] # Server
    BY <1>1, <1>3, <1>5, <2>2, LinkEnds, ResponseArrivesTurn
  <2> QED BY <2>1, <2>2
<1>6. CASE Next
  BY <1>1, <1>3, <1>5, <1>6, NextPartTurn, LoseTurn, ServerReceivesTurn, ClientReceivesTurn, PutTurn,
     PutFailsTurn, CallTurn, ReadTurn, TimesOutTurn DEF Next, Step
<1> QED BY <1>4, <1>6

\* With prompt answers every call that returns an answer returns the one to what it asked,
\* for any number of clients with short messages and for a single caller with long ones:
\* although messages carry no number, the conversations never mix.
THEOREM AnswersFitAlways == Spec => []AnswersFit
<1>1. Spec => [](Types /\ InTurn)
  BY TypesInit, TypesNext, InTurnInit, InTurnNext, PTL DEF Spec
<1>2. Types /\ InTurn => AnswersFit
  BY SingleCaller DEF Types, InTurn, Conversation, Question, AnswersFit
<1> QED BY <1>1, <1>2, PTL

-----------------------------------------------------------------------------
(* Late answers.  Short messages are sent at once, so whatever is late or  *)
(* lost, what is under way to or from a client is its own.                 *)

Own(x, c) == x.kind \in {"request", "response"} => x.who = c /\ x.call <= calls[c]
OwnTransfer(t, c) == t.left = 0 /\ \A i \in DOMAIN t.parts : Own(t.parts[i], c)
AllOwn ==
  ~setup.long =>
    \A c \in Client :
      /\ OwnTransfer(sending[<<c, Server>>], c) /\ OwnTransfer(sending[<<Server, c>>], c)
      /\ \A i \in DOMAIN received[Server] : received[Server][i].from = c => Own(received[Server][i].what, c)
      /\ \A i \in DOMAIN received[c] : Own(received[c][i].what, c)
      /\ putting[c] # None => Own(putting[c], c)
      /\ queue[c] # <<>> => Own(queue[c][1], c)
      /\ answer[c] # None => Own(answer[c], c)

\* A reply belongs to the client whose request it answers, statuses to anybody.
LEMMA OwnReply == \A x \in Content, c \in Client : Own(x, c) => Own(Reply(x), c)
<1> SUFFICES ASSUME NEW x \in Content, NEW c \in Client, Own(x, c) PROVE Own(Reply(x), c)
  OBVIOUS
<1>1. CASE x.kind = "request"
  <2>1. x \in [kind : {"request", "response"}, who : Client, call : 1..MaxCalls]
    BY <1>1 DEF Content, ServerError, BadRequest, Garbled, Status
  <2>2. Resp(x).who = x.who /\ Resp(x).call = x.call
    BY <2>1 DEF Resp
  <2> QED BY <1>1, <2>2 DEF Own, Reply
<1>2. CASE x.kind # "request"
  BY <1>2 DEF Own, Reply, BadRequest, Status
<1> QED BY <1>1, <1>2

\* So does the message made of parts.
LEMMA OwnWhole ==
  ASSUME NEW s \in Seq(Content), s # <<>>, NEW c, \A i \in DOMAIN s : Own(s[i], c)
  PROVE  Own(WholeOf(s), c)
<1>1. 1 \in DOMAIN s
  OBVIOUS
<1> QED BY <1>1 DEF WholeOf, Own, Garbled, Status

\* As calls are only added, what is a client's own remains so.
LEMMA OwnStays ==
  ASSUME Types, Types', [Next]_vars
  PROVE  \A c \in Client : \A x \in Content : Own(x, c) => Own(x, c)'
<1>1. ASSUME NEW c \in Client PROVE calls[c] \in Int /\ calls'[c] \in Int /\ calls[c] <= calls'[c]
  <2>1. calls[c] \in Int /\ calls'[c] \in Int
    BY SystemAssumption DEF Types, SystemAssumption
  <2>2. CASE \E d \in Client : Call(d)
    BY <2>1, <2>2 DEF Call, Types
  <2>3. CASE UNCHANGED calls
    BY <2>1, <2>3
  <2> QED BY <2>2, <2>3 DEF Next, Step, vars, NextPart, Arrives, Lose, ServerReceives, ClientReceives, Put,
                            PutFails, Read, TimesOut
<1>2. ASSUME NEW c \in Client, NEW x \in Content, x.kind \in {"request", "response"} PROVE x.call \in Int
  <2>1. x \in [kind : {"request", "response"}, who : Client, call : 1..MaxCalls]
    BY <1>2 DEF Content, ServerError, BadRequest, Garbled, Status
  <2> QED BY <2>1, SystemAssumption DEF SystemAssumption
<1> QED BY <1>1, <1>2 DEF Own

\* Every step keeps what is under way each client's own.
LEMMA AllOwnNext == Types /\ AllOwn /\ [Next]_vars => AllOwn'
<1> SUFFICES ASSUME Types, AllOwn, [Next]_vars, ~setup'.long PROVE AllOwn'
  BY DEF AllOwn
<1> DEFINE O(x, c) == x.kind \in {"request", "response"} => x.who = c /\ x.call <= calls'[c]
           OT(t, c) == t.left = 0 /\ \A i \in DOMAIN t.parts : O(t.parts[i], c)
<1>1. UNCHANGED setup /\ ~setup.long
  BY DEF Next, vars
<1>2. Types'
  BY TypesNext
<1>3. \A c \in Client : \A x \in Content : Own(x, c) => O(x, c)
  BY <1>2, OwnStays DEF Own
<1>4. SUFFICES ASSUME NEW c \in Client
               PROVE  /\ OT(sending'[<<c, Server>>], c) /\ OT(sending'[<<Server, c>>], c)
                      /\ \A i \in DOMAIN received'[Server] :
                           received'[Server][i].from = c => O(received'[Server][i].what, c)
                      /\ \A i \in DOMAIN received'[c] : O(received'[c][i].what, c)
                      /\ putting'[c] # None => O(putting'[c], c)
                      /\ queue'[c] # <<>> => O(queue'[c][1], c)
                      /\ answer'[c] # None => O(answer'[c], c)
  BY DEF AllOwn, OwnTransfer, Own
<1> DEFINE out == <<c, Server>>
           back == <<Server, c>>
<1>5. /\ c # Server /\ c \in Nodes /\ Server \in Nodes /\ out \in Links /\ back \in Links /\ out # back
      /\ \A d \in Client : /\ d # c => <<d, Server>> # out /\ <<Server, d>> # back
                          /\ <<d, Server>> # back /\ <<Server, d>> # out
  BY LinksOf, SystemAssumption DEF SystemAssumption, Nodes
<1>6. \A l \in Links : sending[l].parts \in Seq(Content)
  BY DEF Types, Transfers
<1>7. /\ OT(sending[out], c) /\ OT(sending[back], c)
  <2>1. OwnTransfer(sending[out], c) /\ OwnTransfer(sending[back], c)
    BY <1>1 DEF AllOwn
  <2>2. \A l \in Links : \A i \in DOMAIN sending[l].parts : sending[l].parts[i] \in Content
    BY <1>6
  <2> HIDE DEF O, out, back
  <2> QED BY <1>3, <1>5, <2>1, <2>2 DEF OwnTransfer
<1>8. \A n \in Nodes : \A i \in DOMAIN received[n] : received[n][i] \in Messages /\ received[n][i].what \in Content
  <2>1. \A n \in Nodes : received[n] \in Seq(Messages)
    BY DEF Types
  <2>2. \A n \in Nodes : \A i \in DOMAIN received[n] : received[n][i] \in Messages
    BY <2>1
  <2> QED BY <2>2 DEF Messages
<1>9. /\ \A i \in DOMAIN received[Server] :
           received[Server][i].from = c => O(received[Server][i].what, c)
      /\ \A i \in DOMAIN received[c] : O(received[c][i].what, c)
  <2>1. /\ \A i \in DOMAIN received[Server] :
             received[Server][i].from = c => Own(received[Server][i].what, c)
        /\ \A i \in DOMAIN received[c] : Own(received[c][i].what, c)
    BY <1>1 DEF AllOwn
  <2> HIDE DEF O
  <2> QED BY <1>3, <1>5, <1>8, <2>1
<1>10. /\ putting[c] # None => putting[c] \in Content /\ Own(putting[c], c) /\ O(putting[c], c)
       /\ queue[c] # <<>> => queue[c][1] \in Content /\ Own(queue[c][1], c) /\ O(queue[c][1], c)
       /\ answer[c] # None => O(answer[c], c)
  <2>1. /\ putting[c] # None => putting[c] \in Content /\ Own(putting[c], c)
        /\ queue[c] # <<>> => Own(queue[c][1], c)
        /\ answer[c] # None => answer[c] \in Content /\ Own(answer[c], c)
    BY <1>1 DEF AllOwn, Types
  <2>2. queue[c] # <<>> => queue[c][1] \in Content
    <3>1. queue[c] \in Seq(Content)
      BY DEF Types
    <3> QED BY <3>1
  <2> HIDE DEF O
  <2> QED BY <1>3, <2>1, <2>2
<1> HIDE DEF O, out, back
<1> DEFINE Sends == OT(sending'[out], c) /\ OT(sending'[back], c)
           Arrived == /\ \A i \in DOMAIN received'[Server] :
                           received'[Server][i].from = c => O(received'[Server][i].what, c)
                      /\ \A i \in DOMAIN received'[c] : O(received'[c][i].what, c)
           Kept == /\ putting'[c] # None => O(putting'[c], c)
                   /\ queue'[c] # <<>> => O(queue'[c][1], c)
                   /\ answer'[c] # None => O(answer'[c], c)
<1>11. ASSUME sending'[out] = sending[out], sending'[back] = sending[back] PROVE Sends
  BY <1>7, <1>11
<1>12. ASSUME received'[Server] = received[Server], received'[c] = received[c] PROVE Arrived
  BY <1>9, <1>12
<1>13. ASSUME UNCHANGED <<putting, queue, answer>> PROVE Kept
  BY <1>10, <1>13
<1>14. OT(Idle, c)
  BY DEF Idle, Transfer
<1>15. ASSUME NEW p \in Links, NextPart(p) PROVE Sends /\ Arrived /\ Kept
  <2>1. p # out /\ p # back
    BY <1>7, <1>15 DEF NextPart
  <2>2. sending'[out] = sending[out] /\ sending'[back] = sending[back]
    BY <1>5, <1>15, <2>1 DEF NextPart, Types
  <2> QED BY <1>11, <1>12, <1>13, <1>15, <2>2 DEF NextPart
<1>16. ASSUME NEW p \in Links, Lose(p) PROVE Sends /\ Arrived /\ Kept
  <2>1. sending'[out] \in {sending[out], Idle} /\ sending'[back] \in {sending[back], Idle}
    BY <1>5, <1>16 DEF Lose, Types
  <2> QED BY <1>7, <1>12, <1>13, <1>14, <1>16, <2>1 DEF Lose
<1>17. ASSUME NEW p \in Links, Arrives(p) PROVE Sends /\ Arrived /\ Kept
  <2> DEFINE msg == [from |-> p[1], what |-> WholeOf(sending[p].parts)]
  <2>1. sending'[out] \in {sending[out], Idle} /\ sending'[back] \in {sending[back], Idle}
    BY <1>5, <1>17 DEF Arrives, Types
  <2>2. Sends
    BY <1>7, <1>14, <2>1
  <2>3. /\ sending[p].parts \in Seq(Content) /\ sending[p].parts # <<>>
        /\ received' = [received EXCEPT ![p[2]] = Append(@, msg)]
        /\ UNCHANGED <<calls, putting, queue, answer>>
    BY <1>6, <1>17 DEF Arrives, Types
  <2>4. ASSUME p = out \/ p = back PROVE O(msg.what, c)
    <3>1. \A i \in DOMAIN sending[p].parts : Own(sending[p].parts[i], c)
      BY <1>1, <2>4 DEF AllOwn, OwnTransfer, out, back
    <3>2. Own(WholeOf(sending[p].parts), c)
      BY <2>3, <3>1, OwnWhole
    <3>3. WholeOf(sending[p].parts) \in Content
      BY <2>3, WholeContent
    <3> QED BY <1>3, <3>2, <3>3
  <2> HIDE DEF msg
  <2>5. \A n \in Nodes : received'[n] = IF n = p[2] THEN Append(received[n], msg) ELSE received[n]
    BY <2>3 DEF Types
  <2>6. \A n \in Nodes : received[n] \in Seq(Messages)
    BY DEF Types
  <2>7. \A n \in Nodes : \A i \in DOMAIN received'[n] :
          (i \in DOMAIN received[n] /\ received'[n][i] = received[n][i]) \/ (n = p[2] /\ received'[n][i] = msg)
    <3> SUFFICES ASSUME NEW n \in Nodes, NEW i \in DOMAIN received'[n]
                 PROVE  \/ i \in DOMAIN received[n] /\ received'[n][i] = received[n][i]
                        \/ n = p[2] /\ received'[n][i] = msg
      OBVIOUS
    <3>1. CASE n # p[2]
      BY <2>5, <3>1
    <3>2. CASE n = p[2]
      <4>1. received'[n] = Append(received[n], msg)
        BY <2>5, <3>2
      <4> DEFINE s == received[n]
      <4>2. s \in Seq(Messages)
        BY <2>6
      <4>3. i \in DOMAIN Append(s, msg) /\ received'[n][i] = Append(s, msg)[i]
        BY <4>1
      <4> HIDE DEF s
      <4>4. (i \in DOMAIN s /\ Append(s, msg)[i] = s[i]) \/ Append(s, msg)[i] = msg
        BY <4>2, <4>3
      <4> QED BY <3>2, <4>3, <4>4 DEF s
    <3> QED BY <3>1, <3>2
  <2>8. msg.from = p[1]
    BY DEF msg
  <2>9. ASSUME p[1] = c \/ p[2] = c PROVE p = out \/ p = back
    BY <1>5, <2>9, LinkEnds DEF out, back
  <2>10. Arrived
    BY <1>5, <1>9, <2>4, <2>7, <2>8, <2>9, SMTT(40)
  <2> QED BY <1>13, <2>2, <2>3, <2>10
<1>18. ASSUME ServerReceives PROVE Sends /\ Arrived /\ Kept
  <2> DEFINE d == Head(received[Server]).from
             q == Head(received[Server]).what
  <2>1. received[Server] \in Seq(Messages) /\ received[Server] # <<>>
    BY <1>5, <1>18 DEF Types, ServerReceives
  <2>2. /\ 1 \in DOMAIN received[Server] /\ d = received[Server][1].from /\ q = received[Server][1].what
    BY <2>1
  <2>3. d \in Client /\ q \in Content /\ (d = c => Own(q, c))
    BY <1>1, <1>5, <1>8, <2>2 DEF Types, AllOwn
  <2>4. d = c => O(Reply(q), c)
    BY <1>3, <2>3, OwnReply, ReplyContent
  <2> HIDE DEF d, q
  <2>5. sending' = Sent(sending, Server, d, Reply(q), FALSE)
    BY <1>1, <1>18 DEF ServerReceives, d, q
  <2>6. sending'[out] = sending[out] /\ (d # c => sending'[back] = sending[back])
        /\ (d = c => sending'[back] = Transfer(Server, 0, <<Reply(q)>>))
    BY <1>5, <2>3, <2>5 DEF Sent, Types, out, back
  <2>7. d = c => OT(Transfer(Server, 0, <<Reply(q)>>), c)
    BY <2>4 DEF Transfer
  <2>8. Sends
    BY <1>7, <2>6, <2>7
  <2>9. received'[Server] = Tail(received[Server]) /\ received'[c] = received[c]
    BY <1>5, <1>18 DEF ServerReceives, Types
  <2>10. \A i \in DOMAIN received'[Server] : \E j \in DOMAIN received[Server] : received'[Server][i] = received[Server][j]
    <3>1. \A i \in 1..Len(received[Server]) - 1 : i + 1 \in 1..Len(received[Server])
      BY <2>1
    <3> QED BY <2>1, <2>9, <3>1, TailOf
  <2>11. Arrived
    BY <1>9, <2>9, <2>10
  <2> QED BY <1>13, <1>18, <2>8, <2>11 DEF ServerReceives
<1>19. ASSUME NEW d \in Client, ClientReceives(d) PROVE Sends /\ Arrived /\ Kept
  <2>1. received[d] \in Seq(Messages) /\ received[d] # <<>> /\ d # Server /\ d \in Nodes
    BY <1>19, SystemAssumption DEF Types, ClientReceives, Nodes, SystemAssumption
  <2>2. /\ received'[Server] = received[Server] /\ received'[d] = Tail(received[d])
        /\ (d # c => received'[c] = received[c] /\ putting'[c] = putting[c])
        /\ putting'[d] = Head(received[d]).what
        /\ UNCHANGED <<sending, queue, answer>>
    BY <1>5, <1>19, <2>1 DEF ClientReceives, Types
  <2>3. 1 \in DOMAIN received[d] /\ Head(received[d]) = received[d][1]
    BY <2>1
  <2>4. \A i \in DOMAIN received'[d] : \E j \in DOMAIN received[d] : received'[d][i] = received[d][j]
    <3>1. \A i \in 1..Len(received[d]) - 1 : i + 1 \in 1..Len(received[d])
      BY <2>1
    <3> QED BY <2>1, <2>2, <3>1, TailOf
  <2>5. Arrived
    BY <1>9, <2>2, <2>4, ZenonT(60)
  <2>6. Kept
    BY <1>9, <1>10, <2>2, <2>3
  <2> QED BY <1>11, <2>2, <2>5, <2>6
<1>20. ASSUME NEW d \in Client, Put(d) PROVE Sends /\ Arrived /\ Kept
  <2>1. /\ putting[d] # None /\ queue'[d] = <<putting[d]>> /\ putting'[d] = None
        /\ (d # c => queue'[c] = queue[c] /\ putting'[c] = putting[c])
        /\ UNCHANGED <<sending, received, answer>>
    BY <1>20 DEF Put, Types
  <2>2. Kept
    BY <1>10, <2>1
  <2> QED BY <1>11, <1>12, <2>1, <2>2
<1>21. ASSUME NEW d \in Client, PutFails(d) PROVE Sends /\ Arrived /\ Kept
  <2>1. sending' = Sent(sending, d, Server, ServerError, FALSE)
    BY <1>21 DEF PutFails
  <2>2. sending'[back] = sending[back] /\ (d # c => sending'[out] = sending[out])
        /\ (d = c => sending'[out] = Transfer(c, 0, <<ServerError>>))
    BY <1>5, <2>1, LinksOf DEF Sent, Types, out, back
  <2>3. O(ServerError, c)
    BY DEF O, ServerError, Status
  <2>4. OT(Transfer(c, 0, <<ServerError>>), c)
    BY <2>3 DEF Transfer
  <2>5. Sends
    BY <1>7, <2>2, <2>4
  <2>6. putting'[d] = None /\ (d # c => putting'[c] = putting[c]) /\ UNCHANGED <<received, queue, answer>>
    BY <1>21 DEF PutFails, Types
  <2>7. Kept
    BY <1>10, <2>6
  <2> QED BY <1>12, <2>5, <2>6, <2>7
<1>22. ASSUME NEW d \in Client, Call(d) PROVE Sends /\ Arrived /\ Kept
  <2> DEFINE x == Req(d, calls'[d])
  <2>1. sending' = [sending EXCEPT ![<<d, Server>>] = Transfer(d, 0, <<x>>)]
    BY <1>1, <1>22 DEF Call, Sent
  <2>2. d = c => O(x, c)
    <3>1. calls'[d] \in Int
      BY <1>2, SystemAssumption DEF Types, SystemAssumption
    <3> QED BY <3>1 DEF O, Req
  <2> HIDE DEF x
  <2>3. sending'[back] = sending[back] /\ (d # c => sending'[out] = sending[out])
        /\ (d = c => sending'[out] = Transfer(c, 0, <<x>>))
    BY <1>5, <2>1, LinksOf DEF Types, out, back
  <2>4. d = c => OT(Transfer(c, 0, <<x>>), c)
    BY <2>2 DEF Transfer
  <2>5. Sends
    BY <1>7, <2>3, <2>4
  <2>6. answer'[d] = None /\ (d # c => answer'[c] = answer[c]) /\ UNCHANGED <<received, queue, putting>>
    BY <1>22 DEF Call, Types
  <2>7. Kept
    BY <1>10, <2>6
  <2> QED BY <1>12, <2>5, <2>6, <2>7
<1>23. ASSUME NEW d \in Client, Read(d) PROVE Sends /\ Arrived /\ Kept
  <2>1. queue[d] \in Seq(Content) /\ queue[d] # <<>> /\ Len(queue[d]) <= 1
    BY <1>23 DEF Read, Types
  <2>2. Tail(queue[d]) = <<>> /\ Head(queue[d]) = queue[d][1]
    BY <2>1
  <2>3. /\ queue'[d] = <<>> /\ answer'[d] = queue[d][1]
        /\ (d # c => queue'[c] = queue[c] /\ answer'[c] = answer[c])
        /\ UNCHANGED <<sending, received, putting>>
    BY <1>23, <2>2 DEF Read, Types
  <2>4. Kept
    BY <1>10, <2>1, <2>3
  <2> QED BY <1>11, <1>12, <2>3, <2>4
<1>24. ASSUME NEW d \in Client, TimesOut(d) PROVE Sends /\ Arrived /\ Kept
  BY <1>11, <1>12, <1>13, <1>24 DEF TimesOut
<1>25. ASSUME UNCHANGED vars PROVE Sends /\ Arrived /\ Kept
  BY <1>11, <1>12, <1>13, <1>25 DEF vars
<1> HIDE DEF Sends, Arrived, Kept
<1>26. Sends /\ Arrived /\ Kept
  BY <1>15, <1>16, <1>17, <1>18, <1>19, <1>20, <1>21, <1>22, <1>23, <1>24, <1>25 DEF Next, Step
<1> QED BY <1>26 DEF Sends, Arrived, Kept, OT, out, back

\* However late answers are and whatever is lost, a client with short messages is never
\* given the answer to another client's request or to one it has not made: the server
\* answers to whom it was asked by, and the frames of a short message are its own.
THEOREM OwnAnswersAlways == Spec => []OwnAnswersOnly
<1>1. Init => AllOwn
  <2> SUFFICES ASSUME Init, NEW c \in Client
               PROVE  /\ OwnTransfer(Idle, c) /\ sending[<<c, Server>>] = Idle /\ sending[<<Server, c>>] = Idle
                      /\ received[Server] = <<>> /\ received[c] = <<>>
                      /\ putting[c] = None /\ queue[c] = <<>> /\ answer[c] = None
    BY DEF AllOwn
  <2> QED BY LinksOf DEF Init, OwnTransfer, Idle, Transfer, Nodes
<1>2. Spec => [](Types /\ AllOwn)
  BY <1>1, TypesInit, TypesNext, AllOwnNext, PTL DEF Spec
<1>3. AllOwn => OwnAnswersOnly
  BY DEF AllOwn, Own, OwnAnswersOnly
<1> QED BY <1>2, <1>3, PTL
-----------------------------------------------------------------------------
(* No answer serves two calls.  Messages carry no number, but what a client *)
(* asks and what it is answered goes through the same places in the same    *)
(* order: the calls that are spoken of at the places are in the order of    *)
(* the places, whatever is lost, late, given up or garbled.                 *)

\* The places of a client's conversation, the newest request at the last one, and the
\* calls that are spoken of there; statuses and garbled messages speak of no call.
Stage == 1..7
Speaks(c, s, k) ==
  \/ s = 7 /\ sending[<<c, Server>>] # Idle /\ sending[<<c, Server>>].parts[1].call = k
  \/ s = 6 /\ \E i \in DOMAIN received[Server] :
                received[Server][i].from = c /\ received[Server][i].what.call = k
  \/ s = 5 /\ sending[<<Server, c>>] # Idle /\ sending[<<Server, c>>].parts[1].call = k
  \/ s = 4 /\ \E i \in DOMAIN received[c] : received[c][i].what.call = k
  \/ s = 3 /\ putting[c] # None /\ putting[c].call = k
  \/ s = 2 /\ queue[c] # <<>> /\ queue[c][1].call = k
  \/ s = 1 /\ answer[c] # None /\ answer[c].call = k

\* Calls are spoken of in the order of the places, and only those that were made.
Staged(c) ==
  /\ \A s, t \in Stage : \A a, b \in 1..MaxCalls : s < t /\ Speaks(c, s, a) /\ Speaks(c, t, b) => a < b
  /\ \A s \in Stage : \A a \in 1..MaxCalls : Speaks(c, s, a) => a <= calls[c]

\* The server's work queue, and the client's, have them in the order of the calls.
Before(x, y) == x.call > 0 /\ y.call > 0 => x.call < y.call
Asked(c) ==
  \A i, j \in DOMAIN received[Server] :
    i < j /\ received[Server][i].from = c /\ received[Server][j].from = c
      => Before(received[Server][i].what, received[Server][j].what)
Answered(c) ==
  \A i, j \in DOMAIN received[c] : i < j => Before(received[c][i].what, received[c][j].what)

InOrder == \A c \in Client : Staged(c) /\ Asked(c) /\ Answered(c)

\* Contents speak of a call that can be made, or of none.
LEMMA CallOf == \A x \in Content : x.call \in 0..MaxCalls
BY SystemAssumption DEF SystemAssumption, Content, ServerError, BadRequest, Garbled, Status

\* A message speaks of the call that its first part does, or of none.
LEMMA WholeCall == \A s \in Seq(Content) : WholeOf(s).call \in {s[1].call, 0}
BY DEF WholeOf, Garbled, Status

\* A reply speaks of the call that the request does, or of none.
LEMMA ReplyCall == \A x \in Content : Reply(x).call \in {x.call, 0}
<1> SUFFICES ASSUME NEW x \in Content PROVE Reply(x).call \in {x.call, 0}
  OBVIOUS
<1>1. CASE x.kind = "request"
  <2>1. x \in [kind : {"request", "response"}, who : Client, call : 1..MaxCalls]
    BY <1>1 DEF Content, ServerError, BadRequest, Garbled, Status
  <2>2. Resp(x).call = x.call
    BY <2>1 DEF Resp
  <2> QED BY <1>1, <2>2 DEF Reply
<1>2. CASE x.kind # "request"
  BY <1>2 DEF Reply, BadRequest, Status
<1> QED BY <1>1, <1>2

\* A sequence with an element more.
LEMMA AppendOf ==
  ASSUME NEW S, NEW s \in Seq(S), NEW x \in S
  PROVE  /\ DOMAIN s = 1..Len(s) /\ Len(s) \in Nat
         /\ DOMAIN Append(s, x) = 1..(Len(s) + 1) /\ Append(s, x)[Len(s) + 1] = x
         /\ \A i \in 1..Len(s) : Append(s, x)[i] = s[i]
OBVIOUS

\* Where no call is spoken of that was not at that place before, the order remains.
LEMMA StagesKept ==
  ASSUME NEW c \in Client, Staged(c), calls[c] \in Int, calls'[c] \in Int, calls[c] <= calls'[c],
         \A s \in Stage : \A a \in 1..MaxCalls : Speaks(c, s, a)' => Speaks(c, s, a)
  PROVE  Staged(c)'
<1>1. \A s, t \in Stage : \A a, b \in 1..MaxCalls : s < t /\ Speaks(c, s, a)' /\ Speaks(c, t, b)' => a < b
  BY DEF Staged
<1>2. \A s \in Stage : \A a \in 1..MaxCalls : Speaks(c, s, a)' => a <= calls'[c]
  BY SystemAssumption DEF Staged, SystemAssumption
<1> QED BY <1>1, <1>2 DEF Staged

\* It remains when a message goes from its place to the next one, and leaves only later
\* calls behind.
LEMMA StagesMoved ==
  ASSUME NEW c \in Client, Staged(c), calls[c] \in Int, calls'[c] = calls[c],
         NEW t \in 2..7, NEW m \in 0..MaxCalls, m > 0 => Speaks(c, t, m),
         \A s \in Stage : \A a \in 1..MaxCalls : Speaks(c, s, a)' => Speaks(c, s, a) \/ (s = t - 1 /\ a = m),
         \A a \in 1..MaxCalls : Speaks(c, t, a)' => m < a
  PROVE  Staged(c)'
<1> USE SystemAssumption DEF SystemAssumption, Stage
<1>1. ASSUME NEW s \in Stage, NEW u \in Stage, NEW a \in 1..MaxCalls, NEW b \in 1..MaxCalls,
             s < u, Speaks(c, s, a)', Speaks(c, u, b)'
      PROVE  a < b
  <2>1. CASE Speaks(c, s, a) /\ Speaks(c, u, b)
    BY <1>1, <2>1 DEF Staged
  <2>2. CASE s = t - 1 /\ a = m /\ u = t
    BY <1>1, <2>2
  <2>3. CASE s = t - 1 /\ a = m /\ u > t /\ Speaks(c, u, b)
    BY <1>1, <2>3 DEF Staged
  <2>4. CASE Speaks(c, s, a) /\ u = t - 1 /\ b = m
    BY <1>1, <2>4 DEF Staged
  <2> QED BY <1>1, <2>1, <2>2, <2>3, <2>4
<1>2. ASSUME NEW s \in Stage, NEW a \in 1..MaxCalls, Speaks(c, s, a)' PROVE a <= calls'[c]
  BY <1>2 DEF Staged
<1> QED BY <1>1, <1>2 DEF Staged

\* Every step keeps the order: a request is newer than all there is of its client, what
\* arrives was sent, a reply is to the oldest request, and the queues are first in, first out.
LEMMA InOrderNext == Types /\ InOrder /\ [Next]_vars => InOrder'
<1> SUFFICES ASSUME Types, InOrder, [Next]_vars, NEW c \in Client
             PROVE  Staged(c)' /\ Asked(c)' /\ Answered(c)'
  BY DEF InOrder
<1> DEFINE out == <<c, Server>>
           back == <<Server, c>>
<1>1. /\ c # Server /\ c \in Nodes /\ Server \in Nodes /\ out \in Links /\ back \in Links /\ out # back
      /\ \A d \in Client : /\ d # c => <<d, Server>> # out /\ <<Server, d>> # back
                           /\ <<d, Server>> # back /\ <<Server, d>> # out
  BY LinksOf, SystemAssumption DEF SystemAssumption, Nodes
<1>2. Staged(c) /\ Asked(c) /\ Answered(c) /\ calls[c] \in Int /\ calls[c] \in 0..MaxCalls
  BY SystemAssumption DEF InOrder, Types, SystemAssumption
<1>3. \A l \in Links : /\ sending[l].parts \in Seq(Content)
                       /\ sending[l] # Idle => sending[l].parts # <<>> /\ sending[l].parts[1] \in Content
  <2>1. \A l \in Links : sending[l].parts \in Seq(Content) /\ (sending[l] # Idle => sending[l].parts # <<>>)
    BY DEF Types, Transfers
  <2> QED BY <2>1
<1>4. \A n \in Nodes : received[n] \in Seq(Messages)
  BY DEF Types
<1>5. \A n \in Nodes : \A i \in DOMAIN received[n] : received[n][i].what \in Content
  <2>1. \A n \in Nodes : \A i \in DOMAIN received[n] : received[n][i] \in Messages
    BY <1>4
  <2> QED BY <2>1 DEF Messages
<1> HIDE DEF out, back
<1>6. ASSUME NEW p \in Links, NextPart(p) PROVE Staged(c)' /\ Asked(c)' /\ Answered(c)'
  <2>1. /\ sending[p] # Idle
        /\ sending' = [sending EXCEPT ![p] = Transfer(p[1], 0, Append(@.parts, txBuffer[p[1]]))]
        /\ UNCHANGED <<calls, received, queue, putting, answer>>
    BY <1>6 DEF NextPart, Idle, Transfer
  <2>2. Append(sending[p].parts, txBuffer[p[1]])[1] = sending[p].parts[1]
    BY <1>3, <2>1
  <2>3. sending'[p].parts[1] = sending[p].parts[1]
    BY <2>1, <2>2 DEF Types, Transfer
  <2>4. \A l \in Links : l # p => sending'[l] = sending[l]
    BY <2>1 DEF Types
  <2>5. \A l \in Links : sending'[l] # Idle
                           => sending[l] # Idle /\ sending'[l].parts[1].call = sending[l].parts[1].call
    BY <2>1, <2>3, <2>4, SMTT(40)
  <2>6. \A s \in Stage : \A a \in 1..MaxCalls : Speaks(c, s, a)' => Speaks(c, s, a)
    BY <1>1, <2>1, <2>5 DEF Speaks, out, back
  <2>7. Staged(c)'
    BY <1>2, <2>1, <2>6, StagesKept
  <2> QED BY <1>2, <2>1, <2>7 DEF Asked, Answered
<1>7. ASSUME NEW p \in Links, Lose(p) PROVE Staged(c)' /\ Asked(c)' /\ Answered(c)'
  <2>1. /\ \A l \in Links : sending'[l] # Idle => sending'[l] = sending[l]
        /\ UNCHANGED <<calls, received, queue, putting, answer>>
    BY <1>7 DEF Lose, Types
  <2>2. \A s \in Stage : \A a \in 1..MaxCalls : Speaks(c, s, a)' => Speaks(c, s, a)
    BY <1>1, <2>1 DEF Speaks, out, back
  <2>3. Staged(c)'
    BY <1>2, <2>1, <2>2, StagesKept
  <2> QED BY <1>2, <2>1, <2>3 DEF Asked, Answered
<1>8. ASSUME NEW p \in Links, Arrives(p) PROVE Staged(c)' /\ Asked(c)' /\ Answered(c)'
  <2> DEFINE what == WholeOf(sending[p].parts)
             m == what.call
             msg == [from |-> p[1], what |-> what]
  <2>1. /\ sending[p] # Idle /\ sending' = [sending EXCEPT ![p] = Idle]
        /\ received' = [received EXCEPT ![p[2]] = Append(@, msg)]
        /\ UNCHANGED <<calls, queue, putting, answer>>
    BY <1>8 DEF Arrives
  <2>2. what \in Content /\ m \in 0..MaxCalls /\ m \in {sending[p].parts[1].call, 0}
    BY <1>3, <2>1, WholeContent, WholeCall, CallOf
  <2>3. msg \in Messages /\ msg.from = p[1] /\ msg.what.call = m
    BY <2>2, LinkEnds DEF Messages
  <2> HIDE DEF what, m, msg
  <2>4. sending'[p] = Idle /\ \A l \in Links : l # p => sending'[l] = sending[l]
    BY <2>1 DEF Types
  <2>5. \A n \in Nodes : received'[n] = IF n = p[2] THEN Append(received[n], msg) ELSE received[n]
    BY <2>1 DEF Types
  <2>6. \A n \in Nodes :
          /\ DOMAIN received[n] = 1..Len(received[n]) /\ Len(received[n]) \in Nat
          /\ n # p[2] => received'[n] = received[n]
          /\ n = p[2] => /\ DOMAIN received'[n] = 1..(Len(received[n]) + 1)
                         /\ received'[n][Len(received[n]) + 1] = msg
                         /\ \A i \in 1..Len(received[n]) : received'[n][i] = received[n][i]
    <3> SUFFICES ASSUME NEW n \in Nodes
                 PROVE  /\ DOMAIN received[n] = 1..Len(received[n]) /\ Len(received[n]) \in Nat
                        /\ n = p[2] => /\ DOMAIN Append(received[n], msg) = 1..(Len(received[n]) + 1)
                                       /\ Append(received[n], msg)[Len(received[n]) + 1] = msg
                                       /\ \A i \in 1..Len(received[n]) : Append(received[n], msg)[i] = received[n][i]
      BY <2>5, ZenonT(60)
    <3> QED BY <1>4, <2>3, AppendOf
  <2>7. CASE p = out
    <3>1. p[1] = c /\ p[2] = Server
      BY <2>7 DEF out
    <3>2. m > 0 => Speaks(c, 7, m)
      BY <2>1, <2>2, <2>7 DEF Speaks, out
    <3>3. received'[c] = received[c] /\ sending'[back] = sending[back]
      BY <1>1, <2>4, <2>6, <2>7, <3>1
    <3>4. \A s \in Stage : \A a \in 1..MaxCalls :
            Speaks(c, s, a)' => s # 7 /\ (Speaks(c, s, a) \/ (s = 6 /\ a = m))
      <4>1. sending'[out] = Idle
        BY <2>4, <2>7
      <4>2. \A i \in DOMAIN received'[Server] : \/ i \in DOMAIN received[Server] /\ received'[Server][i] = received[Server][i]
                                             \/ received'[Server][i] = msg
        BY <1>1, <2>6, <3>1
      <4>3. \A a : Speaks(c, 6, a)' => Speaks(c, 6, a) \/ a = m
        BY <2>3, <4>2 DEF Speaks
      <4>4. \A a : ~Speaks(c, 7, a)'
        BY <4>1 DEF Speaks, out
      <4>5. \A s \in Stage : \A a : s \notin {6, 7} /\ Speaks(c, s, a)' => Speaks(c, s, a)
        BY <2>1, <3>3 DEF Speaks, Stage, out, back
      <4> QED BY <4>3, <4>4, <4>5
    <3>5. Staged(c)'
      <4>1. /\ 7 \in 2..7 /\ 7 \in Stage /\ 7 - 1 = 6 /\ calls'[c] = calls[c]
            /\ \A a \in 1..MaxCalls : Speaks(c, 7, a)' => m < a
        BY <2>1, <3>4 DEF Stage
      <4> QED BY <1>2, <2>2, <3>2, <3>4, <4>1, StagesMoved
    <3>6. \A i \in DOMAIN received[Server] : received[Server][i].from = c
                                               => Before(received[Server][i].what, msg.what)
      <4> SUFFICES ASSUME NEW i \in DOMAIN received[Server], received[Server][i].from = c,
                          received[Server][i].what.call > 0, m > 0
                   PROVE  received[Server][i].what.call < m
        BY <2>3 DEF Before
      <4>1. received[Server][i].what.call \in 1..MaxCalls
        BY <1>1, <1>5, CallOf
      <4>2. Speaks(c, 6, received[Server][i].what.call)
        BY DEF Speaks
      <4> QED BY <1>2, <2>2, <3>2, <4>1, <4>2 DEF Staged, Stage
    <3>7. Asked(c)'
      <4> SUFFICES ASSUME NEW i \in DOMAIN received'[Server], NEW j \in DOMAIN received'[Server], i < j,
                          received'[Server][i].from = c, received'[Server][j].from = c
                   PROVE  Before(received'[Server][i].what, received'[Server][j].what)
        BY DEF Asked
      <4>1. /\ i \in DOMAIN received[Server] /\ received'[Server][i] = received[Server][i]
            /\ \/ j \in DOMAIN received[Server] /\ received'[Server][j] = received[Server][j]
               \/ received'[Server][j] = msg
        <5> DEFINE n == Len(received[Server])
        <5>1. /\ DOMAIN received[Server] = 1..n /\ n \in Nat /\ DOMAIN received'[Server] = 1..(n + 1)
              /\ received'[Server][n + 1] = msg /\ \A k \in 1..n : received'[Server][k] = received[Server][k]
          BY <1>1, <2>6, <3>1
        <5> HIDE DEF n
        <5>2. i \in 1..n /\ (j \in 1..n \/ j = n + 1)
          BY <5>1
        <5> QED BY <5>1, <5>2
      <4> QED BY <1>2, <3>6, <4>1 DEF Asked
    <3> QED BY <1>2, <3>3, <3>5, <3>7 DEF Answered
  <2>8. CASE p = back
    <3>1. p[1] = Server /\ p[2] = c
      BY <2>8 DEF back
    <3>2. m > 0 => Speaks(c, 5, m)
      BY <2>1, <2>2, <2>8 DEF Speaks, back
    <3>3. received'[Server] = received[Server] /\ sending'[out] = sending[out]
      BY <1>1, <2>4, <2>6, <2>8, <3>1
    <3>4. \A s \in Stage : \A a \in 1..MaxCalls :
            Speaks(c, s, a)' => s # 5 /\ (Speaks(c, s, a) \/ (s = 4 /\ a = m))
      <4>1. sending'[back] = Idle
        BY <2>4, <2>8
      <4>2. \A i \in DOMAIN received'[c] :
              \/ i \in DOMAIN received[c] /\ received'[c][i] = received[c][i]
              \/ received'[c][i] = msg
        BY <1>1, <2>6, <3>1
      <4>3. \A a : Speaks(c, 4, a)' => Speaks(c, 4, a) \/ a = m
        BY <2>3, <4>2 DEF Speaks
      <4>4. \A a : ~Speaks(c, 5, a)'
        BY <4>1 DEF Speaks, back
      <4>5. \A s \in Stage : \A a : s \notin {4, 5} /\ Speaks(c, s, a)' => Speaks(c, s, a)
        BY <2>1, <3>3 DEF Speaks, Stage, out, back
      <4> QED BY <4>3, <4>4, <4>5
    <3>5. Staged(c)'
      <4>1. /\ 5 \in 2..7 /\ 5 \in Stage /\ 5 - 1 = 4 /\ calls'[c] = calls[c]
            /\ \A a \in 1..MaxCalls : Speaks(c, 5, a)' => m < a
        BY <2>1, <3>4 DEF Stage
      <4> QED BY <1>2, <2>2, <3>2, <3>4, <4>1, StagesMoved
    <3>6. \A i \in DOMAIN received[c] : Before(received[c][i].what, msg.what)
      <4> SUFFICES ASSUME NEW i \in DOMAIN received[c], received[c][i].what.call > 0, m > 0
                   PROVE  received[c][i].what.call < m
        BY <2>3 DEF Before
      <4>1. received[c][i].what.call \in 1..MaxCalls
        BY <1>1, <1>5, CallOf
      <4>2. Speaks(c, 4, received[c][i].what.call)
        BY DEF Speaks
      <4> QED BY <1>2, <2>2, <3>2, <4>1, <4>2 DEF Staged, Stage
    <3>7. Answered(c)'
      <4> SUFFICES ASSUME NEW i \in DOMAIN received'[c], NEW j \in DOMAIN received'[c], i < j
                   PROVE  Before(received'[c][i].what, received'[c][j].what)
        BY DEF Answered
      <4>1. /\ i \in DOMAIN received[c] /\ received'[c][i] = received[c][i]
            /\ \/ j \in DOMAIN received[c] /\ received'[c][j] = received[c][j]
               \/ received'[c][j] = msg
        <5> DEFINE n == Len(received[c])
        <5>1. /\ DOMAIN received[c] = 1..n /\ n \in Nat /\ DOMAIN received'[c] = 1..(n + 1)
              /\ received'[c][n + 1] = msg /\ \A k \in 1..n : received'[c][k] = received[c][k]
          BY <1>1, <2>6, <3>1
        <5> HIDE DEF n
        <5>2. i \in 1..n /\ (j \in 1..n \/ j = n + 1)
          BY <5>1
        <5> QED BY <5>1, <5>2
      <4> QED BY <1>2, <3>6, <4>1 DEF Answered
    <3> QED BY <1>2, <3>3, <3>5, <3>7 DEF Asked
  <2>9. CASE p # out /\ p # back
    <3>1. p[1] # c /\ p[2] # c
      BY <1>1, <2>9, LinkEnds DEF out, back
    <3>2. received'[c] = received[c] /\ sending'[out] = sending[out] /\ sending'[back] = sending[back]
      BY <1>1, <2>4, <2>6, <2>9, <3>1
    <3>3. \A i \in DOMAIN received'[Server] : received'[Server][i].from = c
            => i \in DOMAIN received[Server] /\ received'[Server][i] = received[Server][i]
      BY <1>1, <2>3, <2>6, <3>1, SMTT(40)
    <3>4. \A s \in Stage : \A a \in 1..MaxCalls : Speaks(c, s, a)' => Speaks(c, s, a)
      BY <2>1, <3>2, <3>3, ZenonT(60) DEF Speaks, out, back
    <3>5. Staged(c)'
      BY <1>2, <2>1, <3>4, StagesKept
    <3>6. Asked(c)'
      BY <1>2, <3>3 DEF Asked
    <3> QED BY <1>2, <3>2, <3>5, <3>6 DEF Answered
  <2> QED BY <2>7, <2>8, <2>9
<1>9. ASSUME ServerReceives PROVE Staged(c)' /\ Asked(c)' /\ Answered(c)'
  <2> DEFINE d == Head(received[Server]).from
             q == Head(received[Server]).what
             reply == Reply(q)
             m == reply.call
  <2>1. received[Server] \in Seq(Messages) /\ received[Server] # <<>>
    BY <1>1, <1>4, <1>9 DEF ServerReceives
  <2>2. /\ 1 \in DOMAIN received[Server] /\ d = received[Server][1].from /\ q = received[Server][1].what
    BY <2>1
  <2>3. d \in Client /\ q \in Content /\ reply \in Content /\ m \in 0..MaxCalls /\ m \in {q.call, 0}
    BY <1>1, <1>5, <2>2, ReplyContent, ReplyCall, CallOf DEF Types
  <2> HIDE DEF d, q, reply, m
  <2>4. PICK long : sending' = Sent(sending, Server, d, reply, long)
    BY <1>9 DEF ServerReceives, d, q, reply
  <2>5. /\ sending'[out] = sending[out] /\ (d # c => sending'[back] = sending[back])
        /\ (d = c => sending'[back].parts[1].call = m)
    BY <1>1, <2>3, <2>4 DEF Sent, Transfer, Types, out, back, m
  <2>6. /\ received'[Server] = Tail(received[Server]) /\ received'[c] = received[c]
        /\ UNCHANGED <<calls, queue, putting, answer>>
    BY <1>1, <1>9 DEF ServerReceives, Types
  <2>7. /\ DOMAIN received[Server] = 1..Len(received[Server]) /\ Len(received[Server]) \in Nat
        /\ DOMAIN received'[Server] = 1..(Len(received[Server]) - 1)
        /\ \A i \in DOMAIN received'[Server] : received'[Server][i] = received[Server][i + 1]
    BY <2>1, <2>6, TailOf
  <2>8. \A i \in DOMAIN received'[Server] : i + 1 \in DOMAIN received[Server] /\ i \in Int /\ 1 < i + 1
    BY <2>7
  <2>9. Asked(c)'
    <3> SUFFICES ASSUME NEW i \in DOMAIN received'[Server], NEW j \in DOMAIN received'[Server], i < j,
                        received'[Server][i].from = c, received'[Server][j].from = c
                 PROVE  Before(received'[Server][i].what, received'[Server][j].what)
      BY DEF Asked
    <3>1. i + 1 < j + 1
      BY <2>8
    <3> QED BY <1>2, <2>7, <2>8, <3>1 DEF Asked
  <2>10. \A a : Speaks(c, 6, a)' => \E i \in DOMAIN received'[Server] :
                                       /\ received[Server][i + 1].from = c
                                       /\ received[Server][i + 1].what.call = a
    BY <2>7 DEF Speaks
  <2>11. \A a : Speaks(c, 6, a)' => Speaks(c, 6, a)
    BY <2>8, <2>10 DEF Speaks
  <2>12. CASE d # c
    <3>1. \A s \in Stage : \A a \in 1..MaxCalls : Speaks(c, s, a)' => Speaks(c, s, a)
      <4>1. \A s \in Stage : \A a : s # 6 /\ Speaks(c, s, a)' => Speaks(c, s, a)
        BY <2>5, <2>6, <2>12 DEF Speaks, Stage, out, back
      <4> QED BY <2>11, <4>1
    <3> QED BY <1>2, <2>6, <2>9, <3>1, StagesKept DEF Answered
  <2>13. CASE d = c
    <3>1. m > 0 => Speaks(c, 6, m)
      <4>1. Speaks(c, 6, q.call)
        BY <2>2, <2>13 DEF Speaks
      <4> QED BY <2>3, <4>1
    <3>2. \A s \in Stage : \A a \in 1..MaxCalls : Speaks(c, s, a)' => Speaks(c, s, a) \/ (s = 5 /\ a = m)
      <4>1. \A a : Speaks(c, 5, a)' => a = m
        BY <2>5, <2>13 DEF Speaks, back
      <4>2. \A s \in Stage : \A a : s \notin {5, 6} /\ Speaks(c, s, a)' => Speaks(c, s, a)
        BY <2>5, <2>6 DEF Speaks, Stage, out
      <4> QED BY <2>11, <4>1, <4>2
    <3>3. \A a \in 1..MaxCalls : Speaks(c, 6, a)' => m < a
      <4> SUFFICES ASSUME NEW a \in 1..MaxCalls, Speaks(c, 6, a)', m > 0 PROVE m < a
        BY <2>3, SystemAssumption DEF SystemAssumption
      <4>1. PICK i \in DOMAIN received'[Server] : /\ received[Server][i + 1].from = c
                                                  /\ received[Server][i + 1].what.call = a
        BY <2>10
      <4>2. i + 1 \in DOMAIN received[Server] /\ 1 < i + 1
        BY <2>8
      <4>3. Before(received[Server][1].what, received[Server][i + 1].what)
        BY <1>2, <2>2, <2>13, <4>1, <4>2 DEF Asked
      <4>4. received[Server][1].what.call = m
        BY <2>2, <2>3
      <4> QED BY <4>1, <4>3, <4>4 DEF Before
    <3>4. 6 \in 2..7 /\ 6 - 1 = 5 /\ calls'[c] = calls[c]
      BY <2>6
    <3>5. Staged(c)'
      BY <1>2, <2>3, <3>1, <3>2, <3>3, <3>4, StagesMoved
    <3> QED BY <1>2, <2>6, <2>9, <3>5 DEF Answered
  <2> QED BY <2>12, <2>13
<1>10. ASSUME NEW d \in Client, ClientReceives(d) PROVE Staged(c)' /\ Asked(c)' /\ Answered(c)'
  <2>1. d # Server /\ d \in Nodes /\ UNCHANGED <<calls, sending, queue, answer>>
    BY <1>10, SystemAssumption DEF ClientReceives, Nodes, SystemAssumption
  <2>2. received'[Server] = received[Server] /\ (d # c => received'[c] = received[c] /\ putting'[c] = putting[c])
    BY <1>1, <1>10, <2>1 DEF ClientReceives, Types
  <2>3. Asked(c)'
    BY <1>2, <2>2 DEF Asked
  <2>4. CASE d # c
    <3>1. \A s \in Stage : \A a \in 1..MaxCalls : Speaks(c, s, a)' => Speaks(c, s, a)
      BY <2>1, <2>2, <2>4 DEF Speaks
    <3> QED BY <1>2, <2>1, <2>2, <2>3, <2>4, <3>1, StagesKept DEF Answered
  <2>5. CASE d = c
    <3> DEFINE m == received[c][1].what.call
    <3>1. received[c] \in Seq(Messages) /\ received[c] # <<>>
      BY <1>1, <1>4, <1>10, <2>5 DEF ClientReceives
    <3>2. 1 \in DOMAIN received[c] /\ Head(received[c]) = received[c][1] /\ m \in 0..MaxCalls
      <4>1. 1 \in DOMAIN received[c] /\ Head(received[c]) = received[c][1]
        BY <3>1
      <4> QED BY <1>1, <1>5, <4>1, CallOf
    <3>3. received'[c] = Tail(received[c]) /\ putting'[c].call = m
      BY <1>1, <1>10, <2>5, <3>2 DEF ClientReceives, Types
    <3> HIDE DEF m
    <3>4. /\ DOMAIN received[c] = 1..Len(received[c]) /\ Len(received[c]) \in Nat
          /\ DOMAIN received'[c] = 1..(Len(received[c]) - 1)
          /\ \A i \in DOMAIN received'[c] : received'[c][i] = received[c][i + 1]
      BY <3>1, <3>3, TailOf
    <3>5. \A i \in DOMAIN received'[c] : i + 1 \in DOMAIN received[c] /\ i \in Int /\ 1 < i + 1
      BY <3>4
    <3>6. Answered(c)'
      <4> SUFFICES ASSUME NEW i \in DOMAIN received'[c], NEW j \in DOMAIN received'[c], i < j
                   PROVE  Before(received'[c][i].what, received'[c][j].what)
        BY DEF Answered
      <4>1. i + 1 < j + 1
        BY <3>5
      <4> QED BY <1>2, <3>4, <3>5, <4>1 DEF Answered
    <3>7. m > 0 => Speaks(c, 4, m)
      BY <3>2 DEF Speaks, m
    <3>8. \A a : Speaks(c, 4, a)' => \E i \in DOMAIN received'[c] : received[c][i + 1].what.call = a
      BY <3>4 DEF Speaks
    <3>9. \A s \in Stage : \A a \in 1..MaxCalls : Speaks(c, s, a)' => Speaks(c, s, a) \/ (s = 3 /\ a = m)
      <4>1. \A a : Speaks(c, 3, a)' => a = m
        BY <3>3 DEF Speaks
      <4>2. \A s \in Stage : \A a : s \notin {3, 4} /\ Speaks(c, s, a)' => Speaks(c, s, a)
        BY <2>1, <2>2 DEF Speaks, Stage
      <4>3. \A a : Speaks(c, 4, a)' => Speaks(c, 4, a)
        BY <3>5, <3>8 DEF Speaks
      <4> QED BY <4>1, <4>2, <4>3
    <3>10. \A a \in 1..MaxCalls : Speaks(c, 4, a)' => m < a
      <4> SUFFICES ASSUME NEW a \in 1..MaxCalls, Speaks(c, 4, a)', m > 0 PROVE m < a
        BY <3>2, SystemAssumption DEF SystemAssumption
      <4>1. PICK i \in DOMAIN received'[c] : received[c][i + 1].what.call = a
        BY <3>8
      <4>2. i + 1 \in DOMAIN received[c] /\ 1 < i + 1
        BY <3>5
      <4>3. Before(received[c][1].what, received[c][i + 1].what)
        BY <1>2, <3>2, <4>2 DEF Answered
      <4> QED BY <4>1, <4>3 DEF Before, m
    <3>11. 4 \in 2..7 /\ 4 - 1 = 3 /\ calls'[c] = calls[c]
      BY <2>1
    <3>12. Staged(c)'
      BY <1>2, <3>2, <3>7, <3>9, <3>10, <3>11, StagesMoved
    <3> QED BY <2>3, <3>6, <3>12
  <2> QED BY <2>4, <2>5
<1>11. ASSUME NEW d \in Client, Put(d) PROVE Staged(c)' /\ Asked(c)' /\ Answered(c)'
  <2>1. UNCHANGED <<calls, sending, received, answer>>
    BY <1>11 DEF Put
  <2>2. d # c => queue'[c] = queue[c] /\ putting'[c] = putting[c]
    BY <1>11 DEF Put, Types
  <2>3. Asked(c)' /\ Answered(c)'
    BY <1>2, <2>1 DEF Asked, Answered
  <2>4. CASE d # c
    <3>1. \A s \in Stage : \A a \in 1..MaxCalls : Speaks(c, s, a)' => Speaks(c, s, a)
      BY <2>1, <2>2, <2>4 DEF Speaks
    <3> QED BY <1>2, <2>1, <2>3, <3>1, StagesKept
  <2>5. CASE d = c
    <3> DEFINE m == putting[c].call
    <3>1. putting[c] # None /\ putting[c] \in Content /\ m \in 0..MaxCalls
      BY <1>11, <2>5, CallOf DEF Put, Types
    <3>2. queue'[c] = <<putting[c]>> /\ putting'[c] = None
      BY <1>11, <2>5 DEF Put, Types
    <3>3. m > 0 => Speaks(c, 3, m)
      BY <3>1 DEF Speaks
    <3>4. \A s \in Stage : \A a \in 1..MaxCalls :
            Speaks(c, s, a)' => s # 3 /\ (Speaks(c, s, a) \/ (s = 2 /\ a = m))
      BY <2>1, <3>2 DEF Speaks
    <3>5. /\ 3 \in 2..7 /\ 3 - 1 = 2 /\ calls'[c] = calls[c]
          /\ \A a \in 1..MaxCalls : Speaks(c, 3, a)' => m < a
      BY <2>1, <3>4 DEF Stage
    <3> HIDE DEF m
    <3>6. Staged(c)'
      BY <1>2, <3>1, <3>3, <3>4, <3>5, StagesMoved
    <3> QED BY <2>3, <3>6
  <2> QED BY <2>4, <2>5
<1>12. ASSUME NEW d \in Client, PutFails(d) PROVE Staged(c)' /\ Asked(c)' /\ Answered(c)'
  <2>1. UNCHANGED <<calls, received, queue, answer>> /\ sending' = Sent(sending, d, Server, ServerError, FALSE)
    BY <1>12 DEF PutFails
  <2>2. putting'[c] # None => putting'[c] = putting[c]
    BY <1>12 DEF PutFails, Types
  <2>3. sending'[back] = sending[back]
        /\ (sending'[out] = sending[out] \/ sending'[out].parts[1].call = 0)
    BY <1>1, <2>1, LinksOf DEF Sent, Types, out, back, Transfer, ServerError, Status
  <2>4. \A s \in Stage : \A a \in 1..MaxCalls : Speaks(c, s, a)' => Speaks(c, s, a)
    <3>1. \A a \in 1..MaxCalls : a # 0
      BY SystemAssumption DEF SystemAssumption
    <3>2. sending[out] = sending'[out] \/ ~ \E a \in 1..MaxCalls : sending'[out].parts[1].call = a
      BY <2>3, <3>1
    <3>3. \A a \in 1..MaxCalls : Speaks(c, 7, a)' => Speaks(c, 7, a)
      BY <3>2 DEF Speaks, out
    <3>4. \A s \in Stage : \A a : s # 7 /\ Speaks(c, s, a)' => Speaks(c, s, a)
      BY <2>1, <2>2, <2>3 DEF Speaks, back
    <3> QED BY <3>3, <3>4
  <2> QED BY <1>2, <2>1, <2>4, StagesKept DEF Asked, Answered
<1>13. ASSUME NEW d \in Client, Call(d) PROVE Staged(c)' /\ Asked(c)' /\ Answered(c)'
  <2>1. UNCHANGED <<received, queue, putting>>
    BY <1>13 DEF Call
  <2>2. Asked(c)' /\ Answered(c)'
    BY <1>2, <2>1 DEF Asked, Answered
  <2>3. PICK long : sending' = Sent(sending, d, Server, Req(d, calls'[d]), long)
    BY <1>13 DEF Call
  <2>4. sending'[back] = sending[back] /\ (d # c => sending'[out] = sending[out])
        /\ (d = c => sending'[out].parts[1].call = calls'[c])
    BY <1>1, <2>3, LinksOf DEF Sent, Types, out, back, Transfer, Req
  <2>5. CASE d # c
    <3>1. calls'[c] = calls[c] /\ answer'[c] = answer[c]
      BY <1>13, <2>5 DEF Call, Types
    <3>2. \A s \in Stage : \A a \in 1..MaxCalls : Speaks(c, s, a)' => Speaks(c, s, a)
      BY <2>1, <2>4, <2>5, <3>1 DEF Speaks, out, back
    <3> QED BY <1>2, <2>2, <3>1, <3>2, StagesKept
  <2>6. CASE d = c
    <3>1. calls'[c] = calls[c] + 1 /\ answer'[c] = None
      BY <1>13, <2>6 DEF Call, Types
    <3>2. \A s \in Stage : \A a \in 1..MaxCalls :
            Speaks(c, s, a)' => (s = 7 /\ a = calls[c] + 1) \/ (s # 7 /\ Speaks(c, s, a))
      BY <2>1, <2>4, <2>6, <3>1 DEF Speaks, out, back
    <3>3. \A s \in Stage : \A a \in 1..MaxCalls : Speaks(c, s, a) => a <= calls[c]
      BY <1>2 DEF Staged
    <3>4. ASSUME NEW s \in Stage, NEW t \in Stage, NEW a \in 1..MaxCalls, NEW b \in 1..MaxCalls,
                 s < t, Speaks(c, s, a)', Speaks(c, t, b)'
          PROVE  a < b
      <4>1. s # 7
        BY <3>4 DEF Stage
      <4>2. Speaks(c, s, a) /\ a <= calls[c]
        BY <3>2, <3>3, <3>4, <4>1
      <4>3. CASE b = calls[c] + 1
        BY <1>2, <4>2, <4>3, SystemAssumption DEF SystemAssumption
      <4>4. CASE Speaks(c, t, b)
        BY <1>2, <3>4, <4>2, <4>4 DEF Staged
      <4> QED BY <3>2, <3>4, <4>3, <4>4
    <3>5. \A s \in Stage : \A a \in 1..MaxCalls : Speaks(c, s, a)' => a <= calls'[c]
      BY <1>2, <3>1, <3>2, <3>3, SystemAssumption DEF SystemAssumption
    <3> QED BY <2>2, <3>4, <3>5 DEF Staged
  <2> QED BY <2>5, <2>6
<1>14. ASSUME NEW d \in Client, Read(d) PROVE Staged(c)' /\ Asked(c)' /\ Answered(c)'
  <2>1. UNCHANGED <<calls, sending, received, putting>>
    BY <1>14 DEF Read
  <2>2. Asked(c)' /\ Answered(c)'
    BY <1>2, <2>1 DEF Asked, Answered
  <2>3. CASE d # c
    <3>1. queue'[c] = queue[c] /\ answer'[c] = answer[c]
      BY <1>14, <2>3 DEF Read, Types
    <3>2. \A s \in Stage : \A a \in 1..MaxCalls : Speaks(c, s, a)' => Speaks(c, s, a)
      BY <2>1, <3>1 DEF Speaks
    <3> QED BY <1>2, <2>1, <2>2, <3>2, StagesKept
  <2>4. CASE d = c
    <3> DEFINE m == queue[c][1].call
    <3>1. queue[c] \in Seq(Content) /\ queue[c] # <<>> /\ Len(queue[c]) <= 1
      BY <1>14, <2>4 DEF Read, Types
    <3>2. Tail(queue[c]) = <<>> /\ Head(queue[c]) = queue[c][1] /\ queue[c][1] \in Content
      BY <3>1
    <3>3. queue'[c] = <<>> /\ answer'[c].call = m /\ m \in 0..MaxCalls
      BY <1>14, <2>4, <3>2, CallOf DEF Read, Types
    <3> HIDE DEF m
    <3>4. m > 0 => Speaks(c, 2, m)
      BY <3>1 DEF Speaks, m
    <3>5. \A s \in Stage : \A a \in 1..MaxCalls :
            Speaks(c, s, a)' => s # 2 /\ (Speaks(c, s, a) \/ (s = 1 /\ a = m))
      BY <2>1, <3>3 DEF Speaks
    <3>6. /\ 2 \in 2..7 /\ 2 - 1 = 1 /\ calls'[c] = calls[c]
          /\ \A a \in 1..MaxCalls : Speaks(c, 2, a)' => m < a
      BY <2>1, <3>5 DEF Stage
    <3>7. Staged(c)'
      BY <1>2, <3>3, <3>4, <3>5, <3>6, StagesMoved
    <3> QED BY <2>2, <3>7
  <2> QED BY <2>3, <2>4
<1>15. ASSUME UNCHANGED <<calls, sending, received, queue, putting, answer>>
       PROVE  Staged(c)' /\ Asked(c)' /\ Answered(c)'
  <2>1. \A s \in Stage : \A a \in 1..MaxCalls : Speaks(c, s, a)' => Speaks(c, s, a)
    BY <1>15 DEF Speaks
  <2> QED BY <1>2, <1>15, <2>1, StagesKept DEF Asked, Answered
<1>16. ASSUME NEW d \in Client, TimesOut(d) PROVE Staged(c)' /\ Asked(c)' /\ Answered(c)'
  BY <1>15, <1>16 DEF TimesOut
<1>17. ASSUME UNCHANGED vars PROVE Staged(c)' /\ Asked(c)' /\ Answered(c)'
  BY <1>15, <1>17 DEF vars
<1> HIDE DEF out, back
<1> QED BY <1>6, <1>7, <1>8, <1>9, <1>10, <1>11, <1>12, <1>13, <1>14, <1>16, <1>17 DEF Next, Step

\* What a call has returned is older than all that is still to be dispatched, put or read.
LEMMA OldAnswers == Types /\ InOrder => NotUsedTwice
<1> SUFFICES ASSUME Types, InOrder, NEW c \in Client, answer[c] # None, answer[c].kind = "response"
             PROVE  answer[c] \notin Pending(c)
  BY DEF NotUsedTwice
<1> DEFINE k == answer[c].call
<1>1. answer[c] \in Content /\ k \in 1..MaxCalls /\ Speaks(c, 1, k)
  <2>1. answer[c] \in Content
    BY DEF Types
  <2>2. answer[c] \in [kind : {"request", "response"}, who : Client, call : 1..MaxCalls]
    BY <2>1 DEF Content, ServerError, BadRequest, Garbled, Status
  <2> QED BY <2>1, <2>2 DEF Speaks
<1>2. \A s \in 2..7 : ~Speaks(c, s, k)
  <2>1. \A s \in 2..7 : s \in Stage /\ 1 \in Stage /\ 1 < s
    BY DEF Stage
  <2>2. ~(k < k)
    BY <1>1
  <2> HIDE DEF k
  <2> QED BY <1>1, <2>1, <2>2 DEF InOrder, Staged
<1>3. 2 \in 2..7 /\ 3 \in 2..7 /\ 4 \in 2..7 /\ answer[c] # None
  OBVIOUS
<1>4. \A i \in DOMAIN queue[c] : queue[c] # <<>> /\ i = 1
  <2>1. queue[c] \in Seq(Content) /\ Len(queue[c]) <= 1
    BY DEF Types
  <2> QED BY <2>1
<1>5. \A i \in DOMAIN queue[c] : queue[c][i] # answer[c]
  BY <1>2, <1>3, <1>4 DEF Speaks
<1>6. \A i \in DOMAIN received[c] : received[c][i].what # answer[c]
  BY <1>2, <1>3 DEF Speaks
<1>7. putting[c] # answer[c]
  BY <1>2, <1>3 DEF Speaks
<1> QED BY <1>5, <1>6, <1>7 DEF Pending

\* No answer serves two calls, in no system and whatever is lost or late: what a call
\* returned is not in the response queue, nor on its way into it, when the next one reads
\* (k_msgq_get removes it, a response is put once, a request is answered once).
THEOREM AnswersUsedOnce == Spec => []NotUsedTwice
<1>1. Init => InOrder
  <2> SUFFICES ASSUME Init, NEW c \in Client
               PROVE  /\ sending[<<c, Server>>] = Idle /\ sending[<<Server, c>>] = Idle
                      /\ received[Server] = <<>> /\ received[c] = <<>>
                      /\ putting[c] = None /\ queue[c] = <<>> /\ answer[c] = None
    BY DEF InOrder, Staged, Asked, Answered, Speaks
  <2> QED BY LinksOf DEF Init, Nodes
<1>2. Spec => [](Types /\ InOrder)
  BY <1>1, TypesInit, TypesNext, InOrderNext, PTL DEF Spec
<1> QED BY <1>2, OldAnswers, PTL
=============================================================================
