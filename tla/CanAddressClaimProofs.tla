----------------------- MODULE CanAddressClaimProofs -----------------------
(***************************************************************************)
(* Proofs about addresses, for any number of nodes of either kind: if      *)
(* answers come within the 500 ms, two nodes own one address only by one   *)
(* of the known gaps, and an address is given up only for a reason.        *)
(***************************************************************************)
EXTENDS CanAddressClaim, TLAPS

Pcs == {"off", "ask", "wait", "claimed", "between", "bound", "failed"}
Frames == [type : {"discovery", "claim"}, for : Addr]

\* What is in the controller of n, and what its lookout socket has.
Out(n) == {box[n][i] : i \in DOMAIN box[n]}
In(n) == {inbox[n][i] : i \in DOMAIN inbox[n]}

Types ==
  /\ setup \in Setups
  /\ pc \in [Node -> Pcs] /\ addr \in [Node -> Addr \cup {None}]
  /\ box \in [Node -> Seq(Frames)] /\ inbox \in [Node -> Seq(Addr)]
  /\ used \in [Node -> BOOLEAN] /\ work \in [Node -> BOOLEAN]
  /\ err \in [Node -> 0..MaxErr] /\ before \in [Node -> 0..MaxErr]
  /\ faults \in 0..MaxFaults /\ tried \in [Node -> SUBSET Addr]
  /\ unanswered \subseteq Node /\ hurried \subseteq Node

\* Who has an address has tried it, and only such a node owes an answer.
Own ==
  \A n \in Node :
    /\ addr[n] = None <=> pc[n] = "off"
    /\ addr[n] # None => addr[n] \in tried[n]
    /\ work[n] => addr[n] # None
    /\ before[n] <= err[n]
    /\ Zephyr(n) => inbox[n] = <<>>
    /\ \A f \in Out(n) : f.for \in tried[n]

\* n has asked for the address of m, which has claimed it: the question is not out yet, an
\* answer is due or on its way, or n knows.
Asking(n) == \E f \in Out(n) : f.type = "discovery"
Answering(m) == work[m] \/ Claim(addr[m]) \in Out(m)
Knows(n) == IF Zephyr(n) THEN used[n] ELSE addr[n] \in In(n)

Holds(n) == pc[n] \in {"claimed", "between", "bound", "failed"}
Excused == unanswered \cup hurried

Heard(n) ==
  pc[n] = "wait" =>
    /\ \A f \in Out(n) : f.type = "discovery" => f.for = addr[n]
    /\ \A m \in Node : m # n /\ Holds(m) /\ addr[m] = addr[n] /\ n \notin Excused =>
                         Asking(n) \/ Answering(m) \/ Knows(n)
Alone(n) ==
  \A m \in Node : m # n /\ Holds(m) /\ Holds(n) /\ addr[m] = addr[n] => {m, n} \cap Excused # {}
Settled == setup.prompt => \A n \in Node : Heard(n) /\ Alone(n)

\* Whatever tells a node to give its address up comes from one that has tried it.
Reasons ==
  \A n \in Node :
    /\ \A a \in In(n) : \E m \in Node \ {n} : a \in tried[m]
    /\ pc[n] = "wait" /\ Zephyr(n) /\ used[n] => \E m \in Node \ {n} : addr[n] \in tried[m]

-----------------------------------------------------------------------------
(* Sequences as the sets of their elements.                                *)

\* A frame that is appended to a queue is one more.
LEMMA Appended ==
  ASSUME NEW S, NEW s \in Seq(S), NEW e \in S
  PROVE  /\ Append(s, e) \in Seq(S)
         /\ {Append(s, e)[i] : i \in DOMAIN Append(s, e)} = {s[i] : i \in DOMAIN s} \cup {e}
<1> DEFINE t == Append(s, e)
<1>1. /\ t \in Seq(S) /\ DOMAIN t = 1..Len(s) + 1 /\ DOMAIN s = 1..Len(s) /\ Len(s) \in Nat
      /\ \A i \in 1..Len(s) : t[i] = s[i]
      /\ t[Len(s) + 1] = e
  OBVIOUS
<1> HIDE DEF t
<1>2. \A i \in 1..Len(s) + 1 : i \in 1..Len(s) \/ i = Len(s) + 1
  BY <1>1
<1>3. \A i \in 1..Len(s) : i \in 1..Len(s) + 1
  BY <1>1
<1>4. Len(s) + 1 \in 1..Len(s) + 1
  BY <1>1
<1>5. {t[i] : i \in DOMAIN t} = {s[i] : i \in DOMAIN s} \cup {e}
  BY <1>1, <1>2, <1>3, <1>4, Zenon
<1> QED BY <1>1, <1>5 DEF t

\* The first frame of a queue and the others.
LEMMA Shortened ==
  ASSUME NEW S, NEW s \in Seq(S), s # <<>>
  PROVE  /\ Tail(s) \in Seq(S) /\ Head(s) \in S
         /\ {s[i] : i \in DOMAIN s} = {Head(s)} \cup {Tail(s)[i] : i \in DOMAIN Tail(s)}
<1> DEFINE t == Tail(s)
<1>1. /\ t \in Seq(S) /\ Head(s) \in S /\ DOMAIN s = 1..Len(s) /\ Len(s) \in Nat /\ Len(s) > 0
      /\ DOMAIN t = 1..Len(s) - 1
      /\ \A i \in 1..Len(s) - 1 : t[i] = s[i + 1]
      /\ Head(s) = s[1]
  OBVIOUS
<1> HIDE DEF t
<1>2. \A i \in 1..Len(s) : i = 1 \/ \E j \in 1..Len(s) - 1 : i = j + 1
  <2> TAKE i \in 1..Len(s)
  <2>1. i # 1 => i - 1 \in 1..Len(s) - 1 /\ i = (i - 1) + 1
    BY <1>1
  <2> QED BY <2>1
<1>3. 1 \in 1..Len(s) /\ \A j \in 1..Len(s) - 1 : j + 1 \in 1..Len(s)
  BY <1>1
<1>4. {s[i] : i \in DOMAIN s} = {Head(s)} \cup {t[i] : i \in DOMAIN t}
  <2>1. ASSUME NEW i \in DOMAIN s PROVE s[i] \in {Head(s)} \cup {t[j] : j \in DOMAIN t}
    <3>1. CASE i = 1
      BY <1>1, <3>1
    <3>2. CASE i # 1
      <4>1. PICK j \in 1..Len(s) - 1 : i = j + 1
        BY <1>1, <1>2, <3>2
      <4> QED BY <1>1, <4>1
    <3> QED BY <3>1, <3>2
  <2>2. ASSUME NEW j \in DOMAIN t PROVE t[j] \in {s[i] : i \in DOMAIN s}
    BY <1>1, <1>3
  <2>3. Head(s) \in {s[i] : i \in DOMAIN s}
    BY <1>1, <1>3
  <2> QED BY <2>1, <2>2, <2>3
<1> QED BY <1>1, <1>4 DEF t

\* A frame that a node queues is one more in its controller, and nothing else changes there.
LEMMA QueueOut ==
  ASSUME Types, NEW n \in Node, NEW f \in Frames, Queue(n, f)
  PROVE  /\ box' \in [Node -> Seq(Frames)]
         /\ Out(n)' = Out(n) \cup {f}
         /\ \A m \in Node \ {n} : Out(m)' = Out(m)
<1>1. box[n] \in Seq(Frames) /\ box' = [box EXCEPT ![n] = Append(box[n], f)]
  BY DEF Types, Queue
<1>2. Append(box[n], f) \in Seq(Frames)
  BY <1>1, Appended
<1>3. box'[n] = Append(box[n], f) /\ \A m \in Node \ {n} : box'[m] = box[m]
  BY <1>1 DEF Types
<1>4. Out(n)' = Out(n) \cup {f}
  BY <1>1, <1>3, Appended DEF Out
<1>5. \A m \in Node \ {n} : Out(m)' = Out(m)
  BY <1>3 DEF Out
<1> QED BY <1>1, <1>2, <1>4, <1>5 DEF Types

\* The frame that goes over the bus is the first in its controller.
LEMMA DeliverOut ==
  ASSUME Types, NEW n \in Node, Deliver(n)
  PROVE  /\ box' \in [Node -> Seq(Frames)]
         /\ Head(box[n]) \in Frames
         /\ Out(n) = {Head(box[n])} \cup Out(n)'
         /\ \A m \in Node \ {n} : Out(m)' = Out(m)
<1>1. box[n] \in Seq(Frames) /\ box[n] # <<>> /\ box' = [box EXCEPT ![n] = Tail(box[n])]
  BY DEF Types, Deliver
<1>2. Tail(box[n]) \in Seq(Frames) /\ Head(box[n]) \in Frames
  BY <1>1, Shortened
<1>3. box'[n] = Tail(box[n]) /\ \A m \in Node \ {n} : box'[m] = box[m]
  BY <1>1 DEF Types
<1>4. Out(n) = {Head(box[n])} \cup Out(n)'
  <2>1. {box[n][i] : i \in DOMAIN box[n]} =
          {Head(box[n])} \cup {Tail(box[n])[i] : i \in DOMAIN Tail(box[n])}
    BY <1>1, Shortened
  <2>2. Out(n)' = {Tail(box[n])[i] : i \in DOMAIN Tail(box[n])}
    BY <1>3 DEF Out
  <2> QED BY <2>1, <2>2 DEF Out
<1>5. \A m \in Node \ {n} : Out(m)' = Out(m)
  BY <1>3 DEF Out
<1> QED BY <1>1, <1>2, <1>4, <1>5 DEF Types

\* A claim reaches the lookout sockets of the other nodes that are binding.
Looks(m, n) == m # n /\ ~Zephyr(m) /\ pc[m] \in {"ask", "wait", "claimed"}
LEMMA DeliverIn ==
  ASSUME Types, NEW n \in Node, Deliver(n)
  PROVE  /\ inbox' \in [Node -> Seq(Addr)]
         /\ \A m \in Node :
              IF Head(box[n]).type = "claim" /\ Looks(m, n)
              THEN In(m)' = In(m) \cup {Head(box[n]).for} ELSE inbox'[m] = inbox[m]
<1> DEFINE frame == Head(box[n])
<1>1. frame \in Frames
  BY DeliverOut
<1>2. CASE frame.type = "discovery"
  BY <1>1, <1>2 DEF Deliver, Types
<1>3. CASE frame.type = "claim"
  <2>1. inbox' = [m \in Node |-> IF Looks(m, n) THEN Append(inbox[m], frame.for) ELSE inbox[m]]
    BY <1>3 DEF Deliver, Looks
  <2>2. frame.for \in Addr
    BY <1>1 DEF Frames
  <2>3. ASSUME NEW m \in Node, Looks(m, n)
        PROVE  inbox'[m] \in Seq(Addr) /\ In(m)' = In(m) \cup {frame.for}
    <3>1. inbox[m] \in Seq(Addr) /\ inbox'[m] = Append(inbox[m], frame.for)
      BY <2>1, <2>3 DEF Types
    <3> QED BY <2>2, <3>1, Appended DEF In
  <2>4. ASSUME NEW m \in Node, ~Looks(m, n) PROVE inbox'[m] = inbox[m] /\ inbox[m] \in Seq(Addr)
    BY <2>1, <2>4 DEF Types
  <2>5. DOMAIN inbox' = Node
    BY <2>1
  <2>6. \A m \in Node : inbox'[m] \in Seq(Addr)
    BY <2>3, <2>4
  <2>7. inbox' \in [Node -> Seq(Addr)]
    BY <2>1, <2>6, Zenon
  <2> QED BY <1>3, <2>3, <2>4, <2>7
<1> QED BY <1>1, <1>2, <1>3 DEF Frames

-----------------------------------------------------------------------------
(* The types of the variables, and who may have a frame or owe an answer.  *)

Base == Types /\ Own

\* A queue, of frames or of claims, that does not change has the frames it had.
LEMMA SameQueues ==
  ASSUME NEW n \in Node
  PROVE  (box'[n] = box[n] => Out(n)' = Out(n)) /\ (inbox'[n] = inbox[n] => In(n)' = In(n))
BY DEF Out, In

\* The networks that are looked at begin in these types.
LEMMA BaseInit == Init => Base
<1> SUFFICES ASSUME Init PROVE Base
  OBVIOUS
<1>1. setup.old \in [Node -> Addr \cup {None}]
  BY ClaimAssumption DEF Init
<1>2. Types
  BY <1>1, ClaimAssumption DEF Init, Types, Pcs
<1>3. \A n \in Node : Out(n) = {}
  BY DEF Init, Out
<1>4. Own
  BY <1>1, <1>3, ClaimAssumption DEF Init, Own
<1> QED BY <1>2, <1>4 DEF Base

\* bind() begins: the node has tried the address it asks for.
LEMMA BaseBind == ASSUME Base, NEW n \in Node, Bind(n), UNCHANGED setup PROVE Base'
<1> USE DEF Base
<1>1. PICK a \in Addr : Try(n, a)
  BY DEF Bind
<1>2. Types'
  BY <1>1 DEF Types, Bind, Try, GoTo, Pcs
<1>3. \A m \in Node : Out(m)' = Out(m)
  BY SameQueues DEF Bind
<1>4. Own'
  BY <1>1, <1>2, <1>3, ClaimAssumption DEF Types, Own, Bind, Try, GoTo, Zephyr, Pcs
<1> QED BY <1>2, <1>4

\* The discovery is for the address the node has.
LEMMA BaseDiscover == ASSUME Base, NEW n \in Node, Discover(n), UNCHANGED setup PROVE Base'
<1> USE DEF Base
<1>1. addr[n] \in Addr /\ addr[n] \in tried[n] /\ Discovery(addr[n]) \in Frames
  BY DEF Types, Own, Discover, Discovery, Frames
<1>2. /\ box' \in [Node -> Seq(Frames)]
      /\ \A m \in Node : \A f \in Out(m)' : f \in Out(m) \/ (m = n /\ f = Discovery(addr[n]))
  <2>1. CASE Queue(n, Discovery(addr[n]))
    BY <1>1, <2>1, QueueOut
  <2>2. CASE UNCHANGED box
    BY <2>2, SameQueues DEF Types
  <2> QED BY <2>1, <2>2 DEF Discover
<1>3. faults' \in 0..MaxFaults
  BY ClaimAssumption DEF Types, Discover, Fault, NoFault
<1>4. pc' \in [Node -> Pcs] /\ used' \in [Node -> BOOLEAN] /\ unanswered' \subseteq Node
  BY DEF Types, Discover, GoTo, Pcs, Cleared
<1>5. Types'
  BY <1>2, <1>3, <1>4 DEF Types, Discover
<1>6. \A m \in Node : \A f \in Out(m)' : f.for \in tried[m]
  BY <1>1, <1>2 DEF Own, Discovery
<1>7. \A m \in Node : pc'[m] = "off" <=> pc[m] = "off"
  BY DEF Types, Discover, GoTo
<1>8. Own'
  BY <1>6, <1>7 DEF Own, Discover, Zephyr
<1> QED BY <1>5, <1>8

\* The node moves to another address; the one it had stays among those it tried.
LEMMA BaseGiveUp ==
  ASSUME Base, NEW n \in Node, NEW a \in Addr, GiveUp(n, a), UNCHANGED setup PROVE Base'
<1> USE DEF Base
<1>1. inbox' \in [Node -> Seq(Addr)] /\ (Zephyr(n) => inbox' = inbox)
  BY Shortened DEF Types, GiveUp, InUse
<1>2. Types'
  BY <1>1 DEF Types, GiveUp, Try, GoTo, Pcs
<1>3. \A m \in Node : Out(m)' = Out(m)
  BY SameQueues DEF GiveUp
<1>4. Own'
  BY <1>1, <1>2, <1>3, ClaimAssumption DEF Types, Own, GiveUp, Try, GoTo, Zephyr, Pcs
<1> QED BY <1>2, <1>4

\* The claim is for the address the node has.
LEMMA BaseClaimIt == ASSUME Base, NEW n \in Node, ClaimIt(n), UNCHANGED setup PROVE Base'
<1> USE DEF Base
<1>1. addr[n] \in Addr /\ addr[n] \in tried[n] /\ Claim(addr[n]) \in Frames
  BY DEF Types, Own, ClaimIt, Claim, Frames
<1>2. /\ box' \in [Node -> Seq(Frames)]
      /\ \A m \in Node : \A f \in Out(m)' : f \in Out(m) \/ (m = n /\ f = Claim(addr[n]))
  <2>1. CASE Queue(n, Claim(addr[n]))
    BY <1>1, <2>1, QueueOut
  <2>2. CASE UNCHANGED box
    BY <2>2, SameQueues DEF Types
  <2> QED BY <2>1, <2>2 DEF ClaimIt
<1>3. inbox' \in [Node -> Seq(Addr)] /\ (inbox[n] = <<>> => inbox' = inbox)
  BY Shortened DEF Types, ClaimIt
<1>4. faults' \in 0..MaxFaults
  BY ClaimAssumption DEF Types, ClaimIt, Fault, NoFault
<1>5. Types'
  BY <1>2, <1>3, <1>4 DEF Types, ClaimIt, GoTo, Pcs
<1>6. Own'
  BY <1>1, <1>2, <1>3, <1>5 DEF Types, Own, ClaimIt, Claim, GoTo, Zephyr, Pcs
<1> QED BY <1>5, <1>6

\* The node looks whether its claim collided.
LEMMA BaseCheck == ASSUME Base, NEW n \in Node, Check(n), UNCHANGED setup PROVE Base'
<1> USE DEF Base
<1>1. Types'
  BY DEF Types, Check, GoTo, Pcs
<1>2. \A m \in Node : Out(m)' = Out(m)
  BY SameQueues DEF Check
<1>3. Own'
  BY <1>1, <1>2 DEF Types, Own, Check, GoTo, Zephyr, Pcs
<1> QED BY <1>1, <1>3

\* The node begins to listen for discoveries of its address.
LEMMA BaseListen == ASSUME Base, NEW n \in Node, Listen(n), UNCHANGED setup PROVE Base'
<1> USE DEF Base
<1>1. Types'
  <2>1. faults' \in 0..MaxFaults
    BY ClaimAssumption DEF Types, Listen, Fault, NoFault
  <2>2. <<>> \in Seq(Addr)
    OBVIOUS
  <2>3. inbox' \in [Node -> Seq(Addr)]
    BY <2>2 DEF Types, Listen
  <2>4. pc' \in [Node -> Pcs]
    BY DEF Types, Listen, GoTo, Pcs
  <2> QED BY <2>1, <2>3, <2>4 DEF Types, Listen
<1>2. \A m \in Node : Out(m)' = Out(m)
  BY SameQueues DEF Listen
<1>3. Own'
  BY <1>1, <1>2 DEF Types, Own, Listen, GoTo, Zephyr, Pcs
<1> QED BY <1>1, <1>3

\* A frame goes over the bus: an answer is due only from a node that has its address.
LEMMA BaseDeliver == ASSUME Base, NEW n \in Node, Deliver(n), UNCHANGED setup PROVE Base'
<1> USE DEF Base
<1>1. /\ box' \in [Node -> Seq(Frames)] /\ inbox' \in [Node -> Seq(Addr)]
      /\ Head(box[n]) \in Frames /\ Out(n)' \subseteq Out(n)
      /\ \A m \in Node \ {n} : Out(m)' = Out(m)
  BY DeliverOut, DeliverIn
<1>2. \A m \in Node : Zephyr(m) => inbox'[m] = inbox[m]
  BY DeliverIn DEF Looks
<1>3. used' \in [Node -> BOOLEAN] /\ work' \in [Node -> BOOLEAN] /\ unanswered' \subseteq Node
  BY DEF Types, Deliver
<1>4. Types'
  BY <1>1, <1>3 DEF Types, Deliver
<1>5. \A m \in Node : work'[m] => work[m] \/ addr[m] = Head(box[n]).for
  BY DEF Types, Deliver, WithAddr
<1>6. Head(box[n]).for # None
  BY <1>1, ClaimAssumption DEF Frames
<1>7. Own'
  BY <1>1, <1>2, <1>4, <1>5, <1>6, SMTT(40) DEF Own, Deliver, Zephyr
<1> QED BY <1>4, <1>7

\* The answer is a claim of the address the node has.
LEMMA BaseAnswer == ASSUME Base, NEW n \in Node, Answer(n), UNCHANGED setup PROVE Base'
<1> USE DEF Base
<1>1. addr[n] \in Addr /\ addr[n] \in tried[n] /\ Claim(AnswerFor(n)) \in Frames
  BY DEF Types, Own, Answer, AnswerFor, Claim, Frames
<1>2. /\ box' \in [Node -> Seq(Frames)]
      /\ \A m \in Node : \A f \in Out(m)' : f \in Out(m) \/ (m = n /\ f = Claim(addr[n]))
  <2>1. CASE Queue(n, Claim(AnswerFor(n)))
    BY <1>1, <2>1, QueueOut DEF AnswerFor
  <2>2. CASE UNCHANGED box
    BY <2>2, SameQueues DEF Types
  <2> QED BY <2>1, <2>2 DEF Answer
<1>3. Types'
  <2>1. faults' \in 0..MaxFaults
    BY ClaimAssumption DEF Types, Answer, Fault, NoFault
  <2> QED BY <1>2, <2>1 DEF Types, Answer, WithAddr
<1>4. Own'
  BY <1>1, <1>2, <1>3, SMTT(40) DEF Types, Own, Answer, Claim, Zephyr
<1> QED BY <1>3, <1>4

\* Two claims collide: only the error counts rise.
LEMMA BaseCollide ==
  ASSUME Base, NEW m \in Node, NEW n \in Node, Collide(m, n), UNCHANGED setup PROVE Base'
<1> USE DEF Base
<1>1. /\ err' = [err EXCEPT ![m] = err[m] + 1, ![n] = err[n] + 1]
      /\ MaxErr \in Nat /\ err \in [Node -> 0..MaxErr] /\ err[m] < MaxErr /\ err[n] < MaxErr
  BY ClaimAssumption DEF Types, Collide
<1>2. err[m] + 1 \in 0..MaxErr /\ err[n] + 1 \in 0..MaxErr
  BY <1>1
<1>3. err' \in [Node -> 0..MaxErr]
  BY <1>1, <1>2
<1>4. \A k \in Node : err[k] <= err'[k]
  <2> TAKE k \in Node
  <2>1. err'[k] = err[k] \/ err'[k] = err[k] + 1
    BY <1>1 DEF Collide
  <2> QED BY <1>1, <2>1
<1>5. Types'
  BY <1>3 DEF Types, Collide
<1>6. \A k \in Node : Out(k)' = Out(k)
  BY SameQueues DEF Collide
<1>7. \A k \in Node : before'[k] <= err'[k]
  <2> TAKE k \in Node
  <2>1. before[k] \in Int /\ err[k] \in Int /\ err'[k] \in Int
    BY <1>3 DEF Types
  <2>2. before[k] <= err[k] /\ before'[k] = before[k] /\ err[k] <= err'[k]
    BY <1>4 DEF Own, Collide
  <2> QED BY <2>1, <2>2
<1>8. Own'
  BY <1>6, <1>7 DEF Own, Collide, Zephyr
<1> QED BY <1>5, <1>8

\* No step leaves the types, nor leaves a frame nobody tried the address of.
LEMMA BaseNext == Base /\ [Next]_vars => Base'
<1> SUFFICES ASSUME Base, [Next]_vars PROVE Base'
  OBVIOUS
<1>1. CASE UNCHANGED vars
  <2>1. \A n \in Node : Out(n)' = Out(n)
    BY <1>1, SameQueues DEF vars
  <2> QED BY <1>1, <2>1 DEF vars, Base, Types, Own, Zephyr
<1>2. CASE Next
  <2>1. ASSUME NEW n \in Node, Bind(n) PROVE Base'
    BY <1>2, <2>1, BaseBind DEF Next
  <2>2. ASSUME NEW n \in Node, Discover(n) PROVE Base'
    BY <1>2, <2>2, BaseDiscover DEF Next
  <2>3. ASSUME NEW n \in Node, ClaimIt(n) PROVE Base'
    BY <1>2, <2>3, BaseClaimIt DEF Next
  <2>4. ASSUME NEW n \in Node, Check(n) PROVE Base'
    BY <1>2, <2>4, BaseCheck DEF Next
  <2>5. ASSUME NEW n \in Node, Listen(n) PROVE Base'
    BY <1>2, <2>5, BaseListen DEF Next
  <2>6. ASSUME NEW n \in Node, NEW a \in Addr, GiveUp(n, a) PROVE Base'
    BY <1>2, <2>6, BaseGiveUp DEF Next
  <2>7. ASSUME NEW n \in Node, Deliver(n) PROVE Base'
    BY <1>2, <2>7, BaseDeliver DEF Next
  <2>8. ASSUME NEW n \in Node, Answer(n) PROVE Base'
    BY <1>2, <2>8, BaseAnswer DEF Next
  <2>9. ASSUME NEW m \in Node, NEW n \in Node, Collide(m, n) PROVE Base'
    BY <1>2, <2>9, BaseCollide DEF Next
  <2> QED BY <1>2, <2>1, <2>2, <2>3, <2>4, <2>5, <2>6, <2>7, <2>8, <2>9 DEF Next, Step
<1> QED BY <1>1, <1>2

-----------------------------------------------------------------------------
(* Whoever shares an address with an owner has been told, is about to be,  *)
(* or has met a gap.                                                       *)

\* At first everybody is off, or bound to an address of its own.
LEMMA SettledInit == Init => Settled
<1> SUFFICES ASSUME Init PROVE Settled
  OBVIOUS
<1>1. \A n \in Node : pc[n] = IF setup.old[n] = None THEN "off" ELSE "bound"
  BY ClaimAssumption DEF Init
<1>2. \A n \in Node : Heard(n)
  BY <1>1 DEF Heard
<1>3. \A m, n \in Node : Holds(n) => addr[n] # None
  BY <1>1 DEF Holds, Init
<1>4. \A n \in Node : Alone(n)
  BY <1>3, ClaimAssumption DEF Alone, Init
<1> QED BY <1>2, <1>4 DEF Settled

\* A step of bind() of one node: the others keep their frames, and what they know, so they
\* are settled if the node answers once it has claimed, and no owner shares its address.
LEMMA SettledOther ==
  ASSUME Settled, setup.prompt, UNCHANGED setup, NEW k \in Node,
         \A n \in Node \ {k} :
           /\ pc'[n] = pc[n] /\ addr'[n] = addr[n] /\ used'[n] = used[n] /\ work'[n] = work[n]
           /\ box'[n] = box[n] /\ inbox'[n] = inbox[n] /\ (n \in Excused => n \in Excused'),
         Holds(k)' => /\ addr'[k] = addr[k]
                      /\ Answering(k)' \/ (Holds(k) /\ ~Answering(k)),
         \A n \in Node \ {k} : Holds(n) /\ Holds(k)' /\ addr[n] = addr'[k] =>
                                 {n, k} \cap Excused' # {}
  PROVE  (\A n \in Node \ {k} : Heard(n)') /\ \A n \in Node : Alone(n)'
<1>1. \A n \in Node \ {k} : Out(n)' = Out(n) /\ In(n)' = In(n)
  BY SameQueues
<1>2. \A n \in Node \ {k} : /\ Asking(n)' = Asking(n) /\ Answering(n)' = Answering(n)
                           /\ Knows(n)' = Knows(n) /\ Holds(n)' = Holds(n)
  BY <1>1 DEF Asking, Answering, Knows, Holds, Zephyr, Claim
<1>3. ASSUME NEW n \in Node \ {k} PROVE Heard(n)'
  BY <1>1, <1>2, <1>3 DEF Heard, Settled
<1>4. ASSUME NEW n \in Node PROVE Alone(n)'
  BY <1>2, <1>4 DEF Alone, Settled
<1> QED BY <1>3, <1>4

\* bind() begins, or moves to another address: the node owns nothing.
LEMMA SettledBegin ==
  ASSUME Base, Settled, setup.prompt, UNCHANGED setup, NEW k \in Node,
         Bind(k) \/ \E a \in Addr : GiveUp(k, a)
  PROVE  \A n \in Node : Heard(n)' /\ Alone(n)'
<1>1. pc'[k] = "ask"
  BY DEF Base, Types, Bind, GiveUp, GoTo
<1>2. /\ UNCHANGED <<used, work, box, unanswered, hurried>>
      /\ \A n \in Node \ {k} : pc'[n] = pc[n] /\ addr'[n] = addr[n] /\ inbox'[n] = inbox[n]
  BY DEF Base, Types, Bind, GiveUp, GoTo, Try
<1>3. ~Holds(k)' /\ Heard(k)'
  BY <1>1 DEF Holds, Heard
<1> QED BY <1>2, <1>3, SettledOther DEF Excused

\* The discovery is queued: whoever shares the address is still to be asked.  If SocketCAN
\* does not notice that it could not be sent, the node counts as unanswered.
LEMMA SettledDiscover ==
  ASSUME Base, Settled, setup.prompt, UNCHANGED setup, NEW k \in Node, Discover(k)
  PROVE  \A n \in Node : Heard(n)' /\ Alone(n)'
<1>1. pc'[k] \in {"ask", "wait"} /\ \A n \in Node \ {k} : pc'[n] = pc[n]
  BY DEF Base, Types, Discover, GoTo
<1>2. /\ UNCHANGED <<addr, work, inbox>>
      /\ \A n \in Node \ {k} : used'[n] = used[n] /\ box'[n] = box[n]
                               /\ (n \in Excused => n \in Excused')
  BY DEF Base, Types, Discover, Queue, Cleared, Excused
<1>3. ~Holds(k)'
  BY <1>1 DEF Holds
<1>4. Heard(k)'
  <2>1. CASE Queue(k, Discovery(addr[k]))
    <3>1. addr[k] \in Addr /\ Discovery(addr[k]) \in Frames
      BY DEF Base, Types, Own, Discover, Discovery, Frames
    <3>2. Out(k) = {}
      BY DEF Discover, Out
    <3>3. Out(k)' = {Discovery(addr[k])}
      BY <2>1, <3>1, <3>2, QueueOut DEF Base
    <3> QED BY <1>2, <3>3 DEF Heard, Asking, Discovery
  <2>2. CASE UNCHANGED <<box, pc>>
    BY <2>2 DEF Discover, Heard
  <2>3. CASE unanswered' = unanswered \cup {k} /\ UNCHANGED box
    <3>1. Out(k)' = {}
      BY <2>3, SameQueues DEF Discover, Out
    <3> QED BY <2>3, <3>1 DEF Heard, Excused
  <2> QED BY <2>1, <2>2, <2>3 DEF Discover
<1> QED BY <1>1, <1>2, <1>3, <1>4, SettledOther

\* The claim: an owner of the address would have answered by now, unless the node has met a
\* gap, and whoever asked for it meanwhile is told by the claim.
LEMMA SettledClaimIt ==
  ASSUME Base, Settled, setup.prompt, UNCHANGED setup, NEW k \in Node, ClaimIt(k)
  PROVE  \A n \in Node : Heard(n)' /\ Alone(n)'
<1>1. pc[k] = "wait" /\ pc'[k] \in {"ask", "claimed"} /\ \A n \in Node \ {k} : pc'[n] = pc[n]
  BY DEF Base, Types, ClaimIt, GoTo
<1>2. /\ UNCHANGED <<addr, work, used, unanswered>> /\ Excused \subseteq Excused'
      /\ \A n \in Node \ {k} : inbox'[n] = inbox[n] /\ box'[n] = box[n]
  BY DEF Base, Types, ClaimIt, Queue, Excused
<1>3. Holds(k)' => Answering(k)'
  <2>1. CASE Queue(k, Claim(addr[k]))
    <3>1. Claim(addr[k]) \in Frames
      BY DEF Base, Types, Own, ClaimIt, Claim, Frames
    <3> QED BY <1>2, <2>1, <3>1, QueueOut DEF Base, Answering, Claim
  <2>2. CASE pc'[k] = "ask"
    BY <2>2 DEF Holds
  <2> QED BY <2>1, <2>2 DEF Base, Types, ClaimIt, GoTo
<1>4. ASSUME NEW n \in Node \ {k}, Holds(n), addr[n] = addr[k]
      PROVE  {n, k} \cap Excused' # {}
  <2>1. CASE inbox[k] # <<>>
    BY <2>1 DEF ClaimIt, Excused
  <2>2. CASE inbox[k] = <<>>
    <3>1. Quiet(k) /\ ~InUse(k)
      BY <2>2 DEF ClaimIt
    <3>2. ~Asking(k)
      BY <3>1 DEF Quiet, Asking, Out
    <3>3. ~Answering(n)
      BY <1>4, <3>1 DEF Quiet, Answering, Out
    <3>4. ~Knows(k)
      BY <2>2, <3>1 DEF Knows, InUse, In
    <3>5. k \in Excused
      BY <1>1, <1>4, <3>2, <3>3, <3>4 DEF Settled, Heard
    <3> QED BY <1>2, <3>5
  <2> QED BY <2>1, <2>2
<1>5. Heard(k)'
  BY <1>1 DEF Heard
<1> QED BY <1>2, <1>1, <1>3, <1>4, <1>5, SettledOther

\* After the claim the node only begins to listen, or asks again.
LEMMA SettledAfter ==
  ASSUME Base, Settled, setup.prompt, UNCHANGED setup, NEW k \in Node, Check(k) \/ Listen(k)
  PROVE  \A n \in Node : Heard(n)' /\ Alone(n)'
<1>1. Holds(k) /\ pc'[k] # "wait" /\ \A n \in Node \ {k} : pc'[n] = pc[n]
  BY DEF Base, Types, Check, Listen, GoTo, Holds
<1>2. /\ UNCHANGED <<addr, work, used, box, unanswered, hurried>>
      /\ \A n \in Node \ {k} : inbox'[n] = inbox[n]
  BY DEF Base, Types, Check, Listen
<1>3. Answering(k)' = Answering(k)
  BY <1>2, SameQueues DEF Answering, Claim
<1>4. Heard(k)'
  BY <1>1 DEF Heard
<1>5. \A n \in Node \ {k} : Holds(n) /\ addr[n] = addr[k] => {n, k} \cap Excused # {}
  BY <1>1 DEF Settled, Alone
<1> QED BY <1>1, <1>2, <1>3, <1>4, <1>5, SettledOther DEF Excused

\* A discovery that goes over the bus makes every owner that hears it owe an answer, and the
\* others are the gap; a claim tells every node that waits for the address.
LEMMA SettledDeliver ==
  ASSUME Base, Settled, setup.prompt, UNCHANGED setup, NEW k \in Node, Deliver(k)
  PROVE  \A n \in Node : Heard(n)' /\ Alone(n)'
<1> DEFINE frame == Head(box[k])
<1>1. /\ UNCHANGED <<pc, addr, hurried>> /\ Excused \subseteq Excused'
      /\ \A n \in Node : (work[n] => work'[n]) /\ (used[n] => used'[n])
  BY DEF Base, Types, Deliver, Excused
<1>2. /\ frame \in Frames /\ Out(k) = {frame} \cup Out(k)'
      /\ \A n \in Node \ {k} : Out(n)' = Out(n)
  BY DeliverOut DEF Base
<1>3. \A n \in Node : In(n) \subseteq In(n)'
  BY DeliverIn, SameQueues DEF Base
<1>4. \A n \in Node : Knows(n) => Knows(n)'
  BY <1>1, <1>3 DEF Knows, Zephyr
<1>5. \A n \in Node : Holds(n)' = Holds(n)
  BY <1>1 DEF Holds
<1>6. ASSUME NEW n \in Node, pc[n] = "wait",
             NEW m \in Node \ {n}, Holds(m), addr[m] = addr[n], n \notin Excused'
      PROVE  Asking(n)' \/ Answering(m)' \/ Knows(n)'
  <2>1. Asking(n) \/ Answering(m) \/ Knows(n)
    BY <1>1, <1>6 DEF Settled, Heard
  <2>2. CASE Asking(n) /\ ~Asking(n)'
    <3>1. n = k /\ frame.type = "discovery" /\ frame.for = addr[n]
      BY <1>2, <1>6, <2>2 DEF Asking, Settled, Heard
    <3>2. m \in WithAddr(frame.for) \ {k} /\ (Hears(m) \/ Owns(m))
      BY <1>6, <3>1 DEF WithAddr, Holds, Hears, Owns
    <3>3. Hears(m)
      BY <1>6, <3>1, <3>2 DEF Deliver, Excused
    <3>4. work'[m]
      BY <3>1, <3>2, <3>3 DEF Deliver
    <3> QED BY <3>4 DEF Answering
  <2>3. CASE Answering(m) /\ ~Answering(m)'
    <3>1. m = k /\ frame = Claim(addr[m])
      BY <1>1, <1>2, <2>3 DEF Answering, Claim
    <3>2. frame.type = "claim" /\ frame.for = addr[n] /\ n # k
      BY <1>6, <3>1 DEF Claim
    <3>3. CASE Zephyr(n)
      <4>1. used'[n]
        BY <1>6, <3>2, <3>3 DEF Deliver, WithAddr
      <4> QED BY <3>3, <4>1 DEF Knows, Zephyr
    <3>4. CASE ~Zephyr(n)
      <4>1. addr[n] \in In(n)'
        BY <1>6, <3>2, <3>4, DeliverIn DEF Base, Looks
      <4> QED BY <1>1, <3>4, <4>1 DEF Knows, Zephyr
    <3> QED BY <3>3, <3>4
  <2> QED BY <1>4, <2>1, <2>2, <2>3
<1>7. \A n \in Node : Out(n)' \subseteq Out(n)
  BY <1>2
<1>8. ASSUME NEW n \in Node PROVE Heard(n)'
  BY <1>1, <1>5, <1>6, <1>7 DEF Heard, Settled
<1>9. ASSUME NEW n \in Node PROVE Alone(n)'
  BY <1>1, <1>5 DEF Alone, Settled
<1> QED BY <1>8, <1>9

\* The answer that was due is a claim of the address, or could not be sent: the gap.
LEMMA SettledAnswer ==
  ASSUME Base, Settled, setup.prompt, UNCHANGED setup, NEW k \in Node, Answer(k)
  PROVE  \A n \in Node : Heard(n)' /\ Alone(n)'
<1>1. /\ UNCHANGED <<pc, addr, used, inbox, hurried>> /\ Excused \subseteq Excused'
      /\ \A n \in Node \ {k} : work'[n] = work[n]
  BY DEF Base, Types, Answer, Excused
<1>2. \A n \in Node : Holds(n)' = Holds(n) /\ Knows(n)' = Knows(n)
  BY <1>1, SameQueues DEF Holds, Knows, Zephyr
<1>3. /\ \A n \in Node : Out(n) \subseteq Out(n)' /\ Out(n)' \subseteq Out(n) \cup {Claim(addr[k])}
      /\ Claim(addr[k]) \in Out(k)' \/ WithAddr(addr[k]) \subseteq unanswered'
  <2>1. CASE Queue(k, Claim(AnswerFor(k)))
    <3>1. Claim(addr[k]) \in Frames
      BY DEF Base, Types, Own, Answer, Claim, Frames
    <3> QED BY <2>1, <3>1, QueueOut DEF Base, AnswerFor
  <2>2. CASE UNCHANGED box /\ unanswered' = unanswered \cup WithAddr(addr[k])
    BY <2>2, SameQueues
  <2> QED BY <2>1, <2>2 DEF Answer
<1>4. ASSUME NEW n \in Node, NEW m \in Node, addr[m] = addr[n], n \notin Excused', Answering(m)
      PROVE  Answering(m)'
  <2>1. CASE m = k
    <3>1. n \in WithAddr(addr[k])
      BY <1>4, <2>1 DEF WithAddr
    <3> QED BY <1>1, <1>3, <1>4, <2>1, <3>1 DEF Answering, Excused, Claim
  <2>2. CASE m # k
    BY <1>1, <1>3, <1>4, <2>2 DEF Answering, Claim
  <2> QED BY <2>1, <2>2
<1>5. \A n \in Node : Asking(n) => Asking(n)'
  BY <1>3 DEF Asking
<1>6. ASSUME NEW n \in Node PROVE Heard(n)'
  <2>1. \A f \in Out(n)' : f.type = "discovery" => f \in Out(n)
    BY <1>3 DEF Claim
  <2> QED BY <1>1, <1>2, <1>4, <1>5, <1>6, <2>1 DEF Heard, Settled
<1>7. ASSUME NEW n \in Node PROVE Alone(n)'
  BY <1>1, <1>2 DEF Alone, Settled
<1> QED BY <1>6, <1>7

\* The gaps of bind() are the only way to share an address: the invariant.
LEMMA SettledNext == Base /\ Settled /\ [Next]_vars => Settled'
<1> SUFFICES ASSUME Base, Settled, [Next]_vars, setup'.prompt
             PROVE  \A n \in Node : Heard(n)' /\ Alone(n)'
  BY DEF Settled
<1>1. UNCHANGED setup /\ setup.prompt
  BY DEF Next, vars
<1>2. CASE UNCHANGED <<pc, addr, box, used, work, inbox, unanswered, hurried>>
  <2>1. \A n \in Node : Out(n)' = Out(n) /\ In(n)' = In(n)
    BY <1>2, SameQueues
  <2> QED BY <1>1, <1>2, <2>1
          DEF Settled, Heard, Alone, Asking, Answering, Knows, Holds, Excused, Zephyr, Claim
<1>3. ASSUME NEW k \in Node, Bind(k) \/ \E a \in Addr : GiveUp(k, a)
      PROVE  \A n \in Node : Heard(n)' /\ Alone(n)'
  BY <1>1, <1>3, SettledBegin
<1>4. ASSUME NEW k \in Node, Discover(k) PROVE \A n \in Node : Heard(n)' /\ Alone(n)'
  BY <1>1, <1>4, SettledDiscover
<1>5. ASSUME NEW k \in Node, ClaimIt(k) PROVE \A n \in Node : Heard(n)' /\ Alone(n)'
  BY <1>1, <1>5, SettledClaimIt
<1>6. ASSUME NEW k \in Node, Check(k) \/ Listen(k) PROVE \A n \in Node : Heard(n)' /\ Alone(n)'
  BY <1>1, <1>6, SettledAfter
<1>7. ASSUME NEW k \in Node, Deliver(k) PROVE \A n \in Node : Heard(n)' /\ Alone(n)'
  BY <1>1, <1>7, SettledDeliver
<1>8. ASSUME NEW k \in Node, Answer(k) PROVE \A n \in Node : Heard(n)' /\ Alone(n)'
  BY <1>1, <1>8, SettledAnswer
<1>9. ASSUME NEW m \in Node, NEW n \in Node, Collide(m, n)
      PROVE  UNCHANGED <<pc, addr, box, used, work, inbox, unanswered, hurried>>
  BY <1>9 DEF Collide
<1> QED BY <1>2, <1>3, <1>4, <1>5, <1>6, <1>7, <1>8, <1>9 DEF Next, Step, vars

-----------------------------------------------------------------------------
(* What tells a node to give an address up.                                *)

\* At first nobody has been told anything.
LEMMA ReasonsInit == Init => Reasons
<1> SUFFICES ASSUME Init PROVE Reasons
  OBVIOUS
<1>1. \A n \in Node : In(n) = {} /\ used[n] = FALSE
  BY DEF Init, In
<1> QED BY <1>1 DEF Reasons

\* No step forgets an address that was tried.
LEMMA TriedGrows ==
  ASSUME Base, [Next]_vars PROVE \A n \in Node : tried[n] \subseteq tried'[n]
<1>1. ASSUME NEW k \in Node, Bind(k) \/ \E a \in Addr : GiveUp(k, a)
      PROVE  \A n \in Node : tried[n] \subseteq tried'[n]
  <2>1. PICK a \in Addr : tried' = [tried EXCEPT ![k] = tried[k] \cup {a}]
    BY <1>1 DEF Bind, GiveUp, Try
  <2>2. tried \in [Node -> SUBSET Addr]
    BY DEF Base, Types
  <2> QED BY <2>1, <2>2
<1>2. CASE UNCHANGED tried
  BY <1>2
<1>3. ASSUME NEW n \in Node,
             Discover(n) \/ ClaimIt(n) \/ Check(n) \/ Listen(n) \/ Deliver(n) \/ Answer(n)
      PROVE  UNCHANGED tried
  BY <1>3 DEF Discover, ClaimIt, Check, Listen, Deliver, Answer
<1>4. ASSUME NEW m \in Node, NEW n \in Node, Collide(m, n) PROVE UNCHANGED tried
  BY <1>4 DEF Collide
<1> QED BY <1>1, <1>2, <1>3, <1>4 DEF Next, Step, vars

\* A step of bind() learns nothing new: it clears the event, or takes claims from a socket.
LEMMA ReasonsBind ==
  ASSUME Base, Reasons, UNCHANGED setup, \A m \in Node : tried[m] \subseteq tried'[m],
         NEW k \in Node,
         \/ Bind(k) \/ Discover(k) \/ ClaimIt(k) \/ Check(k) \/ Listen(k)
         \/ \E a \in Addr : GiveUp(k, a)
  PROVE  Reasons'
<1>1. /\ \A n \in Node \ {k} : /\ pc'[n] = pc[n] /\ addr'[n] = addr[n] /\ used'[n] = used[n]
                               /\ inbox'[n] = inbox[n]
      /\ pc'[k] = "wait" /\ Zephyr(k) => ~used'[k]
  BY DEF Base, Types, Bind, Discover, ClaimIt, Check, Listen, GiveUp, GoTo, Try, Cleared
<1>2. \A n \in Node \ {k} : In(n)' = In(n)
  BY <1>1, SameQueues
<1>3. In(k)' \subseteq In(k)
  <2>1. CASE inbox'[k] = inbox[k]
    BY <2>1, SameQueues
  <2>2. CASE inbox[k] # <<>> /\ inbox'[k] = Tail(inbox[k])
    <3>1. In(k)' = {Tail(inbox[k])[i] : i \in DOMAIN Tail(inbox[k])}
      BY <2>2 DEF In
    <3>2. inbox[k] \in Seq(Addr)
      BY DEF Base, Types
    <3> QED BY <2>2, <3>1, <3>2, Shortened DEF In
  <2>3. CASE inbox'[k] = <<>>
    BY <2>3 DEF In
  <2> QED BY <2>1, <2>2, <2>3
          DEF Base, Types, Bind, Discover, ClaimIt, Check, Listen, GiveUp, InUse
<1>4. ASSUME NEW n \in Node, NEW a \in In(n)' PROVE \E m \in Node \ {n} : a \in tried'[m]
  <2>1. a \in In(n)
    BY <1>2, <1>3, <1>4
  <2> QED BY <2>1 DEF Reasons
<1>5. ASSUME NEW n \in Node, pc'[n] = "wait", Zephyr(n), used'[n]
      PROVE  \E m \in Node \ {n} : addr'[n] \in tried'[m]
  <2>1. n # k
    BY <1>1, <1>5
  <2> QED BY <1>1, <1>5, <2>1 DEF Reasons
<1> QED BY <1>4, <1>5 DEF Reasons, Zephyr

\* A claim that goes over the bus is for an address its sender has tried.
LEMMA ReasonsDeliver ==
  ASSUME Base, Reasons, UNCHANGED setup, NEW k \in Node, Deliver(k)
  PROVE  Reasons'
<1> DEFINE frame == Head(box[k])
<1>1. UNCHANGED <<pc, addr, tried>>
  BY DEF Deliver
<1>2. frame \in Frames /\ frame.for \in tried[k]
  BY DeliverOut DEF Base, Own
<1>3. ASSUME NEW n \in Node, NEW a \in In(n)' PROVE \E m \in Node \ {n} : a \in tried[m]
  <2>1. CASE a \in In(n)
    BY <2>1 DEF Reasons
  <2>2. CASE a \notin In(n)
    <3>1. a = frame.for /\ Looks(n, k)
      BY <1>3, <2>2, DeliverIn, SameQueues DEF Base
    <3> QED BY <1>2, <3>1 DEF Looks
  <2> QED BY <2>1, <2>2
<1>4. ASSUME NEW n \in Node, used'[n], ~used[n] PROVE n # k /\ addr[n] = frame.for
  BY <1>4 DEF Base, Types, Deliver, WithAddr
<1>5. ASSUME NEW n \in Node, pc[n] = "wait", Zephyr(n), used'[n]
      PROVE  \E m \in Node \ {n} : addr[n] \in tried[m]
  BY <1>2, <1>4, <1>5 DEF Reasons
<1> QED BY <1>1, <1>3, <1>5 DEF Reasons, Zephyr

\* What tells a node to give its address up always comes from one that has tried it.
LEMMA ReasonsNext == Base /\ Reasons /\ [Next]_vars => Reasons'
<1> SUFFICES ASSUME Base, Reasons, [Next]_vars PROVE Reasons'
  OBVIOUS
<1>1. UNCHANGED setup /\ \A m \in Node : tried[m] \subseteq tried'[m]
  BY TriedGrows DEF Next, vars
<1>2. CASE UNCHANGED <<pc, addr, used, inbox, tried>>
  <2>1. \A n \in Node : In(n)' = In(n)
    BY <1>2, SameQueues
  <2> QED BY <1>1, <1>2, <2>1 DEF Reasons, Zephyr
<1>3. ASSUME NEW k \in Node,
             \/ Bind(k) \/ Discover(k) \/ ClaimIt(k) \/ Check(k) \/ Listen(k)
             \/ \E a \in Addr : GiveUp(k, a)
      PROVE  Reasons'
  BY <1>1, <1>3, ReasonsBind
<1>4. ASSUME NEW k \in Node, Deliver(k) PROVE Reasons'
  BY <1>1, <1>4, ReasonsDeliver
<1>5. ASSUME NEW k \in Node, Answer(k) PROVE UNCHANGED <<pc, addr, used, inbox, tried>>
  BY <1>5 DEF Answer
<1>6. ASSUME NEW m \in Node, NEW n \in Node, Collide(m, n)
      PROVE  UNCHANGED <<pc, addr, used, inbox, tried>>
  BY <1>6 DEF Collide
<1> QED BY <1>2, <1>3, <1>4, <1>5, <1>6 DEF Next, Step, vars

-----------------------------------------------------------------------------
(* The theorems.                                                           *)

\* The invariant says what the runs check of addresses and claims.
LEMMA BaseSettledUnique == Base /\ Settled => AddressesUnique
<1> SUFFICES ASSUME Base, Settled PROVE AddressesUnique
  OBVIOUS
<1>1. \A n \in Node : \A i \in DOMAIN box[n] : box[n][i] \in Frames /\ box[n][i] \in Out(n)
  BY DEF Base, Types, Out
<1>2. \A n \in Node : \A i \in DOMAIN inbox[n] : inbox[n][i] \in Addr /\ ~Zephyr(n)
  BY DEF Base, Types, Own
<1>3. TypeOK
  BY <1>1, <1>2 DEF Base, Types, Own, TypeOK, Pcs, Frames
<1>4. ClaimsWereAsked
  BY <1>1 DEF Base, Own, ClaimsWereAsked
<1>5. \A n \in Node : Owns(n) => Holds(n)
  BY DEF Owns, Holds
<1>6. UniqueOrExplained
  BY <1>5 DEF UniqueOrExplained, Settled, Alone, Excused
<1> QED BY <1>3, <1>4, <1>6 DEF AddressesUnique

\* Among any number of Zephyr and SocketCAN nodes whose answers come within the 500 ms, two
\* nodes own one address only if one of them asked while the other could not hear or answer,
\* or stopped waiting because of another claim.
THEOREM AddressesUniqueAlways == Spec => []AddressesUnique
<1>1. Init => Base /\ Settled
  BY BaseInit, SettledInit
<1>2. Base /\ Settled /\ [Next]_vars => (Base /\ Settled)'
  BY BaseNext, SettledNext
<1> QED BY <1>1, <1>2, BaseSettledUnique, PTL DEF Spec

\* bind() gives an address up only if another node has had it, however late the claims come
\* and however often the node has changed its address.
THEOREM GivesUpAlwaysForAReason == Spec => GivesUpForAReason
<1> DEFINE Given == \A n \in Node : pc[n] = "wait" /\ pc'[n] = "ask" /\ InUse(n) =>
                      \E m \in Node \ {n} : addr[n] \in tried[m]
<1>1. Base /\ Reasons /\ [Next]_vars => [Given]_vars
  <2> SUFFICES ASSUME Base, Reasons, NEW n \in Node, pc[n] = "wait", InUse(n)
               PROVE  \E m \in Node \ {n} : addr[n] \in tried[m]
    OBVIOUS
  <2>1. CASE Zephyr(n)
    BY <2>1 DEF Reasons, InUse
  <2>2. CASE ~Zephyr(n)
    <3>1. inbox[n] \in Seq(Addr) /\ inbox[n] # <<>> /\ Head(inbox[n]) = addr[n]
      BY <2>2 DEF Base, Types, InUse
    <3>2. addr[n] \in In(n)
      BY <3>1, Shortened DEF In
    <3> QED BY <3>2 DEF Reasons
  <2> QED BY <2>1, <2>2
<1>2. Init => Base /\ Reasons
  BY BaseInit, ReasonsInit
<1>3. Base /\ Reasons /\ [Next]_vars => (Base /\ Reasons)'
  BY BaseNext, ReasonsNext
<1> QED BY <1>1, <1>2, <1>3, PTL DEF Spec, GivesUpForAReason
=============================================================================
