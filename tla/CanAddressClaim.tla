--------------------------- MODULE CanAddressClaim ---------------------------
(***************************************************************************)
(* How the nodes of a CAN bus agree on node addresses: a node discovers    *)
(* whether somebody answers for the address it wants, waits 500 ms, and    *)
(* then claims it.  Zephyr nodes answer from a work queue, even before     *)
(* they own the address; SocketCAN nodes answer from a thread that starts  *)
(* once the claim was made, and read one frame in each wait.               *)
(***************************************************************************)
EXTENDS CanIdentifiers, FiniteSets

CONSTANTS
  Node, Addr, None,
  Setups,      \* the networks to look at: records of
               \*   kind   - "zephyr" or "socketcan", for each node
               \*   old    - the address of each node that is bound already, or None
               \*   starts - the nodes that are started
               \*   prompt - does every answer come within the 500 ms?
  MaxFaults,   \* bound: sends and filters that fail
  MaxErr,      \* bound: collisions
  MaxQueue     \* bound: frames in a controller or a socket

Kind == {"zephyr", "socketcan"}

ASSUME ClaimAssumption ==
  /\ None \notin Addr /\ MaxFaults \in Nat /\ MaxErr \in Nat /\ MaxQueue \in Nat
  /\ Setups \subseteq [kind : [Node -> Kind], old : [Node -> Addr \cup {None}],
                       starts : SUBSET Node, prompt : BOOLEAN]
  /\ \A s \in Setups : \A m, n \in Node : m # n /\ s.old[m] = s.old[n] => s.old[n] = None

VARIABLES
  setup,       \* the network looked at; it never changes
  pc,          \* where bind() is
  addr,        \* _nodeAddress (SocketCAN: the address bind() tries)
  box,         \* frames the controller of a node has to send
  used,        \* the event alreadyUsed
  work,        \* is _addressClaimWork (SocketCAN: the claimer) due?
  inbox,       \* SocketCAN: claims the lookout socket has not been asked for
  err, before, \* transmit error count, and what it was before the claim
  faults,
  tried,       \* history: the addresses each node has had
  unanswered,  \* history: nodes whose last discovery an owner did not answer
  hurried      \* history: SocketCAN nodes that claimed without a full wait

vars == <<setup, pc, addr, box, used, work, inbox, err, before, faults, tried, unanswered, hurried>>

Zephyr(n) == setup.kind[n] = "zephyr"

Init ==
  /\ setup \in Setups
  /\ addr = setup.old
  /\ pc = [n \in Node |-> IF addr[n] = None THEN "off" ELSE "bound"]
  /\ box = [n \in Node |-> <<>>] /\ used = [n \in Node |-> FALSE] /\ work = [n \in Node |-> FALSE]
  /\ inbox = [n \in Node |-> <<>>]
  /\ err = [n \in Node |-> 0] /\ before = [n \in Node |-> 0] /\ faults = 0
  /\ tried = [n \in Node |-> {addr[n]} \ {None}] /\ unanswered = {} /\ hurried = {}

Discovery(a) == [type |-> "discovery", for |-> a]
Claim(a)     == [type |-> "claim", for |-> a]

Queue(n, frame) == Len(box[n]) < MaxQueue /\ box' = [box EXCEPT ![n] = Append(@, frame)]
GoTo(n, l) == pc' = [pc EXCEPT ![n] = l]
Try(n, a) == /\ addr' = [addr EXCEPT ![n] = a]
             /\ tried' = [tried EXCEPT ![n] = @ \cup {a}]
Fault == faults < MaxFaults /\ faults' = faults + 1
NoFault == UNCHANGED faults

-----------------------------------------------------------------------------
(* bind().                                                                 *)

\* The interface is started with the address it would like (bind() asks for minAddress).
Bind(n) ==
  /\ pc[n] = "off" /\ n \in setup.starts
  /\ \E a \in Addr : Try(n, a)
  /\ GoTo(n, "ask")
  /\ UNCHANGED <<box, used, work, inbox, err, before, faults, unanswered, hurried>>

Cleared_Not(n) == used                       \* mutant: the event is not cleared
Cleared(n) == [used EXCEPT ![n] = FALSE]

\* The discovery.  Zephyr tries again if it cannot be sent, SocketCAN does not notice.
Discover(n) ==
  /\ pc[n] = "ask"
  /\ setup.prompt => box[n] = <<>>
  /\ used' = IF Zephyr(n) THEN Cleared(n) ELSE used
  /\ \/ NoFault /\ Queue(n, Discovery(addr[n])) /\ GoTo(n, "wait") /\ unanswered' = unanswered \ {n}
     \/ Fault /\ Zephyr(n) /\ UNCHANGED <<box, pc, unanswered>>
     \/ Fault /\ ~Zephyr(n) /\ GoTo(n, "wait") /\ unanswered' = unanswered \cup {n} /\ UNCHANGED box
  /\ hurried' = hurried \ {n}
  /\ UNCHANGED <<addr, work, inbox, err, before, tried>>

\* Somebody else has the address: try a random one.
InUse_Never(n) == FALSE                      \* mutant: what the wait returns is ignored
InUse(n) == IF Zephyr(n) THEN used[n] ELSE inbox[n] # <<>> /\ Head(inbox[n]) = addr[n]

GiveUp(n, a) ==
  /\ pc[n] = "wait" /\ InUse(n)
  /\ Try(n, a) /\ GoTo(n, "ask")
  /\ inbox' = IF Zephyr(n) THEN inbox ELSE [inbox EXCEPT ![n] = Tail(@)]
  /\ UNCHANGED <<box, used, work, err, before, faults, unanswered, hurried>>

\* Is n's discovery out, and is nobody about to answer it?
Quiet(n) ==
  /\ box[n] = <<>>
  /\ \A m \in Node : /\ Claim(addr[n]) \notin {box[m][i] : i \in DOMAIN box[m]}
                     /\ work[m] => addr[m] # addr[n]

\* 500 ms without an answer, or, SocketCAN, some other node's claim: n claims the address.
ClaimIt(n) ==
  /\ pc[n] = "wait" /\ ~InUse(n)
  /\ inbox[n] = <<>> /\ setup.prompt => Quiet(n)
  /\ inbox' = IF inbox[n] = <<>> THEN inbox ELSE [inbox EXCEPT ![n] = Tail(@)]
  /\ hurried' = IF inbox[n] = <<>> THEN hurried ELSE hurried \cup {n}
  /\ before' = [before EXCEPT ![n] = err[n]]
  /\ \/ NoFault /\ Queue(n, Claim(addr[n])) /\ GoTo(n, "claimed")
     \/ Fault /\ GoTo(n, "ask") /\ UNCHANGED box
  /\ UNCHANGED <<addr, used, work, err, tried, unanswered>>

Collided(n) == Zephyr(n) /\ err[n] > before[n]

\* Zephyr asks again if the error count has risen by now; else it stops listening for
\* discoveries of any address.
Check(n) ==
  /\ pc[n] = "claimed"
  /\ GoTo(n, IF Collided(n) THEN "ask" ELSE "between")
  /\ UNCHANGED <<addr, box, used, work, inbox, err, before, faults, tried, unanswered, hurried>>

\* n starts to listen for discoveries of its own address (SocketCAN: the claimer starts).
Listen(n) ==
  /\ pc[n] = "between"
  /\ \/ NoFault /\ GoTo(n, "bound")
     \/ Fault /\ Zephyr(n) /\ GoTo(n, "failed")
  /\ inbox' = [inbox EXCEPT ![n] = <<>>]
  /\ UNCHANGED <<addr, box, used, work, err, before, tried, unanswered, hurried>>

-----------------------------------------------------------------------------
(* The bus and the answers.                                                *)

\* The states in which a node hears a discovery of its address.
Hears(m) == pc[m] = "bound" \/ (Zephyr(m) /\ pc[m] \in {"ask", "wait", "claimed"})
Owns(m) == pc[m] \in {"between", "bound", "failed"} \/ (pc[m] = "claimed" /\ ~Zephyr(m))
WithAddr(a) == {m \in Node : addr[m] = a}

\* A frame goes over the bus; every other node receives it.
Deliver(n) ==
  /\ box[n] # <<>> /\ \A m \in Node : Len(inbox[m]) < MaxQueue
  /\ box' = [box EXCEPT ![n] = Tail(@)]
  /\ LET frame == Head(box[n]) same == WithAddr(frame.for) \ {n} IN
     \/ /\ frame.type = "discovery"            \* onAddressDiscoverReceived and ...Any...
        /\ work' = [m \in Node |-> work[m] \/ (m \in same /\ Hears(m))]
        /\ unanswered' = IF \E m \in same : Owns(m) /\ ~Hears(m) THEN unanswered \cup {n}
                         ELSE unanswered
        /\ UNCHANGED <<used, inbox>>
     \/ /\ frame.type = "claim"                \* onAddressClaimReceived
        /\ used' = [m \in Node |-> used[m] \/ (m \in same /\ Zephyr(m))]
        /\ inbox' = [m \in Node |-> IF m # n /\ ~Zephyr(m) /\ pc[m] \in {"ask", "wait", "claimed"}
                                    THEN Append(inbox[m], frame.for) ELSE inbox[m]]
        /\ UNCHANGED <<work, unanswered>>
  /\ UNCHANGED <<pc, addr, err, before, faults, tried, hurried>>

\* Two nodes send their claims of one address at once; both will be sent again.
Collide(m, n) ==
  /\ m # n /\ box[m] # <<>> /\ box[n] # <<>>
  /\ Head(box[m]) = Head(box[n]) /\ Head(box[m]).type = "claim"
  /\ err[m] < MaxErr /\ err[n] < MaxErr
  /\ err' = [err EXCEPT ![m] = @ + 1, ![n] = @ + 1]
  /\ UNCHANGED <<pc, addr, box, used, work, inbox, before, faults, tried, unanswered, hurried>>

AnswerFor(n) == addr[n]

\* addressClaimWorkHandler, or the claimer's thread: claim the address n has by now.
Answer(n) ==
  /\ work[n]
  /\ work' = [work EXCEPT ![n] = FALSE]
  /\ \/ NoFault /\ Queue(n, Claim(AnswerFor(n))) /\ UNCHANGED unanswered
     \/ Fault /\ unanswered' = unanswered \cup WithAddr(addr[n]) /\ UNCHANGED box
  /\ UNCHANGED <<pc, addr, used, inbox, err, before, tried, hurried>>

Step ==
  \/ \E n \in Node :
       \/ Bind(n) \/ Discover(n) \/ ClaimIt(n) \/ Check(n) \/ Listen(n)
       \/ \E a \in Addr : GiveUp(n, a)
       \/ Deliver(n) \/ Answer(n)
  \/ \E m, n \in Node : Collide(m, n)

Next == UNCHANGED setup /\ Step

Free(a) == WithAddr(a) = {}

\* The thread in bind(), the controller and the work queue of a node run, and a random
\* choice made again and again finds a free address.
BindThread(n) == Discover(n) \/ ClaimIt(n) \/ Check(n) \/ Listen(n) \/ \E a \in Addr : GiveUp(n, a)
Fairness ==
  \A n \in Node :
    /\ WF_vars(UNCHANGED setup /\ BindThread(n))
    /\ WF_vars(UNCHANGED setup /\ Deliver(n)) /\ WF_vars(UNCHANGED setup /\ Answer(n))
    /\ SF_vars(UNCHANGED setup /\ \E a \in Addr : Free(a) /\ GiveUp(n, a))

Spec == Init /\ [][Next]_vars /\ Fairness

-----------------------------------------------------------------------------
(* Properties.                                                             *)

\* The variables keep their types.
TypeOK ==
  /\ pc \in [Node -> {"off", "ask", "wait", "claimed", "between", "bound", "failed"}]
  /\ \A n \in Node : (addr[n] = None <=> pc[n] = "off") /\ addr[n] \in Addr \cup {None}
  /\ \A n \in Node : \A i \in DOMAIN box[n] : box[n][i].for \in Addr
  /\ \A n \in Node : \A i \in DOMAIN inbox[n] : inbox[n][i] \in Addr /\ ~Zephyr(n)
  /\ used \in [Node -> BOOLEAN] /\ work \in [Node -> BOOLEAN]
  /\ err \in [Node -> 0..MaxErr] /\ \A n \in Node : before[n] <= err[n]
  /\ faults \in 0..MaxFaults /\ tried \in [Node -> SUBSET Addr]
  /\ unanswered \cup hurried \subseteq Node

\* If answers come within the 500 ms, two nodes own one address only if one of them asked
\* while the other could not hear or answer (between the two filters of bind(), or
\* before the claimer runs), or stopped waiting because of some other claim.
UniqueOrExplained ==
  setup.prompt =>
    \A m, n \in Node : m # n /\ Owns(m) /\ Owns(n) /\ addr[m] = addr[n] =>
                         {m, n} \cap (unanswered \cup hurried) # {}

\* A node gives an address up only if some other node has had it: an alreadyUsed left
\* over from an earlier address counts for nothing (k_event_clear).
GivesUpForAReason ==
  [][\A n \in Node : pc[n] = "wait" /\ pc'[n] = "ask" /\ InUse(n) =>
       \E m \in Node \ {n} : addr[n] \in tried[m]]_vars

\* A claim on the bus is for an address the sender has had, by its last discovery or, from
\* the work queue, at the time it ran; it is never for an address never asked for.
ClaimsWereAsked ==
  \A n \in Node : \A i \in DOMAIN box[n] : box[n][i].for \in tried[n]

\* The filters of one node and the identifiers another one sends with: for each pair of
\* addresses, what passes a filter is what it is for.
Randoms == {0, 1, 255}
DataIds == {0, 1, 254, 255, 256, 65279, 65534, 65535}
Separate == [a \in Addr, b \in Addr |->
  \A frame \in Traffic(a, Addr \ {a}, DataIds, Randoms) :
    \A l \in Listening(b, Addr \ {b}) : Accepts(l.filter, frame.id) <=> Meant(frame, l)]

\* Once two nodes have addresses, a request or response reaches the node it is for and no
\* other, reports, control messages, claims and discoveries the listeners of their kind,
\* whatever the data ids, random elements and numbers that share the bits of addresses.
FramesReachTheirs ==
  \A m, n \in Node : m # n /\ addr[m] # None /\ addr[n] # None => Separate[addr[m], addr[n]]

\* A node that joins a network of bound nodes gets an address.
Joining(n) == setup.prompt /\ setup.starts = {n}
GetsAnAddress == \A n \in Node : (Joining(n) /\ pc[n] = "ask") ~> Owns(n)

\* A node that tries the address of a bound one moves away, unless its discovery was not
\* answered.
TriesTaken(n) == pc[n] = "wait" /\ \E m \in Node \ {n} : pc[m] = "bound" /\ addr[m] = addr[n]
MovesAway ==
  \A n \in Node : (setup.prompt /\ TriesTaken(n)) ~>
                   (pc[n] = "ask" \/ n \in unanswered \cup hurried)
\* Two owners of one address have met a known gap, and no claim is for an address its sender
\* never had, the delayed ones of the work queue included.
AddressesUnique == TypeOK /\ ClaimsWereAsked /\ UniqueOrExplained

\* bind() ends well: an address is given up only for a reason, a taken one is given up, and
\* a node that joins gets one.
AddressesSettle == GivesUpForAReason /\ GetsAnAddress /\ MovesAway
=============================================================================
