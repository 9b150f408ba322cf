------------------------- MODULE CanRequestResponse -------------------------
(***************************************************************************)
(* Requests and responses over CAN on Zephyr: ThingSetClient and its       *)
(* transport at each client, the request/response context of the server.   *)
(* isotp_fast_send returns at once and reads the caller's buffer while the *)
(* frames go out, so a long message has the contents its buffer has when   *)
(* each part is sent.  Messages carry no number: a client takes what is in *)
(* its queue for the answer to what it last asked.                         *)
(***************************************************************************)
EXTENDS Integers, Sequences, FiniteSets

CONSTANTS
  Client, Server, None,
  Setups,                     \* the systems to look at: records of
                              \*   callers - the clients that make requests
                              \*   long    - do messages take several frames?
                              \*   prompt  - is every answer that is not lost there within a second?
  MaxCalls,                   \* bound: calls of one client
  MaxLost                     \* bound: messages lost on the bus

ASSUME SystemAssumption ==
  /\ IsFiniteSet(Client) /\ Server \notin Client /\ None \notin Client
  /\ Setups \subseteq [callers : SUBSET Client, long : BOOLEAN, prompt : BOOLEAN]
  /\ MaxCalls \in Nat /\ MaxLost \in Nat

VARIABLES
  setup,      \* the system looked at; it never changes
  calls,      \* calls each client has made
  waiting,    \* clients inside read()
  txBuffer,   \* the transmit buffer of each node
  sending,    \* the ISO-TP message each node is sending to each other one
  received,   \* complete messages the work queue of a node has to dispatch
  queue,      \* _responseQueue
  putting,    \* the response a client's work queue waits to put into the queue
  answer,     \* what the last call returned, and to which call
  lost        \* messages lost

vars == <<setup, calls, waiting, txBuffer, sending, received, queue, putting, answer, lost>>

Nodes == Client \cup {Server}
Links == (Client \X {Server}) \cup ({Server} \X Client)

\* What a message says: the request or the answer of a client's k-th call, one of the
\* two error statuses, or parts of different messages.
Req(c, k) == [kind |-> "request", who |-> c, call |-> k]
Resp(q)   == [q EXCEPT !.kind = "response"]
Status(s) == [kind |-> s, who |-> None, call |-> 0]
ServerError == Status("internalServerError")
BadRequest  == Status("badRequest")
Garbled     == Status("garbled")
Content == [kind : {"request", "response"}, who : Client, call : 1..MaxCalls]
           \cup {ServerError, BadRequest, Garbled, Status("none")}

\* A message under way: its parts not yet sent, and those that were.
Transfer(from, left, parts) == [left |-> left, parts |-> parts, from |-> from]
Idle == Transfer(None, 0, <<>>)

Init ==
  /\ setup \in Setups
  /\ calls = [c \in Client |-> 0] /\ waiting = {}
  /\ txBuffer = [n \in Nodes |-> Status("none")]
  /\ sending = [p \in Links |-> Idle]
  /\ received = [n \in Nodes |-> <<>>]
  /\ queue = [c \in Client |-> <<>>] /\ putting = [c \in Client |-> None]
  /\ answer = [c \in Client |-> None] /\ lost = 0

\* isotp_fast_send from the buffer that holds x: a single frame is copied at once; of a
\* longer message only the first frame.  A message still being sent is given up.
Sent_Later(s, from, to, x, long) ==          \* mutant: even a single frame is sent later
  [s EXCEPT ![<<from, to>>] = Transfer(from, 1, <<>>)]
Sent(s, from, to, x, long) ==
  [s EXCEPT ![<<from, to>>] = Transfer(from, IF long THEN 1 ELSE 0, <<x>>)]

-----------------------------------------------------------------------------
(* The bus, and the work queue sending the rest of a message.              *)

NextPart(p) ==
  /\ sending[p].left > 0
  /\ p[1] \in Client => putting[p[1]] = None
  /\ sending' = [sending EXCEPT ![p] = Transfer(p[1], 0, Append(@.parts, txBuffer[p[1]]))]
  /\ UNCHANGED <<calls, waiting, txBuffer, received, queue, putting, answer, lost>>

WholeOf(parts) == IF \A i \in DOMAIN parts : parts[i] = parts[1] THEN parts[1] ELSE Garbled

\* The receiver has all parts and queues the message for its work queue.
Arrives(p) ==
  /\ sending[p] # Idle /\ sending[p].left = 0
  /\ sending' = [sending EXCEPT ![p] = Idle]
  /\ received' = [received EXCEPT ![p[2]] =
                    Append(@, [from |-> p[1], what |-> WholeOf(sending[p].parts)])]
  /\ UNCHANGED <<calls, waiting, txBuffer, queue, putting, answer, lost>>

Lose(p) ==
  /\ sending[p] # Idle /\ lost < MaxLost
  /\ sending' = [sending EXCEPT ![p] = Idle] /\ lost' = lost + 1
  /\ UNCHANGED <<calls, waiting, txBuffer, received, queue, putting, answer>>

-----------------------------------------------------------------------------
(* The server: onRequestResponseReceived on its work queue.                *)

\* requestCallback: what is not a request, a status for instance, is a bad request.
Reply(q) == IF q.kind = "request" THEN Resp(q) ELSE BadRequest

ServerReceives ==
  /\ received[Server] # <<>>
  /\ LET msg == Head(received[Server]) reply == Reply(msg.what) IN
     /\ txBuffer' = [txBuffer EXCEPT ![Server] = reply]
     /\ sending' = Sent(sending, Server, msg.from, reply, setup.long /\ reply.kind = "response")
  /\ received' = [received EXCEPT ![Server] = Tail(@)]
  /\ UNCHANGED <<calls, waiting, queue, putting, answer, lost>>

-----------------------------------------------------------------------------
(* A client.                                                               *)

\* The work queue dispatches a response: k_msgq_put waits while the queue is full.
ClientReceives(c) ==
  /\ received[c] # <<>> /\ putting[c] = None
  /\ received' = [received EXCEPT ![c] = Tail(@)]
  /\ putting' = [putting EXCEPT ![c] = Head(received[c]).what]
  /\ UNCHANGED <<calls, waiting, txBuffer, sending, queue, answer, lost>>

QueueRoom(c) == queue[c] = <<>>

Put(c) ==
  /\ putting[c] # None /\ QueueRoom(c)
  /\ queue' = [queue EXCEPT ![c] = <<putting[c]>>]
  /\ putting' = [putting EXCEPT ![c] = None]
  /\ UNCHANGED <<calls, waiting, txBuffer, sending, received, answer, lost>>

PutFails_Again(c) ==                         \* mutant: the response is kept for another try
  /\ putting[c] # None /\ ~QueueRoom(c)
  /\ c \notin waiting
  /\ sending' = Sent(sending, c, Server, ServerError, FALSE)
  /\ UNCHANGED <<calls, waiting, txBuffer, received, queue, putting, answer, lost>>

\* 100 ms later: the negative result is answered, to the server, with an error.
PutFails(c) ==
  /\ putting[c] # None /\ ~QueueRoom(c)
  /\ c \notin waiting
  /\ putting' = [putting EXCEPT ![c] = None]
  /\ sending' = Sent(sending, c, Server, ServerError, FALSE)
  /\ UNCHANGED <<calls, waiting, txBuffer, received, queue, answer, lost>>

\* doRequestCore: encode into the buffer, send, and wait in read().
Call(c) ==
  /\ c \in setup.callers \ waiting /\ calls[c] < MaxCalls
  /\ calls' = [calls EXCEPT ![c] = @ + 1] /\ waiting' = waiting \cup {c}
  /\ LET q == Req(c, calls'[c]) IN
     /\ txBuffer' = [txBuffer EXCEPT ![c] = q]
     /\ sending' = Sent(sending, c, Server, q, setup.long)
  /\ answer' = [answer EXCEPT ![c] = None]
  /\ UNCHANGED <<received, queue, putting, lost>>

Read_Peek(c) ==                              \* mutant: the answer is left in the queue
  /\ c \in waiting /\ queue[c] # <<>>
  /\ answer' = [answer EXCEPT ![c] = Head(queue[c])] /\ waiting' = waiting \ {c}
  /\ UNCHANGED <<calls, txBuffer, sending, received, queue, putting, lost>>

\* k_msgq_get succeeds.
Read(c) ==
  /\ c \in waiting /\ queue[c] # <<>>
  /\ answer' = [answer EXCEPT ![c] = Head(queue[c])]
  /\ queue' = [queue EXCEPT ![c] = Tail(@)] /\ waiting' = waiting \ {c}
  /\ UNCHANGED <<calls, txBuffer, sending, received, putting, lost>>

\* Is anything on its way that could still answer c?
Underway(c) ==
  \/ sending[<<c, Server>>] # Idle \/ sending[<<Server, c>>] # Idle
  \/ received[c] # <<>> \/ putting[c] # None
  \/ \E i \in DOMAIN received[Server] : received[Server][i].from = c

TimesOut_Never(c) == FALSE                   \* mutant: K_FOREVER

\* A second has passed; nothing tells the server or the queue.
TimesOut(c) ==
  /\ c \in waiting /\ queue[c] = <<>>
  /\ setup.prompt => ~Underway(c)
  /\ waiting' = waiting \ {c}
  /\ UNCHANGED <<calls, txBuffer, sending, received, queue, putting, answer, lost>>

Step ==
  \/ \E p \in Links : NextPart(p) \/ Arrives(p) \/ Lose(p)
  \/ ServerReceives
  \/ \E c \in Client : \/ ClientReceives(c) \/ Put(c) \/ PutFails(c)
                       \/ Call(c) \/ Read(c) \/ TimesOut(c)

Next == UNCHANGED setup /\ Step

\* Work queues run, frames arrive, and time passes.
Fairness ==
  /\ \A p \in Links : WF_vars(UNCHANGED setup /\ NextPart(p)) /\ WF_vars(UNCHANGED setup /\ Arrives(p))
  /\ WF_vars(UNCHANGED setup /\ ServerReceives)
  /\ \A c \in Client : /\ WF_vars(UNCHANGED setup /\ ClientReceives(c)) /\ WF_vars(UNCHANGED setup /\ Put(c))
                       /\ WF_vars(UNCHANGED setup /\ PutFails(c))
                       /\ WF_vars(UNCHANGED setup /\ Read(c)) /\ WF_vars(UNCHANGED setup /\ TimesOut(c))

Spec == Init /\ [][Next]_vars /\ Fairness

-----------------------------------------------------------------------------
(* Properties.                                                             *)

\* The variables keep their types.
TypeOK ==
  /\ setup \in Setups
  /\ calls \in [Client -> 0..MaxCalls] /\ waiting \subseteq Client
  /\ txBuffer \in [Nodes -> Content]
  /\ \A p \in Links : /\ sending[p].left \in 0..1
                               /\ \A i \in DOMAIN sending[p].parts : sending[p].parts[i] \in Content
  /\ \A n \in Nodes : \A i \in DOMAIN received[n] : received[n][i].what \in Content
  /\ \A c \in Client : Len(queue[c]) <= 1 /\ {putting[c], answer[c]} \subseteq Content \cup {None}
  /\ lost \in 0..MaxLost

\* With prompt answers, a call that returns an answer returns the answer to what was
\* asked in this call, although doRequestCore takes the first message it reads for it:
\* for any number of clients if messages are short, for one client if they are long
\* (with two, onRequestResponseReceived encodes the next response into the buffer that
\* the last one is still sent from).
AnswersFit ==
  setup.prompt /\ (setup.long => Cardinality(setup.callers) = 1) =>
    \A c \in Client : answer[c] # None => answer[c] = Resp(Req(c, calls[c]))

\* However late answers come and whatever is lost, a client that reads short messages
\* is never given the answer to another client's request, nor to one it has not made.
OwnAnswersOnly ==
  ~setup.long => \A c \in Client : answer[c] # None /\ answer[c].kind = "response" =>
                                     answer[c].who = c /\ answer[c].call <= calls[c]

\* No answer serves two calls: what a call returned is not there again for the next one
\* (k_msgq_get removes it, a response is put once, a request is answered once).
Pending(c) == {queue[c][i] : i \in DOMAIN queue[c]} \cup {putting[c]}
              \cup {received[c][i].what : i \in DOMAIN received[c]}
NotUsedTwice ==
  \A c \in Client : answer[c] # None /\ answer[c].kind = "response" => answer[c] \notin Pending(c)

\* Each message between a client and the server, an error that answers an error or an answer
\* nobody reads included, takes the place of an earlier one: only calls add to them, however
\* often a response finds the queue full (k_msgq_put waits 100 ms and gives up).
One(b) == IF b THEN 1 ELSE 0
AskedBy(c) == Cardinality({i \in DOMAIN received[Server] : received[Server][i].from = c})
MessagesOf(c) == One(sending[<<c, Server>>] # Idle) + AskedBy(c) + One(sending[<<Server, c>>] # Idle)
               + Len(received[c]) + One(putting[c] # None) + Len(queue[c])
NothingMultiplies == \A c \in Client : MessagesOf(c) <= calls[c]

\* Every call returns, with an answer or by its timeout.
EveryCallReturns == \A c \in Client : c \in waiting ~> c \notin waiting

\* The errors by which a client and the server answer each other's errors do not go round
\* for ever, unless an answer that came too late for its call fills the queue and nobody
\* calls any more; if answers are prompt, never.
Silent(c) == sending[<<c, Server>>] = Idle /\ sending[<<Server, c>>] = Idle
FallsSilent == \A c \in Client : <>[](Silent(c) \/ (~setup.prompt /\ queue[c] # <<>>))
\* Both together: callers are not kept waiting, and the bus is not kept busy.
CallsEnd == EveryCallReturns /\ FallsSilent
=============================================================================
