---------------------------- MODULE SocketServer ----------------------------
(***************************************************************************)
(* Requests over TCP.  The sockets transport has two threads that share an *)
(* array of slots without a lock: the acceptor puts each new socket into a *)
(* free slot, the handler polls the slots, takes whatever a recv() returns *)
(* for a request, answers it, and frees the slots of sockets closed by the *)
(* other side.  The asio transport has a coroutine for each connection.    *)
(***************************************************************************)
EXTENDS Integers, Sequences, FiniteSets, FiniteSetsExt

CONSTANTS
  Client, None,
  MaxClients,   \* THINGSET_SERVER_MAX_CLIENTS
  Room,         \* bound: the pieces a connection holds that its client has not read
  Setups        \* the systems to look at: records of
                \*   clients - who connects, each once
                \*   asio    - the asio transport?
                \*   calls   - bound: calls of each client
                \*   pieces  - the pieces TCP may cut a message into
                \*   leaves  - what clients may do at any time: close, or stall for good
                \*   stops   - may the server be destroyed?

ASSUME SocketAssumption ==
  /\ MaxClients \in Nat \ {0} /\ Room \in Nat \ {0} /\ IsFiniteSet(Client)
  /\ None \notin Client \cup 1..Cardinality(Client) /\ None # <<>>
  /\ None \notin Seq(Client \X Seq(Nat \X Nat) \X Nat)
  /\ Setups \subseteq [clients : SUBSET Client, asio : BOOLEAN, calls : Nat, pieces : Nat \ {0},
                       leaves : SUBSET {"closed", "stalled"}, stops : BOOLEAN]

VARIABLES
  setup,        \* the system looked at; it never changes
  client,       \* the client side of a connection and the call it is in
  up, down,     \* pieces on their way, received but not read
  reset,        \* connections that the client's side has reset
  failing,      \* of these, the ones whose reset no call has reported yet
  backlog,      \* connections not yet accepted
  file,         \* the sockets open in the server, by file descriptor
  slots,        \* _socketDescriptors: the file descriptor, or None
  ready,        \* the slots whose revents has POLLIN
  acceptor, handler,   \* the threads
  coroutine,    \* of asio, by client: what is left to write, or None
  running,      \* _runAcceptor and _runHandler
  taken, results       \* history: the pieces taken as requests; the results of the calls

vars == <<setup, client, up, down, reset, failing, backlog, file, slots, ready, acceptor, handler,
          coroutine, running, taken, results>>
net == <<up, down, reset, failing>>
server == <<backlog, file, slots, ready, acceptor, handler, coroutine, running>>

Slot == 1..MaxClients
Fd == 1..(Cardinality(Client))

Init ==
  /\ setup \in Setups
  /\ client = [c \in Client |-> [state |-> "new", call |-> 0, sent |-> 0]]
  /\ up = [c \in Client |-> <<>>] /\ down = [c \in Client |-> <<>>] /\ reset = {} /\ failing = {}
  /\ backlog = <<>> /\ file = [f \in Fd |-> None]
  /\ slots = [i \in Slot |-> None] /\ ready = {}
  /\ acceptor = [pc |-> "accept", fd |-> None, i |-> 1]
  /\ handler = [pc |-> "poll", i |-> 1, fd |-> None, tx |-> <<>>]
  /\ coroutine = [c \in Client |-> None] /\ running = TRUE
  /\ taken = [c \in Client |-> <<>>] /\ results = [c \in Client |-> <<>>]

-----------------------------------------------------------------------------
(* The clients.                                                            *)

Request(call) == [k \in 1..setup.pieces |-> <<call, k>>]

\* connect(); the backlog is as long as there are slots.
Connect(c) ==
  /\ c \in setup.clients /\ client[c].state = "new" /\ Len(backlog) < MaxClients /\ running
  /\ client' = [client EXCEPT ![c].state = "idle"]
  /\ backlog' = Append(backlog, c)
  /\ UNCHANGED <<net, file, slots, ready, acceptor, handler, coroutine, running, taken, results>>

\* write: the pieces of a request arrive one by one.
Write(c) ==
  /\ \/ client[c].state = "idle" /\ client[c].call < setup.calls
        /\ client' = [client EXCEPT ![c] = [state |-> IF setup.pieces = 1 THEN "reading" ELSE "writing",
                                            call |-> @.call + 1, sent |-> 1]]
     \/ client[c].state = "writing"
        /\ client' = [client EXCEPT ![c] = [state |-> IF @.sent + 1 = setup.pieces THEN "reading" ELSE "writing",
                                            call |-> @.call, sent |-> @.sent + 1]]
  /\ up' = [up EXCEPT ![c] = Append(@, <<client'[c].call, client'[c].sent>>)]
  /\ UNCHANGED <<down, reset, failing, server, taken, results>>

\* read: one recv() of what has come is the answer.
ReadAnswer(c) ==
  /\ client[c].state = "reading" /\ down[c] # <<>>
  /\ results' = [results EXCEPT ![c] = Append(@, down[c])]
  /\ down' = [down EXCEPT ![c] = <<>>]
  /\ client' = [client EXCEPT ![c].state = "idle"]
  /\ UNCHANGED <<up, reset, failing, server, taken>>

\* Closing with something unread resets the connection.
Close(c) ==
  /\ "closed" \in setup.leaves /\ client[c].state \in {"idle", "writing", "reading", "stalled"}
  /\ client' = [client EXCEPT ![c].state = "closed"]
  /\ LET gone == IF down[c] # <<>> THEN {c} ELSE {} IN
     reset' = reset \cup gone /\ failing' = failing \cup gone
  /\ down' = [down EXCEPT ![c] = <<>>]
  /\ UNCHANGED <<up, server, taken, results>>

\* A client that is stopped or cut off: its connection stays open, but nothing is read.
Stall(c) ==
  /\ "stalled" \in setup.leaves /\ client[c].state \in {"idle", "writing", "reading"}
  /\ client' = [client EXCEPT ![c].state = "stalled"]
  /\ UNCHANGED <<net, server, taken, results>>

-----------------------------------------------------------------------------
(* Sockets of the server.                                                  *)

Closed(c) == client[c].state = "closed"
Readable(c) == up[c] # <<>> \/ Closed(c)

\* accept gives the lowest free descriptor; recv what has arrived, nothing at the end,
\* and once an error when the connection was reset.
LowestFree == Min({f \in Fd : file[f] = None})
Take(c) == up' = [up EXCEPT ![c] = <<>>] /\ taken' = [taken EXCEPT ![c] = @ \o up[c]]
Reset(c) == up' = [up EXCEPT ![c] = <<>>] /\ failing' = failing \ {c}

\* The answer to what was taken for a request: as many pieces as a request.
Answer(c, pieces) == [k \in 1..setup.pieces |-> <<c, pieces, k>>]

\* send, of one piece or all, waits while a client that does not read leaves no room. The
\* first one after a close succeeds, but is answered by a reset, now or later.
SendSome(c, tx, n) ==
  \/ /\ ~Closed(c) /\ Len(down[c]) + n <= Room
     /\ down' = [down EXCEPT ![c] = @ \o SubSeq(tx, 1, n)] /\ UNCHANGED <<reset, failing>>
  \/ /\ Closed(c) /\ c \notin reset
     /\ reset' \in {reset, reset \cup {c}} /\ UNCHANGED <<down, failing>>

\* After a reset send fails: with the reset if that is still to be reported, else with
\* EPIPE, which comes with SIGPIPE where there are signals and send is not told otherwise.
SendFails(c) == c \in reset /\ failing' = failing \ {c} /\ UNCHANGED <<down, reset>>
Signals(c) == c \notin failing

-----------------------------------------------------------------------------
(* The acceptor thread.                                                    *)

Stops == ~running
Killed == handler.pc = "killed"                  \* by SIGPIPE, and the process with it

Accept ==
  /\ ~setup.asio /\ acceptor.pc = "accept" /\ ~Killed
  /\ \/ /\ Stops /\ acceptor' = [acceptor EXCEPT !.pc = "done"]
        /\ UNCHANGED <<backlog, file>>
     \/ /\ running /\ backlog # <<>>
        /\ file' = [file EXCEPT ![LowestFree] = Head(backlog)]
        /\ acceptor' = [pc |-> "assign", fd |-> LowestFree, i |-> 1]
        /\ backlog' = Tail(backlog)
  /\ UNCHANGED <<client, net, slots, ready, handler, coroutine, running, taken, results>>

\* The first free slot; if there is none the socket is left open and forgotten.
Free_Any(i) == TRUE                              \* mutant: a slot in use is taken as well
Free(i) == slots[i] = None
Assign ==
  /\ acceptor.pc = "assign" /\ ~Killed
  /\ \/ /\ Free(acceptor.i)
        /\ slots' = [slots EXCEPT ![acceptor.i] = acceptor.fd]
        /\ acceptor' = [pc |-> "accept", fd |-> None, i |-> 1]
     \/ /\ ~Free(acceptor.i) /\ UNCHANGED slots
        /\ acceptor' = IF acceptor.i = MaxClients THEN [pc |-> "accept", fd |-> None, i |-> 1]
                       ELSE [acceptor EXCEPT !.i = @ + 1]
  /\ UNCHANGED <<client, net, backlog, file, ready, handler, coroutine, running, taken, results>>

-----------------------------------------------------------------------------
(* The handler thread.                                                     *)

Polling == [pc |-> "poll", i |-> 1, fd |-> None, tx |-> <<>>]
LastSlot_Before(i) == i >= MaxClients - 1        \* mutant: the last slot is not looked at
LastSlot(i) == i = MaxClients
NextSlot(h) == IF LastSlot(h.i) THEN Polling ELSE [pc |-> "scan", i |-> h.i + 1, fd |-> None, tx |-> <<>>]

Poll ==
  /\ ~setup.asio /\ handler.pc = "poll"
  /\ \/ Stops /\ handler' = [handler EXCEPT !.pc = "done"] /\ UNCHANGED ready
     \/ /\ ~Stops
        /\ ready' = {i \in Slot : slots[i] # None /\ file[slots[i]] # None /\ Readable(file[slots[i]])}
        /\ ready' # {} /\ handler' = [handler EXCEPT !.pc = "scan"]
  /\ UNCHANGED <<client, net, backlog, file, slots, acceptor, coroutine, running, taken, results>>

\* Whatever one recv() returns is a request.
Recv ==
  /\ handler.pc = "scan"
  /\ LET i == handler.i fd == slots[i] c == file[fd] IN
     \/ i \notin ready /\ handler' = NextSlot(handler) /\ UNCHANGED <<net, taken>>
     \/ /\ i \in ready /\ c \in failing /\ Reset(c)
        /\ handler' = NextSlot(handler) /\ UNCHANGED <<down, reset, taken>>
     \/ /\ i \in ready /\ c \notin failing /\ up[c] = <<>>
        /\ handler' = [handler EXCEPT !.pc = "close", !.fd = fd] /\ UNCHANGED <<net, taken>>
     \/ /\ i \in ready /\ c \notin failing /\ up[c] # <<>> /\ Take(c)
        /\ handler' = [handler EXCEPT !.pc = "send", !.fd = fd, !.tx = Answer(c, up[c])]
        /\ UNCHANGED <<down, reset, failing>>
  /\ UNCHANGED <<client, backlog, file, slots, ready, acceptor, coroutine, running, results>>

\* A closed descriptor can be given to the acceptor before the slot is free.
CloseSocket ==
  /\ handler.pc = "close"
  /\ file' = [file EXCEPT ![handler.fd] = None] /\ handler' = [handler EXCEPT !.pc = "clear"]
  /\ UNCHANGED <<client, net, backlog, slots, ready, acceptor, coroutine, running, taken, results>>

Cleared_Kept(i) == slots                         \* mutant: the slot is not freed
Cleared(i) == [slots EXCEPT ![i] = None]
ClearSlot ==
  /\ handler.pc = "clear"
  /\ slots' = Cleared(handler.i) /\ handler' = NextSlot(handler)
  /\ UNCHANGED <<client, net, backlog, file, ready, acceptor, coroutine, running, taken, results>>

\* The socket an answer is sent to.
SendTo_First == slots[1]                         \* mutant: not the socket it was received from
SendTo == handler.fd
SendAnswer ==
  /\ handler.pc = "send"
  /\ LET c == file[SendTo] IN
     \/ \E n \in 1..Len(handler.tx) :
          /\ SendSome(c, handler.tx, n)
          /\ handler' = IF n = Len(handler.tx) THEN NextSlot(handler)
                        ELSE [handler EXCEPT !.tx = SubSeq(@, n + 1, Len(@))]
     \/ /\ SendFails(c)
        /\ \/ handler' = NextSlot(handler)
           \/ Signals(c) /\ handler' = [handler EXCEPT !.pc = "killed"]
  /\ UNCHANGED <<client, up, backlog, file, slots, ready, acceptor, coroutine, running, taken, results>>

-----------------------------------------------------------------------------
(* The asio transport: a coroutine for each connection, on one thread.     *)

AcceptAsync ==
  /\ setup.asio /\ running /\ backlog # <<>>
  /\ LET c == Head(backlog) IN
     /\ file' = [file EXCEPT ![LowestFree] = c] /\ coroutine' = [coroutine EXCEPT ![c] = <<>>]
  /\ backlog' = Tail(backlog)
  /\ UNCHANGED <<client, net, slots, ready, acceptor, handler, running, taken, results>>

\* An error or the end of the stream ends the coroutine, and that closes its socket.
Gone(c) ==
  /\ coroutine' = [coroutine EXCEPT ![c] = None]
  /\ file' = [f \in Fd |-> IF file[f] = c THEN None ELSE file[f]]

ReadAsync(c) ==
  /\ running /\ coroutine[c] = <<>>
  /\ \/ c \in failing /\ Reset(c) /\ Gone(c) /\ UNCHANGED <<down, reset, taken>>
     \/ c \notin failing /\ up[c] = <<>> /\ Closed(c) /\ Gone(c) /\ UNCHANGED <<net, taken>>
     \/ /\ c \notin failing /\ up[c] # <<>> /\ Take(c)
        /\ coroutine' = [coroutine EXCEPT ![c] = Answer(c, up[c])] /\ UNCHANGED <<down, reset, failing, file>>
  /\ UNCHANGED <<client, backlog, slots, ready, acceptor, handler, running, results>>

WriteAsync(c) ==
  /\ running /\ coroutine[c] # None /\ coroutine[c] # <<>>
  /\ \/ \E n \in 1..Len(coroutine[c]) :
          /\ SendSome(c, coroutine[c], n) /\ UNCHANGED file
          /\ coroutine' = [coroutine EXCEPT ![c] = SubSeq(@, n + 1, Len(@))]
     \/ SendFails(c) /\ Gone(c)
  /\ UNCHANGED <<client, up, backlog, slots, ready, acceptor, handler, running, taken, results>>

-----------------------------------------------------------------------------

\* The destructor, which waits for the threads; a signal stops asio's loop.
Stop ==
  /\ setup.stops /\ running /\ running' = FALSE
  /\ UNCHANGED <<client, net, backlog, file, slots, ready, acceptor, handler, coroutine, taken, results>>

Acceptor == Accept \/ Assign
Handler == Poll \/ Recv \/ CloseSocket \/ ClearSlot \/ SendAnswer
Async == AcceptAsync \/ \E c \in Client : ReadAsync(c) \/ WriteAsync(c)
Calls(c) == Connect(c) \/ Write(c) \/ ReadAnswer(c)

Next ==
  /\ UNCHANGED setup
  /\ Acceptor \/ Handler \/ Async \/ Stop \/ \E c \in Client : Calls(c) \/ Close(c) \/ Stall(c)

\* The threads are scheduled, the coroutines as well, and clients that have begun go on.
Spec ==
  /\ Init /\ [][Next]_vars
  /\ WF_vars(Acceptor /\ UNCHANGED setup) /\ WF_vars(Handler /\ UNCHANGED setup)
  /\ WF_vars(AcceptAsync /\ UNCHANGED setup)
  /\ \A c \in Client : /\ WF_vars(Calls(c) /\ UNCHANGED setup)
                        /\ WF_vars((ReadAsync(c) \/ WriteAsync(c)) /\ UNCHANGED setup)

-----------------------------------------------------------------------------
(* Properties.                                                             *)

\* The variables keep their types.
TypeOK ==
  /\ \A i \in Slot : slots[i] \in Fd \cup {None}
  /\ \A f \in Fd : file[f] \in Client \cup {None}
  /\ ready \subseteq Slot /\ handler.i \in Slot /\ acceptor.i \in Slot
  /\ handler.pc \in {"poll", "scan", "close", "clear", "send", "done", "killed"}
  /\ acceptor.pc \in {"accept", "assign", "done"}

\* The slots the two threads share: no open socket is in two of them and each names an open
\* socket, but for the one whose socket the handler has just closed, whose descriptor may
\* already be another connection's (the acceptor writes only free slots, the handler frees
\* only those it read). While there are as many slots as clients, no open socket is forgotten.
Clearing(i) == handler.pc = "clear" /\ handler.i = i
SlotsSound ==
  /\ \A f \in Fd : file[f] # None /\ ~setup.asio /\ Cardinality(setup.clients) <= MaxClients =>
       acceptor.fd = f \/ \E i \in Slot : slots[i] = f
  /\ \A i \in Slot : slots[i] # None /\ ~Clearing(i) =>
       /\ file[slots[i]] # None
       /\ \A j \in Slot \ {i} : slots[j] = slots[i] => Clearing(j)
       /\ (acceptor.pc = "assign" => acceptor.fd # slots[i])

\* Every client is answered for what it sent and nothing else: the pieces of its requests
\* are taken in their order, none twice, none left out and none before it is sent, and no
\* answer goes to another client.
After(x) == IF x[2] < setup.pieces THEN <<x[1], x[2] + 1>> ELSE <<x[1] + 1, 1>>
Consecutive(s) == \A j \in DOMAIN s : s[j] = IF j = 1 THEN <<1, 1>> ELSE After(s[j - 1])
WasSent(c, x) == x[1] < client[c].call \/ (x[1] = client[c].call /\ x[2] <= client[c].sent)
AnswersGoHome ==
  \A c \in Client :
    /\ Consecutive(taken[c]) /\ \A j \in DOMAIN taken[c] : WasSent(c, taken[c][j])
    /\ \A k \in DOMAIN results[c] : \A j \in DOMAIN results[c][k] : results[c][k][j][1] = c
    /\ \A j \in DOMAIN down[c] : down[c][j][1] = c

\* When messages arrive in one piece, each call returns the answer to its own request.
AnswersFit ==
  setup.pieces = 1 =>
    \A c \in Client : \A k \in DOMAIN results[c] : results[c][k] = Answer(c, Request(k))

\* What holds up the one handler: its send waits for a client that does not read.
HeldUp ==
  /\ handler.pc = "send"
  /\ LET c == file[handler.fd] IN client[c].state \in {"idle", "stalled"} /\ Len(down[c]) = Room

\* As long as no more clients connect than there are slots, a client that stays is answered,
\* unless the handler is held up by another client or killed by the signal of a late send;
\* asio has no such limit: there each client is answered, whatever the others do.
EveryCallAnswered ==
  \A c \in Client :
    client[c].state = "reading" /\ (setup.asio \/ Cardinality(setup.clients) <= MaxClients)
      ~> client[c].state # "reading" \/ ~running \/ (~setup.asio /\ (HeldUp \/ Killed))

\* The destructor returns, with the same two exceptions: both threads see the flags and end.
ShutdownEnds ==
  ~running /\ ~setup.asio ~> (acceptor.pc = "done" /\ handler.pc = "done") \/ HeldUp \/ Killed

\* The slots at every interleaving of the two threads, and the threads' own variables.
ServerSound == TypeOK /\ SlotsSound

\* Answers reach the client that asked, for the request it made.
AnswersSound == AnswersGoHome /\ AnswersFit

\* Nobody waits for ever, neither a client for its answer nor the destructor for the threads,
\* but for a client that does not read what the handler sends to it.
EverythingEnds == EveryCallAnswered /\ ShutdownEnds
=============================================================================
