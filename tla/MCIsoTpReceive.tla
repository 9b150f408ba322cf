--------------------------- MODULE MCIsoTpReceive ---------------------------
(***************************************************************************)
(* The receiver in three environments; the first state chooses one.  The   *)
(* constants of the .cfg are those of the harsh one: no block size, a pool *)
(* too small for a message, timers at any moment, can_send fails once, and *)
(* the owner unbinds, interrupted anywhere.                                *)
(***************************************************************************)
EXTENDS IsoTpReceive

CONSTANTS m1, m2, m3, s1, s2

VARIABLE env

\* A message of two blocks (a first frame and three consecutive frames), a
\* single-frame message, and a message of two frames.
CfsOf(M) == [m \in M |-> CASE m = m1 -> 3 [] m = m2 -> 0 [] m = m3 -> 1]
MCCfs == CfsOf({m1, m3})

\* Enough buffers; the work queue is quick and senders wait for flow control.
Calm == INSTANCE IsoTpReceive WITH
  Msg <- {m1, m2}, Cfs <- CfsOf({m1, m2}), Src <- {s1, s2}, RBs <- 2, PoolSize <- 5,
  FaultKinds <- {}, MaxFaults <- 0, LateTimers <- FALSE, RecvPreempted <- FALSE,
  EagerSender <- FALSE, RMayUnbind <- FALSE, MaxFcQueued <- 3

\* Interrupts come while the work queue is inside the state machine; the bus fails twice.
Preempted == INSTANCE IsoTpReceive WITH
  Msg <- {m1, m2}, Cfs <- CfsOf({m1, m2}), Src <- {s1}, RBs <- 2, PoolSize <- 5,
  FaultKinds <- {"txError"}, MaxFaults <- 2, LateTimers <- FALSE, RecvPreempted <- TRUE,
  EagerSender <- FALSE, RMayUnbind <- FALSE, MaxFcQueued <- 3

vars == <<env, allRecvVars>>

Init == \/ env = "calm" /\ Calm!RecvStart
        \/ env = "preempted" /\ Preempted!RecvStart
        \/ env = "harsh" /\ RecvStart

Next == \/ env = "calm" /\ Calm!RecvNext /\ UNCHANGED env
        \/ env = "preempted" /\ Preempted!RecvNext /\ UNCHANGED env
        \/ env = "harsh" /\ RecvNext /\ UNCHANGED env

Spec == Init /\ [][Next]_vars /\ (env = "calm" => Calm!RecvFairness)

\* A reception that has begun ends, as armed timers expire (receive_timeout_handler).
ReceptionsEnd == env = "calm" => Calm!EveryReceptionEnds
\* A context is freed only while pending_cb is zero (free_recv_ctx).
FreedUnreferenced == [][env = "preempted" => Preempted!RFreesOnlyIdle]_vars
\* The contexts and buffers of the receiver are accounted for, each part in the environment
\* that permits it: no callback, timer or work item follows a pointer to a freed context,
\* free_recv_ctx leaves nothing behind that points to a freed context, and a listed context
\* always has something that will run its state machine again; and as long as memory is valid,
\* in the harsh environment too, no buffer of isotp_rx_pool is lost or released twice and the
\* uint8_t counters keep their range.
ContextsSound ==
  /\ env = "calm" => Calm!MemorySafe /\ Calm!PoolConserved
  /\ env = "preempted" => /\ Preempted!MemorySafe /\ Preempted!RecvTypeOK /\ Preempted!PoolConserved
                          /\ Preempted!NothingPointsToFreed /\ Preempted!RNeverForgotten
  /\ env = "harsh" /\ MemorySafe => RecvTypeOK /\ PoolConserved
=============================================================================
