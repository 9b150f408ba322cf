---------------------------- MODULE IsoTpReceive ----------------------------
(***************************************************************************)
(* The receiving half of isotp_fast.c on one bound context, in its default *)
(* configuration (whole messages are dispatched; no receive queue): the    *)
(* slab of receive contexts, the pool of network buffers, the interrupt    *)
(* handlers, the receive state machine on the system work queue, and the   *)
(* receive side of isotp_fast_unbind.                                      *)
(***************************************************************************)
EXTENDS IsoTpCommon, FiniteSetsExt

CONSTANTS
  RecvBlock,    \* blocks of isotp_recv_ctx_slab
  Src,          \* addresses of the senders
  PoolSize,     \* CONFIG_ISOTP_FAST_RX_MAX_PACKET_COUNT buffers in isotp_rx_pool
  RBs,          \* block size of ctx->opts, announced in flow control
  RWftMax,      \* CONFIG_ISOTP_WFTMAX
  RecvPreempted, \* may frames of a context arrive or be transmitted while the
                \* work queue thread is inside receive_state_machine for it?
  EagerSender,  \* may a sender go on before it has the flow control it waits for?
  RMayUnbind,   \* may the application unbind the context?
  MaxDelivered, \* bound: messages passed to recv_callback
  MaxFcQueued   \* bound: flow control frames waiting in the driver

ASSUME ReceiveAssumption ==
  /\ NoBlock \notin RecvBlock /\ IsFiniteSet(RecvBlock)
  /\ PoolSize \in Nat \ {0}
  /\ RBs \in 0..255
  /\ RWftMax \in 1..255
  /\ RecvPreempted \in BOOLEAN /\ EagerSender \in BOOLEAN
  /\ RMayUnbind \in BOOLEAN
  /\ MaxDelivered \in Nat /\ MaxFcQueued \in Nat

VARIABLES
  rctx,         \* the contents of each slab block
  rslab,        \* blocks on the slab's free list
  pool,         \* free network buffers
  rwork,        \* blocks whose work item is queued on the system work queue
  rrun,         \* where the work queue thread is in receive_state_machine
  fcq,          \* flow control frames accepted by can_send, not yet transmitted
  delivered,    \* messages passed to recv_callback
  rbound,       \* is the RX filter installed?
  runb          \* where the application thread is in isotp_fast_unbind

recvVars == <<rctx, rslab, pool, rwork, rrun, fcq, delivered, rbound, runb>>

RxState == {"WAIT_FF_SF", "PROCESS_SF", "PROCESS_FF", "TRY_ALLOC", "SEND_FC",
            "WAIT_CF", "SEND_WAIT", "ERR", "RECYCLE", "UNBOUND"}

Chunk == (Msg \cup {NoMsg}) \X Nat

RecvCtx == [state : RxState, src : Src, rem : Nat, sn : 0..(SnMod - 1),
            bs : 0..255, wft : 0..255, error : {"none", "overflow", "other"},
            pending : Int, timer : BOOLEAN, total : Nat,
            data : Seq(Chunk),                     \* what the buffers hold
            bufs : Nat,                            \* network buffers in the chain
            home : {"ctx", "orphanage"}, list : {"none", "ctx", "orphanage"}]

FcFrame == [fs : {"CTS", "WAIT", "OVFLW"}, dst : Src, blk : RecvBlock]

NoRRun == [pc |-> "idle", blk |-> NoBlock]

RecvTypeOK ==
  /\ rctx \in [RecvBlock -> RecvCtx]
  /\ rslab \subseteq RecvBlock
  /\ pool \in 0..PoolSize
  /\ rwork \subseteq RecvBlock
  /\ rrun \in [pc : {"idle", "ctsSent", "waitSent", "overflowSent", "dispatch"},
               blk : RecvBlock \cup {NoBlock}]
  /\ fcq \in Seq(FcFrame)
  /\ delivered \in Seq([src : Src, total : Nat, data : Seq(Chunk)])
  /\ rbound \in BOOLEAN
  /\ runb \in [pc : {"off", "head", "next", "cancel", "check", "again", "free", "orphan", "done"},
               blk : RecvBlock \cup {NoBlock}, nxt : RecvBlock \cup {NoBlock}]

RecvInit ==
  /\ \E s \in Src :
       rctx = [b \in RecvBlock |->
                 [state |-> "UNBOUND", src |-> s, rem |-> 0, sn |-> 0, bs |-> 0,
                  wft |-> 0, error |-> "none", pending |-> 0, timer |-> FALSE,
                  total |-> 0, data |-> <<>>, bufs |-> 0,
                  home |-> "ctx", list |-> "none"]]
  /\ rslab = RecvBlock
  /\ pool = PoolSize
  /\ rwork = {}
  /\ rrun = NoRRun
  /\ fcq = <<>>
  /\ delivered = <<>>
  /\ rbound = TRUE
  /\ runb = [pc |-> "off", blk |-> NoBlock, nxt |-> NoBlock]

-----------------------------------------------------------------------------
(* Helpers on contexts.                                                    *)

RFound(s) == {b \in RecvBlock : rctx[b].list = "ctx" /\ rctx[b].src = s}

\* The context get_recv_ctx sets up in block b for sender s.
NewRecvCtx(b, s) ==
  [rctx[b] EXCEPT !.state = "WAIT_FF_SF", !.src = s, !.error = "none",
                  !.pending = 0, !.timer = FALSE, !.data = <<>>, !.bufs = 1,
                  !.home = "ctx", !.list = "ctx"]

\* Mutant of RFreed: the timer is left running.
RFreed_TimerRuns(c) == [c EXCEPT !.bufs = 0, !.data = <<>>,
                                 !.list = IF c.list = c.home THEN "none" ELSE c.list]

\* free_recv_ctx, on context value c: its buffers go back to the pool.
RFreed(c) == [c EXCEPT !.timer = FALSE, !.bufs = 0, !.data = <<>>,
                       !.list = IF c.list = c.home THEN "none" ELSE c.list]

RFree_HeadOnly(b, c) ==            \* mutant: only the first buffer is released
  /\ rctx' = [rctx EXCEPT ![b] = RFreed(c)]
  /\ pool' = pool + 1
  /\ rslab' = rslab \cup {b}

RFree(b, c) ==
  /\ rctx' = [rctx EXCEPT ![b] = RFreed(c)]
  /\ pool' = pool + c.bufs
  /\ rslab' = rslab \cup {b}

RFramesOf(b) == {i \in DOMAIN fcq : fcq[i].blk = b}

\* A step that goes through a pointer to block b.
RTouch(b) == IF b \in rslab THEN Corrupt ELSE Safe

-----------------------------------------------------------------------------
(* Interrupt handlers.                                                     *)

\* process_ff_sf: what a fresh context makes of frame f.  A single frame is
\* complete; a first frame announces f.len frames, itself included.
ProcessFfSf(c, f) ==
  [c EXCEPT !.state = IF f.kind = "SF" THEN "PROCESS_SF" ELSE "PROCESS_FF",
            !.rem = f.len - 1, !.total = f.len, !.sn = 1 % SnMod,
            !.data = Append(@, <<f.msg, f.idx>>)]

Expected_Any(c, f) == TRUE         \* mutant: sequence numbers are not compared
Expected(c, f) == f.sn = c.sn

Complete_Early(c) == c.rem <= 1    \* mutant: off by one
Complete(c) == c.rem = 0

\* process_cf: what a context that waits for a consecutive frame makes of f.
ProcessCf(c, f) ==
  IF f.kind # "CF"
  THEN [c EXCEPT !.state = "ERR", !.error = "other"]
  ELSE LET next == [c EXCEPT !.timer = TRUE, !.sn = (@ + 1) % SnMod] IN
       IF ~Expected(c, f)
       THEN [next EXCEPT !.state = "ERR", !.error = "other"]
       ELSE LET got == [next EXCEPT !.rem = IF @ > 0 THEN @ - 1 ELSE 0,
                                    !.data = Append(@, <<f.msg, f.idx>>)] IN
            CASE Complete(got)             -> [got EXCEPT !.state = "RECYCLE"]
              [] ~Complete(got) /\ RBs = 0  -> got
              [] ~Complete(got) /\ RBs > 0  ->
                   IF Byte(c.bs - 1) = 0 THEN [got EXCEPT !.bs = RBs, !.state = "TRY_ALLOC"]
                                         ELSE [got EXCEPT !.bs = Byte(@ - 1)]

\* receive_can_rx for an existing context: a buffer is taken for every frame; when
\* there is none the context is freed on the spot.
RxExisting(b, f) ==
  LET c == [rctx[b] EXCEPT !.bufs = @ + 1]
      after == IF c.state = "WAIT_CF" THEN ProcessCf(c, f)
               ELSE IF c.state = "WAIT_FF_SF" THEN ProcessFfSf(c, f) ELSE c IN
  \/ /\ pool = 0
     /\ RFree(b, rctx[b])
     /\ UNCHANGED rwork
  \/ /\ pool > 0
     /\ pool' = pool - 1
     /\ rctx' = [rctx EXCEPT ![b] = after]
     /\ rwork' = IF c.state = "WAIT_CF" /\ after.state = "WAIT_CF" THEN rwork
                 ELSE rwork \cup {b}
     /\ UNCHANGED rslab

\* receive_can_rx for a sender without a context: only a first or single frame
\* creates one, if a block and a buffer are left.
RxNew(s, f) ==
  /\ f.kind \in {"FF", "SF"}
  /\ pool > 0
  /\ \E b \in rslab :
       /\ rctx' = [rctx EXCEPT ![b] = ProcessFfSf(NewRecvCtx(b, s), f)]
       /\ rslab' = rslab \ {b}
       /\ pool' = pool - 1
       /\ rwork' = rwork \cup {b}
       /\ IF b \in rwork THEN Corrupt ELSE Safe   \* k_work_init on a queued item

RxIgnored == UNCHANGED <<rctx, rslab, pool, rwork>>

\* can_rx_callback: data frame f arrives from sender s.
FrameArrives(s, f) ==
  /\ rbound
  /\ RecvPreempted \/ rrun.blk \notin RFound(s)
  /\ \/ \E b \in RFound(s) : RxExisting(b, f) /\ RTouch(b)
     \/ RFound(s) = {} /\ RxNew(s, f)
     \/ /\ RFound(s) = {} /\ (f.kind \notin {"FF", "SF"} \/ pool = 0 \/ rslab = {})
        /\ RxIgnored /\ Safe
  /\ UNCHANGED <<rrun, fcq, delivered, rbound, runb>>

\* The context once its flow control frame is finished.
FcAnswered_Leaks(c, ok) ==         \* mutant: pending_cb is not decremented
  IF ok THEN c ELSE [c EXCEPT !.state = "ERR", !.error = "other"]
FcAnswered(c, ok) ==
  IF ok THEN [c EXCEPT !.pending = @ - 1]
        ELSE [c EXCEPT !.pending = @ - 1, !.state = "ERR", !.error = "other"]

\* receive_can_tx: the flow control frame at the head of the queue is finished.
FcDone(ok) ==
  /\ fcq # <<>>
  /\ LET b == Head(fcq).blk IN
     /\ RecvPreempted \/ rrun.blk # b
     /\ rctx' = [rctx EXCEPT ![b] = FcAnswered(@, ok)]
     /\ rwork' = IF ok THEN rwork ELSE rwork \cup {b}
     /\ RTouch(b)
  /\ fcq' = Tail(fcq)
  /\ UNCHANGED <<rslab, pool, rrun, delivered, rbound, runb>>

RecvQuiet(b) == RFramesOf(b) = {} /\ b \notin rwork /\ rrun.blk # b

\* receive_timeout_handler: a consecutive frame is overdue, or it is time to ask
\* the sender to wait.
RecvTimeout(b) ==
  /\ rctx[b].timer
  /\ LateTimers \/ RecvQuiet(b)
  /\ rctx' = [rctx EXCEPT ![b] =
       [(CASE @.state = "WAIT_CF"   -> [@ EXCEPT !.state = "ERR", !.error = "other"]
           [] @.state = "TRY_ALLOC" -> [@ EXCEPT !.state = "SEND_WAIT"]
           [] OTHER                 -> @) EXCEPT !.timer = FALSE]]
  /\ rwork' = rwork \cup {b}
  /\ RTouch(b) /\ NoFault
  /\ UNCHANGED <<rslab, pool, rrun, fcq, delivered, rbound, runb>>

-----------------------------------------------------------------------------
(* The system work queue: receive_work_handler.                            *)

RRunning(pc, b) == [pc |-> pc, blk |-> b]

\* receive_send_fc on context value c.  When can_send fails the state machine is
\* entered again in the error state and frees the context; the caller then goes on
\* to use it.
SendFc(b, c, fs, pc) ==
  \/ /\ fcq' = Append(fcq, [fs |-> fs, dst |-> c.src, blk |-> b])
     /\ rctx' = [rctx EXCEPT ![b] = [c EXCEPT !.pending = @ + 1]]
     /\ rrun' = RRunning(pc, b)
     /\ NoFault /\ RTouch(b)
     /\ UNCHANGED <<rslab, pool>>
  \/ /\ Fault("sendFails")
     /\ LET gone == RFreed([c EXCEPT !.error = "other", !.state = "UNBOUND"]) IN
        rctx' = [rctx EXCEPT ![b] =
                   CASE fs = "CTS"   -> [gone EXCEPT !.timer = TRUE, !.state = "WAIT_CF"]
                     [] fs = "WAIT"  -> [gone EXCEPT !.timer = TRUE, !.state = "TRY_ALLOC"]
                     [] fs = "OVFLW" -> gone]
     /\ pool' = pool + c.bufs
     /\ rslab' = rslab \cup {b}
     /\ rrun' = NoRRun
     /\ Corrupt
     /\ UNCHANGED fcq

\* TRY_ALLOC and SEND_FC: ask the sender for the next block.
SendCts(b, c) == SendFc(b, [c EXCEPT !.timer = FALSE, !.state = "SEND_FC"], "CTS", "ctsSent")

\* ERR: stop the timer, tell the sender if the message is too long, free.
RecvError(b, c) ==
  IF c.error = "overflow"
  THEN SendFc(b, [c EXCEPT !.timer = FALSE], "OVFLW", "overflowSent")
  ELSE /\ RFree(b, [c EXCEPT !.state = "UNBOUND"])
       /\ rrun' = NoRRun
       /\ NoFault /\ RTouch(b)
       /\ UNCHANGED fcq

\* RECYCLE: the message is passed to recv_callback, which runs for a while.
Dispatch(b) ==
  /\ rctx' = [rctx EXCEPT ![b].state = "RECYCLE", ![b].rem = 0]
  /\ delivered' = IF rctx[b].home = "ctx"
                  THEN Append(delivered, [src |-> rctx[b].src, total |-> rctx[b].total,
                                          data |-> rctx[b].data])
                  ELSE delivered
  /\ rrun' = RRunning("dispatch", b)
  /\ NoFault /\ RTouch(b)
  /\ UNCHANGED <<rslab, pool, fcq>>

\* The work queue thread takes the work item of block b and dispatches on the
\* state it finds there.
RecvWork(b) ==
  /\ rrun = NoRRun /\ b \in rwork
  /\ rwork' = rwork \ {b}
  /\ LET c == rctx[b] waits == Byte(c.wft + 1)
         tooLong == RBs = 0 /\ c.rem > PoolSize IN
     \/ c.state \in {"PROCESS_SF", "RECYCLE"} /\ Dispatch(b)
     \/ /\ c.state = "PROCESS_FF" /\ ~tooLong
        /\ SendCts(b, [c EXCEPT !.bs = IF RBs > 0 THEN RBs ELSE @, !.wft = 255])
        /\ UNCHANGED delivered
     \/ /\ c.state = "PROCESS_FF" /\ tooLong
        /\ RecvError(b, [c EXCEPT !.state = "ERR", !.error = "overflow"])
        /\ UNCHANGED delivered
     \/ /\ c.state \in {"TRY_ALLOC", "SEND_FC"}
        /\ SendCts(b, c)
        /\ UNCHANGED delivered
     \/ /\ c.state = "SEND_WAIT" /\ waits < RWftMax
        /\ SendFc(b, [c EXCEPT !.wft = waits], "WAIT", "waitSent")
        /\ UNCHANGED delivered
     \/ /\ c.state = "SEND_WAIT" /\ waits >= RWftMax
        /\ RecvError(b, [c EXCEPT !.wft = waits, !.state = "ERR", !.error = "overflow"])
        /\ UNCHANGED delivered
     \/ /\ c.state = "ERR" /\ RecvError(b, c)
        /\ UNCHANGED delivered
     \/ /\ c.state \in {"WAIT_FF_SF", "WAIT_CF", "UNBOUND"}
        /\ rrun' = NoRRun
        /\ NoFault /\ RTouch(b)
        /\ UNCHANGED <<rctx, rslab, pool, fcq, delivered>>
  /\ UNCHANGED <<rbound, runb>>

\* The context after receive_send_fc.
AwaitCf_NoTimer(c, pc) ==          \* mutant: the timer is not started
  [c EXCEPT !.state = IF pc = "ctsSent" THEN "WAIT_CF" ELSE "TRY_ALLOC"]
AwaitCf(c, pc) ==
  [c EXCEPT !.timer = TRUE, !.state = IF pc = "ctsSent" THEN "WAIT_CF" ELSE "TRY_ALLOC"]

\* After receive_send_fc: arm the timer and wait, whatever an interrupt has made of
\* the state meanwhile.
FcQueued ==
  /\ rrun.pc \in {"ctsSent", "waitSent"}
  /\ LET b == rrun.blk IN
     /\ rctx' = [rctx EXCEPT ![b] = AwaitCf(@, rrun.pc)]
     /\ RTouch(b)
  /\ rrun' = NoRRun
  /\ NoFault
  /\ UNCHANGED <<rslab, pool, rwork, fcq, delivered, rbound, runb>>

\* After the overflow frame, or after recv_callback: free the context.
RecvEnd ==
  /\ rrun.pc \in {"overflowSent", "dispatch"}
  /\ LET b == rrun.blk IN
     /\ RFree(b, [rctx[b] EXCEPT !.state = "UNBOUND"])
     /\ RTouch(b)
  /\ rrun' = NoRRun
  /\ NoFault
  /\ UNCHANGED <<rwork, fcq, delivered, rbound, runb>>

RecvWorkQueue == (\E b \in RecvBlock : RecvWork(b)) \/ FcQueued \/ RecvEnd

-----------------------------------------------------------------------------
(* The application thread: the receive contexts in isotp_fast_unbind,      *)
(* which takes no lock.                                                    *)

RUnbindStart_KeepsFilter ==        \* mutant: the RX filter stays installed
  /\ RMayUnbind /\ runb.pc = "off"
  /\ runb' = [runb EXCEPT !.pc = "head"]
  /\ Safe /\ NoFault
  /\ UNCHANGED <<rctx, rslab, pool, rwork, rrun, fcq, delivered, rbound>>

\* The RX filter is removed first: no frame arrives any more.
RUnbindStart ==
  /\ RMayUnbind /\ rbound
  /\ rbound' = FALSE
  /\ runb' = [runb EXCEPT !.pc = "head"]
  /\ Safe /\ NoFault
  /\ UNCHANGED <<rctx, rslab, pool, rwork, rrun, fcq, delivered>>

\* The loop head; the loop remembers the context that follows in the list.
RListed == {b \in RecvBlock : rctx[b].list = "ctx"}

RUnbindNext ==
  /\ runb.pc \in {"head", "next"}
  /\ LET left == IF runb.pc = "head" THEN RListed ELSE {runb.nxt} \ {NoBlock} IN
     \/ \E b \in left : \E n \in (RListed \ {b}) \cup {NoBlock} :
          /\ n = NoBlock <=> RListed \subseteq {b}
          /\ rctx' = [rctx EXCEPT ![b].timer = FALSE]
          /\ runb' = [pc |-> "cancel", blk |-> b, nxt |-> n]
          /\ RTouch(b)
     \/ /\ left = {}
        /\ runb' = [pc |-> "done", blk |-> NoBlock, nxt |-> NoBlock]
        /\ UNCHANGED rctx /\ Safe
  /\ NoFault
  /\ UNCHANGED <<rslab, pool, rwork, rrun, fcq, delivered, rbound>>

RUnbindCancel ==
  /\ runb.pc = "cancel"
  /\ rrun.blk # runb.blk
  /\ rwork' = rwork \ {runb.blk}
  /\ runb' = [runb EXCEPT !.pc = "check"]
  /\ RTouch(runb.blk) /\ NoFault
  /\ UNCHANGED <<rctx, rslab, pool, rrun, fcq, delivered, rbound>>

RUnbindCheck ==
  /\ runb.pc = "check"
  /\ runb' = [runb EXCEPT !.pc = IF rctx[runb.blk].pending = 0 THEN "again" ELSE "orphan"]
  /\ RTouch(runb.blk) /\ NoFault
  /\ UNCHANGED <<rctx, rslab, pool, rwork, rrun, fcq, delivered, rbound>>

\* pending_cb was zero: cancel again,
RUnbindCancelAgain ==
  /\ runb.pc = "again"
  /\ rrun.blk # runb.blk
  /\ rwork' = rwork \ {runb.blk}
  /\ runb' = [runb EXCEPT !.pc = "free"]
  /\ RTouch(runb.blk) /\ NoFault
  /\ UNCHANGED <<rctx, rslab, pool, rrun, fcq, delivered, rbound>>

\* and free: fatal if the handler is at work on the context again.
RUnbindFree ==
  /\ runb.pc = "free"
  /\ RFree(runb.blk, rctx[runb.blk])
  /\ IF rrun.blk = runb.blk THEN Corrupt ELSE RTouch(runb.blk)
  /\ NoFault
  /\ runb' = [runb EXCEPT !.pc = "next", !.blk = NoBlock]
  /\ UNCHANGED <<rwork, rrun, fcq, delivered, rbound>>

\* orphan_recv_ctx
RUnbindOrphan ==
  /\ runb.pc = "orphan"
  /\ rctx' = [rctx EXCEPT ![runb.blk].state = "UNBOUND",
                ![runb.blk].home = "orphanage", ![runb.blk].list = "orphanage"]
  /\ RTouch(runb.blk) /\ NoFault
  /\ runb' = [runb EXCEPT !.pc = "next", !.blk = NoBlock]
  /\ UNCHANGED <<rslab, pool, rwork, rrun, fcq, delivered, rbound>>

RUnbind == RUnbindStart \/ RUnbindNext \/ RUnbindCancel \/ RUnbindCheck
           \/ RUnbindCancelAgain \/ RUnbindFree \/ RUnbindOrphan

-----------------------------------------------------------------------------
(* The receiver among arbitrary senders: any frame of any message may      *)
(* arrive, in any order and any number of times.                           *)

DataFrames ==
  [kind : {"SF"}, msg : {m \in Msg : Cfs[m] = 0}, idx : {0}, len : {1}, sn : {0}]
  \cup {[kind |-> "FF", msg |-> m, idx |-> 0, len |-> Cfs[m] + 1, sn |-> 0] :
          m \in {x \in Msg : Cfs[x] > 0}}
  \cup UNION {{[kind |-> "CF", msg |-> m, idx |-> i, len |-> 0, sn |-> i % SnMod] :
                 i \in 1..Cfs[m]} : m \in {x \in Msg : Cfs[x] > 0}}

\* A sender that waits for flow control is silent while that frame is queued, or
\* while the receiver still has to queue it.
SenderWaits(s) ==
  \E b \in RFound(s) : RFramesOf(b) # {} \/ rctx[b].state # "WAIT_CF"

Senders == \E s \in Src, f \in DataFrames :
             /\ EagerSender \/ ~SenderWaits(s)
             /\ FrameArrives(s, f) /\ NoFault

RecvDriver ==
  \/ FcDone(TRUE) /\ NoFault
  \/ FcDone(FALSE) /\ Fault("txError")

Bounded == Len(delivered) < MaxDelivered /\ Len(fcq) < MaxFcQueued

RecvNext ==
  /\ ~corrupt
  /\ \/ RUnbind
     \/ Bounded /\ RecvWorkQueue
     \/ RecvDriver
     \/ Senders
     \/ \E b \in RecvBlock : RecvTimeout(b)

allRecvVars == <<recvVars, faults, corrupt>>

RecvStart == CommonInit /\ RecvInit

RecvSpec == RecvStart /\ [][RecvNext]_allRecvVars

\* The work queue is first-in first-out: a queued item has its turn; the thread and the
\* driver get on with their work, armed timers expire.
RecvFairness ==
  /\ \A b \in RecvBlock : SF_allRecvVars(~corrupt /\ Bounded /\ RecvWork(b))
  /\ WF_allRecvVars(~corrupt /\ Bounded /\ (FcQueued \/ RecvEnd))
  /\ WF_allRecvVars(~corrupt /\ FcDone(TRUE) /\ NoFault)
  /\ \A b \in RecvBlock : WF_allRecvVars(~corrupt /\ RecvTimeout(b))

RecvFairSpec == RecvSpec /\ RecvFairness

-----------------------------------------------------------------------------
(* Properties.                                                             *)

\* A message passed to recv_callback has the announced length, starts with a first
\* or single frame and continues without a gap in the sequence numbers, whatever
\* frames arrived in between.
DeliveredInSequence ==
  \A i \in DOMAIN delivered :
    LET d == delivered[i] IN
    /\ Len(d.data) = d.total
    /\ \A j \in DOMAIN d.data : d.data[j][2] % SnMod = (j - 1) % SnMod
    /\ d.data[1][2] = 0

\* Every network buffer is free or in the chain of exactly one context.
PoolConserved ==
  corrupt \/ pool + MapThenSumSet(LAMBDA b : rctx[b].bufs, RecvBlock) = PoolSize

\* isotp_fast_internal.h on pending_cb: "a context must not be freed while this
\* is non-zero".
RFreesOnlyIdle == \A b \in RecvBlock : b \notin rslab /\ b \in rslab' => rctx'[b].pending = 0

\* Nothing is left behind for a freed context: no timer that is running, no work
\* item that is queued.
NothingPointsToFreed == \A b \in rslab : ~rctx[b].timer /\ b \notin rwork

\* No receive context is forgotten: a listed context has flow control on its way, a
\* timer running, a work item queued, or a thread working on it.
RForgotten(b) ==
  rctx[b].list # "none" /\ RecvQuiet(b) /\ ~rctx[b].timer /\ runb.blk # b

RNeverForgotten == \A b \in RecvBlock : ~RForgotten(b)

\* After isotp_fast_unbind has returned, recv_callback is not called any more, as long as
\* memory stays valid.
RSilentAfterUnbind == [][runb.pc = "done" /\ MemorySafe' => UNCHANGED delivered]_allRecvVars

\* A reception that has begun ends: its context is handed back to the slab.
EveryReceptionEnds ==
  \A b \in RecvBlock : (rctx[b].state = "PROCESS_FF") ~>
                          (b \in rslab \/ ~Bounded \/ corrupt)
=============================================================================
