------------------------------ MODULE IsoTpSend ------------------------------
(***************************************************************************)
(* The transmitting half of isotp_fast.c on one bound context: the slab of *)
(* send contexts, the send state machine that the system work queue runs,  *)
(* the interrupt handlers (frame transmitted, flow control received, timer *)
(* expired), the application thread in isotp_fast_send, and                *)
(* isotp_fast_unbind with its orphanage.                                   *)
(*                                                                         *)
(* Interrupt handlers are atomic.  The work queue thread and the           *)
(* application thread are not: they are split where an interrupt that      *)
(* falls between two of their accesses can make a difference.              *)
(***************************************************************************)
EXTENDS IsoTpCommon

CONSTANTS
  SendBlock,    \* blocks of isotp_send_ctx_slab
  Addr,         \* target addresses
  Dest,         \* Dest[m]: the address message m is sent to
  Bs,           \* block size of ctx->opts
  Stmin,        \* does the peers' flow control ask for a separation time?
  PeerFc,       \* flow control frames a peer may answer with
  SpuriousFc,   \* may flow control arrive that answers nothing?
  FastBus,      \* may a frame be transmitted before the work queue thread has
                \* executed the few statements that follow its can_send?
  Overlap,      \* may isotp_fast_send be called for an address while an
                \* earlier transfer to it has not been reported yet?
  MayUnbind,    \* may the application unbind the context?
  WftMax        \* CONFIG_ISOTP_WFTMAX

ASSUME SendAssumption ==
  /\ NoBlock \notin SendBlock
  /\ Dest \in [Msg -> Addr]
  /\ Bs \in 0..255
  /\ Stmin \in BOOLEAN
  /\ PeerFc \subseteq [fs : {"CTS", "WAIT", "OVFLW"}, bs : 0..255]
  /\ SpuriousFc \in BOOLEAN
  /\ FastBus \in BOOLEAN
  /\ Overlap \in BOOLEAN
  /\ MayUnbind \in BOOLEAN
  /\ WftMax \in Nat

VARIABLES
  sctx,         \* the contents of each slab block
  sslab,        \* blocks on the slab's free list
  swork,        \* blocks whose work item is queued on the system work queue
  srun,         \* where the work queue thread is in send_state_machine
  app,          \* where the application thread is in isotp_fast_send
  call,         \* what isotp_fast_send returned for each message
  reports,      \* the results passed to sent_callback for each message
  txq,          \* frames accepted by can_send, not yet transmitted
  aired,        \* frames of each message transmitted without error
  bound,        \* is the RX filter installed?
  unb           \* where the application thread is in isotp_fast_unbind

sendVars == <<sctx, sslab, swork, srun, app, call, reports, txq, aired, bound, unb>>

TxState == {"RESET", "SEND_FF", "WAIT_FC", "SEND_CF", "WAIT_ST",
            "WAIT_BACKLOG", "WAIT_FIN", "ERR"}

SendCtx == [state : TxState, addr : Addr, data : Msg \cup {NoMsg},
            arg : Msg \cup {NoMsg}, rem : Nat, sn : 0..(SnMod - 1),
            bs : 0..255, wft : 0..255, backlog : 0..255, pending : Int,
            sem : 0..1, timer : BOOLEAN,
            home : {"ctx", "orphanage"},           \* sctx->ctx
            list : {"none", "ctx", "orphanage"}]   \* the list that holds node

\* A frame: what it carries, and the context its completion callback points to.
\* len is the length a first frame announces, in frames.
Frame == [kind : {"SF", "FF", "CF"}, msg : Msg \cup {NoMsg}, idx : Int, len : Nat,
          sn : 0..(SnMod - 1), blk : SendBlock]

NoRun == [pc |-> "idle", blk |-> NoBlock, reg |-> 0]
NoApp == [pc |-> "idle", blk |-> NoBlock, msg |-> NoMsg]

SendTypeOK ==
  /\ CommonTypeOK
  /\ sctx \in [SendBlock -> SendCtx]
  /\ sslab \subseteq SendBlock
  /\ swork \subseteq SendBlock
  /\ srun \in [pc : {"idle", "ffSent", "cfSent", "cfLoaded", "sem"},
               blk : SendBlock \cup {NoBlock}, reg : 0..255]
  /\ app \in [pc : {"idle", "fill", "single"},
              blk : SendBlock \cup {NoBlock}, msg : Msg \cup {NoMsg}]
  /\ call \in [Msg -> {"none", "busy", "accepted", "refused"}]
  /\ reports \in [Msg -> Seq({"ok", "error"})]
  /\ txq \in Seq(Frame)
  /\ aired \in [Msg -> Seq(Int)]
  /\ bound \in BOOLEAN
  /\ unb \in [pc : {"off", "head", "next", "cancel", "check", "again", "free", "orphan", "done"},
              blk : SendBlock \cup {NoBlock}, nxt : SendBlock \cup {NoBlock}]

SendInit ==
  /\ \E a \in Addr, w \in {0, 255} :   \* the slab's memory is not initialized
       sctx = [b \in SendBlock |->
                 [state |-> "RESET", addr |-> a, data |-> NoMsg, arg |-> NoMsg,
                  rem |-> 0, sn |-> 0, bs |-> 0, wft |-> w, backlog |-> 0,
                  pending |-> 0, sem |-> 0, timer |-> FALSE,
                  home |-> "ctx", list |-> "none"]]
  /\ sslab = SendBlock
  /\ swork = {}
  /\ srun = NoRun
  /\ app = NoApp
  /\ call = [m \in Msg |-> "none"]
  /\ reports = [m \in Msg |-> <<>>]
  /\ txq = <<>>
  /\ aired = [m \in Msg |-> <<>>]
  /\ bound = TRUE
  /\ unb = [pc |-> "off", blk |-> NoBlock, nxt |-> NoBlock]

-----------------------------------------------------------------------------
(* Helpers on contexts.                                                    *)

\* The contexts get_send_ctx finds for address a.
Found(a) == {b \in SendBlock : sctx[b].list = "ctx" /\ sctx[b].addr = a}

\* A new context in block b for address a: the fields get_send_ctx leaves
\* alone keep what the block held before.
NewSendCtx(b, a) ==
  [sctx[b] EXCEPT !.addr = a, !.home = "ctx", !.list = "ctx", !.bs = Bs,
                  !.state = "SEND_FF", !.pending = 0, !.sem = 0, !.timer = FALSE]

\* The context c once message m has been put in it.
Loaded_StaleArg(c, m) == [c EXCEPT !.data = m, !.rem = Cfs[m] + 1]   \* mutant: keeps cb_arg
Loaded(c, m) == [c EXCEPT !.data = m, !.rem = Cfs[m] + 1, !.arg = m]

\* Mutant of Freed: the timer is left running.
Freed_TimerRuns(c) == [c EXCEPT !.list = IF c.list = c.home THEN "none" ELSE c.list]

\* free_send_ctx: the node leaves the list of its present owner only.
Freed(c) == [c EXCEPT !.timer = FALSE,
                      !.list = IF c.list = c.home THEN "none" ELSE c.list]

\* Mutant of ReportFor: errors are not reported.
ReportFor_OkOnly(c, result) ==
  reports' = IF c.home = "ctx" /\ c.arg # NoMsg /\ result = "ok"
             THEN [reports EXCEPT ![c.arg] = Append(@, result)]
             ELSE reports

\* sent_callback of the present owner; the orphanage's does nothing.
ReportFor(c, result) ==
  reports' = IF c.home = "ctx" /\ c.arg # NoMsg
             THEN [reports EXCEPT ![c.arg] = Append(@, result)]
             ELSE reports

\* Messages to address a that were accepted and not reported yet.
Outstanding(a) ==
  {m \in Msg : Dest[m] = a /\ call[m] \in {"busy", "accepted"} /\ reports[m] = <<>>}

FramesOf(b) == {i \in DOMAIN txq : txq[i].blk = b}

-----------------------------------------------------------------------------
(* The application thread: isotp_fast_send.                                *)

\* get_send_ctx: an existing context for the address is reused, whatever it is
\* doing; otherwise a block is taken from the slab.
SendGetCtx(m) ==
  /\ bound /\ app = NoApp /\ call[m] = "none"
  /\ Overlap \/ Outstanding(Dest[m]) = {}
  /\ LET pc == IF Cfs[m] = 0 THEN "single" ELSE "fill" IN
     \/ \E b \in Found(Dest[m]) :
          /\ app' = [pc |-> pc, blk |-> b, msg |-> m]
          /\ call' = [call EXCEPT ![m] = "busy"]
          /\ UNCHANGED <<sctx, sslab>> /\ Safe
     \/ \E b \in sslab :
          /\ Found(Dest[m]) = {}
          /\ app' = [pc |-> pc, blk |-> b, msg |-> m]
          /\ call' = [call EXCEPT ![m] = "busy"]
          /\ sctx' = [sctx EXCEPT ![b] = NewSendCtx(b, Dest[m])]
          /\ sslab' = sslab \ {b}
          /\ IF b \in swork THEN Corrupt ELSE Safe   \* k_work_init on a queued item
     \/ /\ Found(Dest[m]) = {} /\ sslab = {}
        /\ call' = [call EXCEPT ![m] = "refused"]
        /\ UNCHANGED <<sctx, sslab, app>> /\ Safe
  /\ NoFault
  /\ UNCHANGED <<swork, srun, reports, txq, aired, bound, unb>>

\* The tail of a multi-frame send: data, rem_len and cb_arg are written and the
\* work item is submitted.
SendMulti ==
  /\ app.pc = "fill"
  /\ LET b == app.blk m == app.msg IN
     /\ sctx' = [sctx EXCEPT ![b] = Loaded(@, m)]
     /\ swork' = swork \cup {b}
     /\ call' = [call EXCEPT ![m] = "accepted"]
     /\ IF b \in sslab THEN Corrupt ELSE Safe
  /\ app' = NoApp
  /\ NoFault
  /\ UNCHANGED <<sslab, srun, reports, txq, aired, bound, unb>>

\* The tail of a single-frame send: the frame goes straight to the driver.
SendSingle ==
  /\ app.pc = "single"
  /\ LET b == app.blk m == app.msg c == [sctx[b] EXCEPT !.arg = m] IN
     \/ /\ txq' = Append(txq, [kind |-> "SF", msg |-> m, idx |-> 0, len |-> 1,
                                   sn |-> 0, blk |-> b])
        /\ sctx' = [sctx EXCEPT ![b] = [c EXCEPT !.pending = @ + 1]]
        /\ call' = [call EXCEPT ![m] = "accepted"]
        /\ NoFault
        /\ UNCHANGED sslab
        /\ IF b \in sslab THEN Corrupt ELSE Safe
     \/ /\ Fault("sendFails")
        /\ call' = [call EXCEPT ![m] = "refused"]
        /\ IF c.state = "SEND_FF" /\ c.pending = 0
           THEN /\ sctx' = [sctx EXCEPT ![b] = Freed(c)]
                /\ sslab' = sslab \cup {b}
           ELSE /\ sctx' = [sctx EXCEPT ![b] = c]
                /\ UNCHANGED sslab
        /\ UNCHANGED txq
        /\ IF b \in sslab THEN Corrupt ELSE Safe
  /\ app' = NoApp
  /\ UNCHANGED <<swork, srun, reports, aired, bound, unb>>

-----------------------------------------------------------------------------
(* Interrupt handlers.                                                     *)

\* isotp_fast_sent_single_cb: reports and frees, whatever else the context does.
SentSingleCb(b, ok) ==
  LET c == [sctx[b] EXCEPT !.pending = @ - 1] IN
  /\ ReportFor(c, IF ok THEN "ok" ELSE "error")
  /\ sctx' = [sctx EXCEPT ![b] = Freed(c)]
  /\ sslab' = sslab \cup {b}
  /\ UNCHANGED swork

\* Mutant of SendCanTxCallback: pending_cb is not decremented.
SendCanTxCallback_Leaks(b) ==
  LET c == [sctx[b] EXCEPT !.backlog = Byte(@ - 1), !.sem = 1]
      waits == c.state = "WAIT_BACKLOG" /\ c.backlog > 0
      done  == c.state = "WAIT_BACKLOG" /\ c.backlog = 0 IN
  /\ sctx' = [sctx EXCEPT ![b] = [c EXCEPT !.state = IF done THEN "WAIT_FIN" ELSE @]]
  /\ swork' = IF waits THEN swork ELSE swork \cup {b}
  /\ UNCHANGED <<sslab, reports>>

\* send_can_tx_callback: does not look at the error code.
SendCanTxCallback(b) ==
  LET c == [sctx[b] EXCEPT !.pending = @ - 1, !.backlog = Byte(@ - 1), !.sem = 1]
      waits == c.state = "WAIT_BACKLOG" /\ c.backlog > 0
      done  == c.state = "WAIT_BACKLOG" /\ c.backlog = 0 IN
  /\ sctx' = [sctx EXCEPT ![b] = [c EXCEPT !.state = IF done THEN "WAIT_FIN" ELSE @]]
  /\ swork' = IF waits THEN swork ELSE swork \cup {b}
  /\ UNCHANGED <<sslab, reports>>

\* The driver finishes with the frame at the head of its queue and calls its
\* completion callback.
FrameDone(ok) ==
  /\ txq # <<>>
  /\ LET f == Head(txq) IN
     /\ FastBus \/ srun.blk # f.blk \/ srun.pc = "sem"
     /\ IF f.kind = "SF" THEN SentSingleCb(f.blk, ok) ELSE SendCanTxCallback(f.blk)
     /\ aired' = IF ok /\ f.msg # NoMsg
                 THEN [aired EXCEPT ![f.msg] = Append(@, f.idx)] ELSE aired
     /\ IF f.blk \in sslab THEN Corrupt ELSE Safe
  /\ txq' = Tail(txq)
  /\ UNCHANGED <<srun, app, call, bound, unb>>

\* send_process_fc, for a context that waits for flow control.
ProcessFc(c, fc) ==
  CASE fc.fs = "CTS"  -> [c EXCEPT !.state = "SEND_CF", !.wft = 0, !.backlog = 0,
                                   !.sem = 0, !.bs = fc.bs]
    [] fc.fs = "WAIT" -> [c EXCEPT !.timer = TRUE, !.wft = Byte(@ + 1),
                                   !.state = IF c.wft >= WftMax THEN "ERR" ELSE @]
    [] OTHER          -> [c EXCEPT !.state = "ERR"]

\* send_can_rx: flow control fc arrives from the peer at address a.
FcArrives(a, fc) ==
  /\ bound
  /\ \E b \in Found(a) :
       /\ sctx' = [sctx EXCEPT ![b] =
                     IF @.state = "WAIT_FC" THEN ProcessFc([@ EXCEPT !.timer = FALSE], fc)
                                            ELSE [@ EXCEPT !.state = "ERR"]]
       /\ swork' = swork \cup {b}
       /\ IF b \in sslab THEN Corrupt ELSE Safe
  /\ UNCHANGED <<sslab, srun, app, call, reports, txq, aired, bound, unb>>

\* No work, frame or thread of this node is still busy with block b.
SendQuiet(b) == FramesOf(b) = {} /\ b \notin swork /\ srun.blk # b

\* send_timeout_handler: flow control is overdue, or the separation time is over.
SendTimeout(b) ==
  /\ sctx[b].timer
  /\ LateTimers \/ SendQuiet(b)
  /\ sctx' = [sctx EXCEPT ![b] =
                [sctx[b] EXCEPT !.timer = FALSE, !.state = IF @ # "SEND_CF" THEN "ERR" ELSE @]]
  /\ swork' = swork \cup {b}
  /\ IF b \in sslab THEN Corrupt ELSE Safe
  /\ NoFault
  /\ UNCHANGED <<sslab, srun, app, call, reports, txq, aired, bound, unb>>

-----------------------------------------------------------------------------
(* The system work queue: send_work_handler.                               *)

Running(pc, b) == [pc |-> pc, blk |-> b, reg |-> 0]

\* The context when it starts to wait for flow control.
AwaitFc_NoTimer(c) == [c EXCEPT !.state = "WAIT_FC"]                 \* mutant
AwaitFc(c) == [c EXCEPT !.timer = TRUE, !.state = "WAIT_FC"]

\* The context when the last consecutive frame has been queued.
AfterLast_NoWait(c) == [c EXCEPT !.state = "WAIT_FIN"]   \* mutant: does not wait for it
AfterLast_Error(c) == [c EXCEPT !.state = "ERR"]         \* mutant: wrong verdict
AfterLast(c) == [c EXCEPT !.state = "WAIT_BACKLOG"]

\* sn is a bit-field: it wraps around.
NextSn_SkipsZero(sn) == IF sn = SnMod - 1 THEN 1 ELSE sn + 1   \* mutant
NextSn(sn) == (sn + 1) % SnMod

\* The next part of the message: a frame of the given kind, and the context once
\* rem_len and data have moved past it.
NextFrame(c, b, kind, sn) ==
  [kind |-> kind, msg |-> c.data, len |-> c.rem, sn |-> sn, blk |-> b,
   idx |-> IF c.data = NoMsg THEN 0 ELSE Cfs[c.data] + 1 - c.rem]

\* Mutant of Advance: rem_len does not reach zero.
Advance_KeepsLast(c) == [c EXCEPT !.rem = IF @ > 1 THEN @ - 1 ELSE 1]
Advance(c) == [c EXCEPT !.rem = IF @ > 0 THEN @ - 1 ELSE 0]

\* send_ff, up to can_send; its result is ignored.
SendFf(b) ==
  LET c == [sctx[b] EXCEPT !.sn = 1 % SnMod] IN
  /\ \/ /\ txq' = Append(txq, NextFrame(c, b, "FF", 0))
        /\ sctx' = [sctx EXCEPT ![b] = [Advance(c) EXCEPT !.pending = @ + 1]]
        /\ NoFault
     \/ /\ Fault("sendFails")
        /\ sctx' = [sctx EXCEPT ![b] = Advance(c)]
        /\ UNCHANGED txq
  /\ srun' = Running("ffSent", b)

\* send_cf on context value c, up to can_send.  A failed can_send ends the transfer.
SendCf(b, c) ==
  \/ /\ txq' = Append(txq, NextFrame(c, b, "CF", c.sn))
     /\ sctx' = [sctx EXCEPT ![b] = [Advance(c) EXCEPT !.pending = @ + 1]]
     /\ srun' = Running("cfSent", b)
     /\ NoFault
  \/ /\ Fault("sendFails")
     /\ sctx' = [sctx EXCEPT ![b] = [Advance(c) EXCEPT !.state = "ERR"]]
     /\ srun' = NoRun
     /\ UNCHANGED txq

\* Separation time: the timer will submit the work item again.
WorkWaitSt(b) ==
  /\ sctx' = [sctx EXCEPT ![b] = [@ EXCEPT !.timer = TRUE, !.state = "SEND_CF"]]
  /\ srun' = NoRun
  /\ NoFault
  /\ UNCHANGED <<sslab, reports, txq>>

\* The transfer is over, in error or in success: report it and free the context.
WorkEnd(b, result) ==
  LET c == [sctx[b] EXCEPT !.state = "RESET"] IN
  /\ ReportFor(c, result)
  /\ sctx' = [sctx EXCEPT ![b] = Freed(c)]
  /\ sslab' = sslab \cup {b}
  /\ srun' = NoRun
  /\ NoFault
  /\ UNCHANGED txq

WorkIgnored ==
  /\ srun' = NoRun
  /\ NoFault
  /\ UNCHANGED <<sctx, sslab, reports, txq>>

\* The work queue thread takes the work item of block b and dispatches on the
\* state it finds there.
SendWork(b) ==
  /\ srun = NoRun /\ b \in swork
  /\ swork' = swork \ {b}
  /\ LET s == sctx[b].state IN
     \/ s = "SEND_FF"  /\ SendFf(b) /\ UNCHANGED <<sslab, reports>>
     \/ s = "SEND_CF"  /\ SendCf(b, [sctx[b] EXCEPT !.timer = FALSE])
                       /\ UNCHANGED <<sslab, reports>>
     \/ s = "WAIT_ST"  /\ WorkWaitSt(b)
     \/ s = "ERR"      /\ WorkEnd(b, "error")
     \/ s = "WAIT_FIN" /\ WorkEnd(b, "ok")
     \/ s \in {"RESET", "WAIT_FC", "WAIT_BACKLOG"} /\ WorkIgnored
  /\ IF b \in sslab THEN Corrupt ELSE Safe
  /\ UNCHANGED <<app, call, aired, bound, unb>>

\* After send_ff: arm the timer and wait for flow control, whatever an interrupt
\* has made of the state meanwhile.
SendFfQueued ==
  /\ srun.pc = "ffSent"
  /\ sctx' = [sctx EXCEPT ![srun.blk] = AwaitFc(@)]
  /\ srun' = NoRun
  /\ IF srun.blk \in sslab THEN Corrupt ELSE Safe
  /\ NoFault
  /\ UNCHANGED <<sslab, swork, app, call, reports, txq, aired, bound, unb>>

\* After can_send in send_cf: backlog++ reads the counter ...
SendCfQueued ==
  /\ srun.pc = "cfSent"
  /\ srun' = [srun EXCEPT !.pc = "cfLoaded", !.reg = sctx[srun.blk].backlog]
  /\ IF srun.blk \in sslab THEN Corrupt ELSE Safe
  /\ NoFault
  /\ UNCHANGED <<sctx, sslab, swork, app, call, reports, txq, aired, bound, unb>>

\* ... and writes it back; then the loop decides how to go on.
SendCfCounted ==
  /\ srun.pc = "cfLoaded"
  /\ LET b == srun.blk
         c == [sctx[b] EXCEPT !.backlog = Byte(srun.reg + 1), !.sn = NextSn(@),
                              !.bs = Byte(@ - 1)] IN
     /\ \/ /\ c.rem = 0
           /\ sctx' = [sctx EXCEPT ![b] = AfterLast(c)]
           /\ srun' = NoRun
        \/ /\ c.rem > 0 /\ Bs > 0 /\ c.bs = 0
           /\ sctx' = [sctx EXCEPT ![b] = AwaitFc(c)]
           /\ srun' = NoRun
        \/ /\ c.rem > 0 /\ ~(Bs > 0 /\ c.bs = 0) /\ Stmin
           /\ sctx' = [sctx EXCEPT ![b] = [c EXCEPT !.state = "WAIT_ST"]]
           /\ srun' = NoRun
        \/ /\ c.rem > 0 /\ ~(Bs > 0 /\ c.bs = 0) /\ ~Stmin
           /\ sctx' = [sctx EXCEPT ![b] = c]
           /\ srun' = Running("sem", b)
     /\ IF b \in sslab THEN Corrupt ELSE Safe
  /\ NoFault
  /\ UNCHANGED <<sslab, swork, app, call, reports, txq, aired, bound, unb>>

\* k_sem_take(K_FOREVER): the thread sleeps until a frame of this context has
\* been transmitted, then sends the next one without looking at the state again.
SendSemTaken ==
  /\ srun.pc = "sem"
  /\ LET b == srun.blk IN
     /\ sctx[b].sem = 1
     /\ SendCf(b, [sctx[b] EXCEPT !.sem = 0])
     /\ IF b \in sslab THEN Corrupt ELSE Safe
  /\ UNCHANGED <<sslab, swork, app, call, reports, aired, bound, unb>>

SendWorkQueue ==
  \/ \E b \in SendBlock : SendWork(b)
  \/ SendFfQueued \/ SendCfQueued \/ SendCfCounted \/ SendSemTaken

-----------------------------------------------------------------------------
(* The application thread: isotp_fast_unbind, one context at a time.  It    *)
(* takes no lock: interrupts and the work queue run between its steps.     *)

\* The RX filter is removed first: no flow control arrives any more.
UnbindStart ==
  /\ MayUnbind /\ bound /\ app = NoApp
  /\ bound' = FALSE
  /\ unb' = [unb EXCEPT !.pc = "head"]
  /\ Safe /\ NoFault
  /\ UNCHANGED <<sctx, sslab, swork, srun, app, call, reports, txq, aired>>

\* The loop head, and k_timer_stop for the context it picks.  The loop remembers the
\* context that follows in the list before it disposes of this one.
Listed == {b \in SendBlock : sctx[b].list = "ctx"}

UnbindNext ==
  /\ unb.pc \in {"head", "next"}
  /\ LET left == IF unb.pc = "head" THEN Listed ELSE {unb.nxt} \ {NoBlock} IN
     \/ \E b \in left : \E n \in (Listed \ {b}) \cup {NoBlock} :
          /\ n = NoBlock <=> Listed \subseteq {b}
          /\ sctx' = [sctx EXCEPT ![b] = [@ EXCEPT !.timer = FALSE]]
          /\ unb' = [pc |-> "cancel", blk |-> b, nxt |-> n]
          /\ IF b \in sslab THEN Corrupt ELSE Safe
     \/ /\ left = {}
        /\ unb' = [pc |-> "done", blk |-> NoBlock, nxt |-> NoBlock]
        /\ UNCHANGED sctx /\ Safe
  /\ NoFault
  /\ UNCHANGED <<sslab, swork, srun, app, call, reports, txq, aired, bound>>

\* k_work_cancel_sync waits for a running handler and takes the item off the queue.
UnbindCancel ==
  /\ unb.pc = "cancel"
  /\ srun.blk # unb.blk
  /\ swork' = swork \ {unb.blk}
  /\ unb' = [unb EXCEPT !.pc = "check"]
  /\ IF unb.blk \in sslab THEN Corrupt ELSE Safe
  /\ NoFault
  /\ UNCHANGED <<sctx, sslab, srun, app, call, reports, txq, aired, bound>>

\* Mutant of UnbindCheck: contexts with frames in the driver are freed as well.
UnbindCheck_Blind ==
  /\ unb.pc = "check"
  /\ unb' = [unb EXCEPT !.pc = "again"]
  /\ Safe /\ NoFault
  /\ UNCHANGED <<sctx, sslab, swork, srun, app, call, reports, txq, aired, bound>>

\* pending_cb is read once ...
UnbindCheck ==
  /\ unb.pc = "check"
  /\ unb' = [unb EXCEPT !.pc = IF sctx[unb.blk].pending = 0 THEN "again" ELSE "orphan"]
  /\ IF unb.blk \in sslab THEN Corrupt ELSE Safe
  /\ NoFault
  /\ UNCHANGED <<sctx, sslab, swork, srun, app, call, reports, txq, aired, bound>>

\* ... and decides: cancel again,
UnbindCancelAgain ==
  /\ unb.pc = "again"
  /\ srun.blk # unb.blk
  /\ swork' = swork \ {unb.blk}
  /\ unb' = [unb EXCEPT !.pc = "free"]
  /\ IF unb.blk \in sslab THEN Corrupt ELSE Safe
  /\ NoFault
  /\ UNCHANGED <<sctx, sslab, srun, app, call, reports, txq, aired, bound>>

\* report the error and free,
UnbindFree ==
  /\ unb.pc = "free"
  /\ LET b == unb.blk IN
     /\ ReportFor([sctx[b] EXCEPT !.home = "ctx"], "error")
     /\ sctx' = [sctx EXCEPT ![b] = Freed(@)]
     /\ sslab' = sslab \cup {b}
     /\ IF b \in sslab THEN Corrupt ELSE Safe
  /\ unb' = [unb EXCEPT !.pc = "next", !.blk = NoBlock]
  /\ NoFault
  /\ UNCHANGED <<swork, srun, app, call, txq, aired, bound>>

\* orphan_send_ctx.  Mutants: the owner stays; the state machine is not stopped.
Orphaned_Owned(c) == [c EXCEPT !.state = "ERR", !.list = "orphanage"]
Orphaned(c) == [c EXCEPT !.state = "ERR", !.arg = NoMsg,
                         !.home = "orphanage", !.list = "orphanage"]

\* or hand the context to the orphanage.
UnbindOrphan ==
  /\ unb.pc = "orphan"
  /\ LET b == unb.blk IN
     /\ sctx' = [sctx EXCEPT ![b] = Orphaned(@)]
     /\ IF b \in sslab THEN Corrupt ELSE Safe
  /\ unb' = [unb EXCEPT !.pc = "next", !.blk = NoBlock]
  /\ NoFault
  /\ UNCHANGED <<sslab, swork, srun, app, call, reports, txq, aired, bound>>

Unbind == UnbindStart \/ UnbindNext \/ UnbindCancel \/ UnbindCheck
          \/ UnbindCancelAgain \/ UnbindFree \/ UnbindOrphan

AppThread == (\E m \in Msg : SendGetCtx(m)) \/ SendMulti \/ SendSingle \/ Unbind

-----------------------------------------------------------------------------
(* The transmitter among arbitrary peers: any frame in the queue may be    *)
(* transmitted or fail, and any flow control may arrive at any time.       *)

SendDriver ==
  \/ FrameDone(TRUE) /\ NoFault
  \/ FrameDone(FALSE) /\ Fault("txError")

\* A well-behaved peer sends flow control only to a context that waits for it
\* and whose last frame it has seen.
Awaited(a) ==
  \E b \in Found(a) :
    /\ sctx[b].state = "WAIT_FC" /\ FramesOf(b) = {}
    /\ \E i \in DOMAIN aired[sctx[b].data] :
         aired[sctx[b].data][i] = Cfs[sctx[b].data] - sctx[b].rem

Peers == \E a \in Addr, fc \in PeerFc :
           /\ SpuriousFc \/ Awaited(a)
           /\ FcArrives(a, fc)
           /\ NoFault

SendNext ==
  /\ ~corrupt
  /\ \/ AppThread
     \/ SendWorkQueue
     \/ SendDriver
     \/ Peers
     \/ \E b \in SendBlock : SendTimeout(b)

allSendVars == <<sendVars, faults, corrupt>>

SendStart == CommonInit /\ SendInit

SendSpec == SendStart /\ [][SendNext]_allSendVars

\* The work queue is first-in first-out: a queued item has its turn.  The thread and
\* the driver get on with their work, armed timers expire, and the application thread
\* returns from the functions it calls.
SendFairness ==
  /\ \A b \in SendBlock : SF_allSendVars(~corrupt /\ SendWork(b))
  /\ WF_allSendVars(~corrupt /\ (SendFfQueued \/ SendCfQueued \/ SendCfCounted \/ SendSemTaken))
  /\ WF_allSendVars(~corrupt /\ FrameDone(TRUE) /\ NoFault)
  /\ \A b \in SendBlock : WF_allSendVars(~corrupt /\ SendTimeout(b))
  /\ WF_allSendVars(~corrupt /\ (SendMulti \/ SendSingle \/ UnbindNext \/ UnbindCancel
                                 \/ UnbindCheck \/ UnbindCancelAgain \/ UnbindFree
                                 \/ UnbindOrphan))

SendFairSpec == SendSpec /\ SendFairness

-----------------------------------------------------------------------------
(* Properties.                                                             *)

\* The frames of a message go out on the bus at most once each and in the order
\* of the message, whichever of them the driver fails to transmit.
AiredInOrder ==
  \A m \in Msg : \A i, j \in DOMAIN aired[m] :
    /\ aired[m][i] <= Cfs[m]
    /\ i < j => aired[m][i] < aired[m][j]

\* sent_callback is called at most once for a message, as long as memory stays valid.
AtMostOneReport == MemorySafe => \A m \in Msg : Len(reports[m]) <= 1

\* "@param result If non-zero, an error has occurred": a message reported with
\* result zero has gone out completely.
OkMeansAired ==
  \A m \in Msg : (\E i \in DOMAIN reports[m] : reports[m][i] = "ok")
                   => Len(aired[m]) = Cfs[m] + 1

\* isotp_fast_internal.h on pending_cb: "a context must not be freed while this
\* is non-zero".
FreedOnlyWhenIdle ==
  [][\A b \in SendBlock : b \notin sslab /\ b \in sslab' => sctx'[b].pending = 0]_allSendVars

\* Something will run the state machine of context b again: a frame of it is on its way, its
\* timer is running, its work item is queued, or a thread is working on it.
Attended(b) == ~SendQuiet(b) \/ sctx[b].timer \/ app.blk = b \/ unb.blk = b

\* No context on the application's list is forgotten.
NeverForgotten == \A b \in SendBlock : sctx[b].list = "ctx" => Attended(b)

\* "the callback that will be invoked when the message is sent": every accepted
\* message is reported in the end, unless the context is unbound.
EveryMessageReported ==
  \A m \in Msg : (call[m] = "accepted") ~> (reports[m] # <<>> \/ ~bound)

\* Once isotp_fast_unbind has returned, the owner of the context hears nothing any more, as
\* long as memory stays valid: it may have been destroyed.
SilentAfterUnbind == [][unb.pc = "done" /\ MemorySafe' => UNCHANGED reports]_allSendVars

\* orphan_send_ctx: "any later work run takes the TX_ERR path, which frees the context".
\* A context that unbind has handed to the orphanage returns to the slab, if there is a later
\* work run: not if its frame was finished, and the work that the callback submitted had been
\* done, between unbind's look at pending_cb and orphan_send_ctx.
OrphansReturn ==
  \A b \in SendBlock :
    (sctx[b].list = "orphanage" /\ Attended(b)) ~> (b \in sslab \/ corrupt)

\* A frame in the driver or a running timer never outlives the context that its handler is
\* given (pending_cb, the orphanage and k_timer_stop see to that), wherever unbind is.
InterruptsSafe ==
  [][SendDriver \/ (\E b \in SendBlock : SendTimeout(b)) => Safe]_allSendVars

\* isotp_fast_unbind, when it has found pending_cb to be zero: "a callback that fired before
\* the check can only have submitted work; cancel once more now that no further callback can
\* fire".  The context that it then reports in error and frees has not been completed.
UnbindOwnsContext ==
  MemorySafe /\ unb.pc = "again" =>
    \A m \in Msg : sctx[unb.blk].arg = m => reports[m] # <<"ok">>

\* The transmitter never comes to rest with work undone, as long as memory stays valid: there
\* is always something that will run a listed context, messages are reported, and contexts
\* that still have something to run them when unbind orphans them return to the slab.
EverythingEnds == [](MemorySafe => NeverForgotten) /\ EveryMessageReported /\ OrphansReturn

-----------------------------------------------------------------------------
(* Why a disciplined use of the transmitter is safe.                       *)

\* One transfer at a time to an address, flow control only when it is awaited,
\* generous timers, a bus that is slower than the processor, and no unbind.
\* CAN errors, at can_send or on the bus, are allowed.
Disciplined == ~LateTimers /\ ~SpuriousFc /\ ~FastBus /\ ~Overlap /\ ~MayUnbind

HasFrame(b) == \E i \in DOMAIN txq : txq[i].blk = b
HasSf(b)    == \E i \in DOMAIN txq : txq[i].blk = b /\ txq[i].kind = "SF"

\* A context has at most one frame in the driver.
OneFrame == \A i, j \in DOMAIN txq : txq[i].blk = txq[j].blk => i = j

\* An address has at most one context.
OneContext ==
  \A b, c \in SendBlock : b \notin sslab /\ c \notin sslab /\ sctx[b].addr = sctx[c].addr
                            => b = c

\* Only accepted messages are reported, once.
Outcomes ==
  \A m \in Msg : Len(reports[m]) <= 1 /\ (reports[m] # <<>> => call[m] = "accepted")

\* A thread has a context in hand when it is inside a function that has one.
Threads ==
  /\ srun.pc = "idle" <=> srun.blk = NoBlock
  /\ srun.pc = "idle" => srun = NoRun
  /\ app.pc = "idle" <=> app.blk = NoBlock
  /\ app.pc = "idle" => app = NoApp

\* Nothing points to a block on the free list, and no callback of it is outstanding.
FreeBlock(b) ==
  /\ sctx[b].list = "none" /\ ~sctx[b].timer /\ sctx[b].pending = 0
  /\ ~HasFrame(b) /\ b \notin swork /\ srun.blk # b /\ app.blk # b

\* The message a context is busy with.
Carries(b, m) ==
  /\ Dest[m] = sctx[b].addr /\ reports[m] = <<>>
  /\ IF app.blk = b THEN app.msg = m /\ call[m] = "busy"
                    ELSE sctx[b].arg = m /\ call[m] = "accepted"

\* A context that isotp_fast_send has just set up.
Fresh(b) ==
  /\ sctx[b].state = "SEND_FF" /\ ~sctx[b].timer
  /\ ~HasFrame(b) /\ b \notin swork /\ srun.blk # b

\* A context that no thread works on: what its state says about its frame, its
\* work item and its counters.
Waiting(b) ==
  LET c == sctx[b] IN
  /\ c.state # "RESET"
  /\ c.state = "SEND_FF" => (HasFrame(b) => HasSf(b) /\ b \notin swork)
  /\ c.state \in {"SEND_CF", "WAIT_FIN", "ERR"} => ~HasFrame(b)
  /\ c.state \in {"SEND_CF", "WAIT_ST", "WAIT_BACKLOG"} =>
       c.backlog = IF HasFrame(b) THEN 1 ELSE 0
  /\ c.state = "WAIT_ST" => Stmin /\ (HasFrame(b) => b \notin swork)
  /\ c.state = "SEND_CF" => Stmin \/ c.sem = 0

\* A context that the work queue thread has in hand.
Working(b) ==
  LET c == sctx[b] IN
  /\ srun.pc = "ffSent" => c.state = "SEND_FF" /\ b \notin swork
  /\ srun.pc \in {"cfSent", "cfLoaded"} =>
       /\ c.state = "SEND_CF" /\ c.backlog = 0 /\ HasFrame(b)
       /\ (srun.pc = "cfLoaded" => srun.reg = 0)
       /\ IF Stmin THEN b \notin swork ELSE c.sem = 0
  /\ srun.pc = "sem" => /\ c.state = "SEND_CF" /\ ~Stmin
                        /\ IF HasFrame(b) THEN c.backlog = 1 /\ c.sem = 0
                                          ELSE c.backlog = 0 /\ c.sem = 1

\* A block in use carries one message, and pending_cb counts its frame.
UsedBlock(b) ==
  /\ sctx[b].list = "ctx"
  /\ sctx[b].pending = IF HasFrame(b) THEN 1 ELSE 0
  /\ \E m \in Msg : Carries(b, m)
  /\ app.blk = b => Fresh(b)
  /\ HasSf(b) => sctx[b].state = "SEND_FF" /\ srun.blk # b /\ b \notin swork
  /\ IF srun.blk = b THEN Working(b) ELSE Waiting(b)

BlockInv(b) ==
  sctx[b].home = "ctx" /\ IF b \in sslab THEN FreeBlock(b) ELSE UsedBlock(b)

SendInv ==
  /\ ~corrupt /\ bound /\ unb.pc = "off"
  /\ OneFrame /\ OneContext /\ Outcomes /\ Threads
  /\ \A b \in SendBlock : BlockInv(b)
=============================================================================
