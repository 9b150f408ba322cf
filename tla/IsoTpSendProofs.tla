--------------------------- MODULE IsoTpSendProofs ---------------------------
(***************************************************************************)
(* Proofs about the transmitter.                                           *)
(*                                                                         *)
(* First, type correctness of every behaviour.                             *)
(*                                                                         *)
(* Then, why a disciplined use is safe: SendInv is inductive.  An action   *)
(* works on one block; what is known of every other block does not change  *)
(* (StableBlock).  For the block itself, an action either goes on with the *)
(* transfer (LiveStep), ends it (EndStep), or belongs to isotp_fast_send.  *)
(*                                                                         *)
(* For every use: what isotp_fast_unbind leaves behind has nobody to       *)
(* report to (OwnerInv).                                                   *)
(*                                                                         *)
(* At the end, what a disciplined use puts on the bus: the frames of a     *)
(* message at most once each and in order (AiredInOrder), and all of them  *)
(* when the message is reported with result zero (OkMeansAired).  rem_len  *)
(* says which frame a context sends next (Ahead); the invariant relates it *)
(* to the frames transmitted so far, to the frame the driver still holds,  *)
(* and to the state: which states may send another frame, and which mean   *)
(* that none is left.                                                      *)
(***************************************************************************)
EXTENDS IsoTpSend, TLAPS

-----------------------------------------------------------------------------
(* Type correctness.                                                       *)

\* The threads have a context in hand exactly where their code uses one.
InHand ==
  /\ srun.pc # "idle" => srun.blk \in SendBlock
  /\ app.pc # "idle" => app.blk \in SendBlock /\ app.msg \in Msg
  /\ unb.pc \in {"cancel", "check", "again", "free", "orphan"} => unb.blk \in SendBlock

SendTypeInv == SendTypeOK /\ InHand

\* uint8_t arithmetic stays in range.
LEMMA ByteRange == \A n \in Int : Byte(n) \in 0..255
BY DEF Byte

\* So does the sequence number.
LEMMA SnRange == \A n \in Nat : NextSn(n) \in 0..(SnMod - 1) /\ 1 % SnMod \in 0..(SnMod - 1)
BY CommonAssumption DEF CommonAssumption, NextSn

\* Each field may be given any value of its type.
LEMMA PutState == \A c \in SendCtx, v \in TxState : [c EXCEPT !.state = v] \in SendCtx
BY DEF SendCtx

\* The message a context carries may be replaced (isotp_fast_send).
LEMMA PutData == \A c \in SendCtx, v \in Msg \cup {NoMsg} : [c EXCEPT !.data = v] \in SendCtx
BY DEF SendCtx

\* The callback argument may be replaced or cleared (isotp_fast_send, orphan_send_ctx).
LEMMA PutArg == \A c \in SendCtx, v \in Msg \cup {NoMsg} : [c EXCEPT !.arg = v] \in SendCtx
BY DEF SendCtx

\* rem_len may move (send_ff, send_cf).
LEMMA PutRem == \A c \in SendCtx, v \in Nat : [c EXCEPT !.rem = v] \in SendCtx
BY DEF SendCtx

\* The 4-bit sequence number may take any of its values.
LEMMA PutSn == \A c \in SendCtx, v \in 0..(SnMod - 1) : [c EXCEPT !.sn = v] \in SendCtx
BY DEF SendCtx

\* The block counter bs may take any value of uint8_t.
LEMMA PutBs == \A c \in SendCtx, v \in 0..255 : [c EXCEPT !.bs = v] \in SendCtx
BY DEF SendCtx

\* The wait counter wft may take any value of uint8_t.
LEMMA PutWft == \A c \in SendCtx, v \in 0..255 : [c EXCEPT !.wft = v] \in SendCtx
BY DEF SendCtx

\* The backlog counter may take any value of uint8_t.
LEMMA PutBacklog == \A c \in SendCtx, v \in 0..255 : [c EXCEPT !.backlog = v] \in SendCtx
BY DEF SendCtx

\* pending_cb, an atomic, may be moved by interrupts.
LEMMA PutPending == \A c \in SendCtx, v \in Int : [c EXCEPT !.pending = v] \in SendCtx
BY DEF SendCtx

\* The semaphore tx_sem may be given and taken.
LEMMA PutSem == \A c \in SendCtx, v \in 0..1 : [c EXCEPT !.sem = v] \in SendCtx
BY DEF SendCtx

\* The timer may be started and stopped.
LEMMA PutTimer == \A c \in SendCtx, v \in BOOLEAN : [c EXCEPT !.timer = v] \in SendCtx
BY DEF SendCtx

\* A context may change its owner (orphan_send_ctx).
LEMMA PutHome == \A c \in SendCtx, v \in {"ctx", "orphanage"} : [c EXCEPT !.home = v] \in SendCtx
BY DEF SendCtx

\* A context may be listed and unlisted.
LEMMA PutList == \A c \in SendCtx, v \in {"none", "ctx", "orphanage"} : [c EXCEPT !.list = v] \in SendCtx
BY DEF SendCtx

\* Every helper turns a context into a context.
LEMMA FreedTyped == \A c \in SendCtx : Freed(c) \in SendCtx
<1> TAKE c \in SendCtx
<1> DEFINE l == IF c.list = c.home THEN "none" ELSE c.list
<1>1. l \in {"none", "ctx", "orphanage"}
  BY DEF SendCtx
<1>2. Freed(c) = [[c EXCEPT !.timer = FALSE] EXCEPT !.list = l]
  BY DEF Freed
<1> HIDE DEF l
<1>3. [c EXCEPT !.timer = FALSE] \in SendCtx
  BY PutTimer
<1> QED BY <1>1, <1>2, <1>3, PutList

\* isotp_fast_send leaves a well-typed context.
LEMMA LoadedTyped == \A c \in SendCtx, m \in Msg : Loaded(c, m) \in SendCtx
<1> TAKE c \in SendCtx, m \in Msg
<1>1. Cfs[m] + 1 \in Nat
  BY CommonAssumption DEF CommonAssumption
<1>2. [c EXCEPT !.data = m] \in SendCtx
  BY PutData
<1>3. [[c EXCEPT !.data = m] EXCEPT !.rem = Cfs[m] + 1] \in SendCtx
  BY <1>1, <1>2, PutRem
<1>4. [[[c EXCEPT !.data = m] EXCEPT !.rem = Cfs[m] + 1] EXCEPT !.arg = m] \in SendCtx
  BY <1>3, PutArg
<1> QED BY <1>4 DEF Loaded

\* Moving past a frame leaves a well-typed context: rem_len does not go below zero.
LEMMA AdvanceTyped == \A c \in SendCtx : Advance(c) \in SendCtx
<1> TAKE c \in SendCtx
<1> DEFINE r == IF c.rem > 0 THEN c.rem - 1 ELSE 0
<1>1. r \in Nat
  BY DEF SendCtx
<1>2. Advance(c) = [c EXCEPT !.rem = r]
  BY DEF Advance
<1> HIDE DEF r
<1> QED BY <1>1, <1>2, PutRem

\* Waiting for flow control leaves a well-typed context.
LEMMA AwaitFcTyped == \A c \in SendCtx : AwaitFc(c) \in SendCtx
<1> TAKE c \in SendCtx
<1>1. [c EXCEPT !.timer = TRUE] \in SendCtx
  BY PutTimer
<1>2. "WAIT_FC" \in TxState
  BY DEF TxState
<1>3. [[c EXCEPT !.timer = TRUE] EXCEPT !.state = "WAIT_FC"] \in SendCtx
  BY <1>1, <1>2, PutState
<1> QED BY <1>3 DEF AwaitFc

\* Waiting for the last frame leaves a well-typed context.
LEMMA AfterLastTyped == \A c \in SendCtx : AfterLast(c) \in SendCtx
<1> TAKE c \in SendCtx
<1>1. "WAIT_BACKLOG" \in TxState
  BY DEF TxState
<1> QED BY <1>1, PutState DEF AfterLast

\* orphan_send_ctx leaves a well-typed context.
LEMMA OrphanedTyped == \A c \in SendCtx : Orphaned(c) \in SendCtx
<1> TAKE c \in SendCtx
<1>1. "ERR" \in TxState
  BY DEF TxState
<1>2. [c EXCEPT !.state = "ERR"] \in SendCtx
  BY <1>1, PutState
<1>3. [[c EXCEPT !.state = "ERR"] EXCEPT !.arg = NoMsg] \in SendCtx
  BY <1>2, PutArg
<1>4. \A d \in SendCtx : [d EXCEPT !.home = "orphanage"] \in SendCtx
  BY PutHome
<1>5. \A d \in SendCtx : [[d EXCEPT !.home = "orphanage"] EXCEPT !.list = "orphanage"] \in SendCtx
  BY <1>4, PutList
<1> QED BY <1>3, <1>5 DEF Orphaned

\* Any flow control frame.
FlowControl == [fs : {"CTS", "WAIT", "OVFLW"}, bs : 0..255]

\* send_process_fc leaves a well-typed context: wft wraps around.
LEMMA ProcessFcTyped == \A c \in SendCtx, fc \in FlowControl : ProcessFc(c, fc) \in SendCtx
<1> TAKE c \in SendCtx, fc \in FlowControl
<1>0. {"ERR", "SEND_CF"} \subseteq TxState
  BY DEF TxState
<1>1. CASE fc.fs = "CTS"
  <2>1. [c EXCEPT !.state = "SEND_CF"] \in SendCtx
    BY <1>0, PutState
  <2>2. \A d \in SendCtx : [d EXCEPT !.wft = 0] \in SendCtx
    BY DEF SendCtx
  <2>3. \A d \in SendCtx : [d EXCEPT !.backlog = 0] \in SendCtx
    BY DEF SendCtx
  <2>4. \A d \in SendCtx : [d EXCEPT !.sem = 0] \in SendCtx
    BY SMTT(40) DEF SendCtx
  <2>5. \A d \in SendCtx : [d EXCEPT !.bs = fc.bs] \in SendCtx
    <3>1. fc.bs \in 0..255
      BY DEF FlowControl
    <3> QED BY <3>1, PutBs
  <2>6. [[c EXCEPT !.state = "SEND_CF"] EXCEPT !.wft = 0] \in SendCtx
    BY <2>1, <2>2
  <2>7. [[[c EXCEPT !.state = "SEND_CF"] EXCEPT !.wft = 0] EXCEPT !.backlog = 0] \in SendCtx
    BY <2>3, <2>6
  <2>8. \A d \in SendCtx : [[d EXCEPT !.sem = 0] EXCEPT !.bs = fc.bs] \in SendCtx
    BY <2>4, <2>5
  <2> QED BY <1>1, <2>7, <2>8 DEF ProcessFc
<1>2. CASE fc.fs = "WAIT"
  <2> DEFINE s == IF c.wft >= WftMax THEN "ERR" ELSE c.state
             w == Byte(c.wft + 1)
  <2>1. ProcessFc(c, fc) = [[[c EXCEPT !.timer = TRUE] EXCEPT !.wft = w] EXCEPT !.state = s]
    BY <1>2 DEF ProcessFc
  <2>2. s \in TxState
    BY <1>0 DEF SendCtx
  <2>3. w \in 0..255
    <3>1. c.wft + 1 \in Int
      BY DEF SendCtx
    <3> QED BY <3>1, ByteRange
  <2> HIDE DEF s, w
  <2>4. [c EXCEPT !.timer = TRUE] \in SendCtx
    BY PutTimer
  <2>5. [[c EXCEPT !.timer = TRUE] EXCEPT !.wft = w] \in SendCtx
    BY <2>3, <2>4, PutWft
  <2> QED BY <2>1, <2>2, <2>5, PutState
<1>3. CASE fc.fs \notin {"CTS", "WAIT"}
  BY <1>0, <1>3, PutState DEF ProcessFc
<1> QED BY <1>1, <1>2, <1>3

\* A context written into a block leaves the slab well-typed.
LEMMA BlockTyped ==
  ASSUME SendTypeOK, NEW b \in SendBlock, NEW c \in SendCtx,
         sctx' = [sctx EXCEPT ![b] = c]
  PROVE  sctx' \in [SendBlock -> SendCtx]
BY DEF SendTypeOK

\* sent_callback adds one result to the reports of a message.
LEMMA ReportTyped ==
  ASSUME SendTypeOK, NEW c \in SendCtx, NEW r \in {"ok", "error"}, ReportFor(c, r)
  PROVE  reports' \in [Msg -> Seq({"ok", "error"})]
BY DEF SendTypeOK, ReportFor, SendCtx

\* A step injects at most one fault, and may corrupt the memory.
LEMMA FaultTyped ==
  ASSUME SendTypeOK, faults' = faults \/ faults' = faults + 1, corrupt' = corrupt \/ corrupt' = TRUE
  PROVE  CommonTypeOK'
<1>1. faults \in Nat /\ corrupt \in BOOLEAN
  BY DEF SendTypeOK, CommonTypeOK
<1>2. faults' \in Nat
  BY <1>1
<1>3. corrupt' \in BOOLEAN
  BY <1>1
<1> QED BY <1>2, <1>3 DEF CommonTypeOK

\* The program's steps, action by action.
LEMMA GetCtxTyped ==
  ASSUME SendTypeInv, NEW m \in Msg, SendGetCtx(m)
  PROVE  SendTypeInv'
<1> USE DEF SendTypeInv
<1>1. CommonTypeOK'
  BY DEF SendTypeOK, CommonTypeOK, SendGetCtx, NoFault, Safe, Corrupt
<1> DEFINE pc == IF Cfs[m] = 0 THEN "single" ELSE "fill"
<1>2. pc \in {"fill", "single"}
  OBVIOUS
<1>3. ASSUME NEW b \in SendBlock
      PROVE NewSendCtx(b, Dest[m]) \in SendCtx
  <2>1. sctx[b] \in SendCtx /\ Dest[m] \in Addr /\ Bs \in 0..255 /\ "SEND_FF" \in TxState
    BY SendAssumption DEF SendTypeOK, SendAssumption, TxState
  <2>2. [sctx[b] EXCEPT !.addr = Dest[m]] \in SendCtx
    BY <2>1 DEF SendCtx
  <2>3. \A c \in SendCtx : [[c EXCEPT !.home = "ctx"] EXCEPT !.list = "ctx"] \in SendCtx
    BY PutHome, PutList
  <2>4. \A c \in SendCtx : [c EXCEPT !.bs = Bs] \in SendCtx
    BY <2>1, PutBs
  <2>5. \A c \in SendCtx : [c EXCEPT !.state = "SEND_FF"] \in SendCtx
    BY <2>1, PutState
  <2>6. \A c \in SendCtx : [c EXCEPT !.pending = 0] \in SendCtx
    BY DEF SendCtx
  <2>7. \A c \in SendCtx : [[c EXCEPT !.sem = 0] EXCEPT !.timer = FALSE] \in SendCtx
    <3>1. \A c \in SendCtx : [c EXCEPT !.sem = 0] \in SendCtx
      BY DEF SendCtx
    <3> QED BY <3>1, PutTimer
  <2>8. \A c \in SendCtx : [[c EXCEPT !.bs = Bs] EXCEPT !.state = "SEND_FF"] \in SendCtx
    BY <2>4, <2>5
  <2>9. [[[sctx[b] EXCEPT !.addr = Dest[m]] EXCEPT !.home = "ctx"] EXCEPT !.list = "ctx"] \in SendCtx
    BY <2>2, <2>3
  <2>10. \A c \in SendCtx :
           [[[c EXCEPT !.bs = Bs] EXCEPT !.state = "SEND_FF"] EXCEPT !.pending = 0] \in SendCtx
    BY <2>6, <2>8
  <2> QED BY <2>7, <2>9, <2>10 DEF NewSendCtx
<1>4. sctx' \in [SendBlock -> SendCtx]
  BY <1>3 DEF SendTypeOK, SendGetCtx
<1>5. sslab' \subseteq SendBlock /\ call' \in [Msg -> {"none", "busy", "accepted", "refused"}]
  BY DEF SendTypeOK, SendGetCtx
<1>6. /\ app' \in [pc : {"idle", "fill", "single"},
              blk : SendBlock \cup {NoBlock}, msg : Msg \cup {NoMsg}]
      /\ app'.pc # "idle" => app'.blk \in SendBlock /\ app'.msg \in Msg
  BY <1>2 DEF SendTypeOK, SendGetCtx, InHand, Found
<1> QED BY <1>1, <1>4, <1>5, <1>6 DEF SendTypeOK, InHand, SendGetCtx

\* The tail of a segmented isotp_fast_send keeps the types.
LEMMA MultiTyped ==
  ASSUME SendTypeInv, SendMulti
  PROVE  SendTypeInv'
<1> USE DEF SendTypeInv
<1>0. app.blk \in SendBlock /\ app.msg \in Msg
  BY DEF InHand, SendMulti
<1>1. CommonTypeOK'
  BY DEF SendTypeOK, CommonTypeOK, SendMulti, NoFault, Safe, Corrupt
<1>2. Loaded(sctx[app.blk], app.msg) \in SendCtx
  BY <1>0, LoadedTyped DEF SendTypeOK
<1>3. sctx' \in [SendBlock -> SendCtx]
  BY <1>0, <1>2, BlockTyped DEF SendMulti
<1> QED BY <1>0, <1>1, <1>3 DEF SendTypeOK, InHand, SendMulti, NoApp

\* The counter of pending callbacks may be moved by one.
LEMMA PendingTyped ==
  \A c \in SendCtx : /\ [c EXCEPT !.pending = @ + 1] \in SendCtx
                     /\ [c EXCEPT !.pending = @ - 1] \in SendCtx
<1> TAKE c \in SendCtx
<1>1. c.pending + 1 \in Int /\ c.pending - 1 \in Int
  BY DEF SendCtx
<1> QED BY <1>1, PutPending

\* The tail of a single-frame isotp_fast_send keeps the types.
LEMMA SingleTyped ==
  ASSUME SendTypeInv, SendSingle
  PROVE  SendTypeInv'
<1> USE DEF SendTypeInv
<1> DEFINE b == app.blk m == app.msg c == [sctx[b] EXCEPT !.arg = m]
           f == [kind |-> "SF", msg |-> m, idx |-> 0, len |-> 1, sn |-> 0, blk |-> b]
<1>0. b \in SendBlock /\ m \in Msg
  BY DEF InHand, SendSingle
<1>1. CommonTypeOK'
  <2>1. faults' = faults \/ faults' = faults + 1
    BY DEF SendSingle, NoFault, Fault
  <2>2. corrupt' = corrupt \/ corrupt' = TRUE
    BY DEF SendSingle, Safe, Corrupt
  <2> QED BY <2>1, <2>2, FaultTyped
<1>2. c \in SendCtx
  BY <1>0, PutArg DEF SendTypeOK
<1>3. Freed(c) \in SendCtx /\ [c EXCEPT !.pending = @ + 1] \in SendCtx
  BY <1>2, FreedTyped, PendingTyped
<1>4. f \in Frame
  BY <1>0, CommonAssumption DEF Frame, CommonAssumption
<1>5. sctx' \in {[sctx EXCEPT ![b] = Freed(c)], [sctx EXCEPT ![b] = c],
                 [sctx EXCEPT ![b] = [c EXCEPT !.pending = @ + 1]]}
  BY DEF SendSingle
<1>6. txq' \in {txq, Append(txq, f)} /\ sslab' \in {sslab, sslab \cup {b}}
  BY DEF SendSingle
<1> HIDE DEF c, f
<1>7. sctx' \in [SendBlock -> SendCtx]
  BY <1>0, <1>2, <1>3, <1>5, BlockTyped
<1>8. txq' \in Seq(Frame) /\ sslab' \subseteq SendBlock
  <2>1. txq \in Seq(Frame) /\ sslab \subseteq SendBlock
    BY DEF SendTypeOK
  <2> QED BY <1>0, <1>4, <1>6, <2>1
<1>9. call' \in [Msg -> {"none", "busy", "accepted", "refused"}]
  BY DEF SendTypeOK, SendSingle
<1> QED BY <1>1, <1>7, <1>8, <1>9 DEF SendTypeOK, InHand, SendSingle, NoApp

\* The completion callbacks keep the types: backlog and pending_cb may wrap and go negative.
LEMMA FrameDoneTyped ==
  ASSUME SendTypeInv, NEW ok \in BOOLEAN, FrameDone(ok), NoFault \/ \E k \in FaultKinds : Fault(k)
  PROVE  SendTypeInv'
<1> USE DEF SendTypeInv
<1> DEFINE f == Head(txq) b == f.blk
<1>0. f \in Frame /\ b \in SendBlock /\ txq' \in Seq(Frame)
  <2>1. txq \in Seq(Frame) /\ txq # <<>> /\ txq' = Tail(txq)
    BY DEF SendTypeOK, FrameDone
  <2>2. f \in Frame /\ txq' \in Seq(Frame)
    BY <2>1
  <2> QED BY <2>2 DEF Frame
<1>1. CommonTypeOK'
  <2>1. faults' = faults \/ faults' = faults + 1
    BY DEF FrameDone, NoFault, Fault
  <2>2. corrupt' = corrupt \/ corrupt' = TRUE
    BY DEF FrameDone, Safe, Corrupt
  <2> QED BY <2>1, <2>2, FaultTyped
<1>2. aired' \in [Msg -> Seq(Int)]
  <2>1. f.msg \in Msg \cup {NoMsg} /\ f.idx \in Int /\ aired \in [Msg -> Seq(Int)]
    BY <1>0 DEF Frame, SendTypeOK
  <2>2. aired' = aired \/ (f.msg # NoMsg /\ aired' = [aired EXCEPT ![f.msg] = Append(@, f.idx)])
    BY DEF FrameDone
  <2> HIDE DEF f
  <2>3. f.msg # NoMsg => Append(aired[f.msg], f.idx) \in Seq(Int)
    BY <2>1
  <2> QED BY <2>1, <2>2, <2>3
<1>3. /\ sctx' \in [SendBlock -> SendCtx] /\ sslab' \subseteq SendBlock /\ swork' \subseteq SendBlock
      /\ reports' \in [Msg -> Seq({"ok", "error"})]
  <2>1. CASE f.kind = "SF"
    <3> DEFINE c == [sctx[b] EXCEPT !.pending = @ - 1]
               r == IF ok THEN "ok" ELSE "error"
    <3>1. SentSingleCb(b, ok)
      BY <2>1 DEF FrameDone
    <3>2. ReportFor(c, r) /\ sctx' = [sctx EXCEPT ![b] = Freed(c)]
      BY <3>1 DEF SentSingleCb
    <3>3. c \in SendCtx /\ r \in {"ok", "error"}
      BY <1>0, PendingTyped DEF SendTypeOK
    <3> HIDE DEF c, r
    <3>4. Freed(c) \in SendCtx
      BY <3>3, FreedTyped
    <3>5. sctx' \in [SendBlock -> SendCtx] /\ reports' \in [Msg -> Seq({"ok", "error"})]
      BY <1>0, <3>2, <3>3, <3>4, BlockTyped, ReportTyped
    <3> QED BY <1>0, <3>1, <3>5 DEF SendTypeOK, SentSingleCb
  <2>2. CASE f.kind # "SF"
    <3> DEFINE l == Byte(sctx[b].backlog - 1)
               c == [[[sctx[b] EXCEPT !.pending = @ - 1] EXCEPT !.backlog = l] EXCEPT !.sem = 1]
               s == IF c.state = "WAIT_BACKLOG" /\ c.backlog = 0 THEN "WAIT_FIN" ELSE c.state
    <3>1. SendCanTxCallback(b)
      BY <2>2 DEF FrameDone
    <3>2. sctx' = [sctx EXCEPT ![b] = [c EXCEPT !.state = s]]
      BY <3>1 DEF SendCanTxCallback
    <3>3. c \in SendCtx
      <4>1. sctx[b] \in SendCtx
        BY <1>0 DEF SendTypeOK
      <4>2. l \in 0..255
        <5>1. sctx[b].backlog \in 0..255
          BY <4>1 DEF SendCtx
        <5>2. sctx[b].backlog - 1 \in Int
          BY <5>1, SMTT(40)
        <5> QED BY <5>2, ByteRange, SMTT(40)
      <4> HIDE DEF l
      <4>3. [sctx[b] EXCEPT !.pending = @ - 1] \in SendCtx
        BY <4>1, PendingTyped
      <4>4. [[sctx[b] EXCEPT !.pending = @ - 1] EXCEPT !.backlog = l] \in SendCtx
        BY <4>2, <4>3, PutBacklog
      <4>5. \A d \in SendCtx : [d EXCEPT !.sem = 1] \in SendCtx
        BY DEF SendCtx
      <4> QED BY <4>4, <4>5
    <3> HIDE DEF c
    <3>4. s \in TxState
      BY <3>3 DEF SendCtx, TxState
    <3> HIDE DEF s
    <3>5. [c EXCEPT !.state = s] \in SendCtx
      BY <3>3, <3>4, PutState
    <3>6. sctx' \in [SendBlock -> SendCtx]
      BY <1>0, <3>2, <3>5, BlockTyped
    <3> QED BY <1>0, <3>1, <3>6 DEF SendTypeOK, SendCanTxCallback
  <2> QED BY <2>1, <2>2
<1> QED BY <1>0, <1>1, <1>2, <1>3, SMTT(40) DEF SendTypeOK, InHand, FrameDone

\* send_can_rx keeps the types.
LEMMA FcTyped ==
  ASSUME SendTypeInv, NEW a \in Addr, NEW fc \in FlowControl, FcArrives(a, fc), NoFault
  PROVE  SendTypeInv'
<1> USE DEF SendTypeInv
<1>1. CommonTypeOK'
  <2>1. faults' = faults
    BY DEF NoFault
  <2>2. corrupt' = corrupt \/ corrupt' = TRUE
    BY DEF FcArrives, Safe, Corrupt
  <2> QED BY <2>1, <2>2, FaultTyped
<1>2. PICK b \in SendBlock :
        /\ sctx' = [sctx EXCEPT ![b] =
                     IF sctx[b].state = "WAIT_FC"
                     THEN ProcessFc([sctx[b] EXCEPT !.timer = FALSE], fc)
                     ELSE [sctx[b] EXCEPT !.state = "ERR"]]
        /\ swork' = swork \cup {b}
  BY DEF FcArrives, Found
<1>3. sctx[b] \in SendCtx
  BY DEF SendTypeOK
<1>4. [sctx[b] EXCEPT !.timer = FALSE] \in SendCtx
  BY <1>3, PutTimer
<1>5. ProcessFc([sctx[b] EXCEPT !.timer = FALSE], fc) \in SendCtx
  BY <1>4, ProcessFcTyped
<1>6. [sctx[b] EXCEPT !.state = "ERR"] \in SendCtx
  <2>1. "ERR" \in TxState
    BY DEF TxState
  <2> QED BY <1>3, <2>1, PutState
<1>7. sctx' \in [SendBlock -> SendCtx]
  BY <1>2, <1>5, <1>6, BlockTyped
<1> QED BY <1>1, <1>2, <1>7 DEF SendTypeOK, InHand, FcArrives

\* send_timeout_handler keeps the types.
LEMMA TimeoutTyped ==
  ASSUME SendTypeInv, NEW b \in SendBlock, SendTimeout(b)
  PROVE  SendTypeInv'
<1> USE DEF SendTypeInv
<1>1. CommonTypeOK'
  <2>1. faults' = faults
    BY DEF SendTimeout, NoFault
  <2>2. corrupt' = corrupt \/ corrupt' = TRUE
    BY DEF SendTimeout, Safe, Corrupt
  <2> QED BY <2>1, <2>2, FaultTyped
<1> DEFINE d == [sctx[b] EXCEPT !.timer = FALSE]
           s == IF d.state # "SEND_CF" THEN "ERR" ELSE d.state
           c == [d EXCEPT !.state = s]
<1>2. d \in SendCtx
  <2>1. sctx[b] \in SendCtx
    BY DEF SendTypeOK
  <2> QED BY <2>1, PutTimer
<1>4. sctx' = [sctx EXCEPT ![b] = c]
  BY DEF SendTimeout
<1> HIDE DEF d
<1>3. s \in TxState
  BY <1>2 DEF SendCtx, TxState
<1> HIDE DEF s
<1>6. c \in SendCtx
  BY <1>2, <1>3, PutState
<1> HIDE DEF c
<1>7. sctx' \in [SendBlock -> SendCtx]
  BY <1>4, <1>6, BlockTyped
<1> QED BY <1>1, <1>7 DEF SendTypeOK, InHand, SendTimeout

\* Frames are typed.
LEMMA FrameTyped ==
  ASSUME NEW c \in SendCtx, NEW b \in SendBlock, NEW kind \in {"FF", "CF"},
         NEW sn \in 0..(SnMod - 1)
  PROVE  NextFrame(c, b, kind, sn) \in Frame
<1> DEFINE i == IF c.data = NoMsg THEN 0 ELSE Cfs[c.data] + 1 - c.rem
<1>1. c.data \in Msg \cup {NoMsg} /\ c.rem \in Nat
  BY DEF SendCtx
<1>2. i \in Int
  BY <1>1, CommonAssumption DEF CommonAssumption
<1>3. NextFrame(c, b, kind, sn) =
        [kind |-> kind, msg |-> c.data, len |-> c.rem, sn |-> sn, blk |-> b, idx |-> i]
  BY DEF NextFrame
<1> HIDE DEF i
<1> QED BY <1>1, <1>2, <1>3 DEF Frame

\* What a step of the work queue thread on block b leaves behind.
WorkTyped(b) ==
  /\ sctx' \in [SendBlock -> SendCtx] /\ sslab' \subseteq SendBlock
  /\ reports' \in [Msg -> Seq({"ok", "error"})]
  /\ txq' \in Seq(Frame)
  /\ srun' \in [pc : {"idle", "ffSent", "cfSent", "cfLoaded", "sem"},
                blk : SendBlock \cup {NoBlock}, reg : 0..255]
  /\ srun'.pc # "idle" => srun'.blk \in SendBlock

\* The positions of the work queue thread are well-typed.
LEMMA RunTyped ==
  /\ NoRun \in [pc : {"idle", "ffSent", "cfSent", "cfLoaded", "sem"},
                blk : SendBlock \cup {NoBlock}, reg : 0..255]
  /\ NoRun.pc = "idle"
  /\ \A b \in SendBlock, pc \in {"ffSent", "cfSent", "cfLoaded", "sem"} :
       /\ Running(pc, b) \in [pc : {"idle", "ffSent", "cfSent", "cfLoaded", "sem"},
                              blk : SendBlock \cup {NoBlock}, reg : 0..255]
       /\ Running(pc, b).blk = b
BY DEF NoRun, Running

\* send_cf keeps the types, whether or not can_send succeeds.
LEMMA SendCfTyped ==
  ASSUME SendTypeInv, NEW b \in SendBlock, NEW c \in SendCtx, SendCf(b, c),
         UNCHANGED <<sslab, reports>>
  PROVE  WorkTyped(b)
<1> USE DEF SendTypeInv
<1> DEFINE f == NextFrame(c, b, "CF", c.sn)
<1>1. Advance(c) \in SendCtx
  BY AdvanceTyped
<1>2. [Advance(c) EXCEPT !.pending = @ + 1] \in SendCtx
  BY <1>1, PendingTyped
<1>3. [Advance(c) EXCEPT !.state = "ERR"] \in SendCtx
  <2>1. "ERR" \in TxState
    BY DEF TxState
  <2> QED BY <1>1, <2>1, PutState
<1>4. f \in Frame
  <2>1. c.sn \in 0..(SnMod - 1)
    BY DEF SendCtx
  <2> QED BY <2>1, FrameTyped
<1>5. /\ sctx' \in {[sctx EXCEPT ![b] = [Advance(c) EXCEPT !.pending = @ + 1]],
                   [sctx EXCEPT ![b] = [Advance(c) EXCEPT !.state = "ERR"]]}
      /\ txq' \in {txq, Append(txq, f)}
      /\ srun' \in {NoRun, Running("cfSent", b)}
  BY DEF SendCf
<1>6. sctx' \in [SendBlock -> SendCtx]
  BY <1>2, <1>3, <1>5, BlockTyped
<1> HIDE DEF f
<1>7. txq' \in Seq(Frame)
  <2>1. txq \in Seq(Frame)
    BY DEF SendTypeOK
  <2> QED BY <1>4, <1>5, <2>1
<1>8. sslab' \subseteq SendBlock /\ reports' \in [Msg -> Seq({"ok", "error"})]
  BY DEF SendTypeOK
<1> QED BY <1>5, <1>6, <1>7, <1>8, RunTyped, SMTT(40) DEF WorkTyped

\* send_ff keeps the types, whether or not can_send succeeds.
LEMMA SendFfTyped ==
  ASSUME SendTypeInv, NEW b \in SendBlock, SendFf(b), UNCHANGED <<sslab, reports>>
  PROVE  WorkTyped(b)
<1> USE DEF SendTypeInv
<1> DEFINE c == [sctx[b] EXCEPT !.sn = 1 % SnMod]
           f == NextFrame(c, b, "FF", 0)
<1>1. c \in SendCtx
  <2>1. sctx[b] \in SendCtx /\ 1 % SnMod \in 0..(SnMod - 1)
    BY SnRange DEF SendTypeOK
  <2> QED BY <2>1, PutSn
<1>2. /\ sctx' \in {[sctx EXCEPT ![b] = [Advance(c) EXCEPT !.pending = @ + 1]],
                   [sctx EXCEPT ![b] = Advance(c)]}
      /\ txq' \in {txq, Append(txq, f)}
      /\ srun' = Running("ffSent", b)
  BY DEF SendFf
<1> HIDE DEF c
<1>3. Advance(c) \in SendCtx
  BY <1>1, AdvanceTyped
<1>4. [Advance(c) EXCEPT !.pending = @ + 1] \in SendCtx
  BY <1>3, PendingTyped
<1>5. f \in Frame
  <2>1. 0 \in 0..(SnMod - 1)
    BY CommonAssumption DEF CommonAssumption
  <2> QED BY <1>1, <2>1, FrameTyped
<1>6. sctx' \in [SendBlock -> SendCtx]
  BY <1>2, <1>3, <1>4, BlockTyped
<1> HIDE DEF f
<1>7. txq' \in Seq(Frame)
  <2>1. txq \in Seq(Frame)
    BY DEF SendTypeOK
  <2> QED BY <1>2, <1>5, <2>1
<1>8. sslab' \subseteq SendBlock /\ reports' \in [Msg -> Seq({"ok", "error"})]
  BY DEF SendTypeOK
<1> QED BY <1>2, <1>6, <1>7, <1>8, RunTyped DEF WorkTyped

\* The end of a transfer in send_state_machine keeps the types.
LEMMA WorkEndTyped ==
  ASSUME SendTypeInv, NEW b \in SendBlock, NEW r \in {"ok", "error"}, WorkEnd(b, r)
  PROVE  WorkTyped(b)
<1> USE DEF SendTypeInv
<1> DEFINE c == [sctx[b] EXCEPT !.state = "RESET"]
<1>1. c \in SendCtx
  <2>1. sctx[b] \in SendCtx /\ "RESET" \in TxState
    BY DEF SendTypeOK, TxState
  <2> QED BY <2>1, PutState
<1>2. /\ ReportFor(c, r) /\ sctx' = [sctx EXCEPT ![b] = Freed(c)] /\ sslab' = sslab \cup {b}
      /\ srun' = NoRun /\ txq' = txq
  BY DEF WorkEnd
<1> HIDE DEF c
<1>3. Freed(c) \in SendCtx
  BY <1>1, FreedTyped
<1>4. sctx' \in [SendBlock -> SendCtx] /\ reports' \in [Msg -> Seq({"ok", "error"})]
  BY <1>1, <1>2, <1>3, BlockTyped, ReportTyped
<1>5. sslab \subseteq SendBlock /\ txq \in Seq(Frame)
  BY DEF SendTypeOK
<1> QED BY <1>2, <1>4, <1>5, RunTyped DEF WorkTyped

\* The separation time in send_state_machine keeps the types.
LEMMA WaitStTyped ==
  ASSUME SendTypeInv, NEW b \in SendBlock, WorkWaitSt(b)
  PROVE  WorkTyped(b)
<1> USE DEF SendTypeInv
<1> DEFINE c == [[sctx[b] EXCEPT !.timer = TRUE] EXCEPT !.state = "SEND_CF"]
<1>1. c \in SendCtx
  <2>1. sctx[b] \in SendCtx /\ "SEND_CF" \in TxState
    BY DEF SendTypeOK, TxState
  <2>2. [sctx[b] EXCEPT !.timer = TRUE] \in SendCtx
    BY <2>1, PutTimer
  <2> QED BY <2>1, <2>2, PutState
<1>2. /\ sctx' = [sctx EXCEPT ![b] = c] /\ srun' = NoRun
      /\ UNCHANGED <<sslab, reports, txq>>
  BY DEF WorkWaitSt
<1> HIDE DEF c
<1>3. sctx' \in [SendBlock -> SendCtx]
  BY <1>1, <1>2, BlockTyped
<1> QED BY <1>2, <1>3, RunTyped DEF WorkTyped, SendTypeOK

\* send_work_handler keeps the types, whatever state it finds.
LEMMA WorkStepTyped ==
  ASSUME SendTypeInv, NEW b \in SendBlock, SendWork(b)
  PROVE  SendTypeInv'
<1> USE DEF SendTypeInv
<1>1. CommonTypeOK'
  <2>1. faults' = faults \/ faults' = faults + 1
    BY DEF SendWork, SendFf, SendCf, WorkWaitSt, WorkEnd, WorkIgnored, NoFault, Fault
  <2>2. corrupt' = corrupt \/ corrupt' = TRUE
    BY DEF SendWork, Safe, Corrupt
  <2> QED BY <2>1, <2>2, FaultTyped
<1>2. WorkTyped(b)
  <2>1. CASE SendFf(b) /\ UNCHANGED <<sslab, reports>>
    BY <2>1, SendFfTyped
  <2>2. CASE SendCf(b, [sctx[b] EXCEPT !.timer = FALSE]) /\ UNCHANGED <<sslab, reports>>
    <3>1. sctx[b] \in SendCtx
      BY DEF SendTypeOK
    <3>2. [sctx[b] EXCEPT !.timer = FALSE] \in SendCtx
      BY <3>1, PutTimer
    <3> QED BY <2>2, <3>2, SendCfTyped
  <2>3. CASE WorkWaitSt(b)
    BY <2>3, WaitStTyped
  <2>4. CASE WorkEnd(b, "error") \/ WorkEnd(b, "ok")
    BY <2>4, WorkEndTyped
  <2>5. CASE WorkIgnored
    BY <2>5, RunTyped DEF WorkIgnored, WorkTyped, SendTypeOK
  <2> QED BY <2>1, <2>2, <2>3, <2>4, <2>5 DEF SendWork
<1> QED BY <1>1, <1>2 DEF WorkTyped, SendTypeOK, InHand, SendWork

\* The rest of the work item after send_ff keeps the types.
LEMMA FfQueuedTyped ==
  ASSUME SendTypeInv, SendFfQueued
  PROVE  SendTypeInv'
<1> USE DEF SendTypeInv
<1>1. CommonTypeOK'
  <2>1. faults' = faults
    BY DEF SendFfQueued, NoFault
  <2>2. corrupt' = corrupt \/ corrupt' = TRUE
    BY DEF SendFfQueued, Safe, Corrupt
  <2> QED BY <2>1, <2>2, FaultTyped
<1>2. srun.blk \in SendBlock
  BY DEF InHand, SendFfQueued
<1>3. AwaitFc(sctx[srun.blk]) \in SendCtx
  BY <1>2, AwaitFcTyped DEF SendTypeOK
<1>4. sctx' \in [SendBlock -> SendCtx]
  BY <1>2, <1>3, BlockTyped DEF SendFfQueued
<1> QED BY <1>1, <1>4, RunTyped DEF SendTypeOK, InHand, SendFfQueued

\* Reading backlog keeps the types.
LEMMA CfQueuedTyped ==
  ASSUME SendTypeInv, SendCfQueued
  PROVE  SendTypeInv'
<1> USE DEF SendTypeInv
<1>1. CommonTypeOK'
  <2>1. faults' = faults
    BY DEF SendCfQueued, NoFault
  <2>2. corrupt' = corrupt \/ corrupt' = TRUE
    BY DEF SendCfQueued, Safe, Corrupt
  <2> QED BY <2>1, <2>2, FaultTyped
<1>2. srun.blk \in SendBlock
  BY DEF InHand, SendCfQueued
<1>3. sctx[srun.blk].backlog \in 0..255
  BY <1>2 DEF SendTypeOK, SendCtx
<1>4. /\ srun' \in [pc : {"idle", "ffSent", "cfSent", "cfLoaded", "sem"},
                    blk : SendBlock \cup {NoBlock}, reg : 0..255]
      /\ srun'.blk \in SendBlock
  BY <1>2, <1>3 DEF SendTypeOK, SendCfQueued
<1> QED BY <1>1, <1>4 DEF SendTypeOK, InHand, SendCfQueued

\* Writing back backlog + 1 and going on keeps the types.
LEMMA CfCountedTyped ==
  ASSUME SendTypeInv, SendCfCounted
  PROVE  SendTypeInv'
<1> USE DEF SendTypeInv
<1> DEFINE b == srun.blk
           l == Byte(srun.reg + 1)
           d == [sctx[b] EXCEPT !.backlog = l, !.sn = NextSn(@)]
           c == [sctx[b] EXCEPT !.backlog = l, !.sn = NextSn(@), !.bs = Byte(@ - 1)]
<1>1. CommonTypeOK'
  <2>1. faults' = faults
    BY DEF SendCfCounted, NoFault
  <2>2. corrupt' = corrupt \/ corrupt' = TRUE
    BY DEF SendCfCounted, Safe, Corrupt
  <2> QED BY <2>1, <2>2, FaultTyped
<1>2. b \in SendBlock
  BY DEF InHand, SendCfCounted
<1>3. c \in SendCtx
  <2>1. sctx[b] \in SendCtx
    BY <1>2 DEF SendTypeOK
  <2>2. l \in 0..255
    <3>1. srun.reg \in 0..255
      BY DEF SendTypeOK
    <3>2. srun.reg + 1 \in Int
      BY <3>1
    <3> QED BY <3>2, ByteRange
  <2>3. \A x \in SendCtx : NextSn(x.sn) \in 0..(SnMod - 1) /\ Byte(x.bs - 1) \in 0..255
    <3> TAKE x \in SendCtx
    <3>1. x.sn \in Nat /\ x.bs - 1 \in Int
      BY CommonAssumption DEF SendCtx, CommonAssumption
    <3> QED BY <3>1, SnRange, ByteRange
  <2> HIDE DEF l
  <2>4. [sctx[b] EXCEPT !.backlog = l] \in SendCtx
    BY <2>1, <2>2, PutBacklog, ZenonT(60)
  <2>5. \A x \in SendCtx : [x EXCEPT !.sn = NextSn(x.sn)] \in SendCtx
    BY <2>3, PutSn
  <2>6. \A x \in SendCtx : [x EXCEPT !.bs = Byte(x.bs - 1)] \in SendCtx
    BY <2>3, PutBs
  <2> QED BY <2>4, <2>5, <2>6
<1>4. /\ sctx' \in {[sctx EXCEPT ![b] = AfterLast(c)], [sctx EXCEPT ![b] = AwaitFc(c)],
                   [sctx EXCEPT ![b] = [c EXCEPT !.state = "WAIT_ST"]],
                   [sctx EXCEPT ![b] = c]}
      /\ srun' \in {NoRun, Running("sem", b)}
  BY DEF SendCfCounted
<1> HIDE DEF c
<1>5. AfterLast(c) \in SendCtx /\ AwaitFc(c) \in SendCtx
  BY <1>3, AfterLastTyped, AwaitFcTyped
<1>6. [c EXCEPT !.state = "WAIT_ST"] \in SendCtx
  <2>1. "WAIT_ST" \in TxState
    BY DEF TxState
  <2> QED BY <1>3, <2>1, PutState
<1>7. sctx' \in [SendBlock -> SendCtx]
  BY <1>2, <1>3, <1>4, <1>5, <1>6, BlockTyped
<1>8. /\ srun' \in [pc : {"idle", "ffSent", "cfSent", "cfLoaded", "sem"},
                    blk : SendBlock \cup {NoBlock}, reg : 0..255]
      /\ srun'.pc # "idle" => srun'.blk \in SendBlock
  BY <1>2, <1>4, RunTyped
<1> QED BY <1>1, <1>7, <1>8 DEF SendTypeOK, InHand, SendCfCounted

\* Waking from k_sem_take keeps the types.
LEMMA SemTakenTyped ==
  ASSUME SendTypeInv, SendSemTaken
  PROVE  SendTypeInv'
<1> USE DEF SendTypeInv
<1> DEFINE b == srun.blk c == [sctx[b] EXCEPT !.sem = 0]
<1>1. CommonTypeOK'
  <2>1. faults' = faults \/ faults' = faults + 1
    BY DEF SendSemTaken, SendCf, NoFault, Fault
  <2>2. corrupt' = corrupt \/ corrupt' = TRUE
    BY DEF SendSemTaken, Safe, Corrupt
  <2> QED BY <2>1, <2>2, FaultTyped
<1>2. b \in SendBlock
  BY DEF InHand, SendSemTaken
<1>3. c \in SendCtx
  <2>1. sctx[b] \in SendCtx
    BY <1>2 DEF SendTypeOK
  <2>2. \A x \in SendCtx : [x EXCEPT !.sem = 0] \in SendCtx
    BY DEF SendCtx
  <2> QED BY <2>1, <2>2
<1>4. SendCf(b, c) /\ UNCHANGED <<sslab, reports>>
  BY DEF SendSemTaken
<1> HIDE DEF c
<1>5. WorkTyped(b)
  BY <1>2, <1>3, <1>4, SendCfTyped
<1> QED BY <1>1, <1>5 DEF WorkTyped, SendTypeOK, InHand, SendSemTaken

\* isotp_fast_unbind keeps the types.
LEMMA UnbindTyped ==
  ASSUME SendTypeInv, Unbind
  PROVE  SendTypeInv'
<1> USE DEF SendTypeInv
<1>1. CommonTypeOK'
  <2>1. faults' = faults
    BY DEF Unbind, UnbindStart, UnbindNext, UnbindCancel, UnbindCheck, UnbindCancelAgain, UnbindFree,
           UnbindOrphan, NoFault
  <2>2. corrupt' = corrupt \/ corrupt' = TRUE
    BY DEF Unbind, UnbindStart, UnbindNext, UnbindCancel, UnbindCheck, UnbindCancelAgain, UnbindFree,
           UnbindOrphan, Safe, Corrupt
  <2> QED BY <2>1, <2>2, FaultTyped
<1>2. CASE UnbindStart
  BY <1>1, <1>2 DEF UnbindStart, SendTypeOK, InHand
<1>3. CASE UnbindNext
  <2>1. CASE \E b \in SendBlock, n \in SendBlock \cup {NoBlock} :
               /\ sctx' = [sctx EXCEPT ![b] = [sctx[b] EXCEPT !.timer = FALSE]]
               /\ unb' = [pc |-> "cancel", blk |-> b, nxt |-> n]
    <3>1. PICK b \in SendBlock, n \in SendBlock \cup {NoBlock} :
               /\ sctx' = [sctx EXCEPT ![b] = [sctx[b] EXCEPT !.timer = FALSE]]
               /\ unb' = [pc |-> "cancel", blk |-> b, nxt |-> n]
      BY <2>1
    <3>2. [sctx[b] EXCEPT !.timer = FALSE] \in SendCtx
      <4>1. sctx[b] \in SendCtx
        BY DEF SendTypeOK
      <4> QED BY <4>1, PutTimer
    <3>3. sctx' \in [SendBlock -> SendCtx]
      BY <3>1, <3>2, BlockTyped
    <3> QED BY <1>1, <1>3, <3>1, <3>3 DEF UnbindNext, SendTypeOK, InHand
  <2>2. CASE unb' = [pc |-> "done", blk |-> NoBlock, nxt |-> NoBlock] /\ UNCHANGED sctx
    BY <1>1, <1>3, <2>2 DEF UnbindNext, SendTypeOK, InHand
  <2>3. unb.nxt \in SendBlock \cup {NoBlock}
    BY DEF SendTypeOK
  <2> QED BY <1>3, <2>1, <2>2, <2>3 DEF UnbindNext, Listed
<1>4. CASE UnbindCancel
  BY <1>1, <1>4 DEF UnbindCancel, SendTypeOK, InHand
<1>5. CASE UnbindCheck
  BY <1>1, <1>5 DEF UnbindCheck, SendTypeOK, InHand
<1>8. CASE UnbindCancelAgain
  BY <1>1, <1>8 DEF UnbindCancelAgain, SendTypeOK, InHand
<1>6. CASE UnbindFree
  <2> DEFINE b == unb.blk c == [sctx[b] EXCEPT !.home = "ctx"]
  <2>1. b \in SendBlock
    BY <1>6 DEF InHand, UnbindFree
  <2>2. sctx[b] \in SendCtx
    BY <2>1 DEF SendTypeOK
  <2>3. Freed(sctx[b]) \in SendCtx /\ c \in SendCtx
    BY <2>2, FreedTyped, PutHome
  <2>4. ReportFor(c, "error") /\ sctx' = [sctx EXCEPT ![b] = Freed(sctx[b])]
    BY <1>6 DEF UnbindFree
  <2> HIDE DEF c
  <2>5. sctx' \in [SendBlock -> SendCtx] /\ reports' \in [Msg -> Seq({"ok", "error"})]
    BY <2>1, <2>3, <2>4, BlockTyped, ReportTyped
  <2> QED BY <1>1, <1>6, <2>1, <2>5 DEF UnbindFree, SendTypeOK, InHand
<1>7. CASE UnbindOrphan
  <2>1. unb.blk \in SendBlock
    BY <1>7 DEF InHand, UnbindOrphan
  <2>2. Orphaned(sctx[unb.blk]) \in SendCtx
    BY <2>1, OrphanedTyped DEF SendTypeOK
  <2>3. sctx' \in [SendBlock -> SendCtx]
    BY <1>7, <2>1, <2>2, BlockTyped DEF UnbindOrphan
  <2> QED BY <1>1, <1>7, <2>3 DEF UnbindOrphan, SendTypeOK, InHand
<1> QED BY <1>2, <1>3, <1>4, <1>5, <1>6, <1>7, <1>8 DEF Unbind

\* A bound context starts well-typed, whatever its slab memory holds.
LEMMA InitTyped == CommonInit /\ SendInit => SendTypeInv
<1> SUFFICES ASSUME CommonInit, SendInit PROVE SendTypeInv
  OBVIOUS
<1>1. CommonTypeOK
  BY DEF CommonInit, CommonTypeOK
<1>2. sctx \in [SendBlock -> SendCtx]
  <2>1. PICK a \in Addr, w \in {0, 255} :
       sctx = [b \in SendBlock |->
                 [state |-> "RESET", addr |-> a, data |-> NoMsg, arg |-> NoMsg,
                  rem |-> 0, sn |-> 0, bs |-> 0, wft |-> w, backlog |-> 0,
                  pending |-> 0, sem |-> 0, timer |-> FALSE,
                  home |-> "ctx", list |-> "none"]]
    BY DEF SendInit
  <2>2. 0 \in 0..(SnMod - 1)
    BY CommonAssumption DEF CommonAssumption
  <2> QED BY <2>1, <2>2 DEF SendCtx, TxState
<1>3. /\ reports \in [Msg -> Seq({"ok", "error"})]
      /\ txq \in Seq(Frame)
      /\ aired \in [Msg -> Seq(Int)]
  BY DEF SendInit
<1> QED BY <1>1, <1>2, <1>3, RunTyped DEF SendInit, SendTypeInv, SendTypeOK, InHand, NoApp

\* Every step of the transmitter keeps the types.
LEMMA NextTyped == SendTypeInv /\ [SendNext]_allSendVars => SendTypeInv'
<1> SUFFICES ASSUME SendTypeInv, [SendNext]_allSendVars PROVE SendTypeInv'
  OBVIOUS
<1>1. CASE AppThread
  BY <1>1, GetCtxTyped, MultiTyped, SingleTyped, UnbindTyped DEF AppThread
<1>2. CASE SendWorkQueue
  BY <1>2, WorkStepTyped, FfQueuedTyped, CfQueuedTyped, CfCountedTyped, SemTakenTyped
     DEF SendWorkQueue
<1>3. CASE SendDriver
  BY <1>3, FrameDoneTyped DEF SendDriver, Fault
<1>4. CASE Peers
  BY <1>4, FcTyped, SendAssumption DEF Peers, SendAssumption, FlowControl
<1>5. CASE \E b \in SendBlock : SendTimeout(b)
  BY <1>5, TimeoutTyped
<1>6. CASE UNCHANGED allSendVars
  BY <1>6 DEF allSendVars, sendVars, SendTypeInv, SendTypeOK, CommonTypeOK, InHand
<1> QED BY <1>1, <1>2, <1>3, <1>4, <1>5, <1>6 DEF SendNext

\* In every behaviour, with any faults, spurious flow control, overlapping sends and
\* unbinding, the transmitter's state has its type: in particular the 8-bit counters
\* and the 4-bit sequence number wrap around, and pointers lead to slab blocks.
THEOREM SendTypeCorrect == SendSpec => []SendTypeOK
<1>1. SendTypeInv => SendTypeOK
  BY DEF SendTypeInv
<1> QED BY <1>1, InitTyped, NextTyped, PTL DEF SendSpec, SendStart

-----------------------------------------------------------------------------
(* One block at a time.                                                    *)

\* What a step on another block leaves alone.
Untouched(c) ==
  /\ sctx'[c] = sctx[c]
  /\ c \in sslab' <=> c \in sslab
  /\ c \in swork' <=> c \in swork
  /\ HasFrame(c)' <=> HasFrame(c)
  /\ HasSf(c)' <=> HasSf(c)
  /\ srun' = srun \/ (srun.blk # c /\ srun'.blk # c)
  /\ app' = app \/ (app.blk # c /\ app'.blk # c)
  /\ c \in sslab \/ \A m \in Msg : Dest[m] = sctx[c].addr =>
                                     reports'[m] = reports[m] /\ call'[m] = call[m]

\* A step that leaves a block alone keeps what is known of it: the handlers of
\* one context do not interfere with another.
LEMMA StableBlock == \A c \in SendBlock : BlockInv(c) /\ Untouched(c) => BlockInv(c)'
<1> SUFFICES ASSUME NEW c \in SendBlock, BlockInv(c), Untouched(c) PROVE BlockInv(c)'
  OBVIOUS
<1>1. CASE c \in sslab
  BY <1>1 DEF BlockInv, FreeBlock, Untouched
<1>2. CASE c \notin sslab
  <2>1. /\ sctx'[c].list = "ctx" /\ c \notin sslab' /\ sctx'[c].home = "ctx"
        /\ sctx'[c].pending = IF HasFrame(c)' THEN 1 ELSE 0
        /\ HasSf(c)' => sctx'[c].state = "SEND_FF" /\ srun'.blk # c /\ c \notin swork'
    BY <1>2 DEF BlockInv, UsedBlock, Untouched
  <2>2. app'.blk = c => Fresh(c)'
    BY <1>2 DEF BlockInv, UsedBlock, Untouched, Fresh
  <2>3. \E m \in Msg : Carries(c, m)'
    <3>1. PICK m \in Msg : Carries(c, m)
      BY <1>2 DEF BlockInv, UsedBlock
    <3>2. Carries(c, m)'
      BY <1>2, <3>1 DEF Carries, Untouched
    <3> QED BY <3>2
  <2>4. srun'.blk = c => Working(c)'
    BY <1>2 DEF BlockInv, UsedBlock, Untouched, Working
  <2>5. srun'.blk # c => Waiting(c)'
    BY <1>2 DEF BlockInv, UsedBlock, Untouched, Waiting
  <2> QED BY <2>1, <2>2, <2>3, <2>4, <2>5 DEF BlockInv, UsedBlock
<1> QED BY <1>1, <1>2

\* can_send puts a frame at the end of the driver's queue.
LEMMA AppendQ ==
  \A f \in Frame : txq \in Seq(Frame) /\ txq' = Append(txq, f) =>
     /\ \A c \in SendBlock : HasFrame(c)' <=> (HasFrame(c) \/ f.blk = c)
     /\ \A c \in SendBlock : HasSf(c)' <=> (HasSf(c) \/ (f.blk = c /\ f.kind = "SF"))
     /\ OneFrame /\ ~HasFrame(f.blk) => OneFrame'
<1> SUFFICES ASSUME NEW f \in Frame, txq \in Seq(Frame), txq' = Append(txq, f)
             PROVE  /\ \A c \in SendBlock : HasFrame(c)' <=> (HasFrame(c) \/ f.blk = c)
                    /\ \A c \in SendBlock : HasSf(c)' <=> (HasSf(c) \/ (f.blk = c /\ f.kind = "SF"))
                    /\ OneFrame /\ ~HasFrame(f.blk) => OneFrame'
  OBVIOUS
<1>1. /\ DOMAIN txq = 1..Len(txq) /\ DOMAIN txq' = 1..(Len(txq) + 1) /\ Len(txq) \in Nat
      /\ \A i \in 1..Len(txq) : txq'[i] = txq[i]
      /\ txq'[Len(txq) + 1] = f
  OBVIOUS
<1>2. \A i \in DOMAIN txq' : (i \in DOMAIN txq /\ txq'[i] = txq[i]) \/ (i = Len(txq) + 1 /\ txq'[i] = f)
  <2> TAKE i \in DOMAIN txq'
  <2>1. CASE i = Len(txq) + 1
    BY <1>1, <2>1
  <2>2. CASE i # Len(txq) + 1
    <3>1. i \in 1..(Len(txq) + 1)
      BY <1>1
    <3>2. i \in 1..Len(txq)
      BY <1>1, <2>2, <3>1
    <3>3. i \in DOMAIN txq
      BY <1>1, <3>2
    <3>4. txq'[i] = txq[i]
      BY <1>1, <3>2
    <3> QED BY <3>3, <3>4
  <2> QED BY <2>1, <2>2
<1>3. Len(txq) + 1 \in DOMAIN txq' /\ \A i \in DOMAIN txq : i \in DOMAIN txq'
  BY <1>1
<1>4. \A c \in SendBlock : HasFrame(c)' <=> (HasFrame(c) \/ f.blk = c)
  BY <1>1, <1>2, <1>3 DEF HasFrame
<1>5. \A c \in SendBlock : HasSf(c)' <=> (HasSf(c) \/ (f.blk = c /\ f.kind = "SF"))
  BY <1>1, <1>2, <1>3 DEF HasSf
<1>6. ASSUME OneFrame, ~HasFrame(f.blk) PROVE OneFrame'
  BY <1>2, <1>6 DEF OneFrame, HasFrame
<1> QED BY <1>4, <1>5, <1>6

\* The completion callback takes the frame at the head off the driver's queue; its
\* context has no other.
LEMMA TailQ ==
  \A b \in SendBlock :
    txq \in Seq(Frame) /\ txq # <<>> /\ txq' = Tail(txq) /\ OneFrame /\ b = Head(txq).blk =>
     /\ \A c \in SendBlock \ {b} : (HasFrame(c)' <=> HasFrame(c)) /\ (HasSf(c)' <=> HasSf(c))
     /\ ~HasFrame(b)' /\ ~HasSf(b)' /\ HasFrame(b) /\ (HasSf(b) <=> Head(txq).kind = "SF")
     /\ OneFrame'
<1> SUFFICES ASSUME NEW b \in SendBlock, txq \in Seq(Frame), txq # <<>>, txq' = Tail(txq),
                    OneFrame, b = Head(txq).blk
             PROVE  /\ \A c \in SendBlock \ {b} : (HasFrame(c)' <=> HasFrame(c)) /\ (HasSf(c)' <=> HasSf(c))
                    /\ ~HasFrame(b)' /\ ~HasSf(b)' /\ HasFrame(b) /\ (HasSf(b) <=> Head(txq).kind = "SF")
                    /\ OneFrame'
  OBVIOUS
<1>1. /\ DOMAIN txq = 1..Len(txq) /\ DOMAIN txq' = 1..(Len(txq) - 1) /\ Len(txq) \in Nat \ {0}
      /\ \A i \in 1..(Len(txq) - 1) : txq'[i] = txq[i + 1]
      /\ txq[1] = Head(txq)
  OBVIOUS
<1>2. 1 \in DOMAIN txq
  BY <1>1
<1>3. \A i \in DOMAIN txq' : i + 1 \in DOMAIN txq /\ txq'[i] = txq[i + 1] /\ i + 1 # 1 /\ i \in Int
  BY <1>1
<1>4. \A j \in DOMAIN txq : j = 1 \/ (j - 1 \in DOMAIN txq' /\ txq'[j - 1] = txq[j])
  BY <1>1
<1>5. \A i \in DOMAIN txq : txq[i].blk = b => i = 1
  BY <1>1, <1>2 DEF OneFrame
<1>6. ASSUME NEW c \in SendBlock \ {b}
      PROVE  (HasFrame(c)' <=> HasFrame(c)) /\ (HasSf(c)' <=> HasSf(c))
  <2>1. \A j \in DOMAIN txq : txq[j].blk = c => j # 1
    BY <1>1
  <2>2. HasFrame(c)' => HasFrame(c)
    BY <1>3 DEF HasFrame
  <2>3. HasSf(c)' => HasSf(c)
    BY <1>3 DEF HasSf
  <2>4. HasFrame(c) => HasFrame(c)'
    BY <1>4, <2>1 DEF HasFrame
  <2>5. HasSf(c) => HasSf(c)'
    BY <1>4, <2>1 DEF HasSf
  <2> QED BY <2>2, <2>3, <2>4, <2>5
<1>7. ~HasFrame(b)' /\ ~HasSf(b)'
  <2>1. ASSUME NEW i \in DOMAIN txq' PROVE txq'[i].blk # b
    <3>1. i + 1 \in DOMAIN txq /\ txq'[i] = txq[i + 1] /\ i + 1 # 1
      BY <1>3
    <3> QED BY <1>5, <3>1
  <2> QED BY <2>1 DEF HasFrame, HasSf
<1>8. HasFrame(b) /\ (HasSf(b) <=> Head(txq).kind = "SF")
  BY <1>1, <1>2, <1>5 DEF HasFrame, HasSf
<1>9. OneFrame'
  BY <1>3 DEF OneFrame
<1> QED BY <1>1, <1>6, <1>7, <1>8, <1>9

\* A step that does not touch the driver's queue.
LEMMA SameQ ==
  txq' = txq => /\ \A c \in SendBlock : (HasFrame(c)' <=> HasFrame(c)) /\ (HasSf(c)' <=> HasSf(c))
                /\ OneFrame => OneFrame'
BY DEF HasFrame, HasSf, OneFrame

\* An action on one block: the invariant is left to show for that block and for
\* the relations between blocks.
LEMMA OneBlock == \A b \in SendBlock :
   /\ SendInv /\ BlockInv(b)' /\ \A c \in SendBlock \ {b} : Untouched(c)
   /\ corrupt' = corrupt /\ bound' = bound /\ unb' = unb
   /\ OneFrame' /\ OneContext' /\ Outcomes' /\ Threads'
   => SendInv'
<1> SUFFICES ASSUME NEW b \in SendBlock, SendInv, BlockInv(b)',
                    \A c \in SendBlock \ {b} : Untouched(c),
                    corrupt' = corrupt /\ bound' = bound /\ unb' = unb,
                    OneFrame' /\ OneContext' /\ Outcomes' /\ Threads'
             PROVE  SendInv'
  OBVIOUS
<1>1. ASSUME NEW c \in SendBlock PROVE BlockInv(c)'
  BY StableBlock DEF SendInv
<1> QED BY <1>1 DEF SendInv

\* Freeing contexts and leaving addresses alone keeps one context to an address.
LEMMA SameContexts ==
  OneContext /\ (\A c \in SendBlock : sctx'[c].addr = sctx[c].addr) /\ sslab \subseteq sslab'
  => OneContext'
BY DEF OneContext

\* Another block in use has another address, and the messages sent to it are others.
LEMMA OtherAddr ==
  \A b, c \in SendBlock : SendInv /\ b \notin sslab /\ c \notin sslab /\ b # c
                          => sctx[b].addr # sctx[c].addr
BY DEF SendInv, OneContext

-----------------------------------------------------------------------------
(* The application thread: get_send_ctx and the tail of a multi-frame send. *)

\* The fields of a context.
LEMMA CtxFields ==
  \A c \in SendCtx : DOMAIN c = {"state", "addr", "data", "arg", "rem", "sn", "bs", "wft", "backlog",
                                "pending", "sem", "timer", "home", "list"}
BY DEF SendCtx

\* get_send_ctx sets up a new context.
LEMMA NewFields ==
  \A b \in SendBlock, a \in Addr : sctx[b] \in SendCtx =>
    LET c == NewSendCtx(b, a) IN
    /\ c.addr = a /\ c.home = "ctx" /\ c.list = "ctx"
    /\ c.state = "SEND_FF" /\ c.pending = 0 /\ c.timer = FALSE
BY CtxFields DEF NewSendCtx

\* get_send_ctx: the discipline keeps it from finding a context that is busy.
LEMMA NoneFound ==
  \A m \in Msg : Disciplined /\ SendInv /\ SendGetCtx(m) => Found(Dest[m]) = {}
<1> SUFFICES ASSUME NEW m \in Msg, Disciplined, SendInv, SendGetCtx(m), NEW b \in Found(Dest[m])
             PROVE  FALSE
  OBVIOUS
<1>1. b \in SendBlock /\ sctx[b].list = "ctx" /\ sctx[b].addr = Dest[m]
  BY DEF Found
<1>2. UsedBlock(b)
  BY <1>1 DEF SendInv, BlockInv, FreeBlock
<1>3. PICK n \in Msg : Carries(b, n)
  BY <1>2 DEF UsedBlock
<1>4. n \in Outstanding(Dest[m])
  BY <1>1, <1>3 DEF Outstanding, Carries
<1> QED BY <1>4 DEF Disciplined, SendGetCtx

\* So it takes a free block for the message, or refuses it.
LEMMA GetCtxSafe ==
  \A m \in Msg : Disciplined /\ SendTypeInv /\ SendInv /\ SendGetCtx(m) => SendInv'
<1> SUFFICES ASSUME NEW m \in Msg, Disciplined, SendTypeInv, SendInv, SendGetCtx(m) PROVE SendInv'
  OBVIOUS
<1>1. Found(Dest[m]) = {}
  BY NoneFound
<1>2. \A c \in SendBlock : c \notin sslab => sctx[c].addr # Dest[m]
  BY <1>1 DEF SendInv, BlockInv, UsedBlock, Found
<1>3. /\ UNCHANGED <<swork, srun, reports, txq, bound, unb>>
      /\ call[m] = "none" /\ app = NoApp /\ reports[m] = <<>>
  BY DEF SendGetCtx, SendInv, Outcomes, SendTypeInv, SendTypeOK
<1>4. OneFrame' /\ \A c \in SendBlock : (HasFrame(c)' <=> HasFrame(c)) /\ (HasSf(c)' <=> HasSf(c))
  BY <1>3, SameQ DEF SendInv
<1>7. ASSUME NEW v \in {"busy", "refused"}, call' = [call EXCEPT ![m] = v]
      PROVE  /\ call'[m] = v
             /\ \A n \in Msg : n # m => call'[n] = call[n]
  BY <1>7 DEF SendTypeInv, SendTypeOK
<1>5. CASE UNCHANGED <<sctx, sslab, app>> /\ Safe /\ call' = [call EXCEPT ![m] = "refused"]
  <2>1. ASSUME NEW c \in SendBlock PROVE Untouched(c)
    BY <1>2, <1>3, <1>4, <1>5 DEF Untouched
  <2>2. Outcomes'
    BY <1>3, <1>5, <1>7 DEF SendInv, Outcomes
  <2>3. Threads'
    BY <1>3, <1>5 DEF SendInv, Threads
  <2>4. OneContext'
    BY <1>5, SameContexts DEF SendInv
  <2> QED BY <1>3, <1>4, <1>5, <2>1, <2>2, <2>3, <2>4, StableBlock DEF SendInv, Safe
<1>6. CASE \E b \in sslab :
             /\ app' = [pc |-> IF Cfs[m] = 0 THEN "single" ELSE "fill", blk |-> b, msg |-> m]
             /\ call' = [call EXCEPT ![m] = "busy"]
             /\ sctx' = [sctx EXCEPT ![b] = NewSendCtx(b, Dest[m])]
             /\ sslab' = sslab \ {b}
             /\ IF b \in swork THEN Corrupt ELSE Safe
  <2> PICK b \in sslab :
             /\ app' = [pc |-> IF Cfs[m] = 0 THEN "single" ELSE "fill", blk |-> b, msg |-> m]
             /\ call' = [call EXCEPT ![m] = "busy"]
             /\ sctx' = [sctx EXCEPT ![b] = NewSendCtx(b, Dest[m])]
             /\ sslab' = sslab \ {b}
             /\ IF b \in swork THEN Corrupt ELSE Safe
    BY <1>6
  <2>1. b \in SendBlock /\ FreeBlock(b) /\ b \notin sslab'
    BY DEF SendTypeInv, SendTypeOK, SendInv, BlockInv
  <2>2. /\ sctx'[b] = NewSendCtx(b, Dest[m]) /\ sctx[b] \in SendCtx
        /\ \A c \in SendBlock \ {b} : sctx'[c] = sctx[c]
    BY <2>1 DEF SendTypeInv, SendTypeOK
  <2>3. /\ sctx'[b].addr = Dest[m] /\ sctx'[b].home = "ctx" /\ sctx'[b].list = "ctx"
        /\ sctx'[b].state = "SEND_FF" /\ sctx'[b].pending = 0 /\ sctx'[b].timer = FALSE
    BY <2>1, <2>2, SendAssumption, NewFields DEF SendAssumption
  <2>4. app'.blk = b /\ app'.msg = m /\ app'.pc # "idle" /\ b # NoBlock
    BY <2>1, SendAssumption DEF SendAssumption
  <2>5. ~HasFrame(b)' /\ ~HasSf(b)' /\ b \notin swork' /\ srun'.blk # b
    <3>1. ~HasFrame(b) /\ ~HasSf(b)
      BY <2>1 DEF FreeBlock, HasFrame, HasSf
    <3> QED BY <1>3, <1>4, <2>1, <3>1 DEF FreeBlock
  <2>6. corrupt' = corrupt
    BY <1>3, <2>5 DEF Safe
  <2>7. ASSUME NEW c \in SendBlock \ {b} PROVE Untouched(c)
    <3>1. app'.blk # c /\ app.blk # c
      BY <1>3, <2>4, SendAssumption DEF NoApp, SendAssumption
    <3> QED BY <1>2, <1>3, <1>4, <1>7, <2>1, <2>2, <3>1 DEF Untouched
  <2>8. Carries(b, m)'
    BY <1>3, <1>7, <2>3, <2>4 DEF Carries
  <2>9. Fresh(b)' /\ Waiting(b)'
    BY <2>3, <2>5 DEF Fresh, Waiting
  <2>10. BlockInv(b)'
    BY <2>1, <2>3, <2>5, <2>8, <2>9 DEF BlockInv, UsedBlock
  <2>11. OneContext'
    BY <1>2, <2>1, <2>2, <2>3 DEF SendInv, OneContext
  <2>12. Outcomes' /\ Threads'
    BY <1>3, <1>7, <2>4 DEF SendInv, Outcomes, Threads
  <2> QED BY <1>3, <1>4, <2>1, <2>6, <2>7, <2>10, <2>11, <2>12, OneBlock
<1> QED BY <1>1, <1>5, <1>6 DEF SendGetCtx

\* The context isotp_fast_send has in hand is in use and freshly set up.
LEMMA AppHolds ==
  SendTypeInv /\ SendInv /\ app.pc # "idle" =>
    /\ app.blk \in SendBlock /\ app.blk \notin sslab /\ app.msg \in Msg /\ app.blk # NoBlock
    /\ UsedBlock(app.blk) /\ Fresh(app.blk) /\ sctx[app.blk].home = "ctx"
    /\ Carries(app.blk, app.msg) /\ ~HasSf(app.blk)
<1> SUFFICES ASSUME SendTypeInv, SendInv, app.pc # "idle"
             PROVE  /\ app.blk \in SendBlock /\ app.blk \notin sslab /\ app.msg \in Msg /\ app.blk # NoBlock
                    /\ UsedBlock(app.blk) /\ Fresh(app.blk) /\ sctx[app.blk].home = "ctx"
                    /\ Carries(app.blk, app.msg) /\ ~HasSf(app.blk)
  OBVIOUS
<1>1. app.blk \in SendBlock /\ app.msg \in Msg /\ app.blk # NoBlock
  BY SendAssumption DEF SendTypeInv, InHand, SendAssumption
<1>2. app.blk \notin sslab /\ UsedBlock(app.blk) /\ sctx[app.blk].home = "ctx"
  BY <1>1 DEF SendInv, BlockInv, FreeBlock
<1>3. Fresh(app.blk)
  BY <1>2 DEF UsedBlock
<1>4. Carries(app.blk, app.msg)
  BY <1>2 DEF UsedBlock, Carries
<1>5. ~HasSf(app.blk)
  BY <1>3 DEF Fresh, HasFrame, HasSf
<1> QED BY <1>1, <1>2, <1>3, <1>4, <1>5

\* A message put in a context.
LEMMA LoadedFields ==
  \A c \in SendCtx, m \in Msg :
    LET d == Loaded(c, m) IN
    /\ d.arg = m
    /\ d.addr = c.addr /\ d.home = c.home /\ d.list = c.list /\ d.state = c.state
    /\ d.pending = c.pending /\ d.timer = c.timer
BY CtxFields DEF Loaded

\* The tail of a multi-frame isotp_fast_send: the context gets its first work item.
LEMMA MultiSafe == SendTypeInv /\ SendInv /\ SendMulti => SendInv'
<1> SUFFICES ASSUME SendTypeInv, SendInv, SendMulti, NEW b \in SendBlock, NEW m \in Msg,
                    b = app.blk, m = app.msg
             PROVE  SendInv'
  BY AppHolds DEF SendMulti
<1>1. /\ b \notin sslab /\ b # NoBlock
      /\ UsedBlock(b) /\ Fresh(b) /\ sctx[b].home = "ctx" /\ Carries(b, m) /\ ~HasSf(b)
  BY AppHolds DEF SendMulti
<1>2. /\ sctx' = [sctx EXCEPT ![b] = Loaded(@, m)] /\ swork' = swork \cup {b}
      /\ call' = [call EXCEPT ![m] = "accepted"] /\ app' = NoApp /\ corrupt' = corrupt
      /\ UNCHANGED <<sslab, srun, reports, txq, bound, unb>>
  BY <1>1 DEF SendMulti, Safe
<1>3. /\ sctx[b] \in SendCtx /\ sctx'[b] = Loaded(sctx[b], m)
      /\ \A c \in SendBlock \ {b} : sctx'[c] = sctx[c]
      /\ call'[m] = "accepted" /\ \A n \in Msg \ {m} : call'[n] = call[n]
  BY <1>1, <1>2 DEF SendTypeInv, SendTypeOK
<1>4. OneFrame' /\ \A c \in SendBlock : (HasFrame(c)' <=> HasFrame(c)) /\ (HasSf(c)' <=> HasSf(c))
  BY <1>2, SameQ DEF SendInv
<1>5. app'.blk = NoBlock
  BY <1>2 DEF NoApp
<1>6. ASSUME NEW c \in SendBlock \ {b} PROVE Untouched(c)
  <2>1. c \notin sslab => sctx[c].addr # Dest[m]
    BY <1>1, OtherAddr DEF Carries
  <2> QED BY <1>2, <1>3, <1>4, <1>5, <2>1, SendAssumption DEF Untouched, SendAssumption
<1>7. /\ sctx'[b].arg = m
      /\ sctx'[b].addr = sctx[b].addr /\ sctx'[b].home = sctx[b].home /\ sctx'[b].list = sctx[b].list
      /\ sctx'[b].state = sctx[b].state /\ sctx'[b].pending = sctx[b].pending
  BY <1>1, <1>3, LoadedFields
<1>8. Carries(b, m)'
  BY <1>1, <1>2, <1>3, <1>5, <1>7 DEF Carries
<1>9. ~HasFrame(b)' /\ ~HasSf(b)' /\ srun'.blk # b /\ sctx'[b].state = "SEND_FF"
  BY <1>1, <1>2, <1>4, <1>7 DEF Fresh
<1>10. Waiting(b)'
  BY <1>9 DEF Waiting
<1>11. BlockInv(b)'
  BY <1>1, <1>2, <1>4, <1>5, <1>7, <1>8, <1>9, <1>10 DEF BlockInv, UsedBlock
<1>12. OneContext'
  BY <1>2, <1>3, <1>7, SameContexts DEF SendInv
<1>13. Outcomes' /\ Threads'
  BY <1>1, <1>2, <1>3, <1>5 DEF SendInv, Outcomes, Threads, NoApp
<1> QED BY <1>1, <1>2, <1>4, <1>6, <1>11, <1>12, <1>13, OneBlock

-----------------------------------------------------------------------------
(* Steps of a transfer that goes on, and of one that ends.                 *)

\* A step leaves every block but b alone.
Elsewhere(b) ==
  \A c \in SendBlock \ {b} :
    /\ sctx'[c] = sctx[c] /\ (c \in swork' <=> c \in swork) /\ (c \in sslab' <=> c \in sslab)
    /\ HasFrame(c)' <=> HasFrame(c)
    /\ HasSf(c)' <=> HasSf(c)

\* The work queue thread goes on, takes up b or lets go of it.
RunsOn(b) ==
  \/ srun' = srun
  \/ /\ srun.blk \in {b, NoBlock} /\ srun'.blk \in {b, NoBlock}
     /\ srun'.pc = "idle" <=> srun'.blk = NoBlock
     /\ srun'.pc = "idle" => srun' = NoRun

\* Contexts of the same transfer; the one in b goes on.
Kin(d, c) == d.addr = c.addr /\ d.home = c.home /\ d.list = c.list /\ d.arg = c.arg

SameTransfer(b) == Kin(sctx'[b], sctx[b])

\* A step of a transfer that goes on: only what its own state says about its frame, its
\* work item and its counters is left to show.
LEMMA LiveStep == \A b \in SendBlock :
  /\ SendInv /\ b \notin sslab /\ Elsewhere(b) /\ SameTransfer(b) /\ RunsOn(b)
  /\ UNCHANGED <<sslab, app, call, reports, bound, unb, corrupt>>
  /\ OneFrame'
  /\ sctx'[b].pending = IF HasFrame(b)' THEN 1 ELSE 0
  /\ app.blk = b => Fresh(b)'
  /\ HasSf(b)' => sctx'[b].state = "SEND_FF" /\ srun'.blk # b /\ b \notin swork'
  /\ IF srun'.blk = b THEN Working(b)' ELSE Waiting(b)'
  => SendInv'
<1> SUFFICES ASSUME NEW b \in SendBlock, SendInv, b \notin sslab, Elsewhere(b), SameTransfer(b),
                    RunsOn(b), UNCHANGED <<sslab, app, call, reports, bound, unb, corrupt>>,
                    OneFrame',
                    sctx'[b].pending = IF HasFrame(b)' THEN 1 ELSE 0,
                    app.blk = b => Fresh(b)',
                    HasSf(b)' => sctx'[b].state = "SEND_FF" /\ srun'.blk # b /\ b \notin swork',
                    IF srun'.blk = b THEN Working(b)' ELSE Waiting(b)'
             PROVE  SendInv'
  OBVIOUS
<1>1. UsedBlock(b) /\ sctx[b].home = "ctx"
  BY DEF SendInv, BlockInv
<1>2. ASSUME NEW c \in SendBlock \ {b} PROVE Untouched(c)
  BY SendAssumption DEF Untouched, Elsewhere, RunsOn, SendAssumption
<1>3. \E m \in Msg : Carries(b, m)'
  <2>1. PICK m \in Msg : Carries(b, m)
    BY <1>1 DEF UsedBlock
  <2>2. Carries(b, m)'
    BY <2>1 DEF Carries, SameTransfer, Kin
  <2> QED BY <2>2
<1>4. BlockInv(b)'
  BY <1>1, <1>3 DEF BlockInv, UsedBlock, SameTransfer, Kin
<1>5. OneContext'
  <2>1. \A c \in SendBlock : sctx'[c].addr = sctx[c].addr
    BY DEF Elsewhere, SameTransfer, Kin
  <2> QED BY <2>1, SameContexts DEF SendInv
<1>6. Outcomes' /\ Threads'
  BY DEF SendInv, Outcomes, Threads, RunsOn
<1> QED BY <1>2, <1>4, <1>5, <1>6, OneBlock

\* A step that ends a transfer: report it and free its context.
LEMMA EndStep == \A b \in SendBlock :
  /\ SendTypeInv /\ SendInv /\ b \notin sslab /\ Elsewhere(b) /\ RunsOn(b)
  /\ sslab' = sslab \cup {b} /\ UNCHANGED <<app, call, bound, unb, corrupt>>
  /\ \E r \in {"ok", "error"} : reports' = [reports EXCEPT ![sctx[b].arg] = Append(@, r)]
  /\ OneFrame'
  /\ sctx'[b].addr = sctx[b].addr /\ sctx'[b].home = "ctx"
  /\ sctx'[b].list = "none" /\ ~sctx'[b].timer /\ sctx'[b].pending = 0
  /\ ~HasFrame(b)' /\ b \notin swork' /\ srun'.blk # b /\ app.blk # b
  => SendInv'
<1> SUFFICES ASSUME NEW b \in SendBlock, NEW r \in {"ok", "error"},
                    SendTypeInv, SendInv, b \notin sslab, Elsewhere(b), RunsOn(b),
                    sslab' = sslab \cup {b}, UNCHANGED <<app, call, bound, unb, corrupt>>,
                    reports' = [reports EXCEPT ![sctx[b].arg] = Append(@, r)],
                    OneFrame',
                    sctx'[b].addr = sctx[b].addr /\ sctx'[b].home = "ctx",
                    sctx'[b].list = "none" /\ ~sctx'[b].timer /\ sctx'[b].pending = 0,
                    ~HasFrame(b)' /\ b \notin swork' /\ srun'.blk # b /\ app.blk # b
             PROVE  SendInv'
  OBVIOUS
<1>1. PICK m \in Msg : Carries(b, m)
  BY DEF SendInv, BlockInv, UsedBlock
<1>2. /\ sctx[b].arg = m /\ call[m] = "accepted" /\ Dest[m] = sctx[b].addr /\ reports[m] = <<>>
      /\ reports'[m] = Append(<<>>, r) /\ \A n \in Msg \ {m} : reports'[n] = reports[n]
  BY <1>1, ZenonT(60) DEF Carries, SendTypeInv, SendTypeOK
<1>3. ASSUME NEW c \in SendBlock \ {b} PROVE Untouched(c)
  <2>1. c \notin sslab => sctx[c].addr # Dest[m]
    BY <1>2, OtherAddr
  <2> QED BY <1>2, <2>1, SendAssumption DEF Untouched, Elsewhere, RunsOn, SendAssumption
<1>4. BlockInv(b)'
  BY DEF BlockInv, FreeBlock
<1>5. OneContext'
  <2>1. \A c \in SendBlock : sctx'[c].addr = sctx[c].addr
    BY DEF Elsewhere
  <2> QED BY <2>1, SameContexts DEF SendInv
<1>6. Outcomes'
  <2>1. Len(Append(<<>>, r)) = 1
    OBVIOUS
  <2> QED BY <1>2, <2>1 DEF SendInv, Outcomes
<1>7. Threads'
  BY DEF SendInv, Threads, RunsOn
<1> QED BY <1>3, <1>4, <1>5, <1>6, <1>7, OneBlock

\* The context that the work queue thread has in hand.
LEMMA RunHolds ==
  SendTypeInv /\ SendInv /\ srun.pc # "idle" =>
    /\ srun.blk \in SendBlock /\ srun.blk \notin sslab /\ srun.blk # NoBlock
    /\ UsedBlock(srun.blk) /\ Working(srun.blk) /\ sctx[srun.blk].home = "ctx"
    /\ ~HasSf(srun.blk) /\ app.blk # srun.blk
<1> SUFFICES ASSUME SendTypeInv, SendInv, srun.pc # "idle"
             PROVE  /\ srun.blk \in SendBlock /\ srun.blk \notin sslab /\ srun.blk # NoBlock
                    /\ UsedBlock(srun.blk) /\ Working(srun.blk) /\ sctx[srun.blk].home = "ctx"
                    /\ ~HasSf(srun.blk) /\ app.blk # srun.blk
  OBVIOUS
<1>1. srun.blk \in SendBlock /\ srun.blk # NoBlock
  BY SendAssumption DEF SendTypeInv, InHand, SendAssumption
<1>2. srun.blk \notin sslab /\ UsedBlock(srun.blk) /\ sctx[srun.blk].home = "ctx"
  BY <1>1 DEF SendInv, BlockInv, FreeBlock
<1>3. Working(srun.blk) /\ ~HasSf(srun.blk) /\ app.blk # srun.blk
  BY <1>2 DEF UsedBlock, Fresh
<1> QED BY <1>1, <1>2, <1>3

-----------------------------------------------------------------------------
(* The work queue thread.                                                  *)

\* Waiting for flow control keeps the transfer.
LEMMA AwaitFcFields == \A c \in SendCtx :
  LET d == AwaitFc(c) IN Kin(d, c) /\ d.state = "WAIT_FC" /\ d.pending = c.pending
BY CtxFields DEF AwaitFc, Kin

\* A context written back by the work queue thread or an interrupt, with nothing else done.
LEMMA WriteBack == \A b \in SendBlock, c \in SendCtx :
  SendTypeInv /\ SendInv /\ sctx' = [sctx EXCEPT ![b] = c] /\ UNCHANGED <<sslab, txq>>
  /\ swork' \ {b} = swork \ {b}
  => /\ Elsewhere(b) /\ sctx'[b] = c /\ sctx[b] \in SendCtx /\ OneFrame'
     /\ (HasFrame(b)' <=> HasFrame(b)) /\ (HasSf(b)' <=> HasSf(b))
BY SameQ DEF Elsewhere, SendTypeInv, SendTypeOK, SendInv

\* After send_ff: with a bus slower than the processor, nothing has interfered.
LEMMA FfQueuedSafe == SendTypeInv /\ SendInv /\ SendFfQueued => SendInv'
<1> SUFFICES ASSUME SendTypeInv, SendInv, SendFfQueued, NEW b \in SendBlock, b = srun.blk
             PROVE  SendInv'
  BY RunHolds DEF SendFfQueued
<1>1. /\ b \notin sslab /\ UsedBlock(b) /\ Working(b) /\ ~HasSf(b) /\ app.blk # b /\ b # NoBlock
  BY RunHolds DEF SendFfQueued
<1>2. sctx[b] \in SendCtx
  BY DEF SendTypeInv, SendTypeOK
<1>3. /\ sctx' = [sctx EXCEPT ![b] = AwaitFc(sctx[b])] /\ srun' = NoRun
      /\ UNCHANGED <<sslab, swork, app, call, reports, txq, aired, bound, unb, corrupt>>
  BY <1>1 DEF SendFfQueued, Safe
<1>4. /\ Elsewhere(b) /\ sctx'[b] = AwaitFc(sctx[b]) /\ OneFrame'
      /\ (HasFrame(b)' <=> HasFrame(b)) /\ (HasSf(b)' <=> HasSf(b))
  BY <1>2, <1>3, AwaitFcTyped, WriteBack
<1>5. SameTransfer(b) /\ sctx'[b].state = "WAIT_FC" /\ sctx'[b].pending = sctx[b].pending
  BY <1>2, <1>4, AwaitFcFields DEF SameTransfer
<1>6. RunsOn(b) /\ srun'.blk # b
  BY <1>1, <1>3 DEF RunsOn, NoRun
<1>7. Waiting(b)'
  BY <1>5 DEF Waiting
<1>8. sctx'[b].pending = IF HasFrame(b)' THEN 1 ELSE 0
  BY <1>1, <1>4, <1>5 DEF UsedBlock
<1> QED BY <1>1, <1>3, <1>4, <1>5, <1>6, <1>7, <1>8, LiveStep

\* send_cf, between reading and writing the backlog counter.
LEMMA CfQueuedSafe == SendTypeInv /\ SendInv /\ SendCfQueued => SendInv'
<1> SUFFICES ASSUME SendTypeInv, SendInv, SendCfQueued, NEW b \in SendBlock, b = srun.blk
             PROVE  SendInv'
  BY RunHolds DEF SendCfQueued
<1>1. /\ b \notin sslab /\ UsedBlock(b) /\ Working(b) /\ ~HasSf(b) /\ app.blk # b /\ b # NoBlock
  BY RunHolds DEF SendCfQueued
<1>2. /\ srun' = [srun EXCEPT !.pc = "cfLoaded", !.reg = sctx[b].backlog] /\ srun.pc = "cfSent"
      /\ UNCHANGED <<sctx, sslab, swork, app, call, reports, txq, aired, bound, unb, corrupt>>
  BY <1>1 DEF SendCfQueued, Safe
<1>3. srun'.pc = "cfLoaded" /\ srun'.blk = b /\ srun'.reg = sctx[b].backlog
  BY <1>2 DEF SendTypeInv, SendTypeOK
<1>4. Elsewhere(b) /\ OneFrame' /\ (HasFrame(b)' <=> HasFrame(b)) /\ (HasSf(b)' <=> HasSf(b))
  BY <1>2, SameQ DEF Elsewhere, SendInv
<1>5. SameTransfer(b) /\ RunsOn(b)
  BY <1>1, <1>2, <1>3 DEF SameTransfer, Kin, RunsOn
<1>6. Working(b)'
  BY <1>1, <1>2, <1>3, <1>4 DEF Working
<1>7. sctx'[b].pending = IF HasFrame(b)' THEN 1 ELSE 0
  BY <1>1, <1>2, <1>4 DEF UsedBlock
<1> QED BY <1>1, <1>2, <1>3, <1>4, <1>5, <1>6, <1>7, LiveStep

\* The counters after a consecutive frame.
Counted(c, reg) == [c EXCEPT !.backlog = Byte(reg + 1), !.sn = NextSn(@), !.bs = Byte(@ - 1)]

\* The bookkeeping of send_cf keeps a context a context.
LEMMA CountedTyped == \A c \in SendCtx : Counted(c, 0) \in SendCtx
<1> TAKE c \in SendCtx
<1>1. Byte(0 + 1) \in 0..255 /\ Byte(c.bs - 1) \in 0..255 /\ NextSn(c.sn) \in 0..(SnMod - 1)
  BY ByteRange, SnRange, SMTT(40) DEF Byte, SendCtx
<1>2. [c EXCEPT !.backlog = Byte(0 + 1)] \in SendCtx
  BY <1>1, PutBacklog
<1>3. [[c EXCEPT !.backlog = Byte(0 + 1)] EXCEPT !.sn = NextSn(c.sn)] \in SendCtx
  BY <1>1, <1>2, PutSn
<1>4. [[[c EXCEPT !.backlog = Byte(0 + 1)] EXCEPT !.sn = NextSn(c.sn)] EXCEPT !.bs = Byte(c.bs - 1)] \in SendCtx
  BY <1>1, <1>3, PutBs
<1>5. Counted(c, 0) = [[[c EXCEPT !.backlog = Byte(0 + 1)] EXCEPT !.sn = NextSn(c.sn)] EXCEPT !.bs = Byte(c.bs - 1)]
  BY CtxFields DEF Counted
<1> QED BY <1>4, <1>5

\* It counts the frame just queued and keeps the rest.
LEMMA CountedFields == \A c \in SendCtx :
  LET d == Counted(c, 0) IN
  /\ Kin(d, c) /\ d.state = c.state /\ d.pending = c.pending /\ d.backlog = 1 /\ d.sem = c.sem
BY CtxFields DEF Counted, Kin, Byte

\* After the last consecutive frame the context waits for its callback.
LEMMA AfterLastFields == \A c \in SendCtx :
  LET d == AfterLast(c) IN
  /\ Kin(d, c) /\ d.state = "WAIT_BACKLOG" /\ d.pending = c.pending /\ d.backlog = c.backlog
BY CtxFields DEF AfterLast, Kin

\* Between consecutive frames it waits for the separation time.
LEMMA StFields == \A c \in SendCtx :
  LET d == [c EXCEPT !.state = "WAIT_ST"] IN
  /\ d \in SendCtx
  /\ Kin(d, c) /\ d.state = "WAIT_ST" /\ d.pending = c.pending /\ d.backlog = c.backlog
BY CtxFields DEF Kin, SendCtx, TxState

\* The end of the loop body of send_cf, in its four cases.
LEMMA CfCountedSafe == SendTypeInv /\ SendInv /\ SendCfCounted => SendInv'
<1> SUFFICES ASSUME SendTypeInv, SendInv, SendCfCounted, NEW b \in SendBlock, b = srun.blk
             PROVE  SendInv'
  BY RunHolds DEF SendCfCounted
<1>1. /\ b \notin sslab /\ UsedBlock(b) /\ Working(b) /\ ~HasSf(b) /\ app.blk # b /\ b # NoBlock
  BY RunHolds DEF SendCfCounted
<1>2. /\ srun.reg = 0 /\ HasFrame(b) /\ sctx[b].state = "SEND_CF"
      /\ IF Stmin THEN b \notin swork ELSE sctx[b].sem = 0
  BY <1>1 DEF Working, SendCfCounted
<1>3. /\ UNCHANGED <<sslab, swork, app, call, reports, txq, aired, bound, unb, corrupt>>
      /\ srun' = NoRun \/ srun' = Running("sem", b)
  BY <1>1 DEF SendCfCounted, Safe
<1>4. RunsOn(b)
  BY <1>1, <1>3 DEF RunsOn, NoRun, Running
<1> DEFINE e == Counted(sctx[b], 0)
<1>5. sctx[b] \in SendCtx /\ e \in SendCtx
  BY CountedTyped DEF SendTypeInv, SendTypeOK
<1>6. Kin(e, sctx[b]) /\ e.state = "SEND_CF" /\ e.pending = sctx[b].pending /\ e.backlog = 1 /\ e.sem = sctx[b].sem
  BY <1>2, <1>5, CountedFields
<1>7. \E d \in SendCtx :
        /\ sctx' = [sctx EXCEPT ![b] = d]
        /\ \/ d = AfterLast(e) /\ srun' = NoRun
           \/ d = AwaitFc(e) /\ srun' = NoRun
           \/ d = [e EXCEPT !.state = "WAIT_ST"] /\ srun' = NoRun /\ Stmin
           \/ d = e /\ srun' = Running("sem", b) /\ ~Stmin
  <2>1. /\ AfterLast(e) \in SendCtx /\ AwaitFc(e) \in SendCtx /\ [e EXCEPT !.state = "WAIT_ST"] \in SendCtx
    BY <1>5, AfterLastTyped, AwaitFcTyped, StFields
  <2>2. e = [sctx[b] EXCEPT !.backlog = Byte(srun.reg + 1), !.sn = NextSn(@), !.bs = Byte(@ - 1)]
    BY <1>2 DEF Counted
  <2> HIDE DEF e
  <2> QED BY <1>5, <2>1, <2>2 DEF SendCfCounted
<1> HIDE DEF e
<1>8. PICK d \in SendCtx :
        /\ sctx' = [sctx EXCEPT ![b] = d]
        /\ \/ d = AfterLast(e) /\ srun' = NoRun
           \/ d = AwaitFc(e) /\ srun' = NoRun
           \/ d = [e EXCEPT !.state = "WAIT_ST"] /\ srun' = NoRun /\ Stmin
           \/ d = e /\ srun' = Running("sem", b) /\ ~Stmin
  BY <1>7
<1>9. /\ Elsewhere(b) /\ sctx'[b] = d /\ OneFrame'
      /\ (HasFrame(b)' <=> HasFrame(b)) /\ (HasSf(b)' <=> HasSf(b))
  BY <1>3, <1>8, WriteBack
<1>10. /\ Kin(d, e) /\ d.pending = e.pending
       /\ \/ srun' = NoRun /\ d.state = "WAIT_BACKLOG" /\ d.backlog = 1
          \/ srun' = NoRun /\ d.state = "WAIT_FC"
          \/ srun' = NoRun /\ d.state = "WAIT_ST" /\ Stmin /\ d.backlog = 1
          \/ srun' = Running("sem", b) /\ ~Stmin /\ d.state = "SEND_CF" /\ d.sem = sctx[b].sem /\ d.backlog = 1
  <2>1. CASE d = AfterLast(e) /\ srun' = NoRun
    BY <1>5, <1>6, <2>1, AfterLastFields
  <2>2. CASE d = AwaitFc(e) /\ srun' = NoRun
    BY <1>5, <2>2, AwaitFcFields
  <2>3. CASE d = [e EXCEPT !.state = "WAIT_ST"] /\ srun' = NoRun /\ Stmin
    BY <1>5, <1>6, <2>3, StFields
  <2>4. CASE d = e /\ srun' = Running("sem", b) /\ ~Stmin
    BY <1>6, <2>4 DEF Kin
  <2> QED BY <1>8, <2>1, <2>2, <2>3, <2>4
<1>11. SameTransfer(b) /\ sctx'[b].pending = IF HasFrame(b)' THEN 1 ELSE 0
  BY <1>1, <1>6, <1>9, <1>10 DEF SameTransfer, Kin, UsedBlock
<1>12. IF srun'.blk = b THEN Working(b)' ELSE Waiting(b)'
  <2>1. CASE srun' = NoRun
    <3>1. srun'.blk # b
      BY <1>1, <2>1 DEF NoRun
    <3>2. Waiting(b)'
      BY <1>2, <1>3, <1>9, <1>10, <2>1 DEF Waiting, NoRun, Running
    <3> QED BY <3>1, <3>2
  <2>2. CASE srun' = Running("sem", b)
    <3>1. srun'.blk = b /\ srun'.pc = "sem"
      BY <2>2 DEF Running
    <3>2. ~Stmin /\ d.state = "SEND_CF" /\ d.sem = 0 /\ d.backlog = 1
      BY <1>2, <1>10, <2>2 DEF Running, NoRun
    <3>3. Working(b)'
      BY <1>2, <1>9, <3>1, <3>2 DEF Working
    <3> QED BY <3>1, <3>3
  <2> QED BY <1>3, <2>1, <2>2
<1> QED BY <1>1, <1>3, <1>4, <1>9, <1>11, <1>12, LiveStep

\* Moving past a frame keeps the transfer; so does handing the frame to the driver.
LEMMA AdvanceFields == \A c \in SendCtx :
  LET d == Advance(c) e == [d EXCEPT !.pending = @ + 1] f == [d EXCEPT !.state = "ERR"] IN
  /\ Kin(d, c) /\ d.state = c.state /\ d.pending = c.pending /\ d.backlog = c.backlog /\ d.sem = c.sem
  /\ Kin(e, c) /\ e.state = c.state /\ e.pending = c.pending + 1 /\ e.backlog = c.backlog /\ e.sem = c.sem
  /\ Kin(f, c) /\ f.state = "ERR" /\ f.pending = c.pending
BY CtxFields DEF Advance, Kin

\* send_cf, for a context that has no frame in the driver.
LEMMA SendCfSafe == \A b \in SendBlock, c \in SendCtx :
  /\ SendTypeInv /\ SendInv /\ SendCf(b, c) /\ b \notin sslab /\ ~HasFrame(b)
  /\ Kin(c, sctx[b]) /\ c.state = "SEND_CF" /\ c.pending = 0 /\ c.backlog = 0
  /\ IF Stmin THEN b \notin swork' ELSE c.sem = 0
  /\ srun.blk \in {b, NoBlock} /\ app.blk # b /\ swork' \ {b} = swork \ {b}
  /\ UNCHANGED <<sslab, app, call, reports, bound, unb, corrupt>>
  => SendInv'
<1> SUFFICES ASSUME NEW b \in SendBlock, NEW c \in SendCtx,
                    SendTypeInv, SendInv, SendCf(b, c), b \notin sslab, ~HasFrame(b),
                    Kin(c, sctx[b]), c.state = "SEND_CF", c.pending = 0, c.backlog = 0,
                    IF Stmin THEN b \notin swork' ELSE c.sem = 0,
                    srun.blk \in {b, NoBlock}, app.blk # b, swork' \ {b} = swork \ {b},
                    UNCHANGED <<sslab, app, call, reports, bound, unb, corrupt>>
             PROVE  SendInv'
  OBVIOUS
<1>1. b # NoBlock /\ sctx \in [SendBlock -> SendCtx] /\ txq \in Seq(Frame) /\ ~HasSf(b)
  BY SendAssumption DEF SendAssumption, SendTypeInv, SendTypeOK, HasFrame, HasSf
<1>2. CASE /\ txq' = Append(txq, NextFrame(c, b, "CF", c.sn))
           /\ sctx' = [sctx EXCEPT ![b] = [Advance(c) EXCEPT !.pending = @ + 1]]
           /\ srun' = Running("cfSent", b)
  <2> DEFINE f == NextFrame(c, b, "CF", c.sn)
             d == [Advance(c) EXCEPT !.pending = @ + 1]
  <2>1. f.blk = b /\ f.kind = "CF"
    BY DEF NextFrame
  <2>2. f \in Frame
    <3>1. c.sn \in 0..(SnMod - 1)
      BY DEF SendCtx
    <3> QED BY <3>1, FrameTyped
  <2>3. Kin(d, c) /\ d.state = "SEND_CF" /\ d.pending = 1 /\ d.backlog = 0 /\ d.sem = c.sem
    <3>1. /\ Kin(d, c) /\ d.state = c.state /\ d.pending = c.pending + 1
          /\ d.backlog = c.backlog /\ d.sem = c.sem
      BY AdvanceFields
    <3> HIDE DEF d
    <3> QED BY <3>1
  <2> HIDE DEF f, d
  <2>4. txq' = Append(txq, f) /\ sctx' = [sctx EXCEPT ![b] = d]
    BY <1>2 DEF f, d
  <2>5. /\ \A e \in SendBlock : HasFrame(e)' <=> (HasFrame(e) \/ b = e)
        /\ \A e \in SendBlock : HasSf(e)' <=> HasSf(e)
        /\ OneFrame'
    BY <1>1, <2>1, <2>2, <2>4, AppendQ DEF SendInv
  <2>6. sctx'[b] = d /\ Elsewhere(b)
    BY <1>1, <2>4, <2>5 DEF Elsewhere
  <2>7. SameTransfer(b)
    BY <2>3, <2>6 DEF SameTransfer, Kin
  <2>8. srun'.blk = b /\ srun'.pc = "cfSent"
    BY <1>2 DEF Running
  <2>9. RunsOn(b)
    BY <1>1, <2>8 DEF RunsOn
  <2>10. Working(b)'
    BY <2>3, <2>5, <2>6, <2>8 DEF Working
  <2> QED BY <1>1, <2>3, <2>5, <2>6, <2>7, <2>8, <2>9, <2>10, LiveStep
<1>3. CASE /\ sctx' = [sctx EXCEPT ![b] = [Advance(c) EXCEPT !.state = "ERR"]]
           /\ srun' = NoRun
           /\ UNCHANGED txq
  <2> DEFINE d == [Advance(c) EXCEPT !.state = "ERR"]
  <2>1. Kin(d, c) /\ d.state = "ERR" /\ d.pending = 0
    BY AdvanceFields
  <2> HIDE DEF d
  <2>2. sctx' = [sctx EXCEPT ![b] = d]
    BY <1>3 DEF d
  <2>3. /\ \A e \in SendBlock : (HasFrame(e)' <=> HasFrame(e)) /\ (HasSf(e)' <=> HasSf(e))
        /\ OneFrame'
    BY <1>3, SameQ DEF SendInv
  <2>4. sctx'[b] = d /\ Elsewhere(b)
    BY <1>1, <2>2, <2>3 DEF Elsewhere
  <2>5. SameTransfer(b)
    BY <2>1, <2>4 DEF SameTransfer, Kin
  <2>6. RunsOn(b) /\ srun'.blk # b
    BY <1>1, <1>3 DEF RunsOn, NoRun
  <2>7. Waiting(b)'
    BY <2>1, <2>3, <2>4 DEF Waiting
  <2> QED BY <1>1, <2>1, <2>3, <2>4, <2>5, <2>6, <2>7, LiveStep
<1> QED BY <1>2, <1>3 DEF SendCf

\* k_sem_take consumes the semaphore.
LEMMA SemTaken == \A c \in SendCtx :
  LET d == [c EXCEPT !.sem = 0] IN
  /\ d \in SendCtx
  /\ Kin(d, c) /\ d.state = c.state /\ d.pending = c.pending /\ d.backlog = c.backlog /\ d.sem = 0
BY CtxFields DEF Kin, SendCtx

\* The loop of send_cf goes on only once its last frame has been transmitted.
LEMMA SemTakenSafe == SendTypeInv /\ SendInv /\ SendSemTaken => SendInv'
<1> SUFFICES ASSUME SendTypeInv, SendInv, SendSemTaken, NEW b \in SendBlock, b = srun.blk
             PROVE  SendInv'
  BY RunHolds DEF SendSemTaken
<1>1. /\ b \notin sslab /\ UsedBlock(b) /\ Working(b) /\ app.blk # b /\ sctx[b] \in SendCtx
  BY RunHolds DEF SendSemTaken, SendTypeInv, SendTypeOK
<1>2. /\ SendCf(b, [sctx[b] EXCEPT !.sem = 0]) /\ sctx[b].sem = 1
      /\ UNCHANGED <<sslab, swork, app, call, reports, bound, unb, corrupt>>
  BY <1>1 DEF SendSemTaken, Safe
<1>3. ~HasFrame(b) /\ sctx[b].backlog = 0 /\ ~Stmin /\ sctx[b].state = "SEND_CF" /\ sctx[b].pending = 0
  BY <1>1, <1>2 DEF Working, UsedBlock, SendSemTaken
<1> DEFINE c == [sctx[b] EXCEPT !.sem = 0]
<1>4. /\ c \in SendCtx /\ Kin(c, sctx[b]) /\ c.state = "SEND_CF" /\ c.pending = 0
      /\ c.backlog = 0 /\ c.sem = 0
  BY <1>1, <1>3, SemTaken
<1> HIDE DEF c
<1>5. SendCf(b, c)
  BY <1>2 DEF c
<1> QED BY <1>1, <1>2, <1>3, <1>4, <1>5, SendCfSafe

\* A queued work item belongs to a context in use that no thread works on.
LEMMA QueuedHolds == \A b \in SendBlock :
  SendTypeInv /\ SendInv /\ srun = NoRun /\ b \in swork =>
    /\ b \notin sslab /\ UsedBlock(b) /\ Waiting(b) /\ sctx[b].home = "ctx"
    /\ ~HasSf(b) /\ app.blk # b /\ b # NoBlock /\ sctx[b] \in SendCtx
<1> SUFFICES ASSUME NEW b \in SendBlock, SendTypeInv, SendInv, srun = NoRun, b \in swork
             PROVE  /\ b \notin sslab /\ UsedBlock(b) /\ Waiting(b) /\ sctx[b].home = "ctx"
                    /\ ~HasSf(b) /\ app.blk # b /\ b # NoBlock /\ sctx[b] \in SendCtx
  OBVIOUS
<1>1. b # NoBlock /\ sctx[b] \in SendCtx /\ srun.blk # b
  BY SendAssumption DEF SendAssumption, NoRun, SendTypeInv, SendTypeOK
<1>2. b \notin sslab /\ UsedBlock(b) /\ sctx[b].home = "ctx"
  BY DEF SendInv, BlockInv, FreeBlock
<1> QED BY <1>1, <1>2 DEF UsedBlock, Fresh

\* send_work_handler in state SEND_FF.
LEMMA FfSafe == \A b \in SendBlock :
  /\ SendTypeInv /\ SendInv /\ srun = NoRun /\ b \in swork /\ swork' = swork \ {b}
  /\ sctx[b].state = "SEND_FF" /\ SendFf(b)
  /\ UNCHANGED <<sslab, app, call, reports, bound, unb, corrupt>>
  => SendInv'
<1> SUFFICES ASSUME NEW b \in SendBlock,
                    SendTypeInv, SendInv, srun = NoRun, b \in swork, swork' = swork \ {b},
                    sctx[b].state = "SEND_FF", SendFf(b),
                    UNCHANGED <<sslab, app, call, reports, bound, unb, corrupt>>
             PROVE  SendInv'
  OBVIOUS
<1>1. /\ b \notin sslab /\ UsedBlock(b) /\ Waiting(b)
      /\ ~HasSf(b) /\ app.blk # b /\ b # NoBlock /\ sctx[b] \in SendCtx
      /\ sctx \in [SendBlock -> SendCtx] /\ txq \in Seq(Frame)
  BY QueuedHolds DEF SendTypeInv, SendTypeOK
<1>2. ~HasFrame(b) /\ sctx[b].pending = 0
  BY <1>1 DEF Waiting, UsedBlock
<1> DEFINE c == [sctx[b] EXCEPT !.sn = 1 % SnMod]
<1>3. c \in SendCtx /\ Kin(c, sctx[b]) /\ c.state = "SEND_FF" /\ c.pending = 0
  <2>1. c \in SendCtx
    BY <1>1, SnRange, PutSn
  <2> QED BY <1>1, <1>2, <2>1, CtxFields DEF Kin
<1> HIDE DEF c
<1>4. srun' = Running("ffSent", b) /\ srun'.blk = b /\ srun'.pc = "ffSent" /\ srun.blk = NoBlock
  BY DEF SendFf, Running, NoRun
<1>5. RunsOn(b)
  BY <1>1, <1>4 DEF RunsOn
<1>6. CASE /\ txq' = Append(txq, NextFrame(c, b, "FF", 0))
           /\ sctx' = [sctx EXCEPT ![b] = [Advance(c) EXCEPT !.pending = @ + 1]]
  <2> DEFINE f == NextFrame(c, b, "FF", 0)
             d == [Advance(c) EXCEPT !.pending = @ + 1]
  <2>1. f.blk = b /\ f.kind = "FF"
    BY DEF NextFrame
  <2>2. f \in Frame
    <3>1. 0 \in 0..(SnMod - 1)
      BY CommonAssumption DEF CommonAssumption
    <3> QED BY <1>3, <3>1, FrameTyped
  <2>3. Kin(d, c) /\ d.state = "SEND_FF" /\ d.pending = 1
    <3>1. Kin(d, c) /\ d.state = c.state /\ d.pending = c.pending + 1
      BY <1>3, AdvanceFields
    <3> HIDE DEF d
    <3> QED BY <1>3, <3>1
  <2> HIDE DEF f, d
  <2>4. txq' = Append(txq, f) /\ sctx' = [sctx EXCEPT ![b] = d]
    BY <1>6 DEF f, d
  <2>5. /\ \A e \in SendBlock : HasFrame(e)' <=> (HasFrame(e) \/ b = e)
        /\ \A e \in SendBlock : HasSf(e)' <=> HasSf(e)
        /\ OneFrame'
    BY <1>1, <1>2, <2>1, <2>2, <2>4, AppendQ DEF SendInv
  <2>6. sctx'[b] = d /\ Elsewhere(b)
    BY <1>1, <2>4, <2>5 DEF Elsewhere
  <2>7. SameTransfer(b)
    BY <1>3, <2>3, <2>6 DEF SameTransfer, Kin
  <2>8. Working(b)'
    BY <1>4, <2>3, <2>5, <2>6 DEF Working
  <2> QED BY <1>1, <1>4, <1>5, <2>3, <2>5, <2>6, <2>7, <2>8, LiveStep
<1>7. CASE sctx' = [sctx EXCEPT ![b] = Advance(c)] /\ UNCHANGED txq
  <2> DEFINE d == Advance(c)
  <2>1. Kin(d, c) /\ d.state = "SEND_FF" /\ d.pending = 0
    BY <1>3, AdvanceFields
  <2> HIDE DEF d
  <2>2. sctx' = [sctx EXCEPT ![b] = d]
    BY <1>7 DEF d
  <2>3. /\ \A e \in SendBlock : (HasFrame(e)' <=> HasFrame(e)) /\ (HasSf(e)' <=> HasSf(e))
        /\ OneFrame'
    BY <1>7, SameQ DEF SendInv
  <2>4. sctx'[b] = d /\ Elsewhere(b)
    BY <1>1, <2>2, <2>3 DEF Elsewhere
  <2>5. SameTransfer(b)
    BY <1>3, <2>1, <2>4 DEF SameTransfer, Kin
  <2>6. Working(b)'
    BY <1>4, <2>1, <2>3, <2>4 DEF Working
  <2> QED BY <1>1, <1>2, <1>4, <1>5, <2>1, <2>3, <2>4, <2>5, <2>6, LiveStep
<1> QED BY <1>6, <1>7 DEF SendFf, c

\* The end of a transfer frees its context.
LEMMA EndFields == \A c \in SendCtx :
  LET e == [c EXCEPT !.state = "RESET"] d == Freed(e) IN
  /\ e.home = c.home /\ e.arg = c.arg
  /\ d.home = c.home /\ d.addr = c.addr /\ d.timer = FALSE /\ d.pending = c.pending
  /\ c.list = c.home => d.list = "none"
BY CtxFields DEF Freed

\* send_work_handler in states ERR and WAIT_FIN.
LEMMA EndSafe == \A b \in SendBlock : \A r \in {"ok", "error"} :
  /\ SendTypeInv /\ SendInv /\ srun = NoRun /\ b \in swork /\ swork' = swork \ {b}
  /\ sctx[b].state \in {"ERR", "WAIT_FIN"} /\ WorkEnd(b, r)
  /\ UNCHANGED <<app, call, bound, unb, corrupt>>
  => SendInv'
<1> SUFFICES ASSUME NEW b \in SendBlock, NEW r \in {"ok", "error"},
                    SendTypeInv, SendInv, srun = NoRun, b \in swork, swork' = swork \ {b},
                    sctx[b].state \in {"ERR", "WAIT_FIN"}, WorkEnd(b, r),
                    UNCHANGED <<app, call, bound, unb, corrupt>>
             PROVE  SendInv'
  OBVIOUS
<1>1. /\ b \notin sslab /\ UsedBlock(b) /\ Waiting(b) /\ sctx[b].home = "ctx"
      /\ app.blk # b /\ b # NoBlock /\ sctx[b] \in SendCtx
      /\ sctx \in [SendBlock -> SendCtx]
  BY QueuedHolds DEF SendTypeInv, SendTypeOK
<1>2. ~HasFrame(b) /\ sctx[b].list = "ctx" /\ sctx[b].pending = 0
  BY <1>1 DEF Waiting, UsedBlock
<1> DEFINE e == [sctx[b] EXCEPT !.state = "RESET"]
           d == Freed(e)
<1>3. /\ e.home = "ctx" /\ e.arg = sctx[b].arg
      /\ d.home = "ctx" /\ d.addr = sctx[b].addr /\ d.timer = FALSE /\ d.list = "none"
      /\ d.pending = 0
  BY <1>1, <1>2, EndFields
<1>4. ReportFor(e, r) /\ sctx' = [sctx EXCEPT ![b] = d]
  BY DEF WorkEnd
<1> HIDE DEF d, e
<1>5. sslab' = sslab \cup {b} /\ srun' = NoRun /\ UNCHANGED txq
  BY DEF WorkEnd
<1>6. sctx[b].arg # NoMsg
  <2>1. PICK m \in Msg : Carries(b, m)
    BY <1>1 DEF UsedBlock
  <2> QED BY <1>1, <2>1, CommonAssumption DEF Carries, CommonAssumption
<1>7. reports' = [reports EXCEPT ![sctx[b].arg] = Append(@, r)]
  BY <1>3, <1>4, <1>6 DEF ReportFor
<1>8. /\ \A c \in SendBlock : (HasFrame(c)' <=> HasFrame(c)) /\ (HasSf(c)' <=> HasSf(c))
      /\ OneFrame'
  BY <1>5, SameQ DEF SendInv
<1>9. sctx'[b] = d /\ Elsewhere(b)
  BY <1>1, <1>4, <1>5, <1>8 DEF Elsewhere
<1>10. RunsOn(b) /\ srun'.blk # b
  BY <1>1, <1>5 DEF RunsOn, NoRun
<1> QED BY <1>1, <1>2, <1>3, <1>5, <1>7, <1>8, <1>9, <1>10, EndStep

\* The separation time starts.
LEMMA WaitStFields == \A c \in SendCtx :
  LET d == [c EXCEPT !.timer = TRUE, !.state = "SEND_CF"] IN
  /\ Kin(d, c) /\ d.state = "SEND_CF" /\ d.pending = c.pending /\ d.backlog = c.backlog
BY CtxFields DEF Kin

\* send_work_handler in state SEND_CF stops the timer.
LEMMA StopFields == \A c \in SendCtx :
  LET d == [c EXCEPT !.timer = FALSE] IN
  /\ d \in SendCtx
  /\ Kin(d, c) /\ d.state = c.state /\ d.pending = c.pending /\ d.backlog = c.backlog /\ d.sem = c.sem
<1> TAKE c \in SendCtx
<1>1. [c EXCEPT !.timer = FALSE] \in SendCtx
  BY PutTimer
<1> QED BY <1>1, CtxFields DEF Kin

\* send_work_handler, in every state a queued work item can find.
LEMMA WorkSafe == \A b \in SendBlock : SendTypeInv /\ SendInv /\ SendWork(b) => SendInv'
<1> SUFFICES ASSUME NEW b \in SendBlock, SendTypeInv, SendInv, SendWork(b) PROVE SendInv'
  OBVIOUS
<1>1. srun = NoRun /\ b \in swork /\ swork' = swork \ {b} /\ UNCHANGED <<app, call, bound, unb>>
  BY DEF SendWork
<1>2. /\ b \notin sslab /\ UsedBlock(b) /\ Waiting(b) /\ ~HasSf(b)
      /\ app.blk # b /\ b # NoBlock /\ sctx[b] \in SendCtx /\ sctx \in [SendBlock -> SendCtx]
  BY <1>1, QueuedHolds DEF SendTypeInv, SendTypeOK
<1>3. corrupt' = corrupt
  BY <1>2 DEF SendWork, Safe
<1>4. CASE sctx[b].state = "SEND_FF"
  BY <1>1, <1>3, <1>4, FfSafe DEF SendWork
<1>5. CASE sctx[b].state = "SEND_CF"
  <2> DEFINE c == [sctx[b] EXCEPT !.timer = FALSE]
  <2>1. SendCf(b, c) /\ UNCHANGED <<sslab, reports>>
    BY <1>5 DEF SendWork
  <2>2. ~HasFrame(b) /\ sctx[b].backlog = 0 /\ (Stmin \/ sctx[b].sem = 0) /\ sctx[b].pending = 0
    BY <1>2, <1>5 DEF Waiting, UsedBlock
  <2>3. /\ c \in SendCtx /\ Kin(c, sctx[b]) /\ c.state = "SEND_CF" /\ c.pending = 0
        /\ c.backlog = 0 /\ c.sem = sctx[b].sem
    BY <1>2, <1>5, <2>2, StopFields
  <2> HIDE DEF c
  <2>4. srun.blk = NoBlock
    BY <1>1 DEF NoRun
  <2> QED BY <1>1, <1>2, <1>3, <2>1, <2>2, <2>3, <2>4, SendCfSafe
<1>6. CASE sctx[b].state = "WAIT_ST"
  <2> DEFINE d == [sctx[b] EXCEPT !.timer = TRUE, !.state = "SEND_CF"]
  <2>1. sctx' = [sctx EXCEPT ![b] = d] /\ srun' = NoRun /\ UNCHANGED <<sslab, reports, txq>>
    BY <1>6 DEF SendWork, WorkWaitSt
  <2>2. Kin(d, sctx[b]) /\ d.state = "SEND_CF" /\ d.pending = sctx[b].pending /\ d.backlog = sctx[b].backlog
    BY <1>2, WaitStFields
  <2> HIDE DEF d
  <2>3. ~HasFrame(b) /\ sctx[b].backlog = 0 /\ Stmin /\ sctx[b].pending = 0
    BY <1>1, <1>2, <1>6 DEF Waiting, UsedBlock
  <2>4. /\ \A c \in SendBlock : (HasFrame(c)' <=> HasFrame(c)) /\ (HasSf(c)' <=> HasSf(c))
        /\ OneFrame'
    BY <2>1, SameQ DEF SendInv
  <2>5. sctx'[b] = d /\ Elsewhere(b) /\ RunsOn(b) /\ srun'.blk # b
    BY <1>1, <1>2, <2>1, <2>4 DEF Elsewhere, RunsOn, NoRun
  <2>6. SameTransfer(b) /\ Waiting(b)'
    BY <2>2, <2>3, <2>4, <2>5 DEF SameTransfer, Waiting
  <2> QED BY <1>1, <1>2, <1>3, <2>1, <2>2, <2>3, <2>4, <2>5, <2>6, LiveStep
<1>7. CASE sctx[b].state = "ERR"
  BY <1>1, <1>3, <1>7, EndSafe DEF SendWork
<1>8. CASE sctx[b].state = "WAIT_FIN"
  BY <1>1, <1>3, <1>8, EndSafe DEF SendWork
<1>9. CASE sctx[b].state \in {"RESET", "WAIT_FC", "WAIT_BACKLOG"}
  <2>1. UNCHANGED <<sctx, sslab, reports, txq, srun>>
    BY <1>1, <1>9 DEF SendWork, WorkIgnored
  <2>2. /\ \A c \in SendBlock : (HasFrame(c)' <=> HasFrame(c)) /\ (HasSf(c)' <=> HasSf(c))
        /\ OneFrame'
    BY <2>1, SameQ DEF SendInv
  <2>3. Elsewhere(b) /\ RunsOn(b) /\ SameTransfer(b) /\ srun'.blk # b
    BY <1>1, <1>2, <2>1, <2>2 DEF Elsewhere, RunsOn, SameTransfer, Kin, NoRun
  <2>4. Waiting(b)'
    BY <1>2, <1>9, <2>1, <2>2 DEF Waiting
  <2>5. sctx'[b].pending = IF HasFrame(b)' THEN 1 ELSE 0
    BY <1>2, <2>1, <2>2 DEF UsedBlock
  <2> QED BY <1>1, <1>2, <1>3, <2>1, <2>2, <2>3, <2>4, <2>5, LiveStep
<1> QED BY <1>2, <1>4, <1>5, <1>6, <1>7, <1>8, <1>9 DEF SendCtx, TxState

-----------------------------------------------------------------------------
(* Interrupt handlers.                                                     *)

\* A frame of the context has been transmitted.
Sent(c) == [c EXCEPT !.pending = @ - 1, !.backlog = Byte(@ - 1), !.sem = 1]

\* The bookkeeping of send_can_tx_callback.
LEMMA SentFields == \A c \in SendCtx, s \in TxState :
  LET d == [Sent(c) EXCEPT !.state = s] IN
  /\ Sent(c).state = c.state /\ Sent(c).backlog = Byte(c.backlog - 1)
  /\ Kin(d, c) /\ d.state = s /\ d.pending = c.pending - 1 /\ d.backlog = Byte(c.backlog - 1) /\ d.sem = 1
BY CtxFields DEF Sent, Kin

\* A single frame has been transmitted.
LEMMA SingleEndFields == \A c \in SendCtx :
  LET e == [c EXCEPT !.pending = @ - 1] d == Freed(e) IN
  /\ e.home = c.home /\ e.arg = c.arg
  /\ d.home = c.home /\ d.addr = c.addr /\ d.timer = FALSE /\ d.pending = c.pending - 1
  /\ c.list = c.home => d.list = "none"
BY CtxFields DEF Freed

\* The completion callbacks, isotp_fast_sent_single_cb and send_can_tx_callback, run
\* for a context that is in use and that waits for just this frame.
LEMMA FrameDoneSafe ==
  \A ok \in BOOLEAN : Disciplined /\ SendTypeInv /\ SendInv /\ FrameDone(ok) => SendInv'
<1> SUFFICES ASSUME NEW ok \in BOOLEAN, Disciplined, SendTypeInv, SendInv, FrameDone(ok)
             PROVE  SendInv'
  OBVIOUS
<1>0. Head(txq).blk \in SendBlock
  <2>1. txq \in Seq(Frame) /\ txq # <<>>
    BY DEF FrameDone, SendTypeInv, SendTypeOK
  <2>2. Head(txq) \in Frame
    BY <2>1
  <2> QED BY <2>2 DEF Frame
<1> SUFFICES ASSUME NEW b \in SendBlock, b = Head(txq).blk PROVE SendInv'
  BY <1>0
<1>1. /\ txq \in Seq(Frame) /\ txq # <<>> /\ txq' = Tail(txq) /\ OneFrame
      /\ UNCHANGED <<srun, app, call, bound, unb>>
      /\ srun.blk # b \/ srun.pc = "sem"
  BY DEF FrameDone, SendTypeInv, SendTypeOK, SendInv, Disciplined
<1>2. /\ \A c \in SendBlock \ {b} : (HasFrame(c)' <=> HasFrame(c)) /\ (HasSf(c)' <=> HasSf(c))
      /\ ~HasFrame(b)' /\ ~HasSf(b)' /\ HasFrame(b) /\ (HasSf(b) <=> Head(txq).kind = "SF")
      /\ OneFrame'
  BY <1>1, TailQ
<1>3. /\ b \notin sslab /\ UsedBlock(b) /\ sctx[b].home = "ctx" /\ app.blk # b
      /\ sctx[b] \in SendCtx /\ sctx \in [SendBlock -> SendCtx] /\ sctx[b].pending = 1
      /\ sctx[b].list = "ctx"
  <2>1. b \notin sslab /\ UsedBlock(b) /\ sctx[b].home = "ctx"
    BY <1>2 DEF SendInv, BlockInv, FreeBlock
  <2> QED BY <1>2, <2>1 DEF UsedBlock, Fresh, SendTypeInv, SendTypeOK
<1>4. corrupt' = corrupt
  BY <1>3 DEF FrameDone, Safe
<1>5. RunsOn(b)
  BY <1>1, SMTT(40) DEF RunsOn
<1>6. CASE Head(txq).kind = "SF"
  <2> DEFINE e == [sctx[b] EXCEPT !.pending = @ - 1]
             d == Freed(e)
  <2>1. /\ ReportFor(e, IF ok THEN "ok" ELSE "error") /\ sctx' = [sctx EXCEPT ![b] = d]
        /\ sslab' = sslab \cup {b} /\ UNCHANGED swork
    BY <1>6 DEF FrameDone, SentSingleCb
  <2>2. /\ e.home = "ctx" /\ e.arg = sctx[b].arg
        /\ d.home = "ctx" /\ d.addr = sctx[b].addr /\ d.timer = FALSE /\ d.list = "none"
        /\ d.pending = sctx[b].pending - 1
    BY <1>3, SingleEndFields
  <2> HIDE DEF d, e
  <2>3. sctx[b].arg # NoMsg
    <3>1. PICK m \in Msg : Carries(b, m)
      BY <1>3, SMTT(40) DEF UsedBlock
    <3> QED BY <1>3, <3>1, CommonAssumption DEF Carries, CommonAssumption
  <2>4. \E r \in {"ok", "error"} : reports' = [reports EXCEPT ![sctx[b].arg] = Append(@, r)]
    BY <2>1, <2>2, <2>3 DEF ReportFor
  <2>5. sctx'[b] = d /\ Elsewhere(b)
    BY <1>2, <1>3, <2>1 DEF Elsewhere
  <2>6. b \notin swork' /\ srun'.blk # b
    BY <1>1, <1>2, <1>3, <1>6, <2>1 DEF UsedBlock
  <2>7. d.pending = 0
    BY <1>3, <2>2
  <2> QED BY <1>1, <1>2, <1>3, <1>4, <1>5, <2>1, <2>2, <2>4, <2>5, <2>6, <2>7, EndStep
<1>7. CASE Head(txq).kind # "SF"
  <2> DEFINE c == Sent(sctx[b])
             s == IF sctx[b].state = "WAIT_BACKLOG" /\ c.backlog = 0 THEN "WAIT_FIN" ELSE sctx[b].state
             d == [c EXCEPT !.state = s]
  <2>1. s \in TxState
    BY <1>3 DEF SendCtx, TxState
  <2>2. c.state = sctx[b].state
    BY <1>3, <2>1, SentFields
  <2>3. /\ sctx' = [sctx EXCEPT ![b] = d] /\ UNCHANGED <<sslab, reports>>
        /\ swork' \ {b} = swork \ {b}
    BY <1>7, <2>2 DEF FrameDone, SendCanTxCallback, Sent
  <2>4. /\ c.backlog = Byte(sctx[b].backlog - 1)
        /\ Kin(d, sctx[b]) /\ d.state = s /\ d.pending = 0 /\ d.backlog = Byte(sctx[b].backlog - 1)
        /\ d.sem = 1
    <3>1. /\ c.backlog = Byte(sctx[b].backlog - 1)
          /\ Kin(d, sctx[b]) /\ d.state = s /\ d.pending = sctx[b].pending - 1
          /\ d.backlog = Byte(sctx[b].backlog - 1) /\ d.sem = 1
      BY <1>3, <2>1, SentFields
    <3> HIDE DEF c, d, s
    <3> QED BY <1>3, <3>1
  <2> HIDE DEF c, d
  <2>5. sctx'[b] = d /\ Elsewhere(b)
    BY <1>2, <1>3, <2>3 DEF Elsewhere
  <2>6. SameTransfer(b)
    BY <2>4, <2>5 DEF SameTransfer
  <2>7. Byte(1 - 1) = 0
    BY DEF Byte
  <2>8. CASE srun.blk # b
    <3>1. Waiting(b) /\ srun'.blk # b
      BY <1>1, <1>3, <2>8, SMTT(40) DEF UsedBlock
    <3>2. sctx[b].state \in {"WAIT_FC", "WAIT_ST", "WAIT_BACKLOG"}
      BY <1>2, <1>3, <1>7, <3>1 DEF Waiting, SendCtx, TxState
    <3>3. sctx[b].state \in {"WAIT_ST", "WAIT_BACKLOG"} => sctx[b].backlog = 1
      BY <1>2, <3>1 DEF Waiting
    <3>4. Waiting(b)'
      BY <1>2, <2>4, <2>5, <2>7, <3>1, <3>2, <3>3 DEF Waiting
    <3> QED BY <1>1, <1>2, <1>3, <1>4, <1>5, <2>3, <2>4, <2>5, <2>6, <3>1, <3>4, LiveStep
  <2>9. CASE srun.blk = b
    <3>1. Working(b) /\ srun'.blk = b /\ srun'.pc = "sem"
      BY <1>1, <1>3, <2>9 DEF UsedBlock
    <3>2. sctx[b].state = "SEND_CF" /\ sctx[b].backlog = 1 /\ ~Stmin
      BY <1>1, <1>2, <3>1 DEF Working
    <3>3. Working(b)'
      BY <1>2, <2>4, <2>5, <2>7, <3>1, <3>2 DEF Working
    <3> QED BY <1>1, <1>2, <1>3, <1>4, <1>5, <2>3, <2>4, <2>5, <2>6, <3>1, <3>3, LiveStep
  <2> QED BY <2>8, <2>9, SMTT(40)
<1> QED BY <1>6, <1>7

\* send_process_fc: what flow control makes of a context.
LEMMA FcFields == \A c \in SendCtx, fc \in FlowControl :
  LET e == [c EXCEPT !.timer = FALSE] d == ProcessFc(e, fc) IN
  /\ Kin(d, c) /\ d.pending = c.pending
  /\ \/ d.state = "SEND_CF" /\ d.backlog = 0 /\ d.sem = 0
     \/ d.state \in {c.state, "ERR"}
<1> SUFFICES ASSUME NEW c \in SendCtx, NEW fc \in FlowControl
             PROVE  LET e == [c EXCEPT !.timer = FALSE] d == ProcessFc(e, fc) IN
                    /\ Kin(d, c) /\ d.pending = c.pending
                    /\ \/ d.state = "SEND_CF" /\ d.backlog = 0 /\ d.sem = 0
                       \/ d.state \in {c.state, "ERR"}
  OBVIOUS
<1> DEFINE e == [c EXCEPT !.timer = FALSE]
<1>1. e \in SendCtx /\ Kin(e, c) /\ e.pending = c.pending /\ e.state = c.state
  BY StopFields
<1> HIDE DEF e
<1> DEFINE d == ProcessFc(e, fc)
<1>2. CASE fc.fs = "CTS"
  <2>1. d = [e EXCEPT !.state = "SEND_CF", !.wft = 0, !.backlog = 0, !.sem = 0, !.bs = fc.bs]
    BY <1>2 DEF ProcessFc
  <2> HIDE DEF d
  <2>2. Kin(d, e) /\ d.pending = e.pending /\ d.state = "SEND_CF" /\ d.backlog = 0 /\ d.sem = 0
    BY <1>1, <2>1, CtxFields DEF Kin
  <2> QED BY <1>1, <2>2 DEF Kin, d, e
<1>3. CASE fc.fs = "WAIT"
  <2>1. d = [e EXCEPT !.timer = TRUE, !.wft = Byte(@ + 1),
                      !.state = IF e.wft >= WftMax THEN "ERR" ELSE @]
    BY <1>3 DEF ProcessFc
  <2> HIDE DEF d
  <2>2. Kin(d, e) /\ d.pending = e.pending /\ d.state \in {e.state, "ERR"}
    BY <1>1, <2>1, CtxFields DEF Kin
  <2> QED BY <1>1, <2>2 DEF Kin, d, e
<1>4. CASE fc.fs \notin {"CTS", "WAIT"}
  <2>1. d = [e EXCEPT !.state = "ERR"]
    BY <1>4 DEF ProcessFc
  <2> HIDE DEF d
  <2>2. Kin(d, e) /\ d.pending = e.pending /\ d.state = "ERR"
    BY <1>1, <2>1, CtxFields DEF Kin
  <2> QED BY <1>1, <2>2 DEF Kin, d, e
<1> QED BY <1>2, <1>3, <1>4

\* A context that no frame, work item or thread is busy with takes a new state.
LEMMA QuietStep == \A b \in SendBlock :
  /\ SendTypeInv /\ SendInv /\ b \notin sslab /\ ~HasFrame(b) /\ srun.blk # b /\ app.blk # b
  /\ Elsewhere(b) /\ SameTransfer(b) /\ sctx'[b].pending = sctx[b].pending /\ Waiting(b)'
  /\ UNCHANGED <<sslab, srun, app, call, reports, txq, bound, unb, corrupt>>
  => SendInv'
<1> SUFFICES ASSUME NEW b \in SendBlock, SendTypeInv, SendInv, b \notin sslab, ~HasFrame(b),
                    srun.blk # b, app.blk # b, Elsewhere(b), SameTransfer(b),
                    sctx'[b].pending = sctx[b].pending, Waiting(b)',
                    UNCHANGED <<sslab, srun, app, call, reports, txq, bound, unb, corrupt>>
             PROVE  SendInv'
  OBVIOUS
<1>1. OneFrame' /\ ~HasFrame(b)' /\ ~HasSf(b)'
  BY SameQ DEF SendInv, HasFrame, HasSf
<1>2. sctx'[b].pending = 0 /\ RunsOn(b)
  BY DEF SendInv, BlockInv, UsedBlock, RunsOn
<1> QED BY <1>1, <1>2, LiveStep

\* What send_can_rx does with flow control for a context that waits for it.
Answers(b, a, fc) ==
  /\ b \in SendBlock /\ Found(a) = {b}
  /\ sctx' = [sctx EXCEPT ![b] = ProcessFc([sctx[b] EXCEPT !.timer = FALSE], fc)]
  /\ swork' = swork \cup {b}
  /\ b \notin sslab /\ sctx[b].state = "WAIT_FC" /\ ~HasFrame(b) /\ app.blk # b /\ srun.blk # b
  /\ corrupt' = corrupt
  /\ UNCHANGED <<sslab, srun, app, call, reports, txq, aired, bound, unb>>

\* It finds the one context of the address.
LEMMA FcFinds ==
  ASSUME SendTypeInv, SendInv, NEW a, NEW fc, FcArrives(a, fc),
         NEW x \in Found(a), sctx[x].state = "WAIT_FC", ~HasFrame(x)
  PROVE  Answers(x, a, fc)
<1>2. PICK b \in Found(a) :
       /\ sctx' = [sctx EXCEPT ![b] =
                     IF @.state = "WAIT_FC" THEN ProcessFc([@ EXCEPT !.timer = FALSE], fc)
                                            ELSE [@ EXCEPT !.state = "ERR"]]
       /\ swork' = swork \cup {b}
       /\ IF b \in sslab THEN Corrupt ELSE Safe
  BY DEF FcArrives
<1>4. ASSUME NEW y \in Found(a) PROVE y \in SendBlock /\ y \notin sslab /\ sctx[y].addr = a
  BY DEF Found, SendInv, BlockInv, FreeBlock
<1>5. x = b /\ Found(a) = {b}
  BY <1>4, OtherAddr
<1>6. /\ b \in SendBlock /\ b \notin sslab /\ sctx[b].state = "WAIT_FC" /\ ~HasFrame(b)
      /\ sctx[b] \in SendCtx /\ sctx \in [SendBlock -> SendCtx]
  BY <1>4, <1>5 DEF SendTypeInv, SendTypeOK
<1>7. UsedBlock(b)
  BY <1>6 DEF SendInv, BlockInv
<1>8. app.blk # b /\ srun.blk # b
  <2>1. app.blk # b
    BY <1>6, <1>7 DEF UsedBlock, Fresh
  <2>2. ASSUME srun.blk = b PROVE FALSE
    <3>1. srun.pc \in {"ffSent", "cfSent", "cfLoaded", "sem"} /\ Working(b)
      BY <1>6, <1>7, <2>2, SendAssumption DEF SendAssumption, SendInv, Threads, UsedBlock, SendTypeInv, SendTypeOK
    <3> QED BY <1>6, <3>1 DEF Working
  <2> QED BY <2>1, <2>2
<1>9. sctx' = [sctx EXCEPT ![b] = ProcessFc([sctx[b] EXCEPT !.timer = FALSE], fc)] /\ corrupt' = corrupt
  BY <1>2, <1>6 DEF Safe
<1>10. UNCHANGED <<sslab, srun, app, call, reports, txq, aired, bound, unb>>
  BY DEF FcArrives
<1> QED BY <1>2, <1>5, <1>6, <1>8, <1>9, <1>10 DEF Answers

\* What it makes of the context.
LEMMA AnswerSafe ==
  ASSUME SendTypeInv, SendInv, NEW b, NEW a, NEW fc \in FlowControl, Answers(b, a, fc)
  PROVE  SendInv'
<1>1. /\ b \in SendBlock
      /\ sctx' = [sctx EXCEPT ![b] = ProcessFc([sctx[b] EXCEPT !.timer = FALSE], fc)]
      /\ swork' = swork \cup {b}
      /\ b \notin sslab /\ sctx[b].state = "WAIT_FC" /\ ~HasFrame(b) /\ app.blk # b /\ srun.blk # b
      /\ corrupt' = corrupt
  BY DEF Answers
<1>6. sctx[b] \in SendCtx /\ sctx \in [SendBlock -> SendCtx]
  BY <1>1 DEF SendTypeInv, SendTypeOK
<1> DEFINE d == ProcessFc([sctx[b] EXCEPT !.timer = FALSE], fc)
<1>9. /\ Kin(d, sctx[b]) /\ d.pending = sctx[b].pending
      /\ \/ d.state = "SEND_CF" /\ d.backlog = 0 /\ d.sem = 0
         \/ d.state \in {"WAIT_FC", "ERR"}
  BY <1>1, <1>6, FcFields
<1> HIDE DEF d
<1>10. sctx' = [sctx EXCEPT ![b] = d]
  BY <1>1 DEF d
<1>11. UNCHANGED <<sslab, srun, app, call, reports, txq, bound, unb, corrupt>>
  BY DEF Answers
<1>12. \A c \in SendBlock : (HasFrame(c)' <=> HasFrame(c)) /\ (HasSf(c)' <=> HasSf(c))
  BY <1>11, SameQ
<1>13. sctx'[b] = d /\ Elsewhere(b)
  BY <1>1, <1>6, <1>10, <1>11, <1>12 DEF Elsewhere
<1>14. SameTransfer(b) /\ Waiting(b)'
  BY <1>1, <1>9, <1>12, <1>13 DEF SameTransfer, Waiting
<1> QED BY <1>1, <1>9, <1>11, <1>13, <1>14, QuietStep

\* Awaited flow control answers a first frame, or the last frame of a block, that has
\* been transmitted.
LEMMA AwaitedAnswers ==
  Disciplined /\ SendTypeInv /\ SendInv /\ Peers =>
    \E a \in Addr, fc \in FlowControl, b \in SendBlock :
      Answers(b, a, fc) /\ \E i \in DOMAIN aired[sctx[b].data] : TRUE
<1> SUFFICES ASSUME Disciplined, SendTypeInv, SendInv, Peers
             PROVE  \E a \in Addr, fc \in FlowControl, b \in SendBlock :
                      Answers(b, a, fc) /\ \E i \in DOMAIN aired[sctx[b].data] : TRUE
  OBVIOUS
<1>1. PICK a \in Addr, fc \in FlowControl : Awaited(a) /\ FcArrives(a, fc)
  BY SendAssumption DEF Peers, Disciplined, SendAssumption, FlowControl
<1>2. PICK x \in Found(a) : sctx[x].state = "WAIT_FC" /\ FramesOf(x) = {} /\ \E i \in DOMAIN aired[sctx[x].data] : TRUE
  BY <1>1 DEF Awaited
<1>3. Answers(x, a, fc)
  BY <1>1, <1>2, FcFinds DEF FramesOf, HasFrame
<1> QED BY <1>2, <1>3 DEF Found

\* So a well-behaved peer does no harm.
LEMMA PeersSafe == Disciplined /\ SendTypeInv /\ SendInv /\ Peers => SendInv'
BY AwaitedAnswers, AnswerSafe

\* The timer expires.
LEMMA TimeoutFields == \A c \in SendCtx :
  LET d == [c EXCEPT !.timer = FALSE, !.state = IF @ # "SEND_CF" THEN "ERR" ELSE @] IN
  /\ Kin(d, c) /\ d.pending = c.pending /\ d.backlog = c.backlog /\ d.sem = c.sem
  /\ d.state = IF c.state # "SEND_CF" THEN "ERR" ELSE "SEND_CF"
BY CtxFields DEF Kin

\* send_timeout_handler: a timer that expires late enough finds a quiet context.
LEMMA TimeoutSafe ==
  \A b \in SendBlock : Disciplined /\ SendTypeInv /\ SendInv /\ SendTimeout(b) => SendInv'
<1> SUFFICES ASSUME NEW b \in SendBlock, Disciplined, SendTypeInv, SendInv, SendTimeout(b)
             PROVE  SendInv'
  OBVIOUS
<1>1. sctx[b].timer /\ FramesOf(b) = {} /\ srun.blk # b
  BY DEF SendTimeout, SendQuiet, Disciplined
<1>2. /\ b \notin sslab /\ UsedBlock(b) /\ ~HasFrame(b) /\ app.blk # b
      /\ sctx[b] \in SendCtx /\ sctx \in [SendBlock -> SendCtx]
  <2>1. b \notin sslab /\ UsedBlock(b)
    BY <1>1 DEF SendInv, BlockInv, FreeBlock
  <2>2. app.blk # b
    BY <1>1, <2>1 DEF UsedBlock, Fresh
  <2>3. ~HasFrame(b)
    BY <1>1 DEF FramesOf, HasFrame
  <2> QED BY <2>1, <2>2, <2>3 DEF SendTypeInv, SendTypeOK
<1> DEFINE d == [sctx[b] EXCEPT !.timer = FALSE, !.state = IF @ # "SEND_CF" THEN "ERR" ELSE @]
<1>3. /\ Kin(d, sctx[b]) /\ d.pending = sctx[b].pending /\ d.backlog = sctx[b].backlog /\ d.sem = sctx[b].sem
      /\ d.state = IF sctx[b].state # "SEND_CF" THEN "ERR" ELSE "SEND_CF"
  BY <1>2, TimeoutFields
<1>4. sctx' = [sctx EXCEPT ![b] = d] /\ swork' = swork \cup {b}
  BY DEF SendTimeout
<1> HIDE DEF d
<1>5. UNCHANGED <<sslab, srun, app, call, reports, txq, bound, unb, corrupt>>
  BY <1>2 DEF SendTimeout, Safe
<1>6. \A c \in SendBlock : (HasFrame(c)' <=> HasFrame(c)) /\ (HasSf(c)' <=> HasSf(c))
  BY <1>5, SameQ
<1>7. sctx'[b] = d /\ Elsewhere(b)
  BY <1>2, <1>4, <1>5, <1>6 DEF Elsewhere
<1>8. Waiting(b)
  BY <1>1, <1>2 DEF UsedBlock
<1>9. SameTransfer(b) /\ Waiting(b)'
  BY <1>2, <1>3, <1>6, <1>7, <1>8 DEF SameTransfer, Waiting
<1> QED BY <1>1, <1>2, <1>3, <1>5, <1>7, <1>9, QuietStep

-----------------------------------------------------------------------------
(* The tail of a single-frame send.                                        *)

\* A single frame, queued or refused.
LEMMA SingleFields == \A c \in SendCtx, m \in Msg :
  LET e == [c EXCEPT !.arg = m] d == [e EXCEPT !.pending = @ + 1] f == Freed(e) IN
  /\ e.state = c.state /\ e.pending = c.pending
  /\ d.arg = m /\ d.addr = c.addr /\ d.home = c.home /\ d.list = c.list
  /\ d.state = c.state /\ d.pending = c.pending + 1
  /\ f.addr = c.addr /\ f.home = c.home /\ f.timer = FALSE /\ f.pending = c.pending
  /\ c.list = c.home => f.list = "none"
BY CtxFields DEF Freed

\* The tail of a single-frame isotp_fast_send: queued, or refused and freed.
LEMMA SingleSafe == SendTypeInv /\ SendInv /\ SendSingle => SendInv'
<1> SUFFICES ASSUME SendTypeInv, SendInv, SendSingle, NEW b \in SendBlock, NEW m \in Msg,
                    b = app.blk, m = app.msg
             PROVE  SendInv'
  BY AppHolds DEF SendSingle
<1>1. /\ b \notin sslab /\ b # NoBlock /\ UsedBlock(b) /\ Fresh(b) /\ sctx[b].home = "ctx"
      /\ Carries(b, m) /\ ~HasSf(b) /\ sctx[b] \in SendCtx /\ sctx \in [SendBlock -> SendCtx]
      /\ txq \in Seq(Frame)
  BY AppHolds DEF SendSingle, SendTypeInv, SendTypeOK
<1>2. /\ ~HasFrame(b) /\ sctx[b].pending = 0 /\ sctx[b].state = "SEND_FF" /\ sctx[b].list = "ctx"
      /\ b \notin swork /\ srun.blk # b
  BY <1>1 DEF Fresh, UsedBlock
<1>3. app' = NoApp /\ app'.blk = NoBlock /\ corrupt' = corrupt
      /\ UNCHANGED <<swork, srun, reports, bound, unb>>
  BY <1>1 DEF SendSingle, Safe, NoApp
<1>4. /\ Dest[m] = sctx[b].addr /\ reports[m] = <<>>
      /\ \A c \in SendBlock \ {b} : c \notin sslab => sctx[c].addr # Dest[m]
  BY <1>1, OtherAddr DEF Carries
<1> DEFINE e == [sctx[b] EXCEPT !.arg = m]
           d == [e EXCEPT !.pending = @ + 1]
           g == Freed(e)
<1>5. /\ e.state = "SEND_FF" /\ e.pending = 0
      /\ d.arg = m /\ d.addr = sctx[b].addr /\ d.home = "ctx" /\ d.list = "ctx"
      /\ d.state = "SEND_FF" /\ d.pending = 1
      /\ g.addr = sctx[b].addr /\ g.home = "ctx" /\ g.timer = FALSE /\ g.list = "none"
      /\ g.pending = 0
  <2>1. /\ e.state = sctx[b].state /\ e.pending = sctx[b].pending
        /\ d.arg = m /\ d.addr = sctx[b].addr /\ d.home = sctx[b].home /\ d.list = sctx[b].list
        /\ d.state = sctx[b].state /\ d.pending = sctx[b].pending + 1
        /\ g.addr = sctx[b].addr /\ g.home = sctx[b].home /\ g.timer = FALSE
        /\ g.pending = sctx[b].pending
        /\ sctx[b].list = sctx[b].home => g.list = "none"
    BY <1>1, SingleFields
  <2> HIDE DEF e, d, g
  <2> QED BY <1>1, <1>2, <2>1
<1>6. ASSUME NEW v \in {"accepted", "refused"}, call' = [call EXCEPT ![m] = v]
      PROVE  call'[m] = v /\ \A n \in Msg \ {m} : call'[n] = call[n]
  BY <1>6 DEF SendTypeInv, SendTypeOK
<1>7. CASE /\ txq' = Append(txq, [kind |-> "SF", msg |-> m, idx |-> 0, len |-> 1, sn |-> 0, blk |-> b])
           /\ sctx' = [sctx EXCEPT ![b] = d]
           /\ call' = [call EXCEPT ![m] = "accepted"] /\ UNCHANGED sslab
  <2> DEFINE f == [kind |-> "SF", msg |-> m, idx |-> 0, len |-> 1, sn |-> 0, blk |-> b]
  <2>1. f \in Frame /\ f.blk = b /\ f.kind = "SF"
    BY CommonAssumption DEF CommonAssumption, Frame
  <2>2. txq' = Append(txq, f)
    BY <1>7
  <2> HIDE DEF f, d, e, g
  <2>3. /\ \A c \in SendBlock : HasFrame(c)' <=> (HasFrame(c) \/ b = c)
        /\ \A c \in SendBlock : HasSf(c)' <=> (HasSf(c) \/ b = c)
        /\ OneFrame'
    BY <1>1, <1>2, <2>1, <2>2, AppendQ DEF SendInv
  <2>4. sctx'[b] = d /\ \A c \in SendBlock \ {b} : sctx'[c] = sctx[c]
    BY <1>1, <1>7
  <2>5. ASSUME NEW c \in SendBlock \ {b} PROVE Untouched(c)
    BY <1>1, <1>3, <1>4, <1>6, <1>7, <2>3, <2>4, SendAssumption DEF Untouched, SendAssumption
  <2>6. Carries(b, m)'
    BY <1>1, <1>3, <1>4, <1>5, <1>6, <1>7, <2>4 DEF Carries
  <2>7. Waiting(b)' /\ srun'.blk # b /\ b \notin swork' /\ b \notin sslab'
    BY <1>1, <1>2, <1>3, <1>5, <1>7, <2>3, <2>4 DEF Waiting
  <2>8. BlockInv(b)'
    BY <1>1, <1>3, <1>5, <2>3, <2>4, <2>6, <2>7 DEF BlockInv, UsedBlock
  <2>9. OneContext'
    BY <1>5, <1>7, <2>4, SameContexts DEF SendInv
  <2>10. Outcomes' /\ Threads'
    BY <1>3, <1>4, <1>6, <1>7 DEF SendInv, Outcomes, Threads, NoApp
  <2> QED BY <1>3, <2>3, <2>5, <2>8, <2>9, <2>10, OneBlock
<1>8. CASE /\ sctx' = [sctx EXCEPT ![b] = g] /\ sslab' = sslab \cup {b}
           /\ call' = [call EXCEPT ![m] = "refused"] /\ UNCHANGED txq
  <2> HIDE DEF e, d, g
  <2>1. /\ \A c \in SendBlock : (HasFrame(c)' <=> HasFrame(c)) /\ (HasSf(c)' <=> HasSf(c))
        /\ OneFrame'
    BY <1>8, SameQ DEF SendInv
  <2>2. sctx'[b] = g /\ \A c \in SendBlock \ {b} : sctx'[c] = sctx[c]
    BY <1>1, <1>8
  <2>3. ASSUME NEW c \in SendBlock \ {b} PROVE Untouched(c)
    BY <1>1, <1>3, <1>4, <1>6, <1>8, <2>1, <2>2, SendAssumption DEF Untouched, SendAssumption
  <2>4. BlockInv(b)'
    BY <1>1, <1>2, <1>3, <1>5, <1>8, <2>1, <2>2 DEF BlockInv, FreeBlock
  <2>5. OneContext'
    BY <1>5, <1>8, <2>2, SameContexts DEF SendInv
  <2>6. Outcomes' /\ Threads'
    BY <1>3, <1>4, <1>6, <1>8 DEF SendInv, Outcomes, Threads, NoApp
  <2> QED BY <1>3, <2>1, <2>3, <2>4, <2>5, <2>6, OneBlock
<1> QED BY <1>5, <1>7, <1>8 DEF SendSingle

-----------------------------------------------------------------------------
(* The theorems.                                                           *)

\* isotp_fast_unbind stays out of reach.
LEMMA NoUnbind == Disciplined /\ SendInv => ~Unbind
BY DEF Disciplined, SendInv, Unbind, UnbindStart, UnbindNext, UnbindCancel, UnbindCheck, UnbindCancelAgain, UnbindFree, UnbindOrphan

\* Every block is free when the context has been bound.
LEMMA InitSafe == SendStart => SendInv
<1> SUFFICES ASSUME SendStart PROVE SendInv
  OBVIOUS
<1>1. /\ sslab = SendBlock /\ swork = {} /\ srun = NoRun /\ app = NoApp /\ txq = <<>>
      /\ reports = [m \in Msg |-> <<>>] /\ bound = TRUE /\ unb.pc = "off" /\ corrupt = FALSE
  BY DEF SendStart, CommonInit, SendInit
<1>2. \A b \in SendBlock : sctx[b].list = "none" /\ sctx[b].timer = FALSE /\ sctx[b].home = "ctx" /\ sctx[b].pending = 0
  BY DEF SendStart, SendInit
<1>3. OneFrame /\ \A b \in SendBlock : ~HasFrame(b)
  BY <1>1 DEF OneFrame, HasFrame
<1>4. Outcomes
  BY <1>1 DEF Outcomes
<1>5. Threads
  BY <1>1 DEF Threads, NoRun, NoApp
<1>6. ASSUME NEW b \in SendBlock PROVE BlockInv(b)
  BY <1>1, <1>2, <1>3, SendAssumption DEF BlockInv, FreeBlock, NoRun, NoApp, SendAssumption
<1>7. OneContext
  BY <1>1 DEF OneContext
<1> QED BY <1>1, <1>3, <1>4, <1>5, <1>6, <1>7 DEF SendInv

\* Steps of the rest of the system change nothing.
LEMMA StutterSafe == SendInv /\ UNCHANGED allSendVars => SendInv'
<1> SUFFICES ASSUME SendInv, UNCHANGED allSendVars PROVE SendInv'
  OBVIOUS
<1>1. UNCHANGED <<sctx, sslab, swork, srun, app, call, reports, txq, bound, unb, corrupt>>
  BY DEF allSendVars, sendVars
<1>2. OneFrame' /\ \A c \in SendBlock : (HasFrame(c)' <=> HasFrame(c)) /\ (HasSf(c)' <=> HasSf(c))
  BY <1>1, SameQ DEF SendInv
<1>3. ASSUME NEW c \in SendBlock PROVE BlockInv(c)'
  <2>1. Untouched(c)
    BY <1>1, <1>2 DEF Untouched
  <2> QED BY <2>1, StableBlock DEF SendInv
<1>4. OneContext' /\ Outcomes' /\ Threads'
  BY <1>1 DEF SendInv, OneContext, Outcomes, Threads
<1> QED BY <1>1, <1>2, <1>3, <1>4 DEF SendInv

\* Every step of a disciplined use keeps the invariant.
LEMMA NextSafe == Disciplined /\ SendTypeInv /\ SendInv /\ [SendNext]_allSendVars => SendInv'
<1> SUFFICES ASSUME Disciplined, SendTypeInv, SendInv, [SendNext]_allSendVars PROVE SendInv'
  OBVIOUS
<1>1. CASE AppThread
  BY <1>1, GetCtxSafe, MultiSafe, SingleSafe, NoUnbind DEF AppThread
<1>2. CASE SendWorkQueue
  BY <1>2, WorkSafe, FfQueuedSafe, CfQueuedSafe, CfCountedSafe, SemTakenSafe DEF SendWorkQueue
<1>3. CASE SendDriver
  BY <1>3, FrameDoneSafe DEF SendDriver
<1>4. CASE Peers
  BY <1>4, PeersSafe
<1>5. CASE \E b \in SendBlock : SendTimeout(b)
  BY <1>5, TimeoutSafe
<1>6. CASE UNCHANGED allSendVars
  BY <1>6, StutterSafe
<1> QED BY <1>1, <1>2, <1>3, <1>4, <1>5, <1>6 DEF SendNext

\* The inductive invariant of a disciplined use: one transfer at a time to an address,
\* flow control only when it is awaited, generous timers, a bus slower than the
\* processor, no unbind; with any blocks, messages, block size, separation time and
\* CAN errors.
THEOREM SendSafe == Disciplined => (SendSpec => []SendInv)
<1> SUFFICES ASSUME Disciplined PROVE SendSpec => []SendInv
  OBVIOUS
<1>1. SendStart => SendTypeInv /\ SendInv
  BY InitTyped, InitSafe DEF SendStart
<1>2. SendTypeInv /\ SendInv /\ [SendNext]_allSendVars => (SendTypeInv /\ SendInv)'
  BY NextTyped, NextSafe
<1> QED BY <1>1, <1>2, PTL DEF SendSpec

\* No frame, timer, work item or thread of isotp_fast.c outlives the slab block it
\* points to.
THEOREM SendMemorySafe == Disciplined => (SendSpec => []MemorySafe)
<1>1. SendInv => MemorySafe
  BY DEF SendInv, MemorySafe
<1> QED BY <1>1, SendSafe, PTL

\* sent_callback is called at most once for a message, and memory stays valid, which is the
\* premise of AtMostOneReport.
THEOREM ReportedOnce == Disciplined => (SendSpec => [](MemorySafe /\ AtMostOneReport))
<1>1. SendInv => MemorySafe /\ AtMostOneReport
  BY DEF SendInv, MemorySafe, Outcomes, AtMostOneReport
<1> QED BY <1>1, SendSafe, PTL

\* isotp_fast_internal.h on pending_cb: "a context must not be freed while this is
\* non-zero".
THEOREM FreedIdle == Disciplined => (SendSpec => FreedOnlyWhenIdle)
<1> SUFFICES ASSUME Disciplined PROVE SendSpec => FreedOnlyWhenIdle
  OBVIOUS
<1>1. SendInv' => \A b \in SendBlock : b \notin sslab /\ b \in sslab' => sctx'[b].pending = 0
  BY DEF SendInv, BlockInv, FreeBlock
<1> QED BY <1>1, SendSafe, PTL DEF SendSpec, FreedOnlyWhenIdle

-----------------------------------------------------------------------------
(* isotp_fast_unbind in any use, however it is interrupted, as long as     *)
(* memory stays valid: who owns a context.                                 *)

\* A context in use is on the list of its owner, and one of the orphanage has no message
\* to report.
OwnedBy(b) ==
  LET c == sctx[b] IN
  IF b \in sslab THEN c.list = "none"
  ELSE \/ c.home = "ctx" /\ c.list = "ctx"
       \/ c.home = "orphanage" /\ c.list = "orphanage" /\ c.arg = NoMsg

\* Contexts are orphaned by unbind only, which isotp_fast_send does not overlap; what is
\* left on the list is in unbind's hand or is the context it remembers as the next.
OwnerInv ==
  /\ \A b \in SendBlock : OwnedBy(b) /\ (bound => sctx[b].home = "ctx")
  /\ bound => unb.pc = "off"
  /\ ~bound => app = NoApp
  /\ unb.nxt = NoBlock /\ unb.pc \in {"cancel", "check", "again", "free", "orphan"} =>
       Listed \subseteq {unb.blk}
  /\ unb.pc = "done" \/ (unb.nxt = NoBlock /\ unb.pc = "next") => Listed = {}

\* A step on one context that leaves unbind where it is, and puts nothing on the list.
LEMMA OwnerStep == \A b \in SendBlock :
  /\ OwnerInv /\ (\A c \in SendBlock \ {b} : sctx'[c] = sctx[c] /\ (c \in sslab' <=> c \in sslab))
  /\ OwnedBy(b)' /\ sctx'[b].home = sctx[b].home /\ (sctx'[b].list = "ctx" => sctx[b].list = "ctx")
  /\ app' \in {app, NoApp} /\ UNCHANGED <<bound, unb>>
  => OwnerInv'
<1> SUFFICES ASSUME NEW b \in SendBlock, OwnerInv,
                    \A c \in SendBlock \ {b} : sctx'[c] = sctx[c] /\ (c \in sslab' <=> c \in sslab),
                    OwnedBy(b)', sctx'[b].home = sctx[b].home, sctx'[b].list = "ctx" => sctx[b].list = "ctx",
                    app' \in {app, NoApp}, UNCHANGED <<bound, unb>>
             PROVE  OwnerInv'
  OBVIOUS
<1>1. Listed' \subseteq Listed
  BY DEF Listed
<1>2. \A c \in SendBlock : OwnedBy(c)' /\ (bound => sctx'[c].home = "ctx")
  BY DEF OwnerInv, OwnedBy
<1> QED BY <1>1, <1>2 DEF OwnerInv

\* The transfer goes on.
LEMMA OwnerGoesOn == \A b \in SendBlock, d \in SendCtx :
  /\ SendTypeInv /\ OwnerInv /\ b \notin sslab
  /\ sctx' = [sctx EXCEPT ![b] = d] /\ Kin(d, sctx[b]) /\ UNCHANGED <<sslab, app, bound, unb>>
  => OwnerInv'
<1> SUFFICES ASSUME NEW b \in SendBlock, NEW d \in SendCtx, SendTypeInv, OwnerInv, b \notin sslab,
                    sctx' = [sctx EXCEPT ![b] = d], Kin(d, sctx[b]), UNCHANGED <<sslab, app, bound, unb>>
             PROVE  OwnerInv'
  OBVIOUS
<1>1. sctx'[b] = d /\ \A c \in SendBlock \ {b} : sctx'[c] = sctx[c]
  BY DEF SendTypeInv, SendTypeOK
<1>2. OwnedBy(b)'
  BY <1>1 DEF OwnerInv, OwnedBy, Kin
<1> QED BY <1>1, <1>2, OwnerStep DEF Kin

\* free_send_ctx.
LEMMA OwnerEnds == \A b \in SendBlock :
  /\ SendTypeInv /\ OwnerInv /\ b \notin sslab
  /\ \E d : /\ sctx' = [sctx EXCEPT ![b] = d] /\ d.home = sctx[b].home
            /\ sctx[b].list = sctx[b].home => d.list = "none"
  /\ sslab' = sslab \cup {b} /\ app' \in {app, NoApp} /\ UNCHANGED <<bound, unb>>
  => OwnerInv' /\ Listed' = Listed \ {b}
<1> SUFFICES ASSUME NEW b \in SendBlock, SendTypeInv, OwnerInv, b \notin sslab,
                    NEW d, sctx' = [sctx EXCEPT ![b] = d], d.home = sctx[b].home,
                    sctx[b].list = sctx[b].home => d.list = "none",
                    sslab' = sslab \cup {b}, app' \in {app, NoApp}, UNCHANGED <<bound, unb>>
             PROVE  OwnerInv' /\ Listed' = Listed \ {b}
  OBVIOUS
<1>1. sctx'[b] = d /\ \A c \in SendBlock \ {b} : sctx'[c] = sctx[c]
  BY DEF SendTypeInv, SendTypeOK
<1>2. d.list = "none"
  BY DEF OwnerInv, OwnedBy
<1>3. OwnedBy(b)'
  BY <1>1, <1>2 DEF OwnedBy
<1>4. Listed' = Listed \ {b}
  BY <1>1, <1>2 DEF Listed
<1> QED BY <1>1, <1>2, <1>3, <1>4, OwnerStep

\* isotp_fast_send, until unbind begins.
LEMMA AppOwner ==
  /\ SendTypeInv /\ OwnerInv /\ ~corrupt'
  /\ (\E m \in Msg : SendGetCtx(m)) \/ SendMulti \/ SendSingle
  => OwnerInv'
<1> SUFFICES ASSUME SendTypeInv, OwnerInv, ~corrupt' PROVE
               (\E m \in Msg : SendGetCtx(m)) \/ SendMulti \/ SendSingle => OwnerInv'
  OBVIOUS
<1>0. sctx \in [SendBlock -> SendCtx]
  BY DEF SendTypeInv, SendTypeOK
<1>1. ASSUME NEW m \in Msg, SendGetCtx(m) PROVE OwnerInv'
  <2>1. bound /\ unb.pc = "off" /\ UNCHANGED <<bound, unb>>
    BY <1>1 DEF SendGetCtx, OwnerInv
  <2>2. CASE UNCHANGED <<sctx, sslab>>
    BY <2>1, <2>2 DEF OwnerInv, OwnedBy, Listed
  <2>3. CASE \E b \in sslab : /\ sctx' = [sctx EXCEPT ![b] = NewSendCtx(b, Dest[m])]
                              /\ sslab' = sslab \ {b}
    <3>1. PICK b \in sslab : /\ sctx' = [sctx EXCEPT ![b] = NewSendCtx(b, Dest[m])]
                             /\ sslab' = sslab \ {b}
      BY <2>3
    <3>2. b \in SendBlock /\ Dest[m] \in Addr
      BY SendAssumption DEF SendTypeInv, SendTypeOK, SendAssumption
    <3> DEFINE d == NewSendCtx(b, Dest[m])
    <3>3. d.home = "ctx" /\ d.list = "ctx"
      BY <1>0, <3>2, NewFields
    <3> HIDE DEF d
    <3>4. sctx'[b] = d /\ \A c \in SendBlock \ {b} : sctx'[c] = sctx[c]
      BY <1>0, <3>1, <3>2 DEF d
    <3>5. \A c \in SendBlock : OwnedBy(c)' /\ sctx'[c].home = "ctx"
      BY <2>1, <3>1, <3>2, <3>3, <3>4 DEF OwnerInv, OwnedBy
    <3> QED BY <2>1, <3>5 DEF OwnerInv
  <2> QED BY <1>1, <2>2, <2>3 DEF SendGetCtx
<1>2. ASSUME SendMulti PROVE OwnerInv'
  <2> SUFFICES ASSUME NEW b \in SendBlock, b = app.blk, NEW m \in Msg, m = app.msg PROVE OwnerInv'
    BY <1>2 DEF SendMulti, SendTypeInv, InHand
  <2>1. bound /\ app' = NoApp /\ UNCHANGED <<bound, unb, sslab>>
    BY <1>2 DEF SendMulti, OwnerInv, NoApp
  <2>2. b \notin sslab
    BY <1>2 DEF SendMulti, Corrupt
  <2> DEFINE d == Loaded(sctx[b], m)
  <2>3. sctx' = [sctx EXCEPT ![b] = d]
    BY <1>2 DEF SendMulti
  <2>4. d.home = sctx[b].home /\ d.list = sctx[b].list
    <3>1. sctx[b] \in SendCtx
      BY <1>0
    <3> QED BY <3>1, CtxFields DEF Loaded
  <2> HIDE DEF d
  <2>5. sctx'[b] = d /\ \A c \in SendBlock \ {b} : sctx'[c] = sctx[c]
    BY <1>0, <2>1, <2>3
  <2>6. OwnedBy(b)'
    BY <2>1, <2>2, <2>4, <2>5 DEF OwnerInv, OwnedBy
  <2> QED BY <2>1, <2>4, <2>5, <2>6, OwnerStep
<1>3. ASSUME SendSingle PROVE OwnerInv'
  <2> SUFFICES ASSUME NEW b \in SendBlock, b = app.blk, NEW m \in Msg, m = app.msg PROVE OwnerInv'
    BY <1>3 DEF SendSingle, SendTypeInv, InHand
  <2>1. bound /\ app' = NoApp /\ UNCHANGED <<bound, unb>>
    BY <1>3 DEF SendSingle, OwnerInv, NoApp
  <2>2. b \notin sslab
    BY <1>3 DEF SendSingle, Corrupt
  <2> DEFINE e == [sctx[b] EXCEPT !.arg = m] d == [e EXCEPT !.pending = @ + 1] g == Freed(e)
  <2>3. /\ e.home = sctx[b].home /\ e.list = sctx[b].list /\ d.home = sctx[b].home /\ d.list = sctx[b].list
        /\ g.home = sctx[b].home /\ (sctx[b].list = sctx[b].home => g.list = "none")
    <3>1. sctx[b] \in SendCtx
      BY <1>0
    <3> QED BY <3>1, CtxFields DEF Freed
  <2>4. ASSUME NEW x, sctx' = [sctx EXCEPT ![b] = x], x.home = sctx[b].home, x.list = sctx[b].list,
               sslab' = sslab
        PROVE  OwnerInv'
    <3>1. sctx'[b] = x /\ \A c \in SendBlock \ {b} : sctx'[c] = sctx[c]
      BY <1>0, <2>4
    <3>2. OwnedBy(b)'
      BY <2>1, <2>2, <2>4, <3>1 DEF OwnerInv, OwnedBy
    <3> QED BY <2>1, <2>4, <3>1, <3>2, OwnerStep
  <2>5. \/ sctx' = [sctx EXCEPT ![b] = d] /\ sslab' = sslab
        \/ sctx' = [sctx EXCEPT ![b] = e] /\ sslab' = sslab
        \/ sctx' = [sctx EXCEPT ![b] = g] /\ sslab' = sslab \cup {b}
    BY <1>3 DEF SendSingle
  <2> HIDE DEF d, e, g
  <2>6. CASE sctx' = [sctx EXCEPT ![b] = g] /\ sslab' = sslab \cup {b}
    BY <2>1, <2>2, <2>3, <2>6, OwnerEnds
  <2> QED BY <2>3, <2>4, <2>5, <2>6
<1> QED BY <1>1, <1>2, <1>3

\* send_cf.
LEMMA SendCfOwner == \A b \in SendBlock, c \in SendCtx :
  /\ SendTypeInv /\ OwnerInv /\ b \notin sslab /\ Kin(c, sctx[b]) /\ SendCf(b, c)
  /\ UNCHANGED <<sslab, app, bound, unb>>
  => OwnerInv'
<1> SUFFICES ASSUME NEW b \in SendBlock, NEW c \in SendCtx, SendTypeInv, OwnerInv, b \notin sslab,
                    Kin(c, sctx[b]), SendCf(b, c), UNCHANGED <<sslab, app, bound, unb>>
             PROVE  OwnerInv'
  OBVIOUS
<1> DEFINE d == [Advance(c) EXCEPT !.pending = @ + 1] e == [Advance(c) EXCEPT !.state = "ERR"]
<1>1. Kin(d, c) /\ Kin(e, c)
  BY AdvanceFields
<1>2. d \in SendCtx /\ e \in SendCtx
  <2>1. Advance(c) \in SendCtx
    BY AdvanceTyped
  <2>2. \A x \in SendCtx : [x EXCEPT !.pending = @ + 1] \in SendCtx /\ [x EXCEPT !.state = "ERR"] \in SendCtx
    BY DEF SendCtx, TxState
  <2> QED BY <2>1, <2>2
<1>3. sctx' = [sctx EXCEPT ![b] = d] \/ sctx' = [sctx EXCEPT ![b] = e]
  BY DEF SendCf
<1> HIDE DEF d, e
<1>4. Kin(d, sctx[b]) /\ Kin(e, sctx[b])
  BY <1>1 DEF Kin
<1> QED BY <1>2, <1>3, <1>4, OwnerGoesOn

\* A context of the orphanage has nobody to report to.
LEMMA OwnerReports == \A b \in SendBlock, r \in {"ok", "error"} : \A c :
  /\ OwnerInv /\ b \notin sslab /\ c.home = sctx[b].home /\ c.arg = sctx[b].arg /\ ReportFor(c, r)
  => (Listed = {} => UNCHANGED reports)
<1> SUFFICES ASSUME NEW b \in SendBlock, NEW r \in {"ok", "error"}, NEW c, OwnerInv, b \notin sslab,
                    c.home = sctx[b].home, c.arg = sctx[b].arg, ReportFor(c, r), Listed = {}
             PROVE  UNCHANGED reports
  OBVIOUS
<1>1. sctx[b].list # "ctx"
  BY DEF Listed
<1>2. c.arg = NoMsg
  BY <1>1 DEF OwnerInv, OwnedBy
<1> QED BY <1>2 DEF ReportFor

\* When unbind has returned no context of the owner is left to report for.
Silent == Listed = {} => UNCHANGED reports

\* send_work_handler.
LEMMA WorkOwner == \A b \in SendBlock :
  SendTypeInv /\ OwnerInv /\ ~corrupt' /\ SendWork(b) => OwnerInv' /\ Silent
<1> SUFFICES ASSUME NEW b \in SendBlock, SendTypeInv, OwnerInv, ~corrupt', SendWork(b)
             PROVE  OwnerInv' /\ Silent
  OBVIOUS
<1>1. /\ b \notin sslab /\ sctx[b] \in SendCtx /\ sctx \in [SendBlock -> SendCtx]
      /\ UNCHANGED <<app, bound, unb>>
  BY DEF SendWork, Corrupt, SendTypeInv, SendTypeOK
<1>2. CASE SendFf(b) /\ UNCHANGED <<sslab, reports>>
  <2> DEFINE c == [sctx[b] EXCEPT !.sn = 1 % SnMod] d == [Advance(c) EXCEPT !.pending = @ + 1] e == Advance(c)
  <2>1. c \in SendCtx /\ Kin(c, sctx[b])
    <3>1. 1 % SnMod \in 0..(SnMod - 1)
      BY SnRange
    <3> QED BY <1>1, <3>1, PutSn, CtxFields DEF Kin
  <2>2. sctx' = [sctx EXCEPT ![b] = d] \/ sctx' = [sctx EXCEPT ![b] = e]
    BY <1>2 DEF SendFf
  <2> HIDE DEF c
  <2>3. Kin(d, c) /\ Kin(e, c)
    BY <2>1, AdvanceFields
  <2>4. d \in SendCtx /\ e \in SendCtx
    <3>1. Advance(c) \in SendCtx
      BY <2>1, AdvanceTyped
    <3>2. \A x \in SendCtx : [x EXCEPT !.pending = @ + 1] \in SendCtx
      BY DEF SendCtx
    <3> QED BY <3>1, <3>2
  <2> HIDE DEF d, e
  <2>5. Kin(d, sctx[b]) /\ Kin(e, sctx[b])
    BY <2>1, <2>3 DEF Kin
  <2> QED BY <1>1, <1>2, <2>2, <2>4, <2>5, OwnerGoesOn DEF Silent
<1>3. CASE SendCf(b, [sctx[b] EXCEPT !.timer = FALSE]) /\ UNCHANGED <<sslab, reports>>
  BY <1>1, <1>3, StopFields, SendCfOwner DEF Silent
<1>4. CASE WorkWaitSt(b)
  <2> DEFINE d == [sctx[b] EXCEPT !.timer = TRUE, !.state = "SEND_CF"]
  <2>1. d \in SendCtx
    <3>1. [sctx[b] EXCEPT !.timer = TRUE] \in SendCtx /\ "SEND_CF" \in TxState
      BY <1>1, PutTimer DEF TxState
    <3>2. [[sctx[b] EXCEPT !.timer = TRUE] EXCEPT !.state = "SEND_CF"] \in SendCtx
      BY <3>1, PutState
    <3> QED BY <3>2
  <2>2. Kin(d, sctx[b])
    BY <1>1, WaitStFields
  <2>3. sctx' = [sctx EXCEPT ![b] = d] /\ UNCHANGED <<sslab, reports>>
    BY <1>4 DEF WorkWaitSt
  <2> HIDE DEF d
  <2> QED BY <1>1, <2>1, <2>2, <2>3, OwnerGoesOn DEF Silent
<1>5. ASSUME NEW r \in {"ok", "error"}, WorkEnd(b, r) PROVE OwnerInv' /\ Silent
  <2> DEFINE e == [sctx[b] EXCEPT !.state = "RESET"] d == Freed(e)
  <2>1. /\ e.home = sctx[b].home /\ e.arg = sctx[b].arg /\ d.home = sctx[b].home
        /\ sctx[b].list = sctx[b].home => d.list = "none"
    BY <1>1, EndFields
  <2>2. ReportFor(e, r) /\ sctx' = [sctx EXCEPT ![b] = d] /\ sslab' = sslab \cup {b}
    BY <1>5 DEF WorkEnd
  <2> HIDE DEF e, d
  <2>3. Silent
    BY <1>1, <2>1, <2>2, OwnerReports DEF Silent
  <2> QED BY <1>1, <2>1, <2>2, <2>3, OwnerEnds
<1>6. CASE WorkIgnored
  <2>1. UNCHANGED <<sctx, sslab, reports>>
    BY <1>6 DEF WorkIgnored
  <2>2. OwnerInv'
    BY <1>1, <2>1 DEF OwnerInv, OwnedBy, Listed
  <2> QED BY <2>1, <2>2 DEF Silent
<1>7. \/ SendFf(b) /\ UNCHANGED <<sslab, reports>>
      \/ SendCf(b, [sctx[b] EXCEPT !.timer = FALSE]) /\ UNCHANGED <<sslab, reports>>
      \/ WorkWaitSt(b) \/ WorkEnd(b, "error") \/ WorkEnd(b, "ok") \/ WorkIgnored
  BY DEF SendWork
<1> QED BY <1>2, <1>3, <1>4, <1>5, <1>6, <1>7

\* The rest of send_state_machine.
LEMMA ThreadOwner ==
  /\ SendTypeInv /\ OwnerInv /\ ~corrupt'
  /\ SendFfQueued \/ SendCfQueued \/ SendCfCounted \/ SendSemTaken
  => OwnerInv' /\ Silent
<1> SUFFICES ASSUME SendTypeInv, OwnerInv, ~corrupt',
                    SendFfQueued \/ SendCfQueued \/ SendCfCounted \/ SendSemTaken
             PROVE  OwnerInv' /\ Silent
  OBVIOUS
<1> SUFFICES ASSUME NEW b \in SendBlock, b = srun.blk PROVE OwnerInv' /\ Silent
  BY DEF SendFfQueued, SendCfQueued, SendCfCounted, SendSemTaken, SendTypeInv, InHand
<1>1. /\ b \notin sslab /\ sctx[b] \in SendCtx /\ sctx \in [SendBlock -> SendCtx]
      /\ UNCHANGED <<sslab, app, reports, bound, unb>> /\ srun.reg \in 0..255
  BY DEF SendFfQueued, SendCfQueued, SendCfCounted, SendSemTaken, Corrupt, SendTypeInv, SendTypeOK
<1>2. CASE SendFfQueued
  <2>1. sctx' = [sctx EXCEPT ![b] = AwaitFc(sctx[b])]
    BY <1>2 DEF SendFfQueued
  <2> QED BY <1>1, <2>1, AwaitFcFields, AwaitFcTyped, OwnerGoesOn DEF Silent
<1>3. CASE SendCfQueued
  <2>1. UNCHANGED sctx
    BY <1>3 DEF SendCfQueued
  <2>2. OwnerInv'
    BY <1>1, <2>1 DEF OwnerInv, OwnedBy, Listed
  <2> QED BY <1>1, <2>2 DEF Silent
<1>4. CASE SendCfCounted
  <2> DEFINE c == [sctx[b] EXCEPT !.backlog = Byte(srun.reg + 1), !.sn = NextSn(@), !.bs = Byte(@ - 1)]
  <2>1. Kin(c, sctx[b])
    BY <1>1, CtxFields DEF Kin
  <2>2. c \in SendCtx
    <3>1. Byte(srun.reg + 1) \in 0..255 /\ Byte(sctx[b].bs - 1) \in 0..255 /\ NextSn(sctx[b].sn) \in 0..(SnMod - 1)
      <4>1. sctx[b].bs \in 0..255 /\ sctx[b].sn \in 0..(SnMod - 1) /\ srun.reg \in 0..255
        BY <1>1 DEF SendCtx
      <4>2. \A r \in 0..255, n \in 0..(SnMod - 1) : r + 1 \in Int /\ r - 1 \in Int /\ n \in Nat
        BY CommonAssumption, SMTT(40) DEF CommonAssumption
      <4> QED BY <4>1, <4>2, ByteRange, SnRange, ZenonT(60)
    <3>2. [sctx[b] EXCEPT !.backlog = Byte(srun.reg + 1)] \in SendCtx
      BY <1>1, <3>1, PutBacklog
    <3>3. [[sctx[b] EXCEPT !.backlog = Byte(srun.reg + 1)] EXCEPT !.sn = NextSn(sctx[b].sn)] \in SendCtx
      BY <3>1, <3>2, PutSn
    <3>4. [[[sctx[b] EXCEPT !.backlog = Byte(srun.reg + 1)] EXCEPT !.sn = NextSn(sctx[b].sn)]
             EXCEPT !.bs = Byte(sctx[b].bs - 1)] \in SendCtx
      BY <3>1, <3>3, PutBs
    <3>5. c = [[[sctx[b] EXCEPT !.backlog = Byte(srun.reg + 1)] EXCEPT !.sn = NextSn(sctx[b].sn)]
                 EXCEPT !.bs = Byte(sctx[b].bs - 1)]
      BY <1>1, CtxFields
    <3> QED BY <3>4, <3>5
  <2>3. \/ sctx' = [sctx EXCEPT ![b] = AfterLast(c)]
        \/ sctx' = [sctx EXCEPT ![b] = AwaitFc(c)]
        \/ sctx' = [sctx EXCEPT ![b] = [c EXCEPT !.state = "WAIT_ST"]]
        \/ sctx' = [sctx EXCEPT ![b] = c]
    BY <1>4 DEF SendCfCounted
  <2> HIDE DEF c
  <2>4. \E d \in SendCtx : sctx' = [sctx EXCEPT ![b] = d] /\ Kin(d, c)
    <3>1. AfterLast(c) \in SendCtx /\ AwaitFc(c) \in SendCtx /\ [c EXCEPT !.state = "WAIT_ST"] \in SendCtx
      BY <2>2, AfterLastTyped, AwaitFcTyped, StFields
    <3>2. Kin(AfterLast(c), c) /\ Kin(AwaitFc(c), c) /\ Kin([c EXCEPT !.state = "WAIT_ST"], c) /\ Kin(c, c)
      BY <2>2, AfterLastFields, AwaitFcFields, StFields DEF Kin
    <3> QED BY <2>2, <2>3, <3>1, <3>2
  <2>5. PICK d \in SendCtx : sctx' = [sctx EXCEPT ![b] = d] /\ Kin(d, c)
    BY <2>4
  <2>6. Kin(d, sctx[b])
    BY <2>1, <2>5 DEF Kin
  <2> QED BY <1>1, <2>5, <2>6, OwnerGoesOn DEF Silent
<1>5. CASE SendSemTaken
  <2>1. SendCf(b, [sctx[b] EXCEPT !.sem = 0])
    BY <1>5 DEF SendSemTaken
  <2> QED BY <1>1, <2>1, SemTaken, SendCfOwner DEF Silent
<1> QED BY <1>2, <1>3, <1>4, <1>5

\* The interrupt handlers: frame transmitted, flow control, timer.
LEMMA InterruptOwner ==
  /\ SendTypeInv /\ OwnerInv /\ ~corrupt'
  /\ SendDriver \/ Peers \/ (\E b \in SendBlock : SendTimeout(b))
  => OwnerInv' /\ Silent
<1> SUFFICES ASSUME SendTypeInv, OwnerInv, ~corrupt',
                    SendDriver \/ Peers \/ (\E b \in SendBlock : SendTimeout(b))
             PROVE  OwnerInv' /\ Silent
  OBVIOUS
<1>0. sctx \in [SendBlock -> SendCtx] /\ txq \in Seq(Frame)
  BY DEF SendTypeInv, SendTypeOK
<1>1. ASSUME NEW ok \in BOOLEAN, FrameDone(ok) PROVE OwnerInv' /\ Silent
  <2>1. Head(txq) \in Frame
    BY <1>0, <1>1 DEF FrameDone
  <2> SUFFICES ASSUME NEW f \in Frame, f = Head(txq), NEW b \in SendBlock, b = f.blk
               PROVE  OwnerInv' /\ Silent
    BY <2>1 DEF Frame
  <2>2. b \notin sslab /\ UNCHANGED <<app, bound, unb>> /\ sctx[b] \in SendCtx
    BY <1>0, <1>1 DEF FrameDone, Corrupt
  <2>3. CASE SentSingleCb(b, ok)
    <3> DEFINE c == [sctx[b] EXCEPT !.pending = @ - 1] d == Freed(c) r == IF ok THEN "ok" ELSE "error"
    <3>1. /\ c.home = sctx[b].home /\ c.arg = sctx[b].arg /\ d.home = sctx[b].home
          /\ sctx[b].list = sctx[b].home => d.list = "none"
      BY <2>2, SingleEndFields
    <3>2. ReportFor(c, r) /\ sctx' = [sctx EXCEPT ![b] = d] /\ sslab' = sslab \cup {b} /\ r \in {"ok", "error"}
      BY <2>3 DEF SentSingleCb
    <3> HIDE DEF c, d, r
    <3>3. Silent
      BY <2>2, <3>1, <3>2, OwnerReports DEF Silent
    <3> QED BY <2>2, <3>1, <3>2, <3>3, OwnerEnds
  <2>4. CASE SendCanTxCallback(b)
    <3>1. \E s \in TxState : sctx' = [sctx EXCEPT ![b] = [Sent(sctx[b]) EXCEPT !.state = s]]
      <4> DEFINE c == Sent(sctx[b]) s == IF c.state = "WAIT_BACKLOG" /\ c.backlog = 0 THEN "WAIT_FIN" ELSE c.state
      <4>1. sctx' = [sctx EXCEPT ![b] = [c EXCEPT !.state = s]]
        BY <2>4 DEF SendCanTxCallback, Sent
      <4>2. c.state = sctx[b].state
        BY <2>2, CtxFields DEF Sent
      <4> HIDE DEF c
      <4>3. s \in TxState
        BY <2>2, <4>2 DEF SendCtx, TxState
      <4> QED BY <4>1, <4>3 DEF c
    <3>2. PICK s \in TxState : sctx' = [sctx EXCEPT ![b] = [Sent(sctx[b]) EXCEPT !.state = s]]
      BY <3>1
    <3> DEFINE d == [Sent(sctx[b]) EXCEPT !.state = s]
    <3>3. Kin(d, sctx[b])
      BY <2>2, SentFields
    <3>4. d \in SendCtx
      <4>1. Sent(sctx[b]) \in SendCtx
        <5>1. PICK c, p, n : c = sctx[b] /\ p = c.pending - 1 /\ n = Byte(c.backlog - 1)
          OBVIOUS
        <5>2. c \in SendCtx
          BY <2>2, <5>1
        <5>3. c.pending \in Int /\ c.backlog \in 0..255
          BY ONLY <5>2 DEF SendCtx
        <5>4. p \in Int
          BY ONLY <5>1, <5>3
        <5>5. n \in 0..255
          <6>1. c.backlog - 1 \in Int
            BY ONLY <5>3
          <6> QED BY ONLY <5>1, <6>1, ByteRange
        <5>6. [c EXCEPT !.pending = p, !.backlog = n, !.sem = 1] \in SendCtx
          <6>1. PICK x, y, z, k : /\ x = [c EXCEPT !.pending = p] /\ y = [x EXCEPT !.backlog = n]
                                  /\ z = [y EXCEPT !.sem = k] /\ k = 1
            OBVIOUS
          <6>2. x \in SendCtx
            BY ONLY <5>2, <5>4, <6>1, PutPending
          <6>3. y \in SendCtx
            BY ONLY <5>5, <6>1, <6>2, PutBacklog
          <6>4. k \in 0..1
            BY ONLY <6>1
          <6>5. z \in SendCtx
            BY ONLY <6>1, <6>3, <6>4, PutSem
          <6>6. z = [c EXCEPT !.pending = p, !.backlog = n, !.sem = 1]
            BY ONLY <6>1
          <6> QED BY ONLY <6>5, <6>6
        <5>7. Sent(c) = [c EXCEPT !.pending = p, !.backlog = n, !.sem = 1]
          BY ONLY <5>1 DEF Sent
        <5> QED BY ONLY <5>1, <5>6, <5>7
      <4> QED BY <4>1, PutState
    <3>5. UNCHANGED <<sslab, reports>> /\ sctx' = [sctx EXCEPT ![b] = d]
      BY <2>4, <3>2 DEF SendCanTxCallback
    <3> HIDE DEF d
    <3> QED BY <2>2, <3>3, <3>4, <3>5, OwnerGoesOn DEF Silent
  <2> QED BY <1>1, <2>3, <2>4 DEF FrameDone
<1>2. CASE Peers
  <2>1. PICK a \in Addr, fc \in FlowControl : FcArrives(a, fc)
    BY <1>2, SendAssumption DEF Peers, SendAssumption, FlowControl
  <2>2. UNCHANGED <<sslab, app, reports, bound, unb>>
    BY <2>1 DEF FcArrives
  <2>3. PICK b \in Found(a) :
       /\ sctx' = [sctx EXCEPT ![b] =
                     IF @.state = "WAIT_FC" THEN ProcessFc([@ EXCEPT !.timer = FALSE], fc)
                                            ELSE [@ EXCEPT !.state = "ERR"]]
       /\ b \notin sslab
    BY <2>1 DEF FcArrives, Corrupt
  <2>4. b \in SendBlock /\ sctx[b] \in SendCtx
    BY <1>0 DEF Found
  <2> DEFINE d == IF sctx[b].state = "WAIT_FC" THEN ProcessFc([sctx[b] EXCEPT !.timer = FALSE], fc)
                                               ELSE [sctx[b] EXCEPT !.state = "ERR"]
  <2>5. d \in SendCtx /\ Kin(d, sctx[b])
    <3>1. CASE sctx[b].state = "WAIT_FC"
      <4>1. [sctx[b] EXCEPT !.timer = FALSE] \in SendCtx
        BY <2>4, PutTimer
      <4> QED BY <2>4, <3>1, <4>1, ProcessFcTyped, FcFields
    <3>2. CASE sctx[b].state # "WAIT_FC"
      <4>1. "ERR" \in TxState
        BY DEF TxState
      <4> QED BY <2>4, <3>2, <4>1, PutState, CtxFields DEF Kin
    <3> QED BY <3>1, <3>2
  <2>6. sctx' = [sctx EXCEPT ![b] = d]
    BY <2>3
  <2> HIDE DEF d
  <2> QED BY <2>2, <2>3, <2>4, <2>5, <2>6, OwnerGoesOn DEF Silent
<1>3. ASSUME NEW b \in SendBlock, SendTimeout(b) PROVE OwnerInv' /\ Silent
  <2> DEFINE d == [sctx[b] EXCEPT !.timer = FALSE, !.state = IF @ # "SEND_CF" THEN "ERR" ELSE @]
  <2>1. sctx' = [sctx EXCEPT ![b] = d] /\ UNCHANGED <<sslab, app, reports, bound, unb>> /\ b \notin sslab
    BY <1>3 DEF SendTimeout, Corrupt
  <2>2. Kin(d, sctx[b])
    BY <1>0, TimeoutFields
  <2>3. d \in SendCtx
    <3>1. [sctx[b] EXCEPT !.timer = FALSE] \in SendCtx
      BY <1>0, PutTimer
    <3>2. \A v \in TxState : [[sctx[b] EXCEPT !.timer = FALSE] EXCEPT !.state = v] \in SendCtx
      BY <3>1, PutState
    <3>3. sctx[b] \in SendCtx
      BY <1>0
    <3> QED BY <3>2, <3>3 DEF TxState
  <2> HIDE DEF d
  <2> QED BY <2>1, <2>2, <2>3, OwnerGoesOn DEF Silent
<1> QED BY <1>1, <1>2, <1>3 DEF SendDriver

\* isotp_fast_unbind itself.
LEMMA UnbindOwner == SendTypeInv /\ OwnerInv /\ ~corrupt' /\ Unbind => OwnerInv'
<1> SUFFICES ASSUME SendTypeInv, OwnerInv, ~corrupt', Unbind PROVE OwnerInv'
  OBVIOUS
<1>0. /\ sctx \in [SendBlock -> SendCtx] /\ bound \in BOOLEAN
      /\ unb \in [pc : {"off", "head", "next", "cancel", "check", "again", "free", "orphan", "done"},
                  blk : SendBlock \cup {NoBlock}, nxt : SendBlock \cup {NoBlock}]
  BY DEF SendTypeInv, SendTypeOK
<1>1. CASE UnbindStart
  <2>1. app = NoApp /\ unb.pc = "off" /\ bound' = FALSE /\ UNCHANGED <<sctx, sslab, app>>
    BY <1>1 DEF UnbindStart, OwnerInv
  <2>2. unb'.pc = "head"
    BY <1>0, <1>1 DEF UnbindStart
  <2>3. \A c \in SendBlock : OwnedBy(c)'
    BY <2>1 DEF OwnerInv, OwnedBy
  <2> QED BY <2>1, <2>2, <2>3 DEF OwnerInv
<1>2. CASE UnbindNext
  <2>1. ~bound /\ app = NoApp /\ UNCHANGED <<sslab, app, bound>>
    BY <1>2 DEF UnbindNext, OwnerInv
  <2>2. ASSUME NEW b \in SendBlock, NEW n \in (Listed \ {b}) \cup {NoBlock},
               n = NoBlock <=> Listed \subseteq {b},
               sctx' = [sctx EXCEPT ![b] = [@ EXCEPT !.timer = FALSE]],
               unb' = [pc |-> "cancel", blk |-> b, nxt |-> n]
        PROVE  OwnerInv'
    <3> DEFINE d == [sctx[b] EXCEPT !.timer = FALSE]
    <3>1. sctx' = [sctx EXCEPT ![b] = d]
      BY <2>2
    <3>2. Kin(d, sctx[b])
      BY <1>0, StopFields
    <3> HIDE DEF d
    <3>3. sctx'[b] = d /\ \A c \in SendBlock \ {b} : sctx'[c] = sctx[c]
      BY <1>0, <3>1
    <3>4. (\A c \in SendBlock : OwnedBy(c)') /\ Listed' = Listed
      BY <2>1, <3>2, <3>3 DEF OwnerInv, OwnedBy, Kin, Listed
    <3> QED BY <2>1, <2>2, <3>4 DEF OwnerInv
  <2>3. ASSUME (IF unb.pc = "head" THEN Listed ELSE {unb.nxt} \ {NoBlock}) = {},
               unb' = [pc |-> "done", blk |-> NoBlock, nxt |-> NoBlock], UNCHANGED sctx
        PROVE  OwnerInv'
    <3>1. Listed = {}
      BY <1>2, <2>3 DEF UnbindNext, OwnerInv
    <3>2. (\A c \in SendBlock : OwnedBy(c)') /\ Listed' = Listed
      BY <2>1, <2>3 DEF OwnerInv, OwnedBy, Listed
    <3> QED BY <2>1, <2>3, <3>1, <3>2 DEF OwnerInv
  <2>4. Listed \subseteq SendBlock /\ {unb.nxt} \ {NoBlock} \subseteq SendBlock
    BY <1>0 DEF Listed
  <2> QED BY <1>2, <2>2, <2>3, <2>4 DEF UnbindNext
<1>3. CASE UnbindCancel \/ UnbindCheck \/ UnbindCancelAgain
  <2>1. /\ UNCHANGED <<sctx, sslab, app, bound>> /\ unb'.blk = unb.blk /\ unb'.nxt = unb.nxt
        /\ unb'.pc \in {"check", "again", "free", "orphan"} /\ unb.pc \in {"cancel", "check", "again"}
    BY <1>0, <1>3 DEF UnbindCancel, UnbindCheck, UnbindCancelAgain
  <2>2. (\A c \in SendBlock : OwnedBy(c)') /\ Listed' = Listed
    BY <2>1 DEF OwnerInv, OwnedBy, Listed
  <2> QED BY <2>1, <2>2 DEF OwnerInv
<1>4. ASSUME NEW b \in SendBlock, b = unb.blk, NEW d, sctx' = [sctx EXCEPT ![b] = d],
             sslab' \in {sslab, sslab \cup {b}}, OwnedBy(b)', d.list # "ctx",
             unb.pc \in {"free", "orphan"}, unb' = [unb EXCEPT !.pc = "next", !.blk = NoBlock],
             UNCHANGED <<app, bound>>
      PROVE  OwnerInv'
  <2>1. sctx'[b] = d /\ \A c \in SendBlock \ {b} : sctx'[c] = sctx[c]
    BY <1>0, <1>4
  <2>2. Listed' = Listed \ {b} /\ \A c \in SendBlock : OwnedBy(c)'
    BY <1>4, <2>1 DEF OwnerInv, OwnedBy, Listed
  <2>3. unb'.pc = "next" /\ unb'.nxt = unb.nxt
    BY <1>0, <1>4
  <2> QED BY <1>4, <2>2, <2>3 DEF OwnerInv
<1>5. CASE UnbindFree
  <2> SUFFICES ASSUME NEW b \in SendBlock, b = unb.blk PROVE OwnerInv'
    BY <1>5 DEF UnbindFree, SendTypeInv, InHand
  <2> DEFINE d == Freed(sctx[b])
  <2>1. /\ sctx' = [sctx EXCEPT ![b] = d] /\ sslab' = sslab \cup {b} /\ b \notin sslab
        /\ unb' = [unb EXCEPT !.pc = "next", !.blk = NoBlock] /\ UNCHANGED <<app, bound>>
    BY <1>5 DEF UnbindFree, Corrupt
  <2>2. sctx[b].list = sctx[b].home => d.list = "none"
    <3>1. sctx[b] \in SendCtx
      BY <1>0
    <3> QED BY <3>1, CtxFields DEF Freed
  <2> HIDE DEF d
  <2>3. d.list = "none" /\ sctx'[b] = d
    BY <1>0, <2>1, <2>2 DEF OwnerInv, OwnedBy
  <2>4. OwnedBy(b)'
    BY <2>1, <2>3 DEF OwnedBy
  <2>5. unb.pc \in {"free", "orphan"}
    BY <1>5 DEF UnbindFree
  <2> QED BY <1>4, <2>1, <2>3, <2>4, <2>5
<1>6. CASE UnbindOrphan
  <2> SUFFICES ASSUME NEW b \in SendBlock, b = unb.blk PROVE OwnerInv'
    BY <1>6 DEF UnbindOrphan, SendTypeInv, InHand
  <2> DEFINE d == Orphaned(sctx[b])
  <2>1. /\ sctx' = [sctx EXCEPT ![b] = d] /\ sslab' = sslab /\ b \notin sslab /\ ~bound
        /\ unb' = [unb EXCEPT !.pc = "next", !.blk = NoBlock] /\ UNCHANGED <<app, bound>>
    BY <1>6 DEF UnbindOrphan, Corrupt, OwnerInv
  <2>2. d.home = "orphanage" /\ d.list = "orphanage" /\ d.arg = NoMsg
    <3>1. sctx[b] \in SendCtx
      BY <1>0
    <3> QED BY <3>1, CtxFields DEF Orphaned
  <2> HIDE DEF d
  <2>3. sctx'[b] = d
    BY <1>0, <2>1
  <2>4. OwnedBy(b)'
    BY <2>1, <2>2, <2>3 DEF OwnedBy
  <2>5. unb.pc \in {"free", "orphan"}
    BY <1>6 DEF UnbindOrphan
  <2> QED BY <1>4, <2>1, <2>2, <2>4, <2>5
<1> QED BY <1>1, <1>2, <1>3, <1>5, <1>6 DEF Unbind

\* Once isotp_fast_unbind has returned, no handler, timer or callback that still runs
\* reports to the owner of the context: with any use and any faults, and unbind
\* interrupted anywhere, as long as memory stays valid.
THEOREM SilentOnceUnbound == SendSpec => SilentAfterUnbind
<1>1. SendStart => (MemorySafe => OwnerInv)
  BY DEF SendStart, SendInit, OwnerInv, OwnedBy, NoApp, Listed
<1>2. SendTypeInv /\ (MemorySafe => OwnerInv) /\ [SendNext]_allSendVars =>
        /\ MemorySafe' => OwnerInv'
        /\ [unb.pc = "done" /\ MemorySafe' => UNCHANGED reports]_allSendVars
  <2> SUFFICES ASSUME SendTypeInv, MemorySafe => OwnerInv, ~corrupt', [SendNext]_allSendVars
               PROVE  OwnerInv' /\ [unb.pc = "done" => UNCHANGED reports]_allSendVars
    BY DEF MemorySafe
  <2>6. OwnerInv
    BY DEF MemorySafe, SendNext, allSendVars
  <2>0. unb.pc = "done" => Listed = {} /\ ~bound /\ app = NoApp
    BY <2>6 DEF OwnerInv
  <2>1. CASE (\E m \in Msg : SendGetCtx(m)) \/ SendMulti \/ SendSingle
    <3>1. OwnerInv'
      BY <2>1, <2>6, AppOwner
    <3> QED BY <2>1, <3>1 DEF SendGetCtx, SendMulti, SendSingle
  <2>2. CASE Unbind
    <3>1. OwnerInv'
      BY <2>2, <2>6, UnbindOwner
    <3>2. unb.pc # "done"
      BY <2>2, <2>6 DEF Unbind, UnbindStart, UnbindNext, UnbindCancel, UnbindCheck, UnbindCancelAgain, UnbindFree, UnbindOrphan, OwnerInv
    <3> QED BY <3>1, <3>2
  <2>3. CASE SendWorkQueue
    BY <2>0, <2>3, <2>6, WorkOwner, ThreadOwner DEF SendWorkQueue, Silent
  <2>4. CASE SendDriver \/ Peers \/ (\E b \in SendBlock : SendTimeout(b))
    BY <2>0, <2>4, <2>6, InterruptOwner DEF Silent
  <2>5. CASE UNCHANGED allSendVars
    BY <2>5, <2>6 DEF allSendVars, sendVars, OwnerInv, OwnedBy, Listed
  <2> QED BY <2>1, <2>2, <2>3, <2>4, <2>5 DEF SendNext, AppThread
<1> QED BY <1>1, <1>2, InitTyped, NextTyped, PTL DEF SendSpec, SendStart, SilentAfterUnbind

-----------------------------------------------------------------------------
(* What a disciplined use puts on the bus.                                 *)

\* The frames the driver holds.
Driver == {txq[i] : i \in DOMAIN txq}

\* The index of the frame that the context sends next.
Ahead(b) == Cfs[sctx[b].arg] + 1 - sctx[b].rem

\* A frame in the driver is of the message its context carries, and follows the frames
\* of that message that have been transmitted.
FrameFits(f) ==
  /\ f.msg \in Msg /\ f.msg = sctx[f.blk].arg /\ f.idx <= Cfs[f.msg]
  /\ f.kind = "SF" => Cfs[f.msg] = 0
  /\ \A j \in DOMAIN aired[f.msg] : aired[f.msg][j] < f.idx

\* data and cb_arg are the same message, and its frames so far lie before the next.
Counts(b) ==
  LET c == sctx[b] IN
  /\ c.data = c.arg /\ c.rem <= Cfs[c.arg] + 1
  /\ \A j \in DOMAIN aired[c.arg] : aired[c.arg][j] < Ahead(b)
  /\ \A f \in Driver : f.blk = b => f.idx < Ahead(b)

\* What the state says about rem_len.
Phase(b) ==
  LET c == sctx[b] IN
  /\ c.state = "SEND_FF" /\ srun.blk # b => c.rem = Cfs[c.arg] + 1
  /\ c.state \in {"WAIT_FC", "WAIT_ST"} \/ (srun.blk = b /\ srun.pc = "ffSent") => c.rem > 0
  /\ c.state = "SEND_CF" /\ ~(srun.blk = b /\ srun.pc \in {"cfSent", "cfLoaded"}) => c.rem > 0
  /\ c.state \in {"WAIT_BACKLOG", "WAIT_FIN"} => c.rem = 0

\* As long as no frame is lost on the bus: every frame before the next has been
\* transmitted, or is in the driver, or was a first frame that can_send refused.
Accounted(b) ==
  LET c == sctx[b] IN
  c.state # "ERR" =>
    \/ Len(aired[c.arg]) + (IF HasFrame(b) THEN 1 ELSE 0) = Ahead(b)
    \/ /\ aired[c.arg] = <<>> /\ ~HasFrame(b) /\ c.rem = Cfs[c.arg]
       /\ c.state = "WAIT_FC" \/ (srun.blk = b /\ srun.pc = "ffSent")

\* The driver transmits every frame it has accepted.
NoneLost == "txError" \notin FaultKinds

Sending(b) == Counts(b) /\ Phase(b) /\ (NoneLost => Accounted(b))

\* A single frame is in the driver until its context is freed.
Progress(b) ==
  b \notin sslab /\ app.blk # b =>
    IF Cfs[sctx[b].arg] = 0 THEN HasSf(b) /\ aired[sctx[b].arg] = <<>> ELSE Sending(b)

\* isotp_fast_send fills a context with a long message, and sends a short one itself.
AppFits == (app.pc = "fill" => Cfs[app.msg] # 0) /\ (app.pc = "single" => Cfs[app.msg] = 0)

\* Nothing of a message is transmitted before isotp_fast_send has accepted it.
Unsent == \A m \in Msg : call[m] # "accepted" => aired[m] = <<>>

AirInv ==
  /\ AiredInOrder /\ AppFits /\ Unsent /\ (NoneLost => OkMeansAired)
  /\ \A f \in Driver : FrameFits(f)
  /\ \A b \in SendBlock : Progress(b)

-----------------------------------------------------------------------------
(* Frames and messages of different contexts.                              *)

\* HasFrame and HasSf, in terms of the driver's frames.
LEMMA DriverHas == \A b \in SendBlock :
  /\ HasFrame(b) <=> \E f \in Driver : f.blk = b
  /\ HasSf(b) <=> \E f \in Driver : f.blk = b /\ f.kind = "SF"
BY DEF HasFrame, HasSf, Driver

\* can_send.
LEMMA DriverAppend == \A f \in Frame :
  txq \in Seq(Frame) /\ txq' = Append(txq, f) => Driver' = Driver \cup {f}
<1> SUFFICES ASSUME NEW f \in Frame, txq \in Seq(Frame), txq' = Append(txq, f)
             PROVE  Driver' = Driver \cup {f}
  OBVIOUS
<1>1. /\ DOMAIN txq = 1..Len(txq) /\ DOMAIN txq' = 1..(Len(txq) + 1) /\ Len(txq) \in Nat
      /\ \A i \in 1..Len(txq) : txq'[i] = txq[i]
      /\ txq'[Len(txq) + 1] = f
  OBVIOUS
<1>2. \A i \in DOMAIN txq' : txq'[i] = f \/ (i \in DOMAIN txq /\ txq'[i] = txq[i])
  <2> TAKE i \in DOMAIN txq'
  <2>1. i \in 1..Len(txq) \/ i = Len(txq) + 1
    BY <1>1
  <2> QED BY <1>1, <2>1
<1>3. Len(txq) + 1 \in DOMAIN txq' /\ \A i \in DOMAIN txq : i \in DOMAIN txq' /\ txq'[i] = txq[i]
  BY <1>1
<1> QED BY <1>1, <1>2, <1>3 DEF Driver

\* A frame has been transmitted; its context has no other.
LEMMA DriverTail ==
  txq \in Seq(Frame) /\ txq # <<>> /\ txq' = Tail(txq) /\ OneFrame =>
    /\ Head(txq) \in Driver /\ Driver' = Driver \ {Head(txq)}
    /\ \A f \in Driver' : f.blk # Head(txq).blk
<1> SUFFICES ASSUME txq \in Seq(Frame), txq # <<>>, txq' = Tail(txq), OneFrame
             PROVE  /\ Head(txq) \in Driver /\ Driver' = Driver \ {Head(txq)}
                    /\ \A f \in Driver' : f.blk # Head(txq).blk
  OBVIOUS
<1>1. /\ DOMAIN txq = 1..Len(txq) /\ DOMAIN txq' = 1..(Len(txq) - 1) /\ Len(txq) \in Nat \ {0}
      /\ \A i \in 1..(Len(txq) - 1) : txq'[i] = txq[i + 1]
      /\ txq[1] = Head(txq)
  OBVIOUS
<1>2. 1 \in DOMAIN txq
  BY <1>1
<1>3. \A i \in DOMAIN txq' : i + 1 \in DOMAIN txq /\ txq'[i] = txq[i + 1] /\ i + 1 # 1
  BY <1>1
<1>4. \A j \in DOMAIN txq : j = 1 \/ (j - 1 \in DOMAIN txq' /\ txq'[j - 1] = txq[j])
  BY <1>1
<1>5. \A j \in DOMAIN txq : txq[j].blk = Head(txq).blk => j = 1
  BY <1>1, <1>2 DEF OneFrame
<1>6. \A f \in Driver' : f \in Driver /\ f.blk # Head(txq).blk
  BY <1>3, <1>5 DEF Driver
<1>7. ASSUME NEW f \in Driver, f # Head(txq) PROVE f \in Driver'
  <2>1. PICK j \in DOMAIN txq : f = txq[j]
    BY DEF Driver
  <2>2. j - 1 \in DOMAIN txq' /\ txq'[j - 1] = f
    BY <1>1, <1>4, <1>7, <2>1
  <2> QED BY <2>2 DEF Driver
<1> QED BY <1>1, <1>2, <1>6, <1>7 DEF Driver

\* A context in use that isotp_fast_send has let go of carries an accepted message.
LEMMA CarriesOne == \A b \in SendBlock :
  SendInv /\ b \notin sslab /\ app.blk # b =>
    /\ sctx[b].arg \in Msg /\ call[sctx[b].arg] = "accepted" /\ reports[sctx[b].arg] = <<>>
    /\ Dest[sctx[b].arg] = sctx[b].addr /\ sctx[b].home = "ctx"
BY DEF SendInv, BlockInv, UsedBlock, Carries

\* Two of them carry different messages.
LEMMA OtherMessage == \A b, c \in SendBlock :
  /\ SendInv /\ b \notin sslab /\ app.blk # b /\ c \notin sslab /\ app.blk # c /\ b # c
  => sctx[b].arg # sctx[c].arg
BY CarriesOne, OtherAddr

\* A frame in the driver belongs to one of them.
LEMMA FrameOwned == \A f \in Driver :
  SendTypeInv /\ SendInv => /\ f \in Frame /\ f.blk \in SendBlock /\ HasFrame(f.blk)
                            /\ f.blk \notin sslab /\ app.blk # f.blk
<1> SUFFICES ASSUME NEW f \in Driver, SendTypeInv, SendInv
             PROVE  /\ f \in Frame /\ f.blk \in SendBlock /\ HasFrame(f.blk)
                    /\ f.blk \notin sslab /\ app.blk # f.blk
  OBVIOUS
<1>1. PICK i \in DOMAIN txq : f = txq[i]
  BY DEF Driver
<1>2. txq \in Seq(Frame)
  BY DEF SendTypeInv, SendTypeOK
<1>3. f \in Frame
  BY <1>1, <1>2
<1>4. f.blk \in SendBlock /\ HasFrame(f.blk)
  BY <1>1, <1>3 DEF Frame, HasFrame
<1>5. f.blk \notin sslab
  BY <1>4 DEF SendInv, BlockInv, FreeBlock
<1>6. app.blk # f.blk
  BY <1>4, <1>5 DEF SendInv, BlockInv, UsedBlock, Fresh
<1> QED BY <1>3, <1>4, <1>5, <1>6

-----------------------------------------------------------------------------
(* One block at a time.                                                    *)

\* A step that works on block b leaves the other blocks alone.
Alone(b) == \A c \in SendBlock \ {b} :
  /\ sctx'[c] = sctx[c] /\ (c \in sslab' <=> c \in sslab) /\ (app'.blk = c <=> app.blk = c)
  /\ srun' = srun \/ (srun.blk # c /\ srun'.blk # c)

\* It may queue a frame of b, or take the frame of b off the queue.
QueueOf(b) ==
  /\ \A f \in Driver' : f \in Driver \/ f.blk = b
  /\ \A f \in Driver : f.blk = b \/ f \in Driver'

\* Frames of no other message are transmitted.
AirOf(b) == \A m \in Msg : aired'[m] = aired[m] \/ (b \notin sslab /\ app.blk # b /\ sctx[b].arg = m)

\* What is known of the other blocks stays true.
LEMMA OthersProgress == \A b \in SendBlock, c \in SendBlock :
  SendTypeInv /\ SendInv /\ Alone(b) /\ QueueOf(b) /\ AirOf(b) /\ b # c /\ Progress(c) => Progress(c)'
<1> SUFFICES ASSUME NEW b \in SendBlock, NEW c \in SendBlock, SendTypeInv, SendInv,
                    Alone(b), QueueOf(b), AirOf(b), b # c, Progress(c), (c \notin sslab /\ app.blk # c)'
             PROVE  (IF Cfs[sctx[c].arg] = 0 THEN HasSf(c) /\ aired[sctx[c].arg] = <<>> ELSE Sending(c))'
  BY DEF Progress
<1>1. c \notin sslab /\ app.blk # c /\ sctx'[c] = sctx[c]
  BY DEF Alone
<1>2. aired'[sctx[c].arg] = aired[sctx[c].arg]
  BY <1>1, CarriesOne, OtherMessage DEF AirOf
<1>3. \A f \in Driver' : f.blk = c => f \in Driver
  BY DEF QueueOf
<1>4. \A f \in Driver : f.blk = c => f \in Driver'
  BY DEF QueueOf
<1>5. (HasFrame(c)' <=> HasFrame(c)) /\ (HasSf(c) => HasSf(c)')
  <2>1. HasFrame(c)' <=> \E f \in Driver' : f.blk = c
    BY DEF HasFrame, Driver
  <2>2. HasSf(c)' <=> \E f \in Driver' : f.blk = c /\ f.kind = "SF"
    BY DEF HasSf, Driver
  <2> QED BY <1>3, <1>4, <2>1, <2>2, DriverHas
<1>6. CASE Cfs[sctx[c].arg] = 0
  BY <1>1, <1>2, <1>5, <1>6 DEF Progress
<1>7. CASE Cfs[sctx[c].arg] # 0
  <2>1. Sending(c)
    BY <1>1, <1>7 DEF Progress
  <2>2. Ahead(c)' = Ahead(c)
    BY <1>1 DEF Ahead
  <2>3. Counts(c)'
    BY <1>1, <1>2, <1>3, <2>1, <2>2 DEF Sending, Counts
  <2>4. srun' = srun \/ (srun.blk # c /\ srun'.blk # c)
    BY DEF Alone
  <2>5. Phase(c)'
    BY <1>1, <2>1, <2>4 DEF Sending, Phase
  <2>6. Accounted(c) => Accounted(c)'
    BY <1>1, <1>2, <1>5, <2>2, <2>4 DEF Accounted
  <2> QED BY <1>1, <1>7, <2>1, <2>3, <2>5, <2>6 DEF Sending, NoneLost
<1> QED BY <1>6, <1>7

\* So only block b, its frames and what they do to the message is left to show.
LEMMA AirStep == \A b \in SendBlock :
  /\ SendTypeInv /\ SendInv /\ AirInv /\ Alone(b) /\ QueueOf(b) /\ AirOf(b)
  /\ \A f \in Driver' : f.blk = b => FrameFits(f)'
  /\ Progress(b)' /\ AiredInOrder' /\ AppFits' /\ Unsent' /\ (NoneLost => OkMeansAired')
  => AirInv'
<1> SUFFICES ASSUME NEW b \in SendBlock, SendTypeInv, SendInv, AirInv, Alone(b), QueueOf(b), AirOf(b),
                    \A f \in Driver' : f.blk = b => FrameFits(f)',
                    Progress(b)', AiredInOrder' /\ AppFits' /\ Unsent' /\ (NoneLost => OkMeansAired')
             PROVE  AirInv'
  OBVIOUS
<1>1. ASSUME NEW c \in SendBlock PROVE Progress(c)'
  <2>1. CASE c = b
    BY <2>1
  <2>2. CASE c # b
    BY <2>2, OthersProgress DEF AirInv
  <2> QED BY <2>1, <2>2
<1>2. ASSUME NEW f \in Driver', f.blk # b PROVE FrameFits(f)'
  <2>1. f \in Driver
    BY <1>2 DEF QueueOf
  <2>2. FrameFits(f) /\ f.blk \in SendBlock /\ f.blk \notin sslab /\ app.blk # f.blk
    BY <2>1, FrameOwned DEF AirInv
  <2>3. sctx'[f.blk] = sctx[f.blk] /\ f.msg \in Msg /\ sctx[f.blk].arg = f.msg
    BY <1>2, <2>2 DEF Alone, FrameFits
  <2>4. aired'[f.msg] = aired[f.msg]
    BY <1>2, <2>2, <2>3, OtherMessage DEF AirOf
  <2> QED BY <2>2, <2>3, <2>4 DEF FrameFits
<1>3. \A f \in Driver' : FrameFits(f)'
  BY <1>2
<1> QED BY <1>1, <1>3 DEF AirInv, NoneLost

-----------------------------------------------------------------------------
(* Steps that leave the driver alone.                                      *)

\* Nothing is queued or transmitted: the order on the bus stays as it is.
LEMMA QuietAir == \A b \in SendBlock :
  /\ SendTypeInv /\ SendInv /\ AirInv /\ Alone(b) /\ UNCHANGED <<txq, aired>>
  /\ HasFrame(b) => sctx'[b].arg = sctx[b].arg
  /\ Progress(b)' /\ AppFits' /\ Unsent' /\ (NoneLost => OkMeansAired')
  => AirInv'
<1> SUFFICES ASSUME NEW b \in SendBlock, SendTypeInv, SendInv, AirInv, Alone(b), UNCHANGED <<txq, aired>>,
                    HasFrame(b) => sctx'[b].arg = sctx[b].arg,
                    Progress(b)' /\ AppFits' /\ Unsent' /\ (NoneLost => OkMeansAired')
             PROVE  AirInv'
  OBVIOUS
<1>1. Driver' = Driver
  BY DEF Driver
<1>2. QueueOf(b) /\ AirOf(b) /\ AiredInOrder'
  BY <1>1 DEF QueueOf, AirOf, AirInv, AiredInOrder
<1>3. \A f \in Driver : f.blk = b => FrameFits(f)'
  BY DriverHas DEF AirInv, FrameFits
<1> QED BY <1>1, <1>2, <1>3, AirStep

\* The context goes on, with the same message and the same part of it left.
LEMMA GoesOn == \A b \in SendBlock :
  /\ SendTypeInv /\ SendInv /\ AirInv /\ Alone(b) /\ UNCHANGED <<txq, aired, app, call, reports>>
  /\ Cfs[sctx[b].arg] # 0 /\ b \notin sslab /\ app.blk # b
  /\ sctx'[b].arg = sctx[b].arg /\ sctx'[b].data = sctx[b].data /\ sctx'[b].rem = sctx[b].rem
  /\ Phase(b)' /\ (Accounted(b) => Accounted(b)')
  => AirInv'
<1> SUFFICES ASSUME NEW b \in SendBlock, SendTypeInv, SendInv, AirInv, Alone(b),
                    UNCHANGED <<txq, aired, app, call, reports>>,
                    Cfs[sctx[b].arg] # 0, b \notin sslab, app.blk # b,
                    sctx'[b].arg = sctx[b].arg, sctx'[b].data = sctx[b].data, sctx'[b].rem = sctx[b].rem,
                    Phase(b)', Accounted(b) => Accounted(b)'
             PROVE  AirInv'
  OBVIOUS
<1>1. Driver' = Driver /\ Ahead(b)' = Ahead(b) /\ Sending(b)
  BY DEF Driver, Ahead, AirInv, Progress
<1>2. Counts(b)'
  BY <1>1 DEF Sending, Counts
<1>3. Progress(b)'
  BY <1>1, <1>2 DEF Sending, Progress, NoneLost
<1>4. AppFits' /\ Unsent' /\ (NoneLost => OkMeansAired')
  BY DEF AirInv, AppFits, Unsent, NoneLost, OkMeansAired
<1> QED BY <1>3, <1>4, QuietAir

\* Nothing happens to contexts, frames and reports.
LEMMA SameAir ==
  AirInv /\ UNCHANGED <<sctx, sslab, srun, app, reports, txq, aired>> /\ Unsent' => AirInv'
<1> SUFFICES ASSUME AirInv, UNCHANGED <<sctx, sslab, srun, app, reports, txq, aired>>, Unsent'
             PROVE  AirInv'
  OBVIOUS
<1>1. Driver' = Driver /\ \A b \in SendBlock : (HasFrame(b)' <=> HasFrame(b)) /\ (HasSf(b)' <=> HasSf(b))
  BY DEF Driver, HasFrame, HasSf
<1>2. ASSUME NEW b \in SendBlock PROVE Progress(b)'
  <2>1. Ahead(b)' = Ahead(b)
    BY DEF Ahead
  <2>2. Counts(b)' <=> Counts(b)
    BY <1>1, <2>1 DEF Counts
  <2>3. Phase(b)' <=> Phase(b)
    BY DEF Phase
  <2>4. Accounted(b)' <=> Accounted(b)
    BY <1>1, <2>1 DEF Accounted
  <2> QED BY <1>1, <2>2, <2>3, <2>4 DEF AirInv, Progress, Sending, NoneLost
<1>3. \A f \in Driver : FrameFits(f)'
  BY DEF AirInv, FrameFits
<1>4. AiredInOrder' /\ AppFits' /\ (NoneLost => OkMeansAired')
  BY DEF AirInv, AiredInOrder, AppFits, OkMeansAired, NoneLost
<1> QED BY <1>1, <1>2, <1>3, <1>4 DEF AirInv, NoneLost

-----------------------------------------------------------------------------
(* The application thread: isotp_fast_send.                                *)

\* get_send_ctx: nothing of the message has been sent yet.
LEMMA GetCtxAir ==
  \A m \in Msg : Disciplined /\ SendTypeInv /\ SendInv /\ AirInv /\ SendGetCtx(m) => AirInv'
<1> SUFFICES ASSUME NEW m \in Msg, Disciplined, SendTypeInv, SendInv, AirInv, SendGetCtx(m) PROVE AirInv'
  OBVIOUS
<1>1. /\ Found(Dest[m]) = {} /\ app = NoApp /\ call[m] = "none"
      /\ UNCHANGED <<srun, reports, txq, aired>>
  BY NoneFound DEF SendGetCtx
<1>2. ASSUME NEW v \in {"busy", "refused"}, call' = [call EXCEPT ![m] = v] PROVE Unsent'
  <2>1. \A n \in Msg : call'[n] # "accepted" => call[n] # "accepted"
    BY <1>1, <1>2 DEF SendTypeInv, SendTypeOK
  <2> QED BY <1>1, <2>1 DEF AirInv, Unsent
<1>3. CASE UNCHANGED <<sctx, sslab, app>> /\ call' = [call EXCEPT ![m] = "refused"]
  BY <1>1, <1>2, <1>3, SameAir
<1>4. CASE \E b \in sslab : /\ app' = [pc |-> IF Cfs[m] = 0 THEN "single" ELSE "fill", blk |-> b, msg |-> m]
                            /\ call' = [call EXCEPT ![m] = "busy"]
                            /\ sctx' = [sctx EXCEPT ![b] = NewSendCtx(b, Dest[m])]
                            /\ sslab' = sslab \ {b}
  <2> PICK b \in sslab : /\ app' = [pc |-> IF Cfs[m] = 0 THEN "single" ELSE "fill", blk |-> b, msg |-> m]
                         /\ call' = [call EXCEPT ![m] = "busy"]
                         /\ sctx' = [sctx EXCEPT ![b] = NewSendCtx(b, Dest[m])]
                         /\ sslab' = sslab \ {b}
    BY <1>4
  <2>1. b \in SendBlock /\ ~HasFrame(b) /\ sctx \in [SendBlock -> SendCtx]
    BY DEF SendTypeInv, SendTypeOK, SendInv, BlockInv, FreeBlock
  <2>2. Alone(b)
    BY <1>1, <2>1, SendAssumption DEF Alone, NoApp, SendAssumption
  <2>3. Progress(b)'
    BY DEF Progress
  <2>4. AppFits' /\ (NoneLost => OkMeansAired')
    BY <1>1 DEF AppFits, AirInv, OkMeansAired, NoneLost
  <2> QED BY <1>1, <1>2, <2>1, <2>2, <2>3, <2>4, QuietAir
<1> QED BY <1>1, <1>3, <1>4 DEF SendGetCtx

\* A message put in a context is still to be sent as a whole.
LEMMA LoadedRem == \A c \in SendCtx, m \in Msg :
  LET d == Loaded(c, m) IN d.data = m /\ d.arg = m /\ d.rem = Cfs[m] + 1 /\ d.state = c.state
BY CtxFields DEF Loaded

\* The tail of a multi-frame isotp_fast_send.
LEMMA MultiAir == SendTypeInv /\ SendInv /\ AirInv /\ SendMulti => AirInv'
<1> SUFFICES ASSUME SendTypeInv, SendInv, AirInv, SendMulti, NEW b \in SendBlock, NEW m \in Msg,
                    b = app.blk, m = app.msg
             PROVE  AirInv'
  BY AppHolds DEF SendMulti
<1>1. /\ b \notin sslab /\ b # NoBlock /\ Fresh(b) /\ call[m] = "busy"
      /\ sctx \in [SendBlock -> SendCtx] /\ Cfs[m] \in Nat \ {0} /\ aired[m] = <<>>
  BY AppHolds, CommonAssumption, ZenonT(60)
     DEF SendMulti, Carries, SendTypeInv, SendTypeOK, CommonAssumption, AirInv, AppFits, Unsent
<1>2. /\ sctx' = [sctx EXCEPT ![b] = Loaded(@, m)] /\ app' = NoApp
      /\ call' = [call EXCEPT ![m] = "accepted"] /\ UNCHANGED <<sslab, srun, reports, txq, aired>>
  BY DEF SendMulti
<1>3. /\ sctx'[b].data = m /\ sctx'[b].arg = m /\ sctx'[b].rem = Cfs[m] + 1 /\ sctx'[b].state = "SEND_FF"
      /\ ~HasFrame(b) /\ srun.blk # b
  BY <1>1, <1>2, LoadedRem DEF Fresh
<1>4. Alone(b)
  BY <1>1, <1>2, SendAssumption DEF Alone, NoApp, SendAssumption
<1>5. Driver' = Driver /\ (\A f \in Driver : f.blk # b) /\ ~HasFrame(b)'
  BY <1>2, <1>3, DriverHas DEF Driver, HasFrame
<1>6. Ahead(b)' = 0
  BY <1>1, <1>3 DEF Ahead
<1>7. Counts(b)'
  BY <1>1, <1>2, <1>3, <1>5 DEF Counts
<1>8. Phase(b)'
  BY <1>1, <1>2, <1>3 DEF Phase
<1>9. Accounted(b)'
  BY <1>1, <1>2, <1>3, <1>5, <1>6 DEF Accounted
<1>10. Progress(b)'
  BY <1>1, <1>3, <1>7, <1>8, <1>9 DEF Progress, Sending
<1>11. Unsent'
  <2>1. \A n \in Msg : call'[n] # "accepted" => call[n] # "accepted"
    BY <1>1, <1>2 DEF SendTypeInv, SendTypeOK
  <2> QED BY <1>2, <2>1 DEF AirInv, Unsent
<1>12. AppFits' /\ (NoneLost => OkMeansAired')
  BY <1>2 DEF AppFits, NoApp, AirInv, OkMeansAired, NoneLost
<1> QED BY <1>2, <1>3, <1>4, <1>10, <1>11, <1>12, QuietAir

\* The tail of a single-frame isotp_fast_send.
LEMMA SingleAir == SendTypeInv /\ SendInv /\ AirInv /\ SendSingle => AirInv'
<1> SUFFICES ASSUME SendTypeInv, SendInv, AirInv, SendSingle, NEW b \in SendBlock, NEW m \in Msg,
                    b = app.blk, m = app.msg
             PROVE  AirInv'
  BY AppHolds DEF SendSingle
<1>1. /\ b \notin sslab /\ b # NoBlock /\ Fresh(b) /\ UsedBlock(b) /\ call[m] = "busy"
      /\ sctx \in [SendBlock -> SendCtx] /\ sctx[b] \in SendCtx /\ txq \in Seq(Frame)
      /\ Cfs[m] = 0 /\ aired[m] = <<>> /\ ~HasFrame(b) /\ sctx[b].pending = 0
  BY AppHolds DEF SendSingle, Carries, SendTypeInv, SendTypeOK, AirInv, AppFits, Unsent, Fresh, UsedBlock
<1>2. app' = NoApp /\ UNCHANGED <<srun, reports, aired>>
  BY DEF SendSingle
<1>3. ASSUME NEW v \in {"accepted", "refused"}, call' = [call EXCEPT ![m] = v] PROVE Unsent'
  <2>1. \A n \in Msg : call'[n] # "accepted" => call[n] # "accepted"
    BY <1>1, <1>3 DEF SendTypeInv, SendTypeOK
  <2> QED BY <1>2, <2>1 DEF AirInv, Unsent
<1>4. AppFits' /\ (NoneLost => OkMeansAired') /\ AiredInOrder'
  BY <1>2 DEF AppFits, NoApp, AirInv, OkMeansAired, NoneLost, AiredInOrder
<1> DEFINE e == [sctx[b] EXCEPT !.arg = m]
           d == [e EXCEPT !.pending = @ + 1]
<1>5. e.state = "SEND_FF" /\ e.pending = 0 /\ d.arg = m
  <2>1. e.state = sctx[b].state /\ e.pending = sctx[b].pending /\ d.arg = m
    BY <1>1, SingleFields
  <2> HIDE DEF e, d
  <2> QED BY <1>1, <2>1 DEF Fresh
<1>6. CASE /\ txq' = Append(txq, [kind |-> "SF", msg |-> m, idx |-> 0, len |-> 1, sn |-> 0, blk |-> b])
           /\ sctx' = [sctx EXCEPT ![b] = d] /\ call' = [call EXCEPT ![m] = "accepted"] /\ UNCHANGED sslab
  <2> DEFINE f == [kind |-> "SF", msg |-> m, idx |-> 0, len |-> 1, sn |-> 0, blk |-> b]
  <2>1. f \in Frame /\ f.blk = b /\ f.kind = "SF" /\ f.msg = m /\ f.idx = 0
    BY CommonAssumption DEF CommonAssumption, Frame
  <2>2. txq' = Append(txq, f)
    BY <1>6
  <2> HIDE DEF f, d, e
  <2>3. Driver' = Driver \cup {f}
    BY <1>1, <2>1, <2>2, DriverAppend
  <2>4. sctx'[b] = d /\ Alone(b)
    BY <1>1, <1>2, <1>6, SendAssumption DEF Alone, NoApp, SendAssumption
  <2>5. QueueOf(b) /\ AirOf(b)
    BY <1>2, <2>1, <2>3 DEF QueueOf, AirOf
  <2>6. FrameFits(f)'
    BY <1>1, <1>2, <1>5, <2>1, <2>4 DEF FrameFits
  <2>7. \A g \in Driver' : g.blk = b => FrameFits(g)'
    BY <1>1, <2>3, <2>6, DriverHas
  <2>8. HasSf(b)'
    BY <2>1, <2>3 DEF HasSf, Driver
  <2>9. Progress(b)'
    BY <1>1, <1>2, <1>5, <2>4, <2>8 DEF Progress
  <2> QED BY <1>3, <1>4, <1>6, <2>4, <2>5, <2>7, <2>9, AirStep
<1>7. CASE sctx' = [sctx EXCEPT ![b] = Freed(e)] /\ sslab' = sslab \cup {b} /\ UNCHANGED txq
           /\ call' = [call EXCEPT ![m] = "refused"]
  <2>1. Alone(b) /\ Progress(b)'
    BY <1>1, <1>2, <1>7, SendAssumption DEF Alone, Progress, NoApp, SendAssumption
  <2> QED BY <1>1, <1>2, <1>3, <1>4, <1>7, <2>1, QuietAir
<1> HIDE DEF d, e
<1> QED BY <1>5, <1>6, <1>7 DEF SendSingle, d, e

-----------------------------------------------------------------------------
(* The work queue thread.                                                  *)

\* The same part of the same message is left.
Kept(d, c) == d.data = c.data /\ d.arg = c.arg /\ d.rem = c.rem

\* Waiting and counting leave the message alone.
LEMMA WaitingKeeps == \A c \in SendCtx :
  /\ Kept(AwaitFc(c), c) /\ AwaitFc(c).state = "WAIT_FC"
  /\ Kept(AfterLast(c), c) /\ AfterLast(c).state = "WAIT_BACKLOG"
  /\ Kept([c EXCEPT !.state = "WAIT_ST"], c) /\ [c EXCEPT !.state = "WAIT_ST"].state = "WAIT_ST"
BY CtxFields DEF AwaitFc, AfterLast, Kept

\* So does the bookkeeping of send_cf.
LEMMA CountedKeeps == \A c \in SendCtx : Kept(Counted(c, 0), c) /\ Counted(c, 0).state = c.state
BY CtxFields DEF Counted, Kept

\* And so do the timers and the semaphore.
LEMMA TimersKeep == \A c \in SendCtx :
  /\ Kept([c EXCEPT !.timer = FALSE], c) /\ [c EXCEPT !.timer = FALSE].state = c.state
  /\ Kept([c EXCEPT !.sem = 0], c) /\ [c EXCEPT !.sem = 0].state = c.state
  /\ Kept([c EXCEPT !.timer = TRUE, !.state = "SEND_CF"], c)
  /\ [c EXCEPT !.timer = TRUE, !.state = "SEND_CF"].state = "SEND_CF"
BY CtxFields DEF Kept

\* A context that is not sending a single frame is sending a longer message.
LEMMA LongOne == \A b \in SendBlock :
  SendTypeInv /\ SendInv /\ AirInv /\ b \notin sslab /\ app.blk # b /\ ~HasSf(b) =>
    /\ Sending(b) /\ sctx[b].arg \in Msg /\ Cfs[sctx[b].arg] \in Nat \ {0}
    /\ sctx[b].rem \in Nat /\ sctx[b] \in SendCtx /\ aired[sctx[b].arg] \in Seq(Int)
<1> SUFFICES ASSUME NEW b \in SendBlock, SendTypeInv, SendInv, AirInv, b \notin sslab, app.blk # b, ~HasSf(b)
             PROVE  /\ Sending(b) /\ sctx[b].arg \in Msg /\ Cfs[sctx[b].arg] \in Nat \ {0}
                    /\ sctx[b].rem \in Nat /\ sctx[b] \in SendCtx /\ aired[sctx[b].arg] \in Seq(Int)
  OBVIOUS
<1>1. sctx[b].arg \in Msg
  BY CarriesOne
<1>2. sctx[b] \in SendCtx /\ aired[sctx[b].arg] \in Seq(Int)
  BY <1>1 DEF SendTypeInv, SendTypeOK
<1>3. Cfs[sctx[b].arg] # 0 /\ Sending(b)
  BY DEF AirInv, Progress
<1> QED BY <1>1, <1>2, <1>3, CommonAssumption DEF CommonAssumption, SendCtx

\* The context after a step of the work queue thread that sends nothing.
LEMMA ThreadGoesOn == \A b \in SendBlock, d \in SendCtx :
  /\ SendTypeInv /\ SendInv /\ AirInv /\ b \notin sslab /\ app.blk # b /\ ~HasSf(b)
  /\ sctx' = [sctx EXCEPT ![b] = d] /\ Kept(d, sctx[b]) /\ RunsOn(b)
  /\ UNCHANGED <<sslab, app, call, reports, txq, aired>>
  /\ Phase(b)' /\ (Accounted(b) => Accounted(b)')
  => AirInv'
<1> SUFFICES ASSUME NEW b \in SendBlock, NEW d \in SendCtx,
                    SendTypeInv, SendInv, AirInv, b \notin sslab, app.blk # b, ~HasSf(b),
                    sctx' = [sctx EXCEPT ![b] = d], Kept(d, sctx[b]), RunsOn(b),
                    UNCHANGED <<sslab, app, call, reports, txq, aired>>,
                    Phase(b)', Accounted(b) => Accounted(b)'
             PROVE  AirInv'
  OBVIOUS
<1>1. sctx'[b] = d /\ \A c \in SendBlock \ {b} : sctx'[c] = sctx[c]
  BY DEF SendTypeInv, SendTypeOK
<1>2. Alone(b)
  BY <1>1, SendAssumption DEF Alone, RunsOn, SendAssumption
<1>3. Cfs[sctx[b].arg] # 0
  BY LongOne
<1> QED BY <1>1, <1>2, <1>3, GoesOn DEF Kept

\* The account, after a step that neither sends nor starts to wait.
LEMMA AccountKept == \A b \in SendBlock :
  /\ UNCHANGED <<aired, txq>> /\ Kept(sctx'[b], sctx[b]) /\ Accounted(b) /\ sctx[b].state # "ERR"
  /\ \/ sctx[b].state # "WAIT_FC" /\ ~(srun.blk = b /\ srun.pc = "ffSent")
     \/ sctx'[b].state = "WAIT_FC"
     \/ aired[sctx[b].arg] # <<>>
  => Accounted(b)'
<1> SUFFICES ASSUME NEW b \in SendBlock, UNCHANGED <<aired, txq>>, Kept(sctx'[b], sctx[b]), Accounted(b),
                    sctx[b].state # "ERR",
                    \/ sctx[b].state # "WAIT_FC" /\ ~(srun.blk = b /\ srun.pc = "ffSent")
                    \/ sctx'[b].state = "WAIT_FC"
                    \/ aired[sctx[b].arg] # <<>>
             PROVE  Accounted(b)'
  OBVIOUS
<1>1. (HasFrame(b)' <=> HasFrame(b)) /\ Ahead(b)' = Ahead(b) /\ sctx'[b].arg = sctx[b].arg /\ sctx'[b].rem = sctx[b].rem
  BY DEF HasFrame, Ahead, Kept
<1> QED BY <1>1 DEF Accounted

\* After send_ff.
LEMMA FfQueuedAir == SendTypeInv /\ SendInv /\ AirInv /\ SendFfQueued => AirInv'
<1> SUFFICES ASSUME SendTypeInv, SendInv, AirInv, SendFfQueued, NEW b \in SendBlock, b = srun.blk
             PROVE  AirInv'
  BY RunHolds DEF SendFfQueued
<1>1. /\ b \notin sslab /\ Working(b) /\ ~HasSf(b) /\ app.blk # b /\ b # NoBlock
      /\ sctx[b] \in SendCtx /\ sctx \in [SendBlock -> SendCtx] /\ srun.pc = "ffSent"
  BY RunHolds DEF SendFfQueued, SendTypeInv, SendTypeOK
<1>2. /\ sctx' = [sctx EXCEPT ![b] = AwaitFc(sctx[b])] /\ srun' = NoRun
      /\ UNCHANGED <<sslab, app, call, reports, txq, aired>>
  BY DEF SendFfQueued
<1>3. sctx'[b] = AwaitFc(sctx[b]) /\ Kept(sctx'[b], sctx[b]) /\ sctx'[b].state = "WAIT_FC"
  BY <1>1, <1>2, WaitingKeeps
<1>4. RunsOn(b) /\ srun'.blk # b
  BY <1>1, <1>2 DEF RunsOn, NoRun
<1>5. Phase(b)'
  BY <1>1, <1>3, <1>4, LongOne DEF Phase, Sending, Kept
<1>6. Accounted(b) => Accounted(b)'
  BY <1>1, <1>2, <1>3, AccountKept DEF Working
<1> QED BY <1>1, <1>2, <1>3, <1>4, <1>5, <1>6, AwaitFcTyped, ThreadGoesOn

\* In send_cf, between reading and writing the backlog counter.
LEMMA CfQueuedAir == SendTypeInv /\ SendInv /\ AirInv /\ SendCfQueued => AirInv'
<1> SUFFICES ASSUME SendTypeInv, SendInv, AirInv, SendCfQueued, NEW b \in SendBlock, b = srun.blk
             PROVE  AirInv'
  BY RunHolds DEF SendCfQueued
<1>1. /\ b \notin sslab /\ Working(b) /\ ~HasSf(b) /\ app.blk # b /\ b # NoBlock
      /\ sctx[b] \in SendCtx /\ sctx \in [SendBlock -> SendCtx] /\ srun.pc = "cfSent"
  BY RunHolds DEF SendCfQueued, SendTypeInv, SendTypeOK
<1>2. /\ srun' = [srun EXCEPT !.pc = "cfLoaded", !.reg = sctx[b].backlog]
      /\ UNCHANGED <<sctx, sslab, app, call, reports, txq, aired>>
  BY DEF SendCfQueued
<1>3. srun'.pc = "cfLoaded" /\ srun'.blk = b /\ sctx[b].state = "SEND_CF"
  BY <1>1, <1>2 DEF SendTypeInv, SendTypeOK, Working
<1>4. RunsOn(b) /\ Kept(sctx[b], sctx[b]) /\ sctx' = [sctx EXCEPT ![b] = sctx[b]]
  BY <1>1, <1>2, <1>3 DEF RunsOn, Kept
<1>5. Phase(b)'
  BY <1>2, <1>3 DEF Phase
<1>6. Accounted(b) => Accounted(b)'
  BY <1>1, <1>2, <1>3, <1>4, AccountKept
<1> QED BY <1>1, <1>2, <1>4, <1>5, <1>6, ThreadGoesOn

\* The end of the loop body of send_cf: the context waits for the last frame only when
\* none is left to send.
LEMMA CfCountedAir == SendTypeInv /\ SendInv /\ AirInv /\ SendCfCounted => AirInv'
<1> SUFFICES ASSUME SendTypeInv, SendInv, AirInv, SendCfCounted, NEW b \in SendBlock, b = srun.blk
             PROVE  AirInv'
  BY RunHolds DEF SendCfCounted
<1>1. /\ b \notin sslab /\ Working(b) /\ ~HasSf(b) /\ app.blk # b /\ b # NoBlock
      /\ sctx[b] \in SendCtx /\ sctx \in [SendBlock -> SendCtx] /\ srun.pc = "cfLoaded"
  BY RunHolds DEF SendCfCounted, SendTypeInv, SendTypeOK
<1>2. srun.reg = 0 /\ sctx[b].state = "SEND_CF"
  BY <1>1 DEF Working
<1> DEFINE e == Counted(sctx[b], 0)
<1>3. e \in SendCtx /\ Kept(e, sctx[b]) /\ e.state = "SEND_CF"
  BY <1>1, <1>2, CountedTyped, CountedKeeps
<1>4. \E d \in SendCtx :
        /\ sctx' = [sctx EXCEPT ![b] = d]
        /\ \/ d = AfterLast(e) /\ srun' = NoRun /\ e.rem = 0
           \/ d = AwaitFc(e) /\ srun' = NoRun /\ e.rem > 0
           \/ d = [e EXCEPT !.state = "WAIT_ST"] /\ srun' = NoRun /\ e.rem > 0
           \/ d = e /\ srun' = Running("sem", b) /\ e.rem > 0
  <2>1. /\ AfterLast(e) \in SendCtx /\ AwaitFc(e) \in SendCtx /\ [e EXCEPT !.state = "WAIT_ST"] \in SendCtx
    BY <1>3, AfterLastTyped, AwaitFcTyped, StFields
  <2>2. e = [sctx[b] EXCEPT !.backlog = Byte(srun.reg + 1), !.sn = NextSn(@), !.bs = Byte(@ - 1)]
    BY <1>2 DEF Counted
  <2> HIDE DEF e
  <2> QED BY <1>3, <2>1, <2>2 DEF SendCfCounted
<1> HIDE DEF e
<1>5. PICK d \in SendCtx :
        /\ sctx' = [sctx EXCEPT ![b] = d]
        /\ \/ d = AfterLast(e) /\ srun' = NoRun /\ e.rem = 0
           \/ d = AwaitFc(e) /\ srun' = NoRun /\ e.rem > 0
           \/ d = [e EXCEPT !.state = "WAIT_ST"] /\ srun' = NoRun /\ e.rem > 0
           \/ d = e /\ srun' = Running("sem", b) /\ e.rem > 0
  BY <1>4
<1>6. sctx'[b] = d /\ UNCHANGED <<sslab, app, call, reports, txq, aired>>
  BY <1>1, <1>5 DEF SendCfCounted
<1>7. /\ Kept(d, e)
      /\ \/ srun' = NoRun /\ d.state = "WAIT_BACKLOG" /\ d.rem = 0
         \/ srun' = NoRun /\ d.state \in {"WAIT_FC", "WAIT_ST"} /\ d.rem > 0
         \/ srun' = Running("sem", b) /\ d.state = "SEND_CF" /\ d.rem > 0
  <2>1. CASE d = AfterLast(e) /\ srun' = NoRun /\ e.rem = 0
    BY <1>3, <2>1, WaitingKeeps DEF Kept
  <2>2. CASE d = AwaitFc(e) /\ srun' = NoRun /\ e.rem > 0
    BY <1>3, <2>2, WaitingKeeps DEF Kept
  <2>3. CASE d = [e EXCEPT !.state = "WAIT_ST"] /\ srun' = NoRun /\ e.rem > 0
    BY <1>3, <2>3, WaitingKeeps DEF Kept
  <2>4. CASE d = e /\ srun' = Running("sem", b) /\ e.rem > 0
    BY <1>3, <2>4 DEF Kept
  <2> QED BY <1>5, <2>1, <2>2, <2>3, <2>4
<1>8. Kept(d, sctx[b]) /\ RunsOn(b)
  BY <1>1, <1>3, <1>7 DEF Kept, RunsOn, NoRun, Running
<1>9. Phase(b)'
  BY <1>1, <1>6, <1>7 DEF Phase, NoRun, Running
<1>10. Accounted(b) => Accounted(b)'
  BY <1>1, <1>2, <1>6, <1>8, AccountKept
<1> QED BY <1>1, <1>5, <1>6, <1>8, <1>9, <1>10, ThreadGoesOn

\* Moving past a frame.
Past(d, c) == d.data = c.data /\ d.arg = c.arg /\ d.rem = c.rem - 1

\* rem_len and data move past the frame just handed to the driver.
LEMMA AdvancePast == \A c \in SendCtx :
  LET d == Advance(c) e == [d EXCEPT !.pending = @ + 1] f == [d EXCEPT !.state = "ERR"] IN
  /\ d \in SendCtx /\ e \in SendCtx /\ f \in SendCtx
  /\ d.state = c.state /\ e.state = c.state /\ f.state = "ERR"
  /\ c.rem > 0 => Past(d, c) /\ Past(e, c) /\ Past(f, c)
<1> SUFFICES ASSUME NEW c \in SendCtx
             PROVE  LET d == Advance(c) e == [d EXCEPT !.pending = @ + 1] f == [d EXCEPT !.state = "ERR"] IN
                    /\ d \in SendCtx /\ e \in SendCtx /\ f \in SendCtx
                    /\ d.state = c.state /\ e.state = c.state /\ f.state = "ERR"
                    /\ c.rem > 0 => Past(d, c) /\ Past(e, c) /\ Past(f, c)
  OBVIOUS
<1> DEFINE d == Advance(c)
<1>1. d \in SendCtx
  BY AdvanceTyped
<1>2. d.data = c.data /\ d.arg = c.arg /\ d.state = c.state /\ (c.rem > 0 => d.rem = c.rem - 1)
  BY CtxFields DEF Advance
<1> HIDE DEF d
<1>3. [d EXCEPT !.pending = @ + 1] \in SendCtx /\ [d EXCEPT !.state = "ERR"] \in SendCtx
  BY <1>1, PendingTyped, PutState DEF TxState
<1>4. /\ [d EXCEPT !.pending = @ + 1].data = d.data /\ [d EXCEPT !.pending = @ + 1].arg = d.arg
      /\ [d EXCEPT !.pending = @ + 1].rem = d.rem /\ [d EXCEPT !.pending = @ + 1].state = d.state
      /\ [d EXCEPT !.state = "ERR"].data = d.data /\ [d EXCEPT !.state = "ERR"].arg = d.arg
      /\ [d EXCEPT !.state = "ERR"].rem = d.rem /\ [d EXCEPT !.state = "ERR"].state = "ERR"
  BY <1>1, CtxFields
<1> QED BY <1>1, <1>2, <1>3, <1>4 DEF Past, d

\* A context that may send its next frame: what the frame is, and what has gone before.
LEMMA NextOne == \A b \in SendBlock, c \in SendCtx :
  /\ SendTypeInv /\ SendInv /\ AirInv /\ b \notin sslab /\ app.blk # b /\ ~HasFrame(b)
  /\ Kept(c, sctx[b]) /\ c.rem > 0
  => /\ c.data = c.arg /\ c.arg \in Msg /\ Cfs[c.arg] \in Nat \ {0} /\ c.rem \in Nat
     /\ c.rem <= Cfs[c.arg] + 1 /\ Ahead(b) = Cfs[c.arg] + 1 - c.rem
     /\ \A j \in DOMAIN aired[c.arg] : aired[c.arg][j] < Ahead(b) /\ aired[c.arg][j] \in Int
     /\ aired[c.arg] \in Seq(Int) /\ Sending(b) /\ \A f \in Driver : f.blk # b
<1> SUFFICES ASSUME NEW b \in SendBlock, NEW c \in SendCtx, SendTypeInv, SendInv, AirInv, b \notin sslab,
                    app.blk # b, ~HasFrame(b), Kept(c, sctx[b]), c.rem > 0
             PROVE  /\ c.data = c.arg /\ c.arg \in Msg /\ Cfs[c.arg] \in Nat \ {0} /\ c.rem \in Nat
                    /\ c.rem <= Cfs[c.arg] + 1 /\ Ahead(b) = Cfs[c.arg] + 1 - c.rem
                    /\ \A j \in DOMAIN aired[c.arg] : aired[c.arg][j] < Ahead(b) /\ aired[c.arg][j] \in Int
                    /\ aired[c.arg] \in Seq(Int) /\ Sending(b) /\ \A f \in Driver : f.blk # b
  OBVIOUS
<1>1. ~HasSf(b) /\ \A f \in Driver : f.blk # b
  BY DriverHas
<1>2. /\ Sending(b) /\ sctx[b].arg \in Msg /\ Cfs[sctx[b].arg] \in Nat \ {0}
      /\ sctx[b].rem \in Nat /\ aired[sctx[b].arg] \in Seq(Int)
  BY <1>1, LongOne
<1>3. \A j \in DOMAIN aired[sctx[b].arg] : aired[sctx[b].arg][j] \in Int
  BY <1>2
<1> QED BY <1>1, <1>2, <1>3 DEF Sending, Counts, Ahead, Kept

\* The driver takes the frame.
LEMMA NextQueued ==
  ASSUME NEW b \in SendBlock, NEW c \in SendCtx, NEW d \in SendCtx,
         NEW kind \in {"FF", "CF"}, NEW sn \in 0..(SnMod - 1),
         SendTypeInv, SendInv, AirInv, b \notin sslab, app.blk # b, ~HasFrame(b), srun.blk \in {b, NoBlock},
         Kept(c, sctx[b]), c.rem > 0, Past(d, c), d.state = sctx[b].state,
         IF kind = "FF" THEN sctx[b].state = "SEND_FF" /\ srun.blk # b /\ srun' = Running("ffSent", b)
                        ELSE sctx[b].state = "SEND_CF" /\ srun.pc # "ffSent" /\ srun' = Running("cfSent", b),
         txq' = Append(txq, NextFrame(c, b, kind, sn)), sctx' = [sctx EXCEPT ![b] = d],
         UNCHANGED <<sslab, app, call, reports, aired>>
  PROVE  AirInv'
<1>1. /\ c.data = c.arg /\ c.arg \in Msg /\ Cfs[c.arg] \in Nat \ {0} /\ c.rem \in Nat
      /\ c.rem <= Cfs[c.arg] + 1 /\ Ahead(b) = Cfs[c.arg] + 1 - c.rem
  BY NextOne
<1>20. aired[c.arg] \in Seq(Int) /\ Sending(b) /\ \A f \in Driver : f.blk # b
  BY NextOne
<1>21. \A j \in DOMAIN aired[c.arg] : aired[c.arg][j] < Ahead(b) /\ aired[c.arg][j] \in Int
  BY NextOne
<1>22. sctx[b].arg = c.arg /\ sctx[b].rem = c.rem /\ d.arg = c.arg /\ d.data = c.arg /\ d.rem = c.rem - 1
  BY <1>1 DEF Kept, Past
<1>2. b # NoBlock /\ txq \in Seq(Frame) /\ sctx'[b] = d /\ \A x \in SendBlock \ {b} : sctx'[x] = sctx[x]
  BY SendAssumption DEF SendTypeInv, SendTypeOK, SendAssumption
<1>23. srun'.blk = b /\ srun'.pc = IF kind = "FF" THEN "ffSent" ELSE "cfSent"
  BY DEF Running
<1> DEFINE f == NextFrame(c, b, kind, sn)
<1>3. f \in Frame /\ f.blk = b /\ f.msg = c.arg /\ f.idx = Ahead(b) /\ f.kind # "SF"
  <2>1. c.data # NoMsg
    BY <1>1, CommonAssumption DEF CommonAssumption
  <2> QED BY <1>1, <2>1, FrameTyped DEF NextFrame
<1> HIDE DEF f
<1>4. Driver' = Driver \cup {f}
  BY <1>2, <1>3, DriverAppend DEF f
<1>5. Alone(b) /\ QueueOf(b) /\ AirOf(b)
  <2>1. Alone(b)
    BY <1>2, <1>23, SendAssumption DEF Alone, SendAssumption
  <2>2. QueueOf(b) /\ AirOf(b)
    BY <1>3, <1>4 DEF QueueOf, AirOf
  <2> QED BY <2>1, <2>2
<1>6. Ahead(b)' = Ahead(b) + 1 /\ Ahead(b) \in Int /\ Ahead(b) <= Cfs[c.arg]
  <2>1. Ahead(b)' = Cfs[d.arg] + 1 - d.rem
    BY <1>2 DEF Ahead
  <2> QED BY <1>1, <1>22, <2>1, SMTT(40)
<1>7. \A g \in Driver' : g.blk = b => g = f
  BY <1>20, <1>4
<1>8. FrameFits(f)'
  BY <1>1, <1>2, <1>3, <1>6, <1>21, <1>22 DEF FrameFits
<1>9. Counts(b)'
  <2>1. \A j \in DOMAIN aired[c.arg] : aired[c.arg][j] < Ahead(b) + 1
    BY <1>6, <1>21
  <2>2. \A g \in Driver' : g.blk = b => g.idx < Ahead(b) + 1
    BY <1>3, <1>6, <1>7
  <2>3. d.rem <= Cfs[c.arg] + 1
    BY <1>1, <1>22
  <2> QED BY <1>2, <1>6, <1>22, <2>1, <2>2, <2>3 DEF Counts
<1>10. Phase(b)'
  <2>2. CASE kind = "FF"
    <3>1. c.rem = Cfs[c.arg] + 1
      BY <1>20, <1>22, <2>2 DEF Sending, Phase
    <3>2. d.rem > 0 /\ d.state = "SEND_FF"
      BY <1>1, <1>22, <2>2, <3>1
    <3> QED BY <1>2, <1>23, <2>2, <3>2 DEF Phase
  <2>3. CASE kind = "CF"
    <3>1. d.state = "SEND_CF"
      BY <2>3
    <3> QED BY <1>2, <1>23, <2>3, <3>1 DEF Phase
  <2> QED BY <2>2, <2>3
<1>11. NoneLost => Accounted(b)'
  <2> SUFFICES ASSUME NoneLost PROVE Accounted(b)'
    OBVIOUS
  <2>2. Len(aired[c.arg]) = Ahead(b)
    <3>1. Accounted(b) /\ sctx[b].state \in {"SEND_FF", "SEND_CF"}
      BY <1>20 DEF Sending
    <3>2. ~(srun.blk = b /\ srun.pc = "ffSent")
      OBVIOUS
    <3>3. Len(aired[c.arg]) + 0 = Ahead(b)
      BY <1>22, <3>1, <3>2 DEF Accounted
    <3> QED BY <1>6, <1>20, <3>3
  <2>3. HasFrame(b)'
    <3>1. f \in Driver'
      BY <1>4
    <3>2. PICK i \in DOMAIN txq' : txq'[i] = f
      BY <3>1 DEF Driver
    <3> QED BY <1>3, <3>2 DEF HasFrame
  <2> QED BY <1>2, <1>6, <1>22, <2>2, <2>3 DEF Accounted
<1>12. Progress(b)'
  BY <1>1, <1>2, <1>22, <1>9, <1>10, <1>11 DEF Progress, Sending, NoneLost
<1>13. AiredInOrder' /\ AppFits' /\ Unsent' /\ (NoneLost => OkMeansAired')
  BY DEF AirInv, AiredInOrder, AppFits, Unsent, OkMeansAired, NoneLost
<1> QED BY <1>5, <1>7, <1>8, <1>12, <1>13, AirStep

\* The driver refuses the frame: a first frame is never missed, a consecutive one ends
\* the transfer.
LEMMA NextRefused ==
  ASSUME NEW b \in SendBlock, NEW c \in SendCtx, NEW d \in SendCtx,
         SendTypeInv, SendInv, AirInv, b \notin sslab, app.blk # b, ~HasFrame(b), srun.blk \in {b, NoBlock},
         Kept(c, sctx[b]), c.rem > 0, Past(d, c),
         \/ /\ sctx[b].state = "SEND_FF" /\ srun.blk # b
            /\ d.state = "SEND_FF" /\ srun' = Running("ffSent", b)
         \/ d.state = "ERR" /\ srun' = NoRun,
         sctx' = [sctx EXCEPT ![b] = d],
         UNCHANGED <<sslab, app, call, reports, txq, aired>>
  PROVE  AirInv'
<1>1. /\ c.data = c.arg /\ c.arg \in Msg /\ Cfs[c.arg] \in Nat \ {0} /\ c.rem \in Nat
      /\ c.rem <= Cfs[c.arg] + 1 /\ Ahead(b) = Cfs[c.arg] + 1 - c.rem
  BY NextOne
<1>20. aired[c.arg] \in Seq(Int) /\ Sending(b) /\ \A f \in Driver : f.blk # b
  BY NextOne
<1>21. \A j \in DOMAIN aired[c.arg] : aired[c.arg][j] < Ahead(b) /\ aired[c.arg][j] \in Int
  BY NextOne
<1>22. sctx[b].arg = c.arg /\ sctx[b].rem = c.rem /\ d.arg = c.arg /\ d.data = c.arg /\ d.rem = c.rem - 1
  BY <1>1 DEF Kept, Past
<1>2. b # NoBlock /\ sctx'[b] = d /\ \A x \in SendBlock \ {b} : sctx'[x] = sctx[x]
  BY SendAssumption DEF SendTypeInv, SendTypeOK, SendAssumption
<1>3. Alone(b) /\ Driver' = Driver /\ ~HasFrame(b)'
  BY <1>2, SendAssumption DEF Alone, Running, NoRun, SendAssumption, Driver, HasFrame
<1>4. Ahead(b)' = Ahead(b) + 1 /\ Ahead(b) \in Int
  <2>1. Ahead(b)' = Cfs[d.arg] + 1 - d.rem
    BY <1>2 DEF Ahead
  <2> QED BY <1>1, <1>22, <2>1
<1>5. Counts(b)'
  <2>1. \A j \in DOMAIN aired[c.arg] : aired[c.arg][j] < Ahead(b) + 1
    BY <1>4, <1>21
  <2>2. d.rem <= Cfs[c.arg] + 1
    BY <1>1, <1>22
  <2> QED BY <1>2, <1>3, <1>4, <1>20, <1>22, <2>1, <2>2 DEF Counts
<1>6. Phase(b)' /\ (NoneLost => Accounted(b)')
  <2>1. CASE /\ sctx[b].state = "SEND_FF" /\ srun.blk # b
             /\ d.state = "SEND_FF" /\ srun' = Running("ffSent", b)
    <3>1. c.rem = Cfs[c.arg] + 1 /\ d.rem = Cfs[c.arg] /\ d.rem > 0
      <4>1. c.rem = Cfs[c.arg] + 1
        BY <1>20, <1>22, <2>1 DEF Sending, Phase
      <4> QED BY <1>1, <1>22, <4>1
    <3>4. srun'.blk = b /\ srun'.pc = "ffSent"
      BY <2>1 DEF Running
    <3>2. Phase(b)'
      BY <1>2, <2>1, <3>1, <3>4 DEF Phase
    <3>3. ASSUME NoneLost PROVE Accounted(b)'
      <4>1. Accounted(b)
        BY <1>20, <3>3 DEF Sending
      <4>2. Len(aired[c.arg]) + 0 = Ahead(b)
        BY <1>22, <2>1, <4>1 DEF Accounted
      <4>3. Len(aired[c.arg]) = 0
        BY <1>1, <1>20, <3>1, <4>2
      <4>4. aired[c.arg] = <<>>
        BY <1>20, <4>3
      <4> QED BY <1>2, <1>3, <1>22, <3>1, <3>4, <4>4 DEF Accounted
    <3> QED BY <3>2, <3>3
  <2>2. CASE d.state = "ERR" /\ srun' = NoRun
    BY <1>2, <2>2 DEF Phase, Accounted, NoRun
  <2> QED BY <2>1, <2>2
<1>7. Progress(b)'
  BY <1>1, <1>2, <1>22, <1>5, <1>6 DEF Progress, Sending, NoneLost
<1>8. AppFits' /\ Unsent' /\ (NoneLost => OkMeansAired')
  BY DEF AirInv, AppFits, Unsent, OkMeansAired, NoneLost
<1> QED BY <1>3, <1>4, <1>2, <1>7, <1>8, QuietAir

\* send_cf on context value c, for a context without a frame in the driver.
LEMMA SendCfAir == \A b \in SendBlock, c \in SendCtx :
  /\ SendTypeInv /\ SendInv /\ AirInv /\ SendCf(b, c) /\ b \notin sslab /\ app.blk # b /\ ~HasFrame(b)
  /\ Kept(c, sctx[b]) /\ c.rem > 0 /\ c.state = "SEND_CF" /\ sctx[b].state = "SEND_CF"
  /\ srun.blk \in {b, NoBlock} /\ srun.pc # "ffSent"
  /\ UNCHANGED <<sslab, app, call, reports, aired>>
  => AirInv'
<1> SUFFICES ASSUME NEW b \in SendBlock, NEW c \in SendCtx, SendTypeInv, SendInv, AirInv, SendCf(b, c),
                    b \notin sslab, app.blk # b, ~HasFrame(b), Kept(c, sctx[b]), c.rem > 0,
                    c.state = "SEND_CF", sctx[b].state = "SEND_CF",
                    srun.blk \in {b, NoBlock}, srun.pc # "ffSent",
                    UNCHANGED <<sslab, app, call, reports, aired>>
             PROVE  AirInv'
  OBVIOUS
<1>1. c.sn \in 0..(SnMod - 1)
  BY DEF SendCtx
<1>2. CASE /\ txq' = Append(txq, NextFrame(c, b, "CF", c.sn))
           /\ sctx' = [sctx EXCEPT ![b] = [Advance(c) EXCEPT !.pending = @ + 1]]
           /\ srun' = Running("cfSent", b)
  <2> DEFINE d == [Advance(c) EXCEPT !.pending = @ + 1]
  <2>1. d \in SendCtx /\ d.state = "SEND_CF" /\ Past(d, c)
    BY AdvancePast
  <2>2. sctx' = [sctx EXCEPT ![b] = d]
    BY <1>2
  <2> HIDE DEF d
  <2> QED BY <1>1, <1>2, <2>1, <2>2, NextQueued
<1>3. CASE /\ sctx' = [sctx EXCEPT ![b] = [Advance(c) EXCEPT !.state = "ERR"]]
           /\ srun' = NoRun /\ UNCHANGED txq
  <2> DEFINE d == [Advance(c) EXCEPT !.state = "ERR"]
  <2>1. d \in SendCtx /\ d.state = "ERR" /\ Past(d, c)
    BY AdvancePast
  <2>2. sctx' = [sctx EXCEPT ![b] = d]
    BY <1>3
  <2> HIDE DEF d
  <2> QED BY <1>3, <2>1, <2>2, NextRefused
<1> QED BY <1>2, <1>3 DEF SendCf

\* The loop of send_cf goes on with the next frame.
LEMMA SemTakenAir == SendTypeInv /\ SendInv /\ AirInv /\ SendSemTaken => AirInv'
<1> SUFFICES ASSUME SendTypeInv, SendInv, AirInv, SendSemTaken, NEW b \in SendBlock, b = srun.blk
             PROVE  AirInv'
  BY RunHolds DEF SendSemTaken
<1>1. /\ b \notin sslab /\ Working(b) /\ ~HasSf(b) /\ app.blk # b /\ sctx[b] \in SendCtx
      /\ srun.pc = "sem" /\ sctx[b].sem = 1
  BY RunHolds DEF SendSemTaken, SendTypeInv, SendTypeOK
<1>2. ~HasFrame(b) /\ sctx[b].state = "SEND_CF"
  BY <1>1 DEF Working
<1>3. sctx[b].rem > 0
  BY <1>1, <1>2, LongOne DEF Sending, Phase
<1> DEFINE c == [sctx[b] EXCEPT !.sem = 0]
<1>4. c \in SendCtx /\ Kept(c, sctx[b]) /\ c.state = "SEND_CF"
  BY <1>1, <1>2, SemTaken, TimersKeep
<1>5. SendCf(b, c) /\ UNCHANGED <<sslab, app, call, reports, aired>>
  BY DEF SendSemTaken
<1> HIDE DEF c
<1>6. c.rem > 0
  BY <1>3, <1>4 DEF Kept
<1> QED BY <1>1, <1>2, <1>4, <1>5, <1>6, SendCfAir

\* send_work_handler in state SEND_FF: the first frame of the message.
LEMMA FfAir == \A b \in SendBlock :
  /\ SendTypeInv /\ SendInv /\ AirInv /\ srun = NoRun /\ b \in swork
  /\ sctx[b].state = "SEND_FF" /\ SendFf(b) /\ UNCHANGED <<sslab, app, call, reports, aired>>
  => AirInv'
<1> SUFFICES ASSUME NEW b \in SendBlock, SendTypeInv, SendInv, AirInv, srun = NoRun, b \in swork,
                    sctx[b].state = "SEND_FF", SendFf(b), UNCHANGED <<sslab, app, call, reports, aired>>
             PROVE  AirInv'
  OBVIOUS
<1>1. /\ b \notin sslab /\ Waiting(b) /\ ~HasSf(b) /\ app.blk # b /\ b # NoBlock /\ sctx[b] \in SendCtx
      /\ srun.blk = NoBlock
  BY QueuedHolds DEF NoRun
<1>2. ~HasFrame(b)
  BY <1>1 DEF Waiting
<1>3. sctx[b].rem > 0
  BY <1>1, LongOne DEF Sending, Phase
<1> DEFINE c == [sctx[b] EXCEPT !.sn = 1 % SnMod]
<1>4. c \in SendCtx /\ Kept(c, sctx[b]) /\ c.state = "SEND_FF"
  <2>1. c \in SendCtx
    BY <1>1, SnRange, PutSn
  <2> QED BY <1>1, <2>1, CtxFields DEF Kept
<1>5. /\ \/ /\ txq' = Append(txq, NextFrame(c, b, "FF", 0))
            /\ sctx' = [sctx EXCEPT ![b] = [Advance(c) EXCEPT !.pending = @ + 1]]
         \/ sctx' = [sctx EXCEPT ![b] = Advance(c)] /\ UNCHANGED txq
      /\ srun' = Running("ffSent", b)
  BY DEF SendFf
<1> HIDE DEF c
<1>6. c.rem > 0 /\ 0 \in 0..(SnMod - 1)
  BY <1>3, <1>4, CommonAssumption DEF Kept, CommonAssumption
<1>7. CASE /\ txq' = Append(txq, NextFrame(c, b, "FF", 0))
           /\ sctx' = [sctx EXCEPT ![b] = [Advance(c) EXCEPT !.pending = @ + 1]]
  <2> DEFINE d == [Advance(c) EXCEPT !.pending = @ + 1]
  <2>1. d \in SendCtx /\ d.state = "SEND_FF" /\ Past(d, c)
    BY <1>4, <1>6, AdvancePast
  <2>2. sctx' = [sctx EXCEPT ![b] = d]
    BY <1>7
  <2> HIDE DEF d
  <2> QED BY <1>1, <1>2, <1>4, <1>5, <1>6, <1>7, <2>1, <2>2, NextQueued
<1>8. CASE sctx' = [sctx EXCEPT ![b] = Advance(c)] /\ UNCHANGED txq
  <2> DEFINE d == Advance(c)
  <2>1. d \in SendCtx /\ d.state = "SEND_FF" /\ Past(d, c)
    BY <1>4, <1>6, AdvancePast
  <2>2. sctx' = [sctx EXCEPT ![b] = d]
    BY <1>8
  <2> HIDE DEF d
  <2> QED BY <1>1, <1>2, <1>4, <1>5, <1>6, <1>8, <2>1, <2>2, NextRefused
<1> QED BY <1>5, <1>7, <1>8

-----------------------------------------------------------------------------
(* The end of a transfer.                                                  *)

\* A message is reported, with result zero only if all of it has gone out.
LEMMA ReportAir == \A m \in Msg, r \in {"ok", "error"} :
  /\ SendTypeInv /\ OkMeansAired /\ reports[m] = <<>>
  /\ reports' = [reports EXCEPT ![m] = Append(@, r)]
  /\ \A n \in Msg \ {m} : aired'[n] = aired[n]
  /\ r = "ok" => Len(aired'[m]) = Cfs[m] + 1
  => OkMeansAired'
<1> SUFFICES ASSUME NEW m \in Msg, NEW r \in {"ok", "error"}, SendTypeInv, OkMeansAired, reports[m] = <<>>,
                    reports' = [reports EXCEPT ![m] = Append(@, r)],
                    \A n \in Msg \ {m} : aired'[n] = aired[n],
                    r = "ok" => Len(aired'[m]) = Cfs[m] + 1
             PROVE  OkMeansAired'
  OBVIOUS
<1>1. reports'[m] = Append(<<>>, r) /\ \A n \in Msg \ {m} : reports'[n] = reports[n]
  BY DEF SendTypeInv, SendTypeOK
<1>2. \A i \in DOMAIN Append(<<>>, r) : Append(<<>>, r)[i] = r
  OBVIOUS
<1>3. (\E i \in DOMAIN reports'[m] : reports'[m][i] = "ok") => Len(aired'[m]) = Cfs[m] + 1
  BY <1>1, <1>2
<1>4. ASSUME NEW n \in Msg \ {m}
      PROVE  (\E i \in DOMAIN reports'[n] : reports'[n][i] = "ok") => Len(aired'[n]) = Cfs[n] + 1
  BY <1>1 DEF OkMeansAired
<1> QED BY <1>3, <1>4 DEF OkMeansAired

\* send_work_handler in states ERR and WAIT_FIN.
LEMMA EndAir == \A b \in SendBlock : \A r \in {"ok", "error"} :
  /\ SendTypeInv /\ SendInv /\ AirInv /\ srun = NoRun /\ b \in swork
  /\ sctx[b].state = (IF r = "ok" THEN "WAIT_FIN" ELSE "ERR") /\ WorkEnd(b, r)
  /\ UNCHANGED <<app, call, aired>>
  => AirInv'
<1> SUFFICES ASSUME NEW b \in SendBlock, NEW r \in {"ok", "error"}, SendTypeInv, SendInv, AirInv,
                    srun = NoRun, b \in swork,
                    sctx[b].state = (IF r = "ok" THEN "WAIT_FIN" ELSE "ERR"), WorkEnd(b, r),
                    UNCHANGED <<app, call, aired>>
             PROVE  AirInv'
  OBVIOUS
<1>1. /\ b \notin sslab /\ Waiting(b) /\ sctx[b].home = "ctx" /\ ~HasSf(b)
      /\ app.blk # b /\ b # NoBlock /\ sctx[b] \in SendCtx /\ sctx \in [SendBlock -> SendCtx]
  BY QueuedHolds DEF SendTypeInv, SendTypeOK
<1>2. ~HasFrame(b)
  BY <1>1 DEF Waiting
<1> DEFINE e == [sctx[b] EXCEPT !.state = "RESET"] m == sctx[b].arg
<1>3. e.home = "ctx" /\ e.arg = m
  BY <1>1, EndFields
<1>4. ReportFor(e, r) /\ sctx' = [sctx EXCEPT ![b] = Freed(e)]
      /\ sslab' = sslab \cup {b} /\ srun' = NoRun /\ UNCHANGED txq
  BY DEF WorkEnd
<1> HIDE DEF e
<1>5. /\ m \in Msg /\ reports[m] = <<>> /\ Sending(b) /\ Cfs[m] \in Nat \ {0}
      /\ aired[m] \in Seq(Int)
  BY <1>1, CarriesOne, LongOne
<1>6. reports' = [reports EXCEPT ![m] = Append(@, r)]
  BY <1>3, <1>4, <1>5, CommonAssumption DEF ReportFor, CommonAssumption
<1>7. ASSUME NoneLost PROVE OkMeansAired'
  <2>1. ASSUME r = "ok" PROVE Len(aired'[m]) = Cfs[m] + 1
    <3>1. sctx[b].state = "WAIT_FIN" /\ Accounted(b) /\ sctx[b].rem = 0
      BY <1>5, <1>7, <2>1 DEF Sending, Phase
    <3>2. Len(aired[m]) + 0 = Ahead(b)
      BY <1>2, <1>5, <3>1 DEF Accounted
    <3> QED BY <1>5, <3>1, <3>2 DEF Ahead
  <2> HIDE DEF m
  <2> QED BY <1>5, <1>6, <1>7, <2>1, ReportAir DEF AirInv
<1>8. Alone(b) /\ Progress(b)'
  BY <1>1, <1>4, SendAssumption DEF Alone, Progress, NoRun, SendAssumption
<1>9. AppFits' /\ Unsent'
  BY DEF AirInv, AppFits, Unsent
<1> QED BY <1>2, <1>4, <1>7, <1>8, <1>9, QuietAir

\* send_work_handler, in every state a queued work item can find.
LEMMA WorkAir == \A b \in SendBlock : SendTypeInv /\ SendInv /\ AirInv /\ SendWork(b) => AirInv'
<1> SUFFICES ASSUME NEW b \in SendBlock, SendTypeInv, SendInv, AirInv, SendWork(b) PROVE AirInv'
  OBVIOUS
<1>1. srun = NoRun /\ b \in swork /\ UNCHANGED <<app, call, aired>>
  BY DEF SendWork
<1>2. /\ b \notin sslab /\ UsedBlock(b) /\ Waiting(b) /\ ~HasSf(b)
      /\ app.blk # b /\ b # NoBlock /\ sctx[b] \in SendCtx /\ srun.blk = NoBlock /\ srun.pc = "idle"
  BY <1>1, QueuedHolds DEF NoRun
<1>3. Sending(b)
  BY <1>2, LongOne
<1>4. CASE sctx[b].state = "SEND_FF"
  BY <1>1, <1>4, FfAir DEF SendWork
<1>5. CASE sctx[b].state = "SEND_CF"
  <2> DEFINE c == [sctx[b] EXCEPT !.timer = FALSE]
  <2>1. SendCf(b, c) /\ UNCHANGED <<sslab, reports>>
    BY <1>5 DEF SendWork
  <2>2. ~HasFrame(b) /\ sctx[b].rem > 0
    BY <1>2, <1>3, <1>5 DEF Waiting, Sending, Phase
  <2>3. c \in SendCtx /\ Kept(c, sctx[b]) /\ c.state = "SEND_CF"
    BY <1>2, <1>5, StopFields, TimersKeep
  <2> HIDE DEF c
  <2>4. c.rem > 0
    BY <2>2, <2>3 DEF Kept
  <2> QED BY <1>1, <1>2, <1>5, <2>1, <2>2, <2>3, <2>4, SendCfAir
<1>6. CASE sctx[b].state = "WAIT_ST"
  <2> DEFINE d == [sctx[b] EXCEPT !.timer = TRUE, !.state = "SEND_CF"]
  <2>1. sctx' = [sctx EXCEPT ![b] = d] /\ srun' = NoRun /\ UNCHANGED <<sslab, reports, txq>>
    BY <1>6 DEF SendWork, WorkWaitSt
  <2>2. Kept(d, sctx[b]) /\ d.state = "SEND_CF" /\ d \in SendCtx
    <3>1. [sctx[b] EXCEPT !.timer = TRUE] \in SendCtx
      BY <1>2, PutTimer
    <3>2. [[sctx[b] EXCEPT !.timer = TRUE] EXCEPT !.state = "SEND_CF"] \in SendCtx
      BY <3>1, PutState DEF TxState
    <3> QED BY <1>2, <3>2, TimersKeep
  <2> HIDE DEF d
  <2>3. sctx'[b] = d /\ sctx[b].rem > 0
    BY <1>3, <1>6, <2>1 DEF Sending, Phase, SendTypeInv, SendTypeOK
  <2>4. RunsOn(b) /\ srun'.blk # b
    BY <1>1, <1>2, <2>1 DEF RunsOn, NoRun
  <2>5. Phase(b)'
    BY <2>2, <2>3, <2>4 DEF Phase, Kept
  <2>6. Accounted(b) => Accounted(b)'
    BY <1>1, <1>2, <1>6, <2>1, <2>2, <2>3, AccountKept
  <2> QED BY <1>1, <1>2, <2>1, <2>2, <2>4, <2>5, <2>6, ThreadGoesOn
<1>7. CASE sctx[b].state = "ERR"
  <2>1. WorkEnd(b, "error")
    BY <1>7 DEF SendWork
  <2> QED BY <1>1, <1>7, <2>1, EndAir
<1>8. CASE sctx[b].state = "WAIT_FIN"
  <2>1. WorkEnd(b, "ok")
    BY <1>8 DEF SendWork
  <2> QED BY <1>1, <1>8, <2>1, EndAir
<1>9. CASE sctx[b].state \in {"RESET", "WAIT_FC", "WAIT_BACKLOG"}
  <2>1. UNCHANGED <<sctx, sslab, srun, app, reports, txq, aired>>
    BY <1>1, <1>9 DEF SendWork, WorkIgnored
  <2>2. Unsent'
    BY <1>1 DEF AirInv, Unsent
  <2> QED BY <2>1, <2>2, SameAir
<1> QED BY <1>2, <1>4, <1>5, <1>6, <1>7, <1>8, <1>9 DEF SendCtx, TxState

-----------------------------------------------------------------------------
(* Interrupt handlers.                                                     *)

\* One more frame of a message on the bus.
LEMMA AiredMore ==
  ASSUME NEW s \in Seq(Int), NEW x \in Int, \A j \in DOMAIN s : s[j] < x,
         \A i, j \in DOMAIN s : i < j => s[i] < s[j]
  PROVE  /\ \A i, j \in DOMAIN Append(s, x) : i < j => Append(s, x)[i] < Append(s, x)[j]
         /\ \A j \in DOMAIN Append(s, x) : Append(s, x)[j] = x \/ \E i \in DOMAIN s : Append(s, x)[j] = s[i]
         /\ Len(Append(s, x)) = Len(s) + 1
<1>1. /\ DOMAIN s = 1..Len(s) /\ Len(s) \in Nat /\ DOMAIN Append(s, x) = 1..(Len(s) + 1)
      /\ Append(s, x)[Len(s) + 1] = x /\ \A i \in 1..Len(s) : Append(s, x)[i] = s[i]
      /\ Len(Append(s, x)) = Len(s) + 1
  OBVIOUS
<1> DEFINE t == Append(s, x)
<1> HIDE DEF t
<1>2. \A j \in DOMAIN t : (j = Len(s) + 1 /\ t[j] = x) \/ (j \in DOMAIN s /\ t[j] = s[j])
  BY <1>1 DEF t
<1>3. ASSUME NEW i \in DOMAIN t, NEW j \in DOMAIN t, i < j PROVE t[i] < t[j]
  <2>1. i \in DOMAIN s /\ t[i] = s[i]
    BY <1>1, <1>2, <1>3 DEF t
  <2>2. CASE j = Len(s) + 1 /\ t[j] = x
    BY <2>1, <2>2
  <2>3. CASE j \in DOMAIN s /\ t[j] = s[j]
    BY <1>3, <2>1, <2>3
  <2> QED BY <1>2, <2>2, <2>3
<1> QED BY <1>1, <1>2, <1>3 DEF t

\* send_can_tx_callback leaves the message alone.
LEMMA SentKeeps == \A b \in SendBlock : SendTypeInv /\ SendCanTxCallback(b) =>
  \E d \in SendCtx : /\ sctx' = [sctx EXCEPT ![b] = d] /\ Kept(d, sctx[b])
                     /\ d.state = sctx[b].state \/ (sctx[b].state = "WAIT_BACKLOG" /\ d.state = "WAIT_FIN")
<1> SUFFICES ASSUME NEW b \in SendBlock, SendTypeInv, SendCanTxCallback(b)
             PROVE  \E d \in SendCtx :
                      /\ sctx' = [sctx EXCEPT ![b] = d] /\ Kept(d, sctx[b])
                      /\ d.state = sctx[b].state \/ (sctx[b].state = "WAIT_BACKLOG" /\ d.state = "WAIT_FIN")
  OBVIOUS
<1> DEFINE c == Sent(sctx[b])
           s == IF sctx[b].state = "WAIT_BACKLOG" /\ c.backlog = 0 THEN "WAIT_FIN" ELSE sctx[b].state
           d == [c EXCEPT !.state = s]
<1>1. sctx[b] \in SendCtx /\ s \in TxState
  BY DEF SendTypeInv, SendTypeOK, SendCtx, TxState
<1>2. c.state = sctx[b].state
  BY <1>1, SentFields
<1>3. sctx' = [sctx EXCEPT ![b] = d]
  BY <1>2 DEF SendCanTxCallback, Sent
<1>4. Kept(d, sctx[b]) /\ d.state = s
  BY <1>1, CtxFields DEF Sent, Kept
<1>5. d \in SendCtx
  <2>1. Byte(sctx[b].backlog - 1) \in 0..255
    <3>1. sctx[b].backlog - 1 \in Int
      BY <1>1 DEF SendCtx
    <3> QED BY <3>1, ByteRange
  <2>2. [sctx[b] EXCEPT !.pending = @ - 1] \in SendCtx
    BY <1>1, PendingTyped
  <2>3. [[sctx[b] EXCEPT !.pending = @ - 1] EXCEPT !.backlog = Byte(sctx[b].backlog - 1)] \in SendCtx
    BY <2>1, <2>2, PutBacklog
  <2>4. [[[sctx[b] EXCEPT !.pending = @ - 1] EXCEPT !.backlog = Byte(sctx[b].backlog - 1)] EXCEPT !.sem = 1] \in SendCtx
    <3> DEFINE e == [[sctx[b] EXCEPT !.pending = @ - 1] EXCEPT !.backlog = Byte(sctx[b].backlog - 1)]
    <3>1. e \in SendCtx /\ 1 \in 0..1
      BY <2>3
    <3> HIDE DEF e
    <3>2. [e EXCEPT !.sem = 1] \in SendCtx
      BY <3>1, PutSem
    <3> QED BY <3>2 DEF e
  <2>5. c = [[[sctx[b] EXCEPT !.pending = @ - 1] EXCEPT !.backlog = Byte(sctx[b].backlog - 1)] EXCEPT !.sem = 1]
    BY <1>1, CtxFields DEF Sent
  <2> QED BY <1>1, <2>4, <2>5, PutState
<1> HIDE DEF c, s, d
<1> QED BY <1>3, <1>4, <1>5 DEF s

\* The completion callbacks: the frame goes out behind those that went before, or is
\* lost on the bus.
LEMMA FrameDoneAir == \A ok \in BOOLEAN :
  /\ Disciplined /\ SendTypeInv /\ SendInv /\ AirInv /\ FrameDone(ok) /\ (ok \/ ~NoneLost)
  => AirInv'
<1> SUFFICES ASSUME NEW ok \in BOOLEAN, Disciplined, SendTypeInv, SendInv, AirInv, FrameDone(ok),
                    ok \/ ~NoneLost
             PROVE  AirInv'
  OBVIOUS
<1>0. Head(txq) \in Driver /\ FrameFits(Head(txq)) /\ Head(txq) \in Frame /\ Head(txq).blk \in SendBlock
  <2>1. Head(txq) \in Driver
    BY DriverTail DEF FrameDone, SendTypeInv, SendTypeOK, SendInv
  <2> QED BY <2>1, FrameOwned DEF AirInv
<1> SUFFICES ASSUME NEW f \in Frame, f = Head(txq), NEW b \in SendBlock, b = f.blk, NEW m \in Msg, m = f.msg
             PROVE  AirInv'
  BY <1>0 DEF FrameFits
<1>1. /\ txq \in Seq(Frame) /\ txq # <<>> /\ txq' = Tail(txq) /\ OneFrame
      /\ UNCHANGED <<srun, app, call>>
  BY DEF FrameDone, SendTypeInv, SendTypeOK, SendInv
<1>2. f \in Driver /\ Driver' = Driver \ {f} /\ \A g \in Driver' : g.blk # b
  BY <1>1, DriverTail
<1>3. /\ b \in SendBlock /\ HasFrame(b) /\ b \notin sslab /\ app.blk # b /\ f \in Frame
      /\ FrameFits(f)
  BY <1>2, FrameOwned DEF AirInv
<1>4. /\ m \in Msg /\ m = sctx[b].arg /\ call[m] = "accepted" /\ reports[m] = <<>>
      /\ aired[m] \in Seq(Int) /\ f.idx \in Int /\ f.idx <= Cfs[m] /\ Cfs[m] \in Nat
      /\ sctx[b].home = "ctx" /\ sctx[b] \in SendCtx /\ aired \in [Msg -> Seq(Int)]
  <2>1. m \in Msg /\ m = sctx[b].arg /\ f.idx <= Cfs[m]
    BY <1>3 DEF FrameFits
  <2>2. call[m] = "accepted" /\ reports[m] = <<>> /\ sctx[b].home = "ctx"
    BY <1>3, <2>1, CarriesOne
  <2>3. f.idx \in Int
    BY <1>3 DEF Frame
  <2> QED BY <1>3, <2>1, <2>2, <2>3, CommonAssumption DEF SendTypeInv, SendTypeOK, CommonAssumption
<1>5. aired' = IF ok THEN [aired EXCEPT ![m] = Append(@, f.idx)] ELSE aired
  BY <1>4, CommonAssumption DEF FrameDone, CommonAssumption
<1>6. IF f.kind = "SF" THEN SentSingleCb(b, ok) ELSE SendCanTxCallback(b)
  BY DEF FrameDone
<1>7. (f.kind = "SF" <=> HasSf(b)) /\ (f.kind = "SF" => Cfs[m] = 0) /\ ~HasFrame(b)'
  <2>1. (HasSf(b) <=> f.kind = "SF") /\ ~HasFrame(b)'
    BY <1>1, <1>3, TailQ
  <2> QED BY <1>3, <2>1 DEF FrameFits
<1>8. \A j \in DOMAIN aired[m] : aired[m][j] < f.idx
  BY <1>3 DEF FrameFits
<1>9. /\ aired'[m] = IF ok THEN Append(aired[m], f.idx) ELSE aired[m]
      /\ \A n \in Msg \ {m} : aired'[n] = aired[n]
  BY <1>4, <1>5
<1>10. \A i, j \in DOMAIN aired[m] : i < j => aired[m][i] < aired[m][j]
  BY <1>4 DEF AirInv, AiredInOrder
<1>11. /\ \A i, j \in DOMAIN Append(aired[m], f.idx) : i < j => Append(aired[m], f.idx)[i] < Append(aired[m], f.idx)[j]
       /\ \A j \in DOMAIN Append(aired[m], f.idx) :
            Append(aired[m], f.idx)[j] = f.idx \/ \E i \in DOMAIN aired[m] : Append(aired[m], f.idx)[j] = aired[m][i]
       /\ Len(Append(aired[m], f.idx)) = Len(aired[m]) + 1
  BY <1>4, <1>8, <1>10, AiredMore
<1>12. AiredInOrder'
  <2>1. ASSUME NEW n \in Msg \ {m}, NEW i \in DOMAIN aired'[n], NEW j \in DOMAIN aired'[n]
        PROVE  aired'[n][i] <= Cfs[n] /\ (i < j => aired'[n][i] < aired'[n][j])
    BY <1>9 DEF AirInv, AiredInOrder
  <2>2. ASSUME NEW i \in DOMAIN aired'[m], NEW j \in DOMAIN aired'[m]
        PROVE  aired'[m][i] <= Cfs[m] /\ (i < j => aired'[m][i] < aired'[m][j])
    <3>1. CASE ok
      <4> DEFINE t == Append(aired[m], f.idx)
      <4>1. aired'[m] = t
        BY <1>9, <3>1
      <4>2. /\ \A x, y \in DOMAIN t : x < y => t[x] < t[y]
            /\ \A y \in DOMAIN t : t[y] = f.idx \/ \E x \in DOMAIN aired[m] : t[y] = aired[m][x]
        BY <1>11
      <4> HIDE DEF t
      <4>3. \A x \in DOMAIN aired[m] : aired[m][x] <= Cfs[m]
        BY <1>4 DEF AirInv, AiredInOrder
      <4>4. t[i] <= Cfs[m]
        BY <1>4, <4>1, <4>2, <4>3
      <4> QED BY <4>1, <4>2, <4>4
    <3>2. CASE ~ok
      BY <1>4, <1>9, <3>2 DEF AirInv, AiredInOrder
    <3> QED BY <3>1, <3>2
  <2> QED BY <1>4, <2>1, <2>2 DEF AiredInOrder
<1>13. QueueOf(b) /\ AirOf(b)
  <2>1. QueueOf(b)
    BY <1>2 DEF QueueOf
  <2>2. AirOf(b)
    BY <1>3, <1>4, <1>9 DEF AirOf
  <2> QED BY <2>1, <2>2
<1>14. Unsent' /\ AppFits'
  BY <1>1, <1>4, <1>9 DEF AirInv, Unsent, AppFits
<1>15. \A g \in Driver' : g.blk # b
  BY <1>2
<1>16. CASE f.kind = "SF"
  <2> DEFINE c == [sctx[b] EXCEPT !.pending = @ - 1] r == IF ok THEN "ok" ELSE "error"
  <2>1. ReportFor(c, r) /\ sctx' = [sctx EXCEPT ![b] = Freed(c)] /\ sslab' = sslab \cup {b}
    BY <1>6, <1>16 DEF SentSingleCb
  <2>2. c.home = "ctx" /\ c.arg = m
    BY <1>4, SingleEndFields, SMTT(40)
  <2> HIDE DEF c
  <2>3. reports' = [reports EXCEPT ![m] = Append(@, r)]
    BY <1>4, <2>1, <2>2, CommonAssumption DEF ReportFor, CommonAssumption
  <2>4. Len(aired'[m]) = Cfs[m] + 1 \/ r # "ok"
    <3>1. aired[m] = <<>> /\ Cfs[m] = 0
      BY <1>3, <1>4, <1>7, <1>16 DEF AirInv, Progress
    <3>2. ok => Len(aired'[m]) = Len(aired[m]) + 1
      BY <1>9, <1>11
    <3> QED BY <3>1, <3>2
  <2>5. ASSUME NoneLost PROVE OkMeansAired'
    <3>1. OkMeansAired /\ r \in {"ok", "error"}
      BY <2>5 DEF AirInv
    <3> HIDE DEF r
    <3> QED BY <1>4, <1>9, <2>3, <2>4, <3>1, ReportAir
  <2>6. Alone(b) /\ Progress(b)'
    <3>1. \A x \in SendBlock \ {b} : sctx'[x] = sctx[x] /\ (x \in sslab' <=> x \in sslab)
      BY <2>1 DEF SendTypeInv, SendTypeOK
    <3>2. b \in sslab'
      BY <2>1
    <3> QED BY <1>1, <3>1, <3>2 DEF Alone, Progress
  <2> QED BY <1>3, <1>12, <1>13, <1>14, <1>15, <2>5, <2>6, AirStep
<1>17. CASE f.kind # "SF"
  <2>2. PICK d \in SendCtx : /\ sctx' = [sctx EXCEPT ![b] = d] /\ Kept(d, sctx[b])
                             /\ d.state = sctx[b].state \/ (sctx[b].state = "WAIT_BACKLOG" /\ d.state = "WAIT_FIN")
    BY <1>6, <1>17, SentKeeps
  <2>3. UNCHANGED <<sslab, reports>>
    BY <1>6, <1>17 DEF SendCanTxCallback
  <2>6. sctx'[b] = d /\ \A x \in SendBlock \ {b} : sctx'[x] = sctx[x]
    <3>1. sctx \in [SendBlock -> SendCtx]
      BY DEF SendTypeInv, SendTypeOK
    <3> QED BY <2>2, <3>1
  <2>7. Alone(b)
    BY <1>1, <2>3, <2>6 DEF Alone
  <2>8. Sending(b) /\ Cfs[m] # 0
    BY <1>3, <1>4, <1>7, <1>17, LongOne
  <2>9. Ahead(b)' = Ahead(b) /\ d.arg = m /\ d.data = sctx[b].data /\ d.rem = sctx[b].rem
    <3>1. d.arg = m /\ d.data = sctx[b].data /\ d.rem = sctx[b].rem
      BY <1>4, <2>2 DEF Kept
    <3>2. Ahead(b) = Cfs[m] + 1 - sctx[b].rem
      BY <1>4 DEF Ahead
    <3>3. Ahead(b)' = Cfs[d.arg] + 1 - d.rem
      BY <2>6 DEF Ahead
    <3> QED BY <3>1, <3>2, <3>3
  <2>10. Counts(b)'
    <3>1. f.idx < Ahead(b) /\ \A j \in DOMAIN aired[m] : aired[m][j] < Ahead(b)
      BY <1>2, <1>4, <2>8 DEF Sending, Counts
    <3>2. \A j \in DOMAIN aired'[m] : aired'[m][j] < Ahead(b)
      BY <1>9, <1>11, <3>1
    <3>3. d.data = m /\ d.rem <= Cfs[m] + 1
      BY <1>4, <2>8, <2>9 DEF Sending, Counts
    <3> QED BY <1>15, <2>6, <2>9, <3>2, <3>3 DEF Counts
  <2>11. Phase(b)'
    BY <1>1, <1>4, <2>2, <2>6, <2>8, <2>9 DEF Sending, Phase
  <2>12. ASSUME NoneLost PROVE Accounted(b)'
    <3>1. ok /\ Accounted(b)
      BY <2>8, <2>12 DEF Sending
    <3>2. Len(aired'[m]) = Len(aired[m]) + 1 /\ Len(aired[m]) \in Nat
      BY <1>4, <1>9, <1>11, <3>1
    <3>3. sctx[b].state # "ERR" => Len(aired[m]) + 1 = Ahead(b)
      BY <1>3, <1>4, <3>1 DEF Accounted
    <3>4. d.state # "ERR" => Len(aired'[m]) + 0 = Ahead(b)
      BY <2>2, <3>2, <3>3
    <3> QED BY <1>7, <2>6, <2>9, <3>4 DEF Accounted
  <2>13. Progress(b)'
    BY <2>6, <2>8, <2>9, <2>10, <2>11, <2>12 DEF Progress, Sending, NoneLost
  <2>14. ASSUME NoneLost PROVE OkMeansAired'
    <3>1. \A n \in Msg : reports'[n] = reports[n] /\ (n # m => aired'[n] = aired[n])
      BY <1>9, <2>3
    <3>2. DOMAIN reports[m] = {}
      BY <1>4
    <3> QED BY <2>14, <3>1, <3>2 DEF AirInv, OkMeansAired
  <2> QED BY <1>3, <1>12, <1>13, <1>14, <1>15, <2>7, <2>13, <2>14, AirStep
<1> QED BY <1>16, <1>17

-----------------------------------------------------------------------------
(* Flow control and timers.                                                *)

\* send_process_fc leaves the message alone.
LEMMA FcKeeps == \A c \in SendCtx, fc \in FlowControl :
  LET d == ProcessFc([c EXCEPT !.timer = FALSE], fc) IN
  d \in SendCtx /\ Kept(d, c) /\ d.state \in {"SEND_CF", "ERR", c.state}
<1> SUFFICES ASSUME NEW c \in SendCtx, NEW fc \in FlowControl
             PROVE  LET d == ProcessFc([c EXCEPT !.timer = FALSE], fc) IN
                    d \in SendCtx /\ Kept(d, c) /\ d.state \in {"SEND_CF", "ERR", c.state}
  OBVIOUS
<1> DEFINE e == [c EXCEPT !.timer = FALSE]
<1>1. e \in SendCtx /\ Kept(e, c) /\ e.state = c.state
  BY PutTimer, TimersKeep
<1> HIDE DEF e
<1> DEFINE d == ProcessFc(e, fc)
<1>2. d \in SendCtx
  BY <1>1, ProcessFcTyped
<1>3. Kept(d, e) /\ d.state \in {"SEND_CF", "ERR", e.state}
  <2>1. CASE fc.fs = "CTS"
    <3>1. d = [e EXCEPT !.state = "SEND_CF", !.wft = 0, !.backlog = 0, !.sem = 0, !.bs = fc.bs]
      BY <2>1 DEF ProcessFc
    <3> HIDE DEF d
    <3> QED BY <1>1, <3>1, CtxFields DEF Kept
  <2>2. CASE fc.fs = "WAIT"
    <3>1. d = [e EXCEPT !.timer = TRUE, !.wft = Byte(@ + 1),
                        !.state = IF e.wft >= WftMax THEN "ERR" ELSE @]
      BY <2>2 DEF ProcessFc
    <3> HIDE DEF d
    <3> QED BY <1>1, <3>1, CtxFields DEF Kept
  <2>3. CASE fc.fs \notin {"CTS", "WAIT"}
    <3>1. d = [e EXCEPT !.state = "ERR"]
      BY <2>3 DEF ProcessFc
    <3> HIDE DEF d
    <3> QED BY <1>1, <3>1, CtxFields DEF Kept
  <2> QED BY <2>1, <2>2, <2>3
<1> HIDE DEF d
<1>4. Kept(d, c) /\ d.state \in {"SEND_CF", "ERR", c.state}
  BY <1>1, <1>3 DEF Kept
<1> QED BY <1>2, <1>4 DEF d, e

\* send_can_rx: flow control answers a first frame, or the last frame of a block, that
\* has been transmitted.
LEMMA AnswerAir ==
  ASSUME SendTypeInv, SendInv, AirInv, NEW b, NEW a, NEW fc \in FlowControl, Answers(b, a, fc),
         \E i \in DOMAIN aired[sctx[b].data] : TRUE
  PROVE  AirInv'
<1>1. /\ b \in SendBlock
      /\ sctx' = [sctx EXCEPT ![b] = ProcessFc([sctx[b] EXCEPT !.timer = FALSE], fc)]
      /\ b \notin sslab /\ sctx[b].state = "WAIT_FC" /\ ~HasFrame(b) /\ app.blk # b /\ srun.blk # b
  BY DEF Answers
<1>2. ~HasSf(b) /\ sctx[b] \in SendCtx /\ sctx \in [SendBlock -> SendCtx]
  BY <1>1 DEF HasFrame, HasSf, SendTypeInv, SendTypeOK
<1>3. UNCHANGED <<sslab, srun, app, call, reports, txq, aired>>
  BY DEF Answers
<1>4. Sending(b) /\ aired[sctx[b].arg] # <<>>
  <2>1. Sending(b)
    BY <1>1, <1>2, LongOne
  <2>2. sctx[b].data = sctx[b].arg
    BY <2>1 DEF Sending, Counts
  <2> QED BY <2>1, <2>2
<1> DEFINE d == ProcessFc([sctx[b] EXCEPT !.timer = FALSE], fc)
<1>5. d \in SendCtx /\ Kept(d, sctx[b]) /\ d.state \in {"SEND_CF", "ERR", "WAIT_FC"}
  BY <1>1, <1>2, FcKeeps
<1>6. sctx' = [sctx EXCEPT ![b] = d]
  BY <1>1
<1> HIDE DEF d
<1>7. sctx'[b] = d
  BY <1>1, <1>2, <1>6
<1>8. Phase(b)'
  BY <1>1, <1>3, <1>4, <1>5, <1>7 DEF Phase, Sending, Kept
<1>9. Accounted(b) => Accounted(b)'
  BY <1>1, <1>3, <1>4, <1>5, <1>7, AccountKept
<1> QED BY <1>1, <1>2, <1>3, <1>5, <1>6, <1>8, <1>9, ThreadGoesOn DEF RunsOn

\* So do the frames of a well-behaved peer.
LEMMA PeersAir == Disciplined /\ SendTypeInv /\ SendInv /\ AirInv /\ Peers => AirInv'
BY AwaitedAnswers, AnswerAir

\* send_timeout_handler: the transfer fails, or its next consecutive frame is due.
LEMMA TimeoutAir == \A b \in SendBlock :
  Disciplined /\ SendTypeInv /\ SendInv /\ AirInv /\ SendTimeout(b) => AirInv'
<1> SUFFICES ASSUME NEW b \in SendBlock, Disciplined, SendTypeInv, SendInv, AirInv, SendTimeout(b)
             PROVE  AirInv'
  OBVIOUS
<1>1. sctx[b].timer /\ FramesOf(b) = {} /\ srun.blk # b
  BY DEF SendTimeout, SendQuiet, Disciplined
<1>2. b \notin sslab /\ UsedBlock(b)
  BY <1>1 DEF SendInv, BlockInv, FreeBlock
<1>3. /\ app.blk # b /\ ~HasFrame(b) /\ ~HasSf(b)
      /\ sctx[b] \in SendCtx /\ sctx \in [SendBlock -> SendCtx]
  BY <1>1, <1>2 DEF UsedBlock, Fresh, FramesOf, HasFrame, HasSf, SendTypeInv, SendTypeOK
<1>4. Sending(b)
  BY <1>2, <1>3, LongOne
<1> DEFINE d == [sctx[b] EXCEPT !.timer = FALSE, !.state = IF @ # "SEND_CF" THEN "ERR" ELSE @]
<1>5. d \in SendCtx
  <2>1. [sctx[b] EXCEPT !.timer = FALSE] \in SendCtx
    BY <1>3, PutTimer
  <2>2. \A v \in TxState : [[sctx[b] EXCEPT !.timer = FALSE] EXCEPT !.state = v] \in SendCtx
    BY <2>1, PutState
  <2> QED BY <1>3, <2>2 DEF TxState
<1>6. Kept(d, sctx[b]) /\ d.state = IF sctx[b].state # "SEND_CF" THEN "ERR" ELSE "SEND_CF"
  BY <1>3, CtxFields DEF Kept
<1>7. sctx' = [sctx EXCEPT ![b] = d] /\ UNCHANGED <<sslab, srun, app, call, reports, txq, aired>>
  BY DEF SendTimeout
<1> HIDE DEF d
<1>8. sctx'[b] = d
  BY <1>3, <1>7
<1>9. Phase(b)'
  BY <1>1, <1>4, <1>6, <1>7, <1>8 DEF Phase, Sending, Kept
<1>10. Accounted(b) => Accounted(b)'
  <2>1. CASE sctx[b].state = "SEND_CF"
    BY <1>1, <1>6, <1>7, <1>8, <2>1, AccountKept
  <2>2. CASE sctx[b].state # "SEND_CF"
    BY <1>6, <1>8, <2>2 DEF Accounted
  <2> QED BY <2>1, <2>2
<1> QED BY <1>2, <1>3, <1>5, <1>6, <1>7, <1>9, <1>10, ThreadGoesOn DEF RunsOn

-----------------------------------------------------------------------------
(* The theorems.                                                           *)

\* Nothing is in use, queued, transmitted or reported when the context has been bound.
LEMMA InitAir == SendStart => AirInv
<1> SUFFICES ASSUME SendStart PROVE AirInv
  OBVIOUS
<1>1. /\ sslab = SendBlock /\ app = NoApp /\ txq = <<>>
      /\ reports = [m \in Msg |-> <<>>] /\ aired = [m \in Msg |-> <<>>]
  BY DEF SendStart, SendInit
<1>2. Driver = {}
  BY <1>1 DEF Driver
<1>3. AiredInOrder /\ Unsent /\ OkMeansAired
  BY <1>1 DEF AiredInOrder, Unsent, OkMeansAired
<1>4. AppFits /\ \A b \in SendBlock : Progress(b)
  BY <1>1 DEF AppFits, NoApp, Progress
<1> QED BY <1>2, <1>3, <1>4 DEF AirInv

\* Every step of a disciplined use keeps the invariant.
LEMMA NextAir ==
  Disciplined /\ SendTypeInv /\ SendInv /\ AirInv /\ [SendNext]_allSendVars => AirInv'
<1> SUFFICES ASSUME Disciplined, SendTypeInv, SendInv, AirInv, [SendNext]_allSendVars PROVE AirInv'
  OBVIOUS
<1>1. CASE AppThread
  BY <1>1, GetCtxAir, MultiAir, SingleAir, NoUnbind DEF AppThread
<1>2. CASE SendWorkQueue
  BY <1>2, WorkAir, FfQueuedAir, CfQueuedAir, CfCountedAir, SemTakenAir DEF SendWorkQueue
<1>3. CASE SendDriver
  <2>1. CASE FrameDone(TRUE)
    BY <2>1, FrameDoneAir
  <2>2. CASE FrameDone(FALSE) /\ Fault("txError")
    <3>1. ~NoneLost
      BY <2>2 DEF Fault, NoneLost
    <3> QED BY <2>2, <3>1, FrameDoneAir
  <2> QED BY <1>3, <2>1, <2>2 DEF SendDriver
<1>4. CASE Peers
  BY <1>4, PeersAir
<1>5. CASE \E b \in SendBlock : SendTimeout(b)
  BY <1>5, TimeoutAir
<1>6. CASE UNCHANGED allSendVars
  <2>1. UNCHANGED <<sctx, sslab, srun, app, call, reports, txq, aired>>
    BY <1>6 DEF allSendVars, sendVars
  <2>2. Unsent'
    BY <2>1 DEF AirInv, Unsent
  <2> QED BY <2>1, <2>2, SameAir
<1> QED BY <1>1, <1>2, <1>3, <1>4, <1>5, <1>6 DEF SendNext

\* The inductive invariant of what a disciplined use puts on the bus.
THEOREM AirSafe == Disciplined => (SendSpec => []AirInv)
<1> SUFFICES ASSUME Disciplined PROVE SendSpec => []AirInv
  OBVIOUS
<1>1. SendStart => SendTypeInv /\ SendInv /\ AirInv
  BY InitTyped, InitSafe, InitAir DEF SendStart
<1>2. /\ SendTypeInv /\ SendInv /\ AirInv /\ [SendNext]_allSendVars
      => (SendTypeInv /\ SendInv /\ AirInv)'
  BY NextTyped, NextSafe, NextAir
<1> QED BY <1>1, <1>2, PTL DEF SendSpec

\* send_ff and send_cf: the frames of a message go out at most once each and in the
\* order of the message, whatever frames the driver refuses or fails to transmit.
THEOREM AiredOrdered == Disciplined => (SendSpec => []AiredInOrder)
<1>1. AirInv => AiredInOrder
  BY DEF AirInv
<1> QED BY <1>1, AirSafe, PTL

\* "@param result If non-zero, an error has occurred": when no accepted frame is lost on
\* the bus, sent_callback passes zero only after every frame of the message has gone out,
\* whichever of them can_send refused.
THEOREM OkAired == Disciplined /\ NoneLost => (SendSpec => []OkMeansAired)
<1> SUFFICES ASSUME Disciplined, NoneLost PROVE SendSpec => []OkMeansAired
  OBVIOUS
<1>1. AirInv => OkMeansAired
  BY DEF AirInv
<1> QED BY <1>1, AirSafe, PTL
=============================================================================
