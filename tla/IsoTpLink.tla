------------------------------ MODULE IsoTpLink ------------------------------
(***************************************************************************)
(* One node that sends ISO-TP messages and one that receives them, and the *)
(* CAN bus between them: frames of one node arrive at the other in order,  *)
(* or are lost.  The two halves of isotp_fast.c run as in IsoTpSend and    *)
(* IsoTpReceive, without their arbitrary peers.                            *)
(***************************************************************************)
EXTENDS IsoTpSend, IsoTpReceive

CONSTANT
  PromptReceiver  \* is the receiver's work queue idle whenever a frame arrives?

ASSUME LinkAssumption ==
  /\ PromptReceiver \in BOOLEAN
  /\ Src = Addr     \* a sender and the address it sends to name the same exchange

VARIABLES
  wire,         \* data frames on their way to the receiver
  fcWire,       \* flow control frames on their way to the sender
  order         \* messages accepted by isotp_fast_send, in order (history)

linkVars == <<wire, fcWire, order>>
allVars  == <<sendVars, recvVars, linkVars, faults, corrupt>>

LinkTypeOK ==
  /\ SendTypeOK /\ RecvTypeOK
  /\ wire \in Seq([dst : Addr, f : [kind : {"SF", "FF", "CF"}, msg : Msg \cup {NoMsg},
                                    idx : Nat, len : Nat, sn : 0..(SnMod - 1)]])
  /\ fcWire \in Seq([dst : Addr, fs : {"CTS", "WAIT", "OVFLW"}, bs : 0..255])
  /\ order \in Seq(Msg)

LinkInit ==
  /\ CommonInit /\ SendInit /\ RecvInit
  /\ wire = <<>> /\ fcWire = <<>> /\ order = <<>>

\* What goes over the wire: the frame without the sender's callback pointer.
OnWire(f) == [dst |-> sctx[f.blk].addr,
              f |-> [kind |-> f.kind, msg |-> f.msg, idx |-> f.idx,
                     len |-> f.len, sn |-> f.sn]]

LinkAppThread ==
  /\ (\E m \in Msg : SendGetCtx(m)) \/ SendMulti \/ SendSingle
  /\ order' = IF app.pc # "idle" /\ call'[app.msg] = "accepted"
              THEN Append(order, app.msg) ELSE order
  /\ UNCHANGED <<recvVars, wire, fcWire>>

LinkSendWork == SendWorkQueue /\ UNCHANGED <<recvVars, linkVars>>

\* A frame of the sender is transmitted: it travels to the receiver, or is lost
\* there (RX FIFO overrun), or the controller reports an error.
Transmit ==
  \/ /\ FrameDone(TRUE) /\ NoFault
     /\ wire' = Append(wire, OnWire(Head(txq)))
     /\ UNCHANGED <<recvVars, fcWire, order>>
  \/ FrameDone(TRUE) /\ Fault("loss") /\ UNCHANGED <<recvVars, linkVars>>
  \/ FrameDone(FALSE) /\ Fault("txError") /\ UNCHANGED <<recvVars, linkVars>>

Receive ==
  /\ wire # <<>>
  /\ PromptReceiver => rrun = NoRRun /\ rwork = {}
  /\ FrameArrives(Head(wire).dst, Head(wire).f)
  /\ wire' = Tail(wire)
  /\ NoFault
  /\ UNCHANGED <<sendVars, fcWire, order>>

LinkRecvWork == RecvWorkQueue /\ UNCHANGED <<sendVars, linkVars>>

TransmitFc ==
  \/ /\ FcDone(TRUE) /\ NoFault
     /\ fcWire' = Append(fcWire, [dst |-> Head(fcq).dst, fs |-> Head(fcq).fs, bs |-> RBs])
     /\ UNCHANGED <<sendVars, wire, order>>
  \/ FcDone(TRUE) /\ Fault("loss") /\ UNCHANGED <<sendVars, linkVars>>
  \/ FcDone(FALSE) /\ Fault("txError") /\ UNCHANGED <<sendVars, linkVars>>

ReceiveFc ==
  /\ fcWire # <<>>
  /\ LET fc == Head(fcWire) IN
     \/ FcArrives(fc.dst, [fs |-> fc.fs, bs |-> fc.bs])
     \/ Found(fc.dst) = {} /\ UNCHANGED sendVars /\ Safe
  /\ fcWire' = Tail(fcWire)
  /\ NoFault
  /\ UNCHANGED <<recvVars, wire, order>>

\* Timers are long: unless LateTimers, one expires only when nothing is under way
\* that could stop it.
LinkQuiet ==
  /\ txq = <<>> /\ swork = {} /\ srun = NoRun /\ wire = <<>>
  /\ fcq = <<>> /\ rwork = {} /\ rrun = NoRRun /\ fcWire = <<>>

LinkTimeout ==
  /\ LateTimers \/ LinkQuiet
  /\ \/ (\E b \in SendBlock : SendTimeout(b)) /\ UNCHANGED <<recvVars, linkVars>>
     \/ (\E b \in RecvBlock : RecvTimeout(b)) /\ UNCHANGED <<sendVars, linkVars>>

LinkNext ==
  /\ ~corrupt
  /\ \/ LinkAppThread \/ LinkSendWork \/ Transmit \/ Receive
     \/ LinkRecvWork \/ TransmitFc \/ ReceiveFc \/ LinkTimeout

LinkSpec == LinkInit /\ [][LinkNext]_allVars

\* Both work queues, both drivers and the bus make progress, timers expire, and the
\* application thread finishes the calls it has begun.
LinkFairness ==
  /\ WF_allVars(~corrupt /\ LinkSendWork)
  /\ WF_allVars(~corrupt /\ LinkRecvWork)
  /\ WF_allVars(~corrupt /\ Transmit)
  /\ WF_allVars(~corrupt /\ TransmitFc)
  /\ WF_allVars(~corrupt /\ Receive)
  /\ WF_allVars(~corrupt /\ ReceiveFc)
  /\ WF_allVars(~corrupt /\ LinkTimeout)
  /\ WF_allVars(~corrupt /\ app.pc # "idle" /\ LinkAppThread)

LinkFairSpec == LinkSpec /\ LinkFairness

-----------------------------------------------------------------------------
(* Properties.                                                             *)

\* The transport implements the abstract transfer of messages.
DestOf(m) == Dest[m]
Data == [i \in DOMAIN delivered |-> delivered[i].data]

Transfer == INSTANCE MessageTransfer
              WITH sent <- order, told <- reports, got <- Data,
                   Content <- Payload, To <- DestOf

ImplementsTransfer == Transfer!Spec

\* Sender and receiver agree on the sequence number: the next consecutive frame the
\* sender will queue is the one the receiver expects, once all its frames have arrived.
SequenceAgreement ==
  \A b \in SendBlock : \A r \in RecvBlock :
    ( /\ sctx[b].list = "ctx" /\ sctx[b].state = "SEND_CF" /\ srun.blk # b
      /\ rctx[r].list = "ctx" /\ rctx[r].state = "WAIT_CF" /\ rctx[r].src = sctx[b].addr
      /\ wire = <<>> /\ txq = <<>> /\ faults = 0 )
    => sctx[b].sn = rctx[r].sn /\ sctx[b].rem = rctx[r].rem

\* Every accepted message is delivered, when no frame is lost.
EveryMessageDelivered ==
  \A m \in Msg : (call[m] = "accepted") ~>
                 (\E i \in DOMAIN delivered : delivered[i].data = Payload(m))

\* Every accepted message is reported.
EveryMessageAnswered ==
  \A m \in Msg : (call[m] = "accepted") ~> (reports[m] # <<>>)

\* The sender is told the truth: a message that was reported in error is not
\* delivered afterwards.
ErrorMeansUndelivered ==
  [][\A m \in Msg : (\E i \in DOMAIN reports[m] : reports[m][i] = "error") =>
       \A i \in DOMAIN delivered' \ DOMAIN delivered : delivered'[i].data # Payload(m)]_allVars
\* However the two sides meet, none of them follows a pointer to a freed context, and frames
\* and contexts keep their types (the receiver's and the sender's uint8_t counters).
LinkSafe == LinkTypeOK /\ MemorySafe
=============================================================================
