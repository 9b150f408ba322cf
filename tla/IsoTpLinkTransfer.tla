-------------------------- MODULE IsoTpLinkTransfer --------------------------
(***************************************************************************)
(* What two nodes that use the transport as it is meant to be used are     *)
(* promised, from the invariant of IsoTpLinkProofs: the link implements    *)
(* MessageTransfer, a sender that is told of an error is told the truth,   *)
(* a frame is received out of sequence only if the bus has failed, and the *)
(* state of both halves has its types.                                     *)
(***************************************************************************)
EXTENDS IsoTpLinkProofs

-----------------------------------------------------------------------------
(* What the invariant yields.                                              *)

\* One thing at a time: a message is accepted, a result is reported, or a message is passed on.
OneAtATime ==
  \/ UNCHANGED <<order, reports, delivered>>
  \/ \E m \in Msg : order' = Append(order, m) /\ UNCHANGED <<reports, delivered>>
  \/ \E m \in Msg, r \in {"ok", "error"} :
       reports' = [reports EXCEPT ![m] = Append(@, r)] /\ UNCHANGED <<order, delivered>>
  \/ \E d : delivered' = Append(delivered, d) /\ UNCHANGED <<order, reports>>

\* sent_callback, for a context that has a message or none.
LEMMA ReportsOne ==
  ASSUME SendTypeInv, NEW b \in SendBlock, NEW c, c.arg = sctx[b].arg, NEW r \in {"ok", "error"},
         ReportFor(c, r), UNCHANGED <<order, delivered>>
  PROVE  OneAtATime
<1>1. sctx[b].arg \in Msg \cup {NoMsg}
  BY DEF SendTypeInv, SendTypeOK, SendCtx
<1> QED BY <1>1 DEF ReportFor, OneAtATime

\* Only the application thread accepts messages; it works on one.
LEMMA AppAtATime ==
  ASSUME LinkInv, LinkAppThread
  PROVE  OneAtATime
<1>1. UNCHANGED <<reports, delivered>>
  BY DEF LinkAppThread, SendGetCtx, SendMulti, SendSingle, recvVars
<1>2. order' = order \/ (order' = Append(order, app.msg) /\ app.pc # "idle")
  BY DEF LinkAppThread
<1>3. app.pc # "idle" => app.msg \in Msg
  BY DEF LinkInv, Halves, SendTypeInv, InHand
<1> QED BY <1>1, <1>2, <1>3 DEF OneAtATime

\* The work queue reports at the end of a message.
LEMMA SendWorkAtATime ==
  ASSUME LinkInv, LinkSendWork
  PROVE  OneAtATime
<1>0. SendTypeInv
  BY DEF LinkInv, Halves
<1>1. UNCHANGED <<order, delivered>>
  BY DEF LinkSendWork, recvVars, linkVars
<1>2. CASE SendFfQueued \/ SendCfQueued \/ SendCfCounted \/ SendSemTaken
  BY <1>1, <1>2 DEF SendFfQueued, SendCfQueued, SendCfCounted, SendSemTaken, OneAtATime
<1>3. ASSUME NEW b \in SendBlock, SendWork(b) PROVE OneAtATime
  <2>1. \/ UNCHANGED reports
        \/ \E r \in {"ok", "error"} : WorkEnd(b, r)
    BY <1>3 DEF SendWork, WorkWaitSt, WorkIgnored
  <2>2. ASSUME NEW r \in {"ok", "error"}, WorkEnd(b, r) PROVE OneAtATime
    <3>1. PICK c : c = [sctx[b] EXCEPT !.state = "RESET"]
      OBVIOUS
    <3>2. c.arg = sctx[b].arg
      BY <1>0, <3>1 DEF SendTypeInv, SendTypeOK, SendCtx
    <3>3. ReportFor(c, r)
      BY <2>2, <3>1 DEF WorkEnd
    <3> QED BY <1>0, <1>1, <3>2, <3>3, ReportsOne
  <2> QED BY <1>1, <2>1, <2>2 DEF OneAtATime
<1> QED BY <1>2, <1>3 DEF LinkSendWork, SendWorkQueue

\* The completion callback of a single frame reports, the other does not.
LEMMA FrameAtATime ==
  ASSUME LinkInv, NEW ok \in BOOLEAN, FrameDone(ok), UNCHANGED <<order, delivered>>
  PROVE  OneAtATime
<1>0. SendTypeInv
  BY DEF LinkInv, Halves
<1>1. PICK f : f = Head(txq)
  OBVIOUS
<1>2. f.blk \in SendBlock
  <2>1. txq \in Seq(Frame) /\ txq # <<>>
    BY <1>0 DEF SendTypeInv, SendTypeOK, FrameDone
  <2>2. f \in Frame
    BY <1>1, <2>1
  <2> QED BY <2>2 DEF Frame
<1>3. CASE SendCanTxCallback(f.blk)
  BY <1>3 DEF SendCanTxCallback, OneAtATime
<1>4. CASE SentSingleCb(f.blk, ok)
  <2>1. PICK c : c = [sctx[f.blk] EXCEPT !.pending = @ - 1]
    OBVIOUS
  <2>2. c.arg = sctx[f.blk].arg
    BY <1>0, <1>2, <2>1 DEF SendTypeInv, SendTypeOK, SendCtx
  <2>3. PICK r \in {"ok", "error"} : r = IF ok THEN "ok" ELSE "error"
    OBVIOUS
  <2>4. ReportFor(c, r)
    BY <1>4, <2>1, <2>3 DEF SentSingleCb
  <2> QED BY <1>0, <1>2, <2>2, <2>4, ReportsOne
<1> QED BY <1>1, <1>3, <1>4 DEF FrameDone

\* The link does one thing at a time.
LEMMA LinkAtATime ==
  ASSUME LinkInv, [LinkNext]_allVars
  PROVE  OneAtATime
<1>1. CASE LinkAppThread \/ LinkSendWork
  BY <1>1, AppAtATime, SendWorkAtATime
<1>2. CASE Transmit
  <2>1. UNCHANGED <<order, delivered>>
    BY <1>2 DEF Transmit, recvVars, linkVars
  <2>2. \E ok \in BOOLEAN : FrameDone(ok)
    BY <1>2 DEF Transmit
  <2> QED BY <2>1, <2>2, FrameAtATime
<1>3. CASE Receive
  BY <1>3 DEF Receive, FrameArrives, sendVars, OneAtATime
<1>4. CASE LinkRecvWork
  <2>1. UNCHANGED <<order, reports>>
    BY <1>4 DEF LinkRecvWork, sendVars, linkVars
  <2>2. CASE FcQueued \/ RecvEnd
    BY <2>1, <2>2 DEF FcQueued, RecvEnd, OneAtATime
  <2>3. ASSUME NEW r \in RecvBlock, RecvWork(r) PROVE OneAtATime
    <3>1. UNCHANGED delivered \/ Dispatch(r)
      BY <2>3 DEF RecvWork
    <3> QED BY <2>1, <3>1 DEF Dispatch, OneAtATime
  <2> QED BY <1>4, <2>2, <2>3 DEF LinkRecvWork, RecvWorkQueue
<1>5. CASE TransmitFc
  BY <1>5 DEF TransmitFc, FcDone, sendVars, linkVars, OneAtATime
<1>6. CASE ReceiveFc
  BY <1>6 DEF ReceiveFc, FcArrives, sendVars, recvVars, OneAtATime
<1>7. CASE LinkTimeout
  BY <1>7 DEF LinkTimeout, SendTimeout, RecvTimeout, sendVars, recvVars, linkVars, OneAtATime
<1>8. CASE UNCHANGED allVars
  BY <1>8 DEF allVars, sendVars, recvVars, linkVars, OneAtATime
<1> QED BY <1>1, <1>2, <1>3, <1>4, <1>5, <1>6, <1>7, <1>8 DEF LinkNext

\* Accepting, reporting and passing on are steps of the abstract transfer: a message is accepted
\* once, reported once and after it was accepted, and passed on whole, after all that were
\* passed on and accepted later for the same address.
LEMMA TransferStep ==
  ASSUME LinkInv, LinkInv', OneAtATime
  PROVE  [Transfer!Next]_(Transfer!vars)
<1>0. /\ LinkTypes /\ OrderInv /\ SendTypeInv /\ LinkTypes' /\ OrderInv' /\ SendInv' /\ DeliveredInv'
      /\ Inv
  BY DEF LinkInv, Halves
<1>1. CASE UNCHANGED <<order, reports, delivered>>
  <2>1. Data' = Data
    BY <1>1 DEF Data
  <2> QED BY <1>1, <2>1 DEF Transfer!vars
<1>2. ASSUME NEW m \in Msg, order' = Append(order, m), UNCHANGED <<reports, delivered>>
      PROVE  Transfer!Next
  <2>1. Data' = Data
    BY <1>2 DEF Data
  <2>2. ASSUME NEW i \in DOMAIN order PROVE order[i] # m
    <3>1. order \in Seq(Msg)
      BY <1>0 DEF LinkTypes
    <3>2. i \in Nat /\ i <= Len(order) /\ Len(order) \in Nat
      BY <3>1
    <3>3. /\ i \in DOMAIN order' /\ Len(order) + 1 \in DOMAIN order'
          /\ order'[i] = order[i] /\ order'[Len(order) + 1] = m
      BY <1>2, <3>1
    <3>4. i # Len(order) + 1
      BY <3>2
    <3> QED BY <1>0, <3>3, <3>4 DEF OrderInv
  <2>3. Transfer!Send(m)
    BY <1>2, <2>1, <2>2 DEF Transfer!Send
  <2> QED BY <2>3 DEF Transfer!Next
<1>3. ASSUME NEW m \in Msg, NEW r \in {"ok", "error"}, reports' = [reports EXCEPT ![m] = Append(@, r)],
             UNCHANGED <<order, delivered>>
      PROVE  Transfer!Next
  <2>1. Data' = Data
    BY <1>3 DEF Data
  <2>2. reports \in [Msg -> Seq({"ok", "error"})]
    BY <1>0 DEF SendTypeInv, SendTypeOK
  <2>3. PICK s \in Seq({"ok", "error"}) : s = reports[m]
    BY <2>2
  <2>4. reports'[m] = Append(s, r)
    BY <1>3, <2>2, <2>3
  <2>5. Len(reports'[m]) <= 1 /\ (reports'[m] # <<>> => call'[m] = "accepted")
    BY <1>0 DEF SendInv, Outcomes
  <2>6. Len(reports'[m]) = Len(s) + 1 /\ Len(s) \in Nat /\ reports'[m] # <<>>
    BY <2>4
  <2>7. s = <<>> /\ Append(s, r) = <<r>>
    <3>1. Len(s) = 0
      BY <2>5, <2>6
    <3>2. s = <<>>
      BY <3>1
    <3>3. Append(<<>>, r) = <<r>>
      OBVIOUS
    <3> QED BY <3>2, <3>3
  <2>8. \E i \in DOMAIN order : order[i] = m
    BY <1>0, <1>3, <2>5, <2>6 DEF OrderInv, Accepted
  <2>9. reports' = [reports EXCEPT ![m] = <<r>>]
    BY <1>3, <2>3, <2>7
  <2>10. Transfer!Report(m, r)
    BY <1>3, <2>1, <2>3, <2>7, <2>8, <2>9 DEF Transfer!Report
  <2> QED BY <2>10 DEF Transfer!Next
<1>4. ASSUME NEW d, delivered' = Append(delivered, d), UNCHANGED <<order, reports>>
      PROVE  Transfer!Next
  <2>1. PICK S : delivered \in Seq(S)
    BY <1>0 DEF Inv, Types, OtherTypes
  <2>2. PICK n \in Nat : n = Len(delivered)
    BY <2>1
  <2>3. /\ DOMAIN delivered = 1..n /\ DOMAIN delivered' = 1..(n + 1)
        /\ \A k \in 1..n : delivered'[k] = delivered[k]
        /\ delivered'[n + 1] = d
    BY <1>4, <2>1, <2>2
  <2>4. PICK m \in Msg : d.data = Payload(m)
    BY <1>0, <2>3 DEF DeliveredInv
  <2>5. Arrived(m)'
    BY <2>3, <2>4 DEF Arrived
  <2>6. Accepted(m)'
    BY <1>0, <2>5 DEF DeliveredInv
  <2>7. PICK i \in DOMAIN order : order[i] = m
    BY <1>4, <2>6 DEF Accepted
  <2>8. /\ DOMAIN Data = 1..n /\ \A k \in 1..n : Data[k] = delivered[k].data
        /\ Data' = Append(Data, d.data)
    <3>1. Data = [k \in 1..n |-> delivered[k].data]
      BY <2>3 DEF Data
    <3>2. Data' = [k \in 1..(n + 1) |-> delivered'[k].data]
      BY <2>3 DEF Data
    <3>3. PICK D : D = Data
      OBVIOUS
    <3>4. D = [k \in 1..n |-> D[k]] /\ \A k \in 1..n : D[k] = delivered[k].data
      BY <3>1, <3>3
    <3>5. D \in Seq({D[k] : k \in 1..n}) /\ Len(D) = n
      BY <3>4
    <3>6. Append(D, d.data) = [k \in 1..(n + 1) |-> IF k = n + 1 THEN d.data ELSE D[k]]
      BY <3>5
    <3>7. Data' = [k \in 1..(n + 1) |-> IF k = n + 1 THEN d.data ELSE D[k]]
      BY <2>3, <3>2, <3>4
    <3> QED BY <3>1, <3>3, <3>6, <3>7
  <2>9. ASSUME NEW k \in 1..n, NEW j \in DOMAIN order, Payload(order[j]) = Data[k],
               Dest[order[j]] = Dest[m]
        PROVE  j < i
    <3>1. order \in Seq(Msg) /\ order[j] \in Msg /\ i \in Nat /\ j \in Nat
      BY <1>0 DEF LinkTypes
    <3>2. PICK x \in Msg : x = order[j]
      BY <3>1
    <3>3. /\ k \in DOMAIN delivered' /\ n + 1 \in DOMAIN delivered' /\ k < n + 1
          /\ delivered'[k].data = Payload(x) /\ delivered'[n + 1].data = Payload(m)
      BY <2>3, <2>4, <2>8, <2>9, <3>2
    <3>4. Later(x, m)'
      BY <1>0, <2>9, <3>2, <3>3 DEF DeliveredInv
    <3>5. PICK p \in DOMAIN order, q \in DOMAIN order : p < q /\ order[p] = x /\ order[q] = m
      BY <1>4, <3>4 DEF Later
    <3>6. p = j /\ q = i
      BY <1>0, <2>7, <3>2, <3>5 DEF OrderInv
    <3> QED BY <3>5, <3>6
  <2>10. Transfer!Deliver(i)
    <3>1. ASSUME NEW k \in DOMAIN Data, NEW j \in Transfer!SentAt(k), DestOf(order[j]) = DestOf(order[i])
          PROVE  j < i
      <4>1. j \in DOMAIN order /\ Payload(order[j]) = Data[k]
        BY DEF Transfer!SentAt
      <4>2. Dest[order[j]] = Dest[m] /\ k \in 1..n
        BY <2>7, <2>8, <3>1 DEF DestOf
      <4> QED BY <2>9, <4>1, <4>2
    <3>2. Data' = Append(Data, Payload(order[i]))
      BY <2>4, <2>7, <2>8
    <3>3. \A k \in DOMAIN Data : \A j \in Transfer!SentAt(k) : DestOf(order[j]) = DestOf(order[i]) => j < i
      BY <3>1
    <3> QED BY <1>4, <3>2, <3>3 DEF Transfer!Deliver
  <2> QED BY <2>10 DEF Transfer!Next
<1> QED BY <1>1, <1>2, <1>3, <1>4 DEF OneAtATime

\* What was reported in error has not been transmitted to its end, and will not be passed on.
LEMMA TruthStep ==
  ASSUME LinkInv, LinkInv', OneAtATime,
         NEW m \in Msg, \E i \in DOMAIN reports[m] : reports[m][i] = "error"
  PROVE  \A i \in DOMAIN delivered' : delivered'[i].data # Payload(m)
<1>1. SendTypeInv /\ TruthInv' /\ DeliveredInv'
  BY DEF LinkInv, Halves
<1>2. \E i \in DOMAIN reports'[m] : reports'[m][i] = "error"
  <2>1. CASE reports' = reports
    BY <2>1
  <2>2. ASSUME NEW n \in Msg, NEW r \in {"ok", "error"}, reports' = [reports EXCEPT ![n] = Append(@, r)]
        PROVE  \E i \in DOMAIN reports'[m] : reports'[m][i] = "error"
    <3>1. reports \in [Msg -> Seq({"ok", "error"})]
      BY <1>1 DEF SendTypeInv, SendTypeOK
    <3>2. PICK s \in Seq({"ok", "error"}) : s = reports[m]
      BY <3>1
    <3>3. reports'[m] = s \/ reports'[m] = Append(s, r)
      BY <2>2, <3>1, <3>2
    <3>4. PICK i \in DOMAIN s : s[i] = "error"
      BY <3>2
    <3>5. i \in DOMAIN Append(s, r) /\ Append(s, r)[i] = "error"
      BY <3>4
    <3> QED BY <3>3, <3>4, <3>5
  <2> QED BY <2>1, <2>2 DEF OneAtATime
<1>3. Cfs[m] \notin Aired(m)'
  BY <1>1, <1>2 DEF TruthInv
<1>4. ~Arrived(m)'
  BY <1>1, <1>3 DEF DeliveredInv
<1> QED BY <1>4 DEF Arrived

\* The two halves of the transport implement the transfer of messages: what recv_callback gets
\* was given to isotp_fast_send, whole, at most once and in order for each address, and
\* sent_callback is called at most once for a message, after it was accepted.
THEOREM LinkImplementsTransfer ==
  Cooperative => (LinkSpec /\ [](PromptReceiver \/ pool > 0) => ImplementsTransfer)
<1> SUFFICES ASSUME Cooperative PROVE LinkSpec /\ [](PromptReceiver \/ pool > 0) => ImplementsTransfer
  OBVIOUS
<1>1. LinkInit => Transfer!Init
  <2> SUFFICES ASSUME LinkInit PROVE Transfer!Init
    OBVIOUS
  <2>1. order = <<>> /\ reports = [m \in Msg |-> <<>>] /\ delivered = <<>>
    BY DEF LinkInit, SendInit, RecvInit
  <2>2. Data = <<>>
    BY <2>1 DEF Data
  <2> QED BY <2>1, <2>2 DEF Transfer!Init
<1>2. LinkInv /\ LinkInv' /\ [LinkNext]_allVars => [Transfer!Next]_(Transfer!vars)
  BY LinkAtATime, TransferStep
<1> QED BY <1>1, <1>2, LinkAlwaysSound, PTL DEF LinkSpec, ImplementsTransfer, Transfer!Spec

\* The sender is told the truth: a message that sent_callback reports in error is not passed to
\* recv_callback afterwards.
THEOREM ErrorsMeanUndelivered ==
  Cooperative => (LinkSpec /\ [](PromptReceiver \/ pool > 0) => ErrorMeansUndelivered)
<1> SUFFICES ASSUME Cooperative PROVE LinkSpec /\ [](PromptReceiver \/ pool > 0) => ErrorMeansUndelivered
  OBVIOUS
<1> DEFINE Truth == \A m \in Msg : (\E i \in DOMAIN reports[m] : reports[m][i] = "error") =>
                      \A i \in DOMAIN delivered' \ DOMAIN delivered : delivered'[i].data # Payload(m)
<1>1. LinkInv /\ LinkInv' /\ [LinkNext]_allVars => Truth
  BY LinkAtATime, TruthStep
<1>2. LinkInv /\ LinkInv' /\ [LinkNext]_allVars => [Truth]_allVars
  BY <1>1
<1> HIDE DEF Truth
<1>3. ErrorMeansUndelivered <=> [][Truth]_allVars
  BY DEF ErrorMeansUndelivered, Truth
<1> QED BY <1>2, <1>3, LinkAlwaysSound, PTL DEF LinkSpec

-----------------------------------------------------------------------------
(* Buffers and types.                                                      *)

\* The receiver's buffers and types, of which LinkInv says nothing.
RecvRest == PoolInv /\ rbound \in BOOLEAN

\* What no step of the receiver touches.
LEMMA RestStays ==
  ASSUME RecvRest, UNCHANGED recvVars
  PROVE  RecvRest'
<1>1. UNCHANGED <<rctx, rslab, pool, rrun, rbound, runb>>
  BY DEF recvVars
<1>2. HandsOn'
  BY <1>1 DEF RecvRest, PoolInv, HandsOn, UnbindPlace
<1>3. PoolInv'
  BY <1>1, <1>2, BuffersStay DEF RecvRest, PoolInv
<1> QED BY <1>1, <1>3 DEF RecvRest

\* Every step of the link keeps the receiver's buffers together, whatever the nodes do, as long
\* as memory is valid.
LEMMA LinkRest ==
  ASSUME RecvRest, [LinkNext]_allVars, ~corrupt'
  PROVE  RecvRest'
<1> USE DEF RecvRest
<1>1. CASE LinkRecvWork
  BY <1>1, PoolWork, PoolThread DEF LinkRecvWork, RecvWorkQueue, RecvWork, FcQueued, RecvEnd
<1>2. CASE TransmitFc
  <2>1. PICK ok \in BOOLEAN : FcDone(ok)
    BY <1>2 DEF TransmitFc
  <2> QED BY <2>1, PoolFc DEF FcDone
<1>3. CASE Receive
  <2>1. PICK s, f : FrameArrives(s, f)
    BY <1>3 DEF Receive
  <2> QED BY <2>1, PoolArrives DEF FrameArrives
<1>4. CASE \E r \in RecvBlock : RecvTimeout(r)
  BY <1>4, PoolTimeout DEF RecvTimeout
<1>5. CASE UNCHANGED recvVars
  BY <1>5, RestStays
<1>6. LinkAppThread \/ LinkSendWork \/ Transmit \/ ReceiveFc \/ UNCHANGED allVars => UNCHANGED recvVars
  BY DEF LinkAppThread, LinkSendWork, Transmit, ReceiveFc, allVars
<1>7. LinkTimeout => (\E r \in RecvBlock : RecvTimeout(r)) \/ UNCHANGED recvVars
  BY DEF LinkTimeout
<1> QED BY <1>1, <1>2, <1>3, <1>4, <1>5, <1>6, <1>7 DEF LinkNext

\* The types of everything, the indices of frames on the bus included.
LEMMA LinkTyped ==
  ASSUME LinkInv, RecvRest
  PROVE  LinkTypeOK
<1>1. SendTypeOK
  BY DEF LinkInv, Halves, SendTypeInv
<1>2. RecvTypeOK
  <2>1. Types /\ rwork \subseteq RecvBlock
    BY DEF LinkInv, Halves, Inv, ContextsInv
  <2>2. pool \in 0..PoolSize
    BY PoolCounted DEF RecvRest
  <2> QED BY <2>1, <2>2 DEF RecvTypeOK, Types, Thread, OtherTypes, RecvRest
<1>3. wire \in Seq([dst : Addr, f : [kind : {"SF", "FF", "CF"}, msg : Msg \cup {NoMsg},
                                     idx : Nat, len : Nat, sn : 0..(SnMod - 1)]])
  <2> DEFINE F == [kind : {"SF", "FF", "CF"}, msg : Msg \cup {NoMsg}, idx : Nat, len : Nat, sn : 0..(SnMod - 1)]
  <2>1. wire \in Seq(WireFrame)
    BY DEF LinkInv, LinkTypes
  <2>2. ASSUME NEW i \in DOMAIN wire PROVE wire[i] \in [dst : Addr, f : F]
    <3>1. wire[i] \in WireFrame
      BY <2>1
    <3>2. wire[i].f.idx \in Nat
      BY DEF Bus, LinkInv, WireInv, Shape
    <3> QED BY <3>1, <3>2 DEF WireFrame
  <2> HIDE DEF F
  <2>3. wire \in Seq([dst : Addr, f : F])
    <3> DEFINE X == [dst : Addr, f : F]
    <3>1. Len(wire) \in Nat /\ DOMAIN wire = 1..Len(wire)
      BY <2>1
    <3>2. wire = [i \in 1..Len(wire) |-> wire[i]]
      BY <2>1
    <3>3. \A i \in 1..Len(wire) : wire[i] \in X
      BY <2>2, <3>1
    <3> HIDE DEF X
    <3>4. wire \in [1..Len(wire) -> X]
      BY <3>2, <3>3
    <3>5. wire \in Seq(X)
      BY <3>1, <3>4
    <3> QED BY <3>5 DEF X
  <2> QED BY <2>3 DEF F
<1>4. fcWire \in Seq([dst : Addr, fs : {"CTS", "WAIT", "OVFLW"}, bs : 0..255]) /\ order \in Seq(Msg)
  BY DEF LinkInv, LinkTypes
<1> QED BY <1>1, <1>2, <1>3, <1>4 DEF LinkTypeOK

\* However the two sides meet, neither follows a pointer to a freed context, every buffer of the
\* receiver's pool is free or in one chain, and contexts, frames and counters have their types.
THEOREM LinkAlwaysSafe ==
  Cooperative => (LinkSpec /\ [](PromptReceiver \/ pool > 0) => [](LinkSafe /\ PoolConserved))
<1> SUFFICES ASSUME Cooperative
             PROVE  LinkSpec /\ [](PromptReceiver \/ pool > 0) => [](LinkSafe /\ PoolConserved)
  OBVIOUS
<1>1. LinkInit => RecvRest
  BY PoolInit DEF LinkInit, RecvInit, RecvRest
<1>2. LinkInv => MemorySafe
  BY DEF LinkInv, Halves, SendInv, MemorySafe
<1>3. RecvRest /\ LinkInv' /\ [LinkNext]_allVars => RecvRest'
  BY LinkRest DEF LinkInv, Halves, SendInv
<1>4. LinkInv /\ RecvRest => LinkSafe /\ PoolConserved
  BY <1>2, LinkTyped, PoolCounted DEF LinkSafe, RecvRest
<1> QED BY <1>1, <1>3, <1>4, LinkAlwaysSound, PTL DEF LinkSpec

-----------------------------------------------------------------------------
(* Without faults, no frame is missing.                                    *)

\* A frame of a context has been transmitted, or waits in the driver.
Given(b, x) == x \in Aired(sctx[b].arg) \/ \E f \in Driver : f.blk = b /\ f.idx = x

\* What has been transmitted to a reception and not been received is on the bus.
Unread(r, n, y) == (n = MsgOf(r) /\ y >= Len(rctx[r].data)) \/ Later(MsgOf(r), n)
Shown(n, y) == \E w \in Bus : w.f.msg = n /\ w.f.idx = y
OnBus(r) ==
  \A n \in Msg : Dest[n] = rctx[r].src => \A y \in Aired(n) : Unread(r, n, y) => Shown(n, y)

NoHoles == \A m \in Msg : \A y \in Aired(m) : \A x \in Nat : x < y => x \in Aired(m)
AllGiven ==
  \A b \in SendBlock : Using(b) /\ Cfs[sctx[b].arg] # 0 => \A x \in Nat : x < Ahead(b) => Given(b, x)
AllShown == \A r \in RecvBlock \ rslab : rctx[r].state = "WAIT_CF" => OnBus(r)
NoneMissing == NoHoles /\ AllGiven /\ AllShown

\* Faults are counted.
LEMMA Faultless ==
  ASSUME LinkInv, [LinkNext]_allVars, faults' = 0
  PROVE  faults = 0 /\ \A k : ~Fault(k)
<1>1. faults \in Nat
  BY DEF LinkInv, Halves, SendTypeInv, SendTypeOK, CommonTypeOK
<1>2. \A k : ~Fault(k)
  BY <1>1 DEF Fault
<1>3. CASE LinkAppThread
  BY <1>2, <1>3 DEF LinkAppThread, SendGetCtx, SendMulti, SendSingle, NoFault
<1>4. CASE LinkSendWork
  <2>1. CASE SendFfQueued \/ SendCfQueued \/ SendCfCounted
    BY <1>2, <2>1 DEF SendFfQueued, SendCfQueued, SendCfCounted, NoFault
  <2>2. CASE SendSemTaken
    BY <1>2, <2>2 DEF SendSemTaken, SendCf, NoFault
  <2>3. ASSUME NEW b \in SendBlock, SendWork(b) PROVE faults = 0
    BY <1>2, <2>3 DEF SendWork, SendFf, SendCf, WorkWaitSt, WorkEnd, WorkIgnored, NoFault
  <2> QED BY <1>2, <1>4, <2>1, <2>2, <2>3 DEF LinkSendWork, SendWorkQueue
<1>5. CASE Transmit
  BY <1>2, <1>5 DEF Transmit, NoFault
<1>6. CASE Receive \/ ReceiveFc
  BY <1>2, <1>6 DEF Receive, ReceiveFc, NoFault
<1>7. CASE LinkRecvWork
  <2>1. CASE FcQueued \/ RecvEnd
    BY <1>2, <2>1 DEF FcQueued, RecvEnd, NoFault
  <2>2. ASSUME NEW b \in RecvBlock, RecvWork(b) PROVE faults = 0
    BY <1>2, <2>2 DEF RecvWork, Dispatch, SendCts, SendFc, RecvError, NoFault
  <2> QED BY <1>2, <1>7, <2>1, <2>2 DEF LinkRecvWork, RecvWorkQueue
<1>8. CASE TransmitFc
  BY <1>2, <1>8 DEF TransmitFc, NoFault
<1>9. CASE LinkTimeout
  BY <1>2, <1>9 DEF LinkTimeout, SendTimeout, RecvTimeout, NoFault
<1>10. CASE UNCHANGED allVars
  BY <1>2, <1>10 DEF allVars
<1> QED BY <1>3, <1>4, <1>5, <1>6, <1>7, <1>8, <1>9, <1>10 DEF LinkNext

\* A context after a step that transmits nothing: it is where it was, one frame further, or new.
Stayed(b) == Using(b) /\ sctx'[b].arg = sctx[b].arg /\ sctx'[b].rem = sctx[b].rem
Advanced(b) ==
  /\ Using(b) /\ sctx'[b].arg = sctx[b].arg /\ sctx'[b].rem = sctx[b].rem - 1
  /\ \E f \in Driver' : f.blk = b /\ f.idx = Ahead(b)
Started(b) == sctx'[b].arg \in Msg /\ sctx'[b].rem = Cfs[sctx'[b].arg] + 1
Goes(b) == Using(b)' /\ Cfs[sctx'[b].arg] # 0 => Stayed(b) \/ Advanced(b) \/ Started(b)

\* Then every frame before the next has still been handed to the driver.
LEMMA GivenStays ==
  ASSUME LinkInv, AllGiven, aired' = aired, Driver \subseteq Driver', \A b \in SendBlock : Goes(b)
  PROVE  AllGiven'
<1>1. \A m : Aired(m)' = Aired(m)
  BY DEF Aired
<1>2. SUFFICES ASSUME NEW b \in SendBlock, Using(b)', Cfs[sctx'[b].arg] # 0, NEW x \in Nat, x < Ahead(b)'
               PROVE  Given(b, x)'
  BY DEF AllGiven
<1>3. ASSUME Using(b), sctx'[b].arg = sctx[b].arg, Given(b, x) PROVE Given(b, x)'
  BY <1>1, <1>3 DEF Given
<1>4. CASE Stayed(b)
  <2>1. Ahead(b)' = Ahead(b)
    BY <1>4 DEF Stayed, Ahead
  <2>2. Given(b, x)
    BY <1>2, <1>4, <2>1 DEF Stayed, AllGiven
  <2> QED BY <1>3, <1>4, <2>2 DEF Stayed
<1>5. CASE Advanced(b)
  <2>0. sctx[b] \in SendCtx /\ sctx[b].arg \in Msg
    BY <1>5, UsedFacts DEF Advanced
  <2>1. PICK c \in Nat, r \in Nat : c = Cfs[sctx[b].arg] /\ r = sctx[b].rem
    BY <2>0, CommonAssumption DEF CommonAssumption, SendCtx
  <2>2. Ahead(b) = c + 1 - r /\ Ahead(b)' = c + 1 - (r - 1)
    BY <1>5, <2>1 DEF Advanced, Ahead
  <2>3. PICK a \in Int : a = Ahead(b) /\ Ahead(b)' = a + 1
    BY <2>1, <2>2
  <2>4. x < a \/ x = a
    BY <1>2, <2>3
  <2>5. CASE x < a
    <3>1. Given(b, x)
      BY <1>2, <1>5, <2>3, <2>5 DEF Advanced, AllGiven
    <3> QED BY <1>3, <1>5, <3>1 DEF Advanced
  <2>6. CASE x = a
    BY <1>5, <2>3, <2>6 DEF Advanced, Given
  <2> QED BY <2>4, <2>5, <2>6
<1>6. CASE Started(b)
  <2>1. PICK c \in Nat : c = Cfs[sctx'[b].arg]
    BY <1>6, CommonAssumption DEF Started, CommonAssumption
  <2>2. Ahead(b)' = c + 1 - (c + 1)
    BY <1>6, <2>1 DEF Started, Ahead
  <2> QED BY <1>2, <2>1, <2>2
<1> QED BY <1>2, <1>4, <1>5, <1>6 DEF Goes

\* A message that is accepted was not accepted before.
LEMMA AcceptedNow ==
  ASSUME LinkInv, LinkInv', NEW m \in Msg, order' = Append(order, m)
  PROVE  ~Accepted(m)
<1>1. order \in Seq(Msg) /\ OrderInv'
  BY DEF LinkInv, LinkTypes
<1>2. SUFFICES ASSUME NEW i \in DOMAIN order, order[i] = m PROVE FALSE
  BY DEF Accepted
<1>3. i \in Nat /\ i <= Len(order) /\ Len(order) \in Nat
  BY <1>1
<1>4. /\ i \in DOMAIN order' /\ Len(order) + 1 \in DOMAIN order'
      /\ order'[i] = order[i] /\ order'[Len(order) + 1] = m
  BY <1>1
<1>5. i # Len(order) + 1
  BY <1>3
<1> QED BY <1>1, <1>2, <1>4, <1>5 DEF OrderInv

\* A step of the sender that transmits nothing.
LEMMA SilentStep ==
  ASSUME LinkInv, LinkInv', NoneMissing, UNCHANGED <<recvVars, wire, aired>>, Driver \subseteq Driver',
         \A b \in SendBlock : Goes(b), order' = order \/ \E m \in Msg : order' = Append(order, m)
  PROVE  NoneMissing'
<1>1. NoHoles /\ AllGiven /\ AllShown
  BY DEF NoneMissing
<1>2. Bus' = Bus /\ \A m : Aired(m)' = Aired(m)
  BY DEF Bus, Aired
<1>3. NoHoles'
  BY <1>1, <1>2 DEF NoHoles
<1>4. AllGiven'
  BY <1>1, GivenStays
<1>5. ASSUME NEW x, NEW y \in Msg, Later(x, y)', NEW z \in Aired(y) PROVE Later(x, y)
  <2>1. CASE order' = order
    BY <1>5, <2>1, SameOrder
  <2>2. ASSUME NEW m \in Msg, order' = Append(order, m) PROVE Later(x, y)
    <3>1. order \in Seq(Msg)
      BY DEF LinkInv, LinkTypes
    <3>2. Later(x, y) \/ y = m
      BY <1>5, <2>2, <3>1, OrderGrows
    <3>3. Accepted(y) /\ ~Accepted(m)
      BY <1>5, <2>2, AiredAccepted, AcceptedNow
    <3> QED BY <3>2, <3>3
  <2> QED BY <2>1, <2>2
<1>6. ASSUME NEW r \in RecvBlock \ rslab', rctx'[r].state = "WAIT_CF" PROVE OnBus(r)'
  <2>1. rctx' = rctx /\ rslab' = rslab /\ MsgOf(r)' = MsgOf(r)
    BY DEF recvVars, MsgOf
  <2>2. OnBus(r)
    BY <1>1, <1>6, <2>1 DEF AllShown
  <2>3. ASSUME NEW n \in Msg, Dest[n] = rctx[r].src, NEW y \in Aired(n), Unread(r, n, y)' PROVE Shown(n, y)'
    <3>1. Unread(r, n, y)
      BY <1>5, <2>1, <2>3 DEF Unread
    <3>2. Shown(n, y)
      BY <2>2, <2>3, <3>1 DEF OnBus
    <3> QED BY <1>2, <3>2 DEF Shown
  <2> QED BY <1>2, <2>1, <2>3 DEF OnBus
<1>7. AllShown'
  BY <1>6 DEF AllShown
<1> QED BY <1>3, <1>4, <1>7 DEF NoneMissing

\* can_send adds a frame.
LEMMA DriverGrows ==
  ASSUME txq \in Seq(Frame), NEW f, txq' = Append(txq, f)
  PROVE  Driver \subseteq Driver' /\ f \in Driver'
<1>1. /\ Len(txq) + 1 \in DOMAIN txq' /\ txq'[Len(txq) + 1] = f
      /\ \A i \in DOMAIN txq : i \in DOMAIN txq' /\ txq'[i] = txq[i]
  OBVIOUS
<1> QED BY <1>1 DEF Driver

\* isotp_fast_send starts a context for a message.
LEMMA AppGives ==
  ASSUME LinkInv, LinkInv', NoneMissing, LinkAppThread
  PROVE  NoneMissing'
<1>1. /\ SendTypeInv /\ SendInv /\ AirInv /\ sctx \in [SendBlock -> SendCtx] /\ txq \in Seq(Frame)
      /\ NoBlock \notin SendBlock
  BY SendAssumption DEF LinkInv, Halves, SendTypeInv, SendTypeOK, SendAssumption
<1>2. UNCHANGED <<recvVars, wire, aired>>
  BY DEF LinkAppThread, SendGetCtx, SendMulti, SendSingle
<1>3. app.pc # "idle" => app.blk \in SendBlock /\ app.msg \in Msg
  BY <1>1 DEF SendTypeInv, InHand
<1>4. order' = order \/ \E m \in Msg : order' = Append(order, m)
  BY <1>3 DEF LinkAppThread
<1>5. ASSUME NEW m \in Msg, SendGetCtx(m) PROVE Driver \subseteq Driver' /\ \A b \in SendBlock : Goes(b)
  <2>1. Driver' = Driver /\ app.blk = NoBlock
    BY <1>5 DEF SendGetCtx, NoApp, Driver
  <2>2. ASSUME NEW b \in SendBlock, Using(b)' PROVE Stayed(b)
    <3>1. b \notin sslab /\ sctx'[b] = sctx[b]
      BY <1>1, <1>5, <2>2 DEF SendGetCtx, Using
    <3> QED BY <1>1, <2>1, <3>1 DEF Stayed, Using
  <2> QED BY <2>1, <2>2 DEF Goes
<1>6. CASE SendMulti
  <2>1. PICK m \in Msg, b \in SendBlock : m = app.msg /\ b = app.blk
    BY <1>3, <1>6 DEF SendMulti
  <2>2. Driver' = Driver /\ sslab' = sslab
    BY <1>6 DEF SendMulti, Driver
  <2>3. PICK d : d = Loaded(sctx[b], m)
    OBVIOUS
  <2>4. d.arg = m /\ d.rem = Cfs[m] + 1
    BY <1>1, <2>3, CtxFields DEF Loaded
  <2>5. sctx' = [sctx EXCEPT ![b] = d]
    BY <1>6, <2>1, <2>3 DEF SendMulti
  <2>6. Started(b)
    BY <1>1, <2>4, <2>5 DEF Started
  <2>7. ASSUME NEW c \in SendBlock, c # b, Using(c)' PROVE Stayed(c)
    BY <1>1, <2>1, <2>2, <2>5, <2>7 DEF Stayed, Using
  <2>8. \A c \in SendBlock : Goes(c)
    BY <2>6, <2>7 DEF Goes
  <2> QED BY <1>1, <1>2, <1>4, <2>2, <2>8, SilentStep
<1>7. CASE SendSingle
  <2>1. PICK m \in Msg, b \in SendBlock : m = app.msg /\ b = app.blk
    BY <1>3, <1>7 DEF SendSingle
  <2>2. Cfs[m] = 0
    BY <1>1, <1>7, <2>1 DEF SendSingle, AirInv, AppFits
  <2>3. PICK c : c = [sctx[b] EXCEPT !.arg = m]
    OBVIOUS
  <2>4. c.arg = m /\ [c EXCEPT !.pending = @ + 1].arg = m /\ Freed(c).arg = m
    BY <1>1, <2>3, CtxFields DEF Freed
  <2>5. PICK d : sctx' = [sctx EXCEPT ![b] = d] /\ d.arg = m
    BY <1>7, <2>1, <2>3, <2>4 DEF SendSingle
  <2>6. sslab \subseteq sslab' /\ Driver \subseteq Driver'
    <3>1. txq' = txq \/ \E f : txq' = Append(txq, f)
      BY <1>7 DEF SendSingle
    <3>2. Driver \subseteq Driver'
      BY <1>1, <3>1, DriverGrows DEF Driver
    <3> QED BY <1>7, <3>2 DEF SendSingle
  <2>7. sctx'[b].arg = m
    BY <1>1, <2>5
  <2>8. ASSUME NEW e \in SendBlock, e # b, Using(e)' PROVE Stayed(e)
    BY <1>1, <2>1, <2>5, <2>6, <2>8 DEF Stayed, Using
  <2>9. \A e \in SendBlock : Goes(e)
    BY <2>2, <2>7, <2>8 DEF Goes
  <2> QED BY <1>2, <1>4, <2>6, <2>9, SilentStep
<1> QED BY <1>2, <1>4, <1>5, <1>6, <1>7, SilentStep DEF LinkAppThread

\* One context moves.
LEMMA OneGoes ==
  ASSUME SendTypeInv, NEW b \in SendBlock, NEW d, sctx' = [sctx EXCEPT ![b] = d], app' = app,
         sslab \subseteq sslab', Goes(b)
  PROVE  \A c \in SendBlock : Goes(c)
<1>1. ASSUME NEW c \in SendBlock, c # b, Using(c)' PROVE Stayed(c)
  BY <1>1 DEF SendTypeInv, SendTypeOK, Stayed, Using
<1> QED BY <1>1 DEF Goes

\* A context that keeps its message and does not count.
LEMMA KeptGoes ==
  ASSUME LinkInv, LinkInv', NoneMissing, NEW b \in SendBlock, NEW d, sctx' = [sctx EXCEPT ![b] = d],
         Kept(d, sctx[b]), UNCHANGED <<app, txq, aired, recvVars, wire, order>>, sslab \subseteq sslab'
  PROVE  NoneMissing'
<1>1. SendTypeInv /\ sctx'[b] = d
  BY DEF LinkInv, Halves, SendTypeInv, SendTypeOK
<1>2. Goes(b)
  BY <1>1 DEF Goes, Stayed, Kept, Using
<1>3. Driver' = Driver
  BY DEF Driver
<1> QED BY <1>1, <1>2, <1>3, OneGoes, SilentStep

\* The next part of the message goes into the driver's queue.
LEMMA NextGoes ==
  ASSUME LinkInv, LinkInv', NoneMissing, NEW b \in SendBlock, Using(b), ~HasSf(b),
         NEW c \in SendCtx, Kept(c, sctx[b]), c.rem > 0, NEW kind \in {"FF", "CF"}, NEW sn \in 0..(SnMod - 1),
         txq' = Append(txq, NextFrame(c, b, kind, sn)),
         sctx' = [sctx EXCEPT ![b] = [Advance(c) EXCEPT !.pending = @ + 1]],
         UNCHANGED <<app, sslab, aired, recvVars, wire, order>>
  PROVE  NoneMissing'
<1>1. SendTypeInv /\ txq \in Seq(Frame)
  BY DEF LinkInv, Halves, SendTypeInv, SendTypeOK
<1>2. PICK d : d = [Advance(c) EXCEPT !.pending = @ + 1]
  OBVIOUS
<1>3. sctx' = [sctx EXCEPT ![b] = d] /\ Past(d, c) /\ sctx'[b] = d
  BY <1>1, <1>2, AdvancePast DEF SendTypeInv, SendTypeOK
<1>4. PICK f : f = NextFrame(c, b, kind, sn)
  OBVIOUS
<1>5. Driver \subseteq Driver' /\ f \in Driver'
  BY <1>1, <1>4, DriverGrows
<1>6. c.data = sctx[b].arg /\ sctx[b].arg \in Msg /\ sctx[b].arg # NoMsg
  BY LongFacts, CommonAssumption DEF Kept, CommonAssumption
<1>7. f.blk = b /\ f.idx = Ahead(b)
  BY <1>4, <1>6 DEF NextFrame, Ahead, Kept
<1>8. Advanced(b)
  BY <1>3, <1>5, <1>7 DEF Advanced, Past, Kept
<1>9. \A e \in SendBlock : Goes(e)
  BY <1>1, <1>3, <1>8, OneGoes DEF Goes
<1> QED BY <1>5, <1>9, SilentStep

\* The work queue counts a frame only when it has queued it.
LEMMA WorkGives ==
  ASSUME Cooperative, LinkInv, LinkInv', NoneMissing, LinkSendWork
  PROVE  NoneMissing'
<1>1. /\ SendTypeInv /\ SendInv /\ AirInv /\ sctx \in [SendBlock -> SendCtx]
      /\ UNCHANGED <<app, aired, recvVars, wire, order>>
  <2>1. SendTypeInv /\ SendInv /\ AirInv /\ sctx \in [SendBlock -> SendCtx]
    BY DEF LinkInv, Halves, SendTypeInv, SendTypeOK
  <2>2. UNCHANGED <<app, aired>>
    BY DEF LinkSendWork, SendWorkQueue, SendWork, SendFfQueued, SendCfQueued, SendCfCounted, SendSemTaken
  <2> QED BY <2>1, <2>2 DEF LinkSendWork, linkVars
<1>2. ~\E k \in {"sendFails"} : Fault(k)
  BY DEF Cooperative, Polite, Fault
<1>3. CASE SendFfQueued \/ SendCfQueued \/ SendCfCounted
  <2>1. srun.blk \in SendBlock /\ sctx[srun.blk] \in SendCtx
    BY <1>1, <1>3 DEF SendTypeInv, InHand, SendFfQueued, SendCfQueued, SendCfCounted
  <2>2. PICK b \in SendBlock, c \in SendCtx : b = srun.blk /\ c = sctx[b]
    BY <2>1
  <2>3. UNCHANGED <<txq, sslab>>
    BY <1>3 DEF SendFfQueued, SendCfQueued, SendCfCounted
  <2>4. CASE SendFfQueued
    <3>1. PICK d : d = AwaitFc(c)
      OBVIOUS
    <3>2. Kept(d, sctx[b]) /\ sctx' = [sctx EXCEPT ![b] = d]
      BY <2>2, <2>4, <3>1, WaitingKeeps DEF SendFfQueued
    <3> QED BY <1>1, <2>3, <3>2, KeptGoes
  <2>5. CASE SendCfQueued
    <3>1. sctx' = [sctx EXCEPT ![b] = c] /\ Kept(c, sctx[b])
      BY <1>1, <2>2, <2>5 DEF SendCfQueued, Kept
    <3> QED BY <1>1, <2>3, <3>1, KeptGoes
  <2>6. CASE SendCfCounted
    <3>1. PICK e : e = [c EXCEPT !.backlog = Byte(srun.reg + 1), !.sn = NextSn(@), !.bs = Byte(@ - 1)]
      OBVIOUS
    <3>2. Kept(e, c) /\ DOMAIN e = DOMAIN c
      BY <3>1, CtxFields DEF Kept
    <3>3. Kept(AfterLast(e), c) /\ Kept(AwaitFc(e), c) /\ Kept([e EXCEPT !.state = "WAIT_ST"], c)
      BY <3>2, CtxFields DEF Kept, AfterLast, AwaitFc
    <3>4. PICK d : sctx' = [sctx EXCEPT ![b] = d] /\ Kept(d, c)
      BY <2>2, <2>6, <3>1, <3>2, <3>3 DEF SendCfCounted
    <3> QED BY <1>1, <2>2, <2>3, <3>4, KeptGoes
  <2> QED BY <1>3, <2>4, <2>5, <2>6
<1>4. CASE SendSemTaken
  <2>1. PICK b \in SendBlock : srun.blk = b /\ srun.pc = "sem" /\ Using(b) /\ ~HasSf(b) /\ Working(b) /\ UsedBlock(b)
    BY <1>1, <1>4, RunHolds DEF SendSemTaken, Using
  <2>2. sctx[b] \in SendCtx /\ Sending(b) /\ sctx[b].state = "SEND_CF"
    BY <2>1, LongFacts DEF Working
  <2>3. PICK c : c = [sctx[b] EXCEPT !.sem = 0]
    OBVIOUS
  <2>4. c \in SendCtx /\ Kept(c, sctx[b])
    BY <2>2, <2>3, SemTaken, TimersKeep
  <2>5. c.rem > 0 /\ c.sn \in 0..(SnMod - 1)
    BY <2>1, <2>2, <2>4 DEF Sending, Phase, Kept, SendCtx
  <2>6. PICK kind, sn : kind = "CF" /\ sn = c.sn
    OBVIOUS
  <2>7. /\ txq' = Append(txq, NextFrame(c, b, kind, sn))
        /\ sctx' = [sctx EXCEPT ![b] = [Advance(c) EXCEPT !.pending = @ + 1]] /\ sslab' = sslab
    BY <1>2, <1>4, <2>1, <2>3, <2>6 DEF SendSemTaken, SendCf
  <2> QED BY <1>1, <2>1, <2>4, <2>5, <2>6, <2>7, NextGoes
<1>5. ASSUME NEW b \in SendBlock, SendWork(b) PROVE NoneMissing'
  <2>1. /\ Using(b) /\ ~HasSf(b) /\ srun.blk # b /\ sctx[b] \in SendCtx
    BY <1>1, <1>5, QueuedHolds DEF Using, NoRun, SendWork
  <2>2. Sending(b)
    BY <2>1, LongFacts
  <2>3. PICK x \in SendCtx : x = sctx[b]
    BY <2>1
  <2>4. CASE sctx[b].state = "SEND_FF" /\ SendFf(b) /\ UNCHANGED <<sslab, reports>>
    <3>1. PICK c : c = [sctx[b] EXCEPT !.sn = 1 % SnMod]
      OBVIOUS
    <3>2. c \in SendCtx /\ Kept(c, sctx[b])
      BY <2>1, <3>1, AdvanceOn
    <3>3. c.rem > 0
      BY <2>1, <2>2, <2>4, <3>2, LongFacts DEF Kept, Sending, Phase
    <3>4. PICK kind, sn : kind = "FF" /\ sn = 0
      OBVIOUS
    <3>5. /\ txq' = Append(txq, NextFrame(c, b, kind, sn))
          /\ sctx' = [sctx EXCEPT ![b] = [Advance(c) EXCEPT !.pending = @ + 1]] /\ sslab' = sslab
      BY <1>2, <2>4, <3>1, <3>4 DEF SendFf
    <3>6. sn \in 0..(SnMod - 1)
      BY <3>4, CommonAssumption DEF CommonAssumption
    <3> QED BY <1>1, <2>1, <3>2, <3>3, <3>4, <3>5, <3>6, NextGoes
  <2>5. CASE sctx[b].state = "SEND_CF" /\ SendCf(b, [sctx[b] EXCEPT !.timer = FALSE]) /\ UNCHANGED <<sslab, reports>>
    <3>1. PICK c : c = [sctx[b] EXCEPT !.timer = FALSE]
      OBVIOUS
    <3>2. c \in SendCtx /\ Kept(c, sctx[b])
      BY <2>1, <3>1, StopFields, TimersKeep
    <3>3. c.rem > 0 /\ c.sn \in 0..(SnMod - 1)
      BY <2>1, <2>2, <2>5, <3>2 DEF Kept, Sending, Phase, SendCtx
    <3>4. PICK kind, sn : kind = "CF" /\ sn = c.sn
      OBVIOUS
    <3>5. /\ txq' = Append(txq, NextFrame(c, b, kind, sn))
          /\ sctx' = [sctx EXCEPT ![b] = [Advance(c) EXCEPT !.pending = @ + 1]] /\ sslab' = sslab
      BY <1>2, <2>5, <3>1, <3>4 DEF SendCf
    <3> QED BY <1>1, <2>1, <3>2, <3>3, <3>4, <3>5, NextGoes
  <2>6. CASE WorkWaitSt(b)
    <3>1. PICK d : d = [x EXCEPT !.timer = TRUE, !.state = "SEND_CF"]
      OBVIOUS
    <3>2. Kept(d, sctx[b])
      BY <2>3, <3>1, CtxFields DEF Kept
    <3>3. sctx' = [sctx EXCEPT ![b] = d] /\ UNCHANGED <<sslab, txq>>
      BY <2>3, <2>6, <3>1 DEF WorkWaitSt
    <3> QED BY <1>1, <3>2, <3>3, KeptGoes
  <2>7. CASE \E res \in {"ok", "error"} : WorkEnd(b, res)
    <3>1. PICK d : d = Freed([x EXCEPT !.state = "RESET"])
      OBVIOUS
    <3>2. Kept(d, sctx[b])
      BY <2>3, <3>1, CtxFields DEF Kept, Freed
    <3>3. sctx' = [sctx EXCEPT ![b] = d] /\ sslab \subseteq sslab' /\ txq' = txq
      BY <2>3, <2>7, <3>1 DEF WorkEnd
    <3> QED BY <1>1, <3>2, <3>3, KeptGoes
  <2>8. CASE WorkIgnored
    <3>1. sctx' = [sctx EXCEPT ![b] = x] /\ Kept(x, sctx[b]) /\ UNCHANGED <<sslab, txq>>
      BY <1>1, <2>3, <2>8 DEF WorkIgnored, Kept
    <3> QED BY <1>1, <3>1, KeptGoes
  <2> QED BY <1>5, <2>4, <2>5, <2>6, <2>7, <2>8 DEF SendWork
<1> QED BY <1>3, <1>4, <1>5 DEF LinkSendWork, SendWorkQueue

\* A frame reaches the bus.
LEMMA TransmitGives ==
  ASSUME Cooperative, LinkInv, LinkInv', NoneMissing, FrameDone(TRUE), NEW f, f = Head(txq),
         wire' = Append(wire, OnWire(f)), UNCHANGED <<recvVars, order>>
  PROVE  NoneMissing'
<1>1. /\ SendTypeInv /\ SendInv /\ AirInv /\ sctx \in [SendBlock -> SendCtx] /\ txq \in Seq(Frame)
      /\ OneFrame /\ txq # <<>> /\ txq' = Tail(txq) /\ NoHoles /\ AllGiven /\ AllShown /\ wire \in Seq(WireFrame)
  BY DEF LinkInv, LinkTypes, Halves, SendTypeInv, SendTypeOK, SendInv, FrameDone, NoneMissing
<1>2. PICK b \in SendBlock :
        /\ f \in Frame /\ f.blk = b /\ Using(b) /\ f.msg \in Msg /\ sctx[b].arg = f.msg
        /\ Queued(b, f) /\ Shape(f) /\ (HasSf(b) <=> f.kind = "SF")
        /\ IF f.kind = "SF" THEN SentSingleCb(b, TRUE) ELSE SendCanTxCallback(b)
        /\ \A c \in SendBlock \ {b} : Calm(c)
        /\ UNCHANGED <<srun, app, call>>
  <2>1. TRUE \in BOOLEAN
    OBVIOUS
  <2> QED BY <2>1, HeadFrame
<1>3. /\ \A m \in Msg : Aired(m) \subseteq Aired(m)'
      /\ f.idx \in Aired(f.msg)'
      /\ \A m \in Msg : \A y \in Aired(m)' : y \in Aired(m) \/ (m = f.msg /\ y = f.idx)
  <2>1. \A m \in Msg : Aired(m)' = IF TRUE /\ m = f.msg THEN Aired(m) \cup {f.idx} ELSE Aired(m)
    <3>1. TRUE \in BOOLEAN
      OBVIOUS
    <3> QED BY <1>2, <3>1, AiredGrows
  <2> QED BY <1>2, <2>1
<1>4. Driver' = Driver \ {f} /\ \A g \in Driver : g.blk = b => g = f
  BY <1>1, <1>2, DriverTail
<1>5. Bus \subseteq Bus' /\ OnWire(f) \in Bus'
  <2>1. /\ Len(wire) + 1 \in DOMAIN wire' /\ wire'[Len(wire) + 1] = OnWire(f)
        /\ \A i \in DOMAIN wire : i \in DOMAIN wire' /\ wire'[i] = wire[i]
    BY <1>1
  <2> QED BY <2>1 DEF Bus
<1>6. NoHoles'
  <2>1. SUFFICES ASSUME NEW m \in Msg, NEW y \in Aired(m)', NEW x \in Nat, x < y PROVE x \in Aired(m)'
    BY DEF NoHoles
  <2>2. CASE y \in Aired(m)
    BY <1>1, <1>3, <2>1, <2>2 DEF NoHoles
  <2>3. CASE m = f.msg /\ y = f.idx
    <3>1. f.kind # "SF" /\ f.idx \in Nat
      BY <1>2, <2>1, <2>3 DEF Shape
    <3>2. Ahead(b) \in Nat /\ f.idx = Ahead(b) - 1 /\ Cfs[sctx[b].arg] # 0
      BY <1>2, <3>1, LongFacts DEF Queued
    <3>3. PICK a \in Nat : a = Ahead(b)
      BY <3>2
    <3>4. x < a
      BY <2>1, <2>3, <3>1, <3>2, <3>3
    <3>5. Given(b, x)
      BY <1>1, <1>2, <3>2, <3>3, <3>4 DEF AllGiven
    <3>6. x # y
      BY <2>1, <2>3, <3>1
    <3> QED BY <1>2, <1>3, <1>4, <2>3, <3>5, <3>6 DEF Given
  <2> QED BY <1>3, <2>2, <2>3
<1>7. AllGiven'
  <2>1. SUFFICES ASSUME NEW c \in SendBlock, Using(c)', Cfs[sctx'[c].arg] # 0, NEW x \in Nat, x < Ahead(c)'
                 PROVE  Given(c, x)'
    BY DEF AllGiven
  <2>2. ASSUME Using(c), sctx'[c].arg = sctx[c].arg, Ahead(c)' = Ahead(c) PROVE Given(c, x)'
    <3>1. Given(c, x) /\ sctx[c].arg \in Msg
      BY <1>1, <2>1, <2>2, UsedFacts DEF AllGiven
    <3>2. CASE x \in Aired(sctx[c].arg)
      BY <1>3, <2>2, <3>1, <3>2 DEF Given
    <3>3. ASSUME NEW g \in Driver, g.blk = c, g.idx = x PROVE Given(c, x)'
      <4>1. CASE g = f
        BY <1>2, <1>3, <2>2, <3>3, <4>1 DEF Given
      <4>2. CASE g # f
        BY <1>4, <3>3, <4>2 DEF Given
      <4> QED BY <4>1, <4>2
    <3> QED BY <3>1, <3>2, <3>3 DEF Given
  <2>3. CASE c # b
    <3>1. Calm(c)
      BY <1>2, <2>3
    <3> QED BY <2>1, <2>2, <3>1, CalmStays DEF Calm
  <2>4. CASE c = b
    <3>1. f.kind # "SF"
      BY <1>2, <2>1, <2>4 DEF Using, SentSingleCb
    <3>2. PICK x0 \in SendCtx : x0 = sctx[b]
      BY <1>1
    <3>3. PICK d : sctx' = [sctx EXCEPT ![b] = d] /\ Kept(d, x0)
      <4>1. PICK e : e = [x0 EXCEPT !.pending = @ - 1, !.backlog = Byte(@ - 1), !.sem = 1]
        OBVIOUS
      <4>2. DOMAIN e = DOMAIN x0 /\ Kept(e, x0)
        BY <4>1, CtxFields DEF Kept
      <4>3. \A s : Kept([e EXCEPT !.state = s], x0)
        BY <4>2, CtxFields DEF Kept
      <4> QED BY <1>2, <3>1, <3>2, <4>1, <4>3 DEF SendCanTxCallback
    <3>4. sctx'[b] = d
      BY <1>1, <3>3
    <3> QED BY <1>2, <2>2, <2>4, <3>2, <3>3, <3>4 DEF Ahead, Kept
  <2> QED BY <2>3, <2>4
<1>8. AllShown'
  <2>1. SUFFICES ASSUME NEW r \in RecvBlock \ rslab', rctx'[r].state = "WAIT_CF", NEW n \in Msg,
                        Dest[n] = rctx'[r].src, NEW y \in Aired(n)', Unread(r, n, y)'
                 PROVE  Shown(n, y)'
    BY DEF AllShown, OnBus
  <2>2. rctx' = rctx /\ rslab' = rslab /\ (Unread(r, n, y) <=> Unread(r, n, y)')
    BY SameOrder DEF recvVars, Unread, MsgOf
  <2>3. CASE y \in Aired(n)
    BY <1>1, <1>5, <2>1, <2>2, <2>3 DEF AllShown, OnBus, Shown
  <2>4. CASE n = f.msg /\ y = f.idx
    <3>1. OnWire(f).f.msg = f.msg /\ OnWire(f).f.idx = f.idx
      BY DEF OnWire
    <3> QED BY <1>5, <2>4, <3>1 DEF Shown
  <2> QED BY <1>3, <2>3, <2>4
<1> QED BY <1>6, <1>7, <1>8 DEF NoneMissing

\* All that a sender that waits for flow control has transmitted has been received.
LEMMA AskingShown ==
  ASSUME LinkInv, NEW r \in RecvBlock \ rslab, Asking(r)
  PROVE  OnBus(r)
<1>1. rctx[r].state # "ERR" /\ RecvInv(r) /\ OrderInv /\ order \in Seq(Msg)
  BY DEF Asking, LinkInv, LinkTypes
<1>2. PICK m \in Msg, b \in SendBlock :
        MsgOf(r) = m /\ Using(b) /\ sctx[b].arg = m /\ Parked(b) /\ Ahead(b) = Len(rctx[r].data)
  BY <1>1 DEF RecvInv, SenderParked
<1>3. Dest[m] = rctx[r].src
  BY <1>1, <1>2 DEF RecvInv, Holds
<1>4. reports[m] = <<>>
  BY <1>2, UsedFacts
<1>5. ~HasSf(b)
  BY <1>2, DriverHas DEF Parked
<1>6. Counts(b) /\ Ahead(b) \in Nat
  BY <1>2, <1>5, LongFacts DEF Sending
<1>7. SUFFICES ASSUME NEW n \in Msg, Dest[n] = rctx[r].src, NEW y \in Aired(n), Unread(r, n, y) PROVE FALSE
  BY DEF OnBus
<1>8. ~Later(m, n)
  BY <1>1, <1>3, <1>4, <1>7, Latest
<1>9. n = m /\ y >= Ahead(b)
  BY <1>2, <1>7, <1>8 DEF Unread
<1>10. y < Ahead(b)
  BY <1>2, <1>6, <1>7, <1>9 DEF Counts, Aired
<1>11. y \in Nat
  BY <1>7, AiredAccepted
<1> QED BY <1>6, <1>9, <1>10, <1>11

\* A step of the receiver that takes no frame: a context that waits for consecutive frames
\* waited before, or has just asked for them.
LEMMA OneQuiet ==
  ASSUME LinkInv, NoneMissing, UNCHANGED <<sendVars, wire, order>>, NEW r \in RecvBlock, NEW d,
         rctx' = [rctx EXCEPT ![r] = d], rslab \subseteq rslab',
         r \notin rslab' /\ d.state = "WAIT_CF" =>
           /\ r \notin rslab /\ d.data = rctx[r].data /\ d.src = rctx[r].src
           /\ rctx[r].state = "WAIT_CF" \/ Asking(r)
  PROVE  NoneMissing'
<1>1. DOMAIN rctx = RecvBlock /\ NoHoles /\ AllGiven /\ AllShown
  BY DEF LinkInv, Halves, ContextsInv, NoneMissing
<1>2. /\ \A m : Aired(m)' = Aired(m)
      /\ \A m, n : Later(m, n)' <=> Later(m, n)
      /\ \A b : (Using(b)' <=> Using(b)) /\ Ahead(b)' = Ahead(b) /\ sctx'[b] = sctx[b]
      /\ Driver' = Driver /\ Bus' = Bus
  BY SameSender DEF Driver, Bus, sendVars
<1>3. NoHoles'
  BY <1>1, <1>2 DEF NoHoles
<1>4. \A b, x : Given(b, x)' <=> Given(b, x)
  BY <1>2 DEF Given
<1>5. AllGiven'
  BY <1>1, <1>2, <1>4 DEF AllGiven
<1>6. ASSUME NEW q \in RecvBlock \ rslab', rctx'[q].state = "WAIT_CF" PROVE OnBus(q)'
  <2>1. q \notin rslab /\ rctx'[q].data = rctx[q].data /\ rctx'[q].src = rctx[q].src /\ OnBus(q)
    <3>1. CASE q = r
      BY <1>1, <1>6, <3>1, AskingShown DEF AllShown
    <3>2. CASE q # r
      BY <1>1, <1>6, <3>2 DEF AllShown
    <3> QED BY <3>1, <3>2
  <2>2. MsgOf(q)' = MsgOf(q)
    BY <2>1 DEF MsgOf
  <2>3. ASSUME NEW n \in Msg, Dest[n] = rctx'[q].src, NEW y \in Aired(n)', Unread(q, n, y)' PROVE Shown(n, y)'
    <3>1. Unread(q, n, y) /\ y \in Aired(n)
      BY <1>2, <2>1, <2>2, <2>3 DEF Unread
    <3>2. Shown(n, y)
      BY <2>1, <2>3, <3>1 DEF OnBus
    <3> QED BY <1>2, <3>2 DEF Shown
  <2> QED BY <2>3 DEF OnBus
<1>7. AllShown'
  BY <1>6 DEF AllShown
<1> QED BY <1>3, <1>5, <1>7 DEF NoneMissing

\* The work queue, the driver and the timers of the receiver.
LEMMA RecvWorkGives ==
  ASSUME Cooperative, LinkInv, NoneMissing, NEW r \in RecvBlock, RecvWork(r), UNCHANGED <<sendVars, linkVars>>
  PROVE  NoneMissing'
<1>1. Inv /\ ContextsInv /\ Polite /\ UNCHANGED <<wire, order>> /\ ~\E k \in {"sendFails"} : Fault(k)
  BY DEF LinkInv, Halves, Cooperative, Polite, Fault, linkVars
<1>2. rrun = NoRRun /\ r \in rwork /\ rrun.blk # r
  BY ReceiveAssumption DEF RecvWork, NoRRun, ReceiveAssumption
<1>3. r \notin rslab /\ Owned(r) /\ Lives(r)
  BY <1>1, <1>2 DEF ContextsInv, ContextSound, Idle, InUse
<1>4. rctx[r].state \in {"PROCESS_SF", "PROCESS_FF", "TRY_ALLOC", "RECYCLE", "ERR"}
  BY <1>2, <1>3 DEF Lives, RRunning, Cooperative
<1>5. PICK c \in RecvCtx : c = rctx[r]
  BY <1>1 DEF Inv, Types
<1>6. CASE Dispatch(r)
  <2>1. PICK d : d = [c EXCEPT !.state = "RECYCLE", !.rem = 0]
    OBVIOUS
  <2>2. d.state = "RECYCLE" /\ rctx' = [rctx EXCEPT ![r] = d] /\ rslab' = rslab
    BY <1>5, <1>6, <2>1 DEF Dispatch, RecvCtx
  <2>3. d.state # "WAIT_CF"
    BY <2>2
  <2> QED BY <1>1, <2>2, <2>3, OneQuiet
<1>7. ASSUME NEW e \in RecvCtx, SendCts(r, e) PROVE NoneMissing'
  <2>1. PICK d : d = [[e EXCEPT !.timer = FALSE, !.state = "SEND_FC"] EXCEPT !.pending = @ + 1]
    OBVIOUS
  <2>2. d.state = "SEND_FC"
    BY <2>1 DEF RecvCtx
  <2>3. rctx' = [rctx EXCEPT ![r] = d] /\ rslab' = rslab
    BY <1>1, <1>7, <2>1 DEF SendCts, SendFc
  <2>4. d.state # "WAIT_CF"
    BY <2>2
  <2> QED BY <1>1, <2>3, <2>4, OneQuiet
<1>8. CASE RecvError(r, c)
  <2>1. c.error # "overflow"
    BY <1>3, <1>5 DEF Owned
  <2>2. PICK d : d = RFreed([c EXCEPT !.state = "UNBOUND"])
    OBVIOUS
  <2>3. rctx' = [rctx EXCEPT ![r] = d] /\ rslab' = rslab \cup {r}
    BY <1>8, <2>1, <2>2 DEF RecvError, RFree
  <2> QED BY <1>1, <2>3, OneQuiet
<1>9. CASE c.state = "PROCESS_FF"
  <2>1. RBs > 0 /\ RBs \in 0..255 /\ ~(RBs = 0) /\ 255 \in 0..255
    BY <1>1, ReceiveAssumption DEF Polite, ReceiveAssumption
  <2>2. PICK e1 : e1 = [c EXCEPT !.bs = RBs]
    BY ONLY <2>1
  <2>3. PICK e : e = [e1 EXCEPT !.wft = 255]
    BY ONLY <2>1
  <2>4. e1 \in RecvCtx
    <3>1. Unseen(c, e1)
      BY ONLY <2>1, <2>2, c \in RecvCtx, PutUnseen, ZenonT(60)
    <3> QED BY ONLY <3>1 DEF Unseen
  <2>5. e \in RecvCtx
    <3>1. Unseen(e1, e)
      BY ONLY <2>1, <2>3, <2>4, PutUnseen, ZenonT(60)
    <3> QED BY ONLY <3>1 DEF Unseen
  <2>6. SendCts(r, e)
    <3>1. SendCts(r, [c EXCEPT !.bs = RBs, !.wft = 255])
      BY <1>5, <1>9, <2>1 DEF RecvWork
    <3>2. e = [c EXCEPT !.bs = RBs, !.wft = 255]
      BY <2>2, <2>3
    <3> QED BY <3>1, <3>2
  <2> QED BY <1>7, <2>5, <2>6
<1>10. CASE c.state = "TRY_ALLOC"
  <2>1. SendCts(r, c)
    BY <1>5, <1>10 DEF RecvWork
  <2> QED BY <1>7, <2>1
<1>11. c.state \in {"PROCESS_SF", "RECYCLE"} => Dispatch(r)
  BY <1>5 DEF RecvWork
<1>12. c.state = "ERR" => RecvError(r, c)
  BY <1>5 DEF RecvWork
<1> QED BY <1>4, <1>5, <1>6, <1>8, <1>9, <1>10, <1>11, <1>12

\* The receiver's work queue goes on, flow control goes out, or a timer of the receiver expires.
LEMMA ReceiverGives ==
  ASSUME Cooperative, LinkInv, NoneMissing,
         LinkRecvWork \/ TransmitFc \/ (UNCHANGED <<sendVars, linkVars>> /\ \E r \in RecvBlock : RecvTimeout(r))
  PROVE  NoneMissing'
<1>1. Inv /\ ContextsInv /\ Polite
  BY DEF LinkInv, Halves, Cooperative
<1>2. ASSUME FcQueued, UNCHANGED <<sendVars, linkVars>> PROVE NoneMissing'
  <2>1. PICK r \in RecvBlock : rrun = RRunning("ctsSent", r)
    BY <1>1, <1>2 DEF ContextsInv, ThreadPlace, FcQueued, NoRRun, RRunning
  <2>2. rrun.blk = r /\ rrun.pc = "ctsSent"
    BY <2>1 DEF RRunning
  <2>3. r \notin rslab /\ Lives(r)
    BY <1>1, <2>2 DEF ContextsInv, ContextSound, Idle, InUse
  <2>4. rctx[r].state = "SEND_FC"
    BY <1>1, <2>2, <2>3 DEF Lives, RRunning, Cooperative
  <2>5. PICK c \in RecvCtx : c = rctx[r]
    BY <1>1 DEF Inv, Types
  <2>6. PICK d : d = [c EXCEPT !.timer = TRUE, !.state = "WAIT_CF"]
    OBVIOUS
  <2>7. d.data = rctx[r].data /\ d.src = rctx[r].src
    BY <2>5, <2>6 DEF RecvCtx
  <2>8. rctx' = [rctx EXCEPT ![r] = d] /\ rslab' = rslab
    BY <1>2, <2>2, <2>5, <2>6 DEF FcQueued, AwaitCf
  <2>9. Asking(r)
    BY <2>4 DEF Asking
  <2> QED BY <1>2, <2>3, <2>7, <2>8, <2>9, OneQuiet DEF linkVars
<1>3. ASSUME RecvEnd, UNCHANGED <<sendVars, linkVars>> PROVE NoneMissing'
  <2>1. PICK r \in RecvBlock : rrun = RRunning("dispatch", r)
    BY <1>1, <1>3 DEF ContextsInv, ThreadPlace, RecvEnd, NoRRun, RRunning
  <2>2. PICK d : d = RFreed([rctx[r] EXCEPT !.state = "UNBOUND"])
    OBVIOUS
  <2>3. rctx' = [rctx EXCEPT ![r] = d] /\ rslab' = rslab \cup {r}
    BY <1>3, <2>1, <2>2 DEF RecvEnd, RFree, RRunning
  <2> QED BY <1>3, <2>3, OneQuiet DEF linkVars
<1>4. ASSUME NEW ok \in BOOLEAN, FcDone(ok), UNCHANGED <<sendVars, wire, order>> PROVE NoneMissing'
  <2>1. PICK r \in RecvBlock \ rslab :
          rctx[r].state = "WAIT_CF" /\ rctx' = [rctx EXCEPT ![r] = FcAnswered(rctx[r], ok)] /\ rslab' = rslab
    BY <1>4, FcLeaves
  <2>2. PICK c \in RecvCtx : c = rctx[r]
    BY <1>1, <2>1 DEF Inv, Types
  <2>3. PICK d : d = FcAnswered(c, ok)
    OBVIOUS
  <2>4. d.data = c.data /\ d.src = c.src
    BY <1>4, <2>3, FcAnsweredFields
  <2> QED BY <1>4, <2>1, <2>2, <2>3, <2>4, OneQuiet
<1>5. ASSUME NEW r \in RecvBlock, RecvTimeout(r), UNCHANGED <<sendVars, linkVars>> PROVE NoneMissing'
  <2>1. r \notin rslab /\ Lives(r)
    BY <1>1, <1>5 DEF RecvTimeout, ContextsInv, ContextSound, Idle, InUse
  <2>2. PICK c \in RecvCtx : c = rctx[r]
    BY <1>1 DEF Inv, Types
  <2>3. PICK e : e = CASE c.state = "WAIT_CF"   -> [c EXCEPT !.state = "ERR", !.error = "other"]
                       [] c.state = "TRY_ALLOC" -> [c EXCEPT !.state = "SEND_WAIT"]
                       [] OTHER                 -> c
    OBVIOUS
  <2>4. e.state # "WAIT_CF" /\ "state" \in DOMAIN e
    BY <2>2, <2>3 DEF RecvCtx
  <2>5. PICK d : d = [e EXCEPT !.timer = FALSE]
    OBVIOUS
  <2>6. d.state # "WAIT_CF"
    BY <2>4, <2>5
  <2>7. rctx' = [rctx EXCEPT ![r] = d] /\ rslab' = rslab
    BY <1>5, <2>2, <2>3, <2>5 DEF RecvTimeout
  <2> QED BY <1>5, <2>6, <2>7, OneQuiet DEF linkVars
<1>6. TRUE \in BOOLEAN /\ FALSE \in BOOLEAN
  OBVIOUS
<1>7. TransmitFc => \E ok \in BOOLEAN : FcDone(ok) /\ UNCHANGED <<sendVars, wire, order>>
  BY <1>6 DEF TransmitFc, linkVars
<1> QED BY <1>2, <1>3, <1>4, <1>5, <1>7, RecvWorkGives DEF LinkRecvWork, RecvWorkQueue

\* A frame that arrives is not for a reception from another address.
LEMMA OthersShown ==
  ASSUME LinkInv, NoneMissing, wire # <<>>, wire' = Tail(wire), NEW w, w = Head(wire),
         UNCHANGED <<sendVars, order>>, NEW r \in RecvBlock \ rslab, rctx[r].state = "WAIT_CF",
         rctx'[r] = rctx[r], rctx[r].src # w.dst
  PROVE  OnBus(r)'
<1>1. \A x \in Bus : x = w \/ x \in Bus'
  BY ArrivingFrame
<1>2. OnBus(r)
  BY DEF NoneMissing, AllShown
<1>3. SUFFICES ASSUME NEW n \in Msg, Dest[n] = rctx[r].src, NEW y \in Aired(n)', Unread(r, n, y)'
               PROVE  Shown(n, y)'
  BY DEF OnBus
<1>4. y \in Aired(n) /\ Unread(r, n, y)
  BY <1>3, SameSender DEF Unread, MsgOf
<1>5. PICK x \in Bus : x.f.msg = n /\ x.f.idx = y
  BY <1>2, <1>3, <1>4 DEF OnBus, Shown
<1>6. x.dst = Dest[n]
  BY <1>5 DEF LinkInv, WireInv
<1>7. x \in Bus'
  BY <1>1, <1>3, <1>5, <1>6
<1> QED BY <1>5, <1>7 DEF Shown

\* The frame that a reception takes is the next one: an earlier one would have been
\* transmitted, and would still be on the bus behind it.
LEMMA NextTaken ==
  ASSUME LinkInv, LinkInv', NoneMissing, wire # <<>>, wire' = Tail(wire), NEW w, w = Head(wire),
         UNCHANGED <<sendVars, order>>, NEW r \in RecvBlock \ rslab, r \notin rslab',
         rctx[r].state = "WAIT_CF", rctx'[r].state = "WAIT_CF", rctx[r].src = w.dst,
         rctx'[r].src = rctx[r].src, rctx'[r].data = Append(rctx[r].data, <<w.f.msg, w.f.idx>>)
  PROVE  OnBus(r)'
<1>1. /\ w \in Bus /\ w.dst = Dest[w.f.msg] /\ w.f.idx \in Aired(w.f.msg)
      /\ Bus' \subseteq Bus /\ \A x \in Bus : x = w \/ x \in Bus'
      /\ \A x \in Bus' : x.dst = w.dst => Before(w.f, x.f)
  BY ArrivingFrame
<1>2. OnBus(r) /\ NoHoles /\ OrderInv /\ order \in Seq(Msg)
  BY DEF NoneMissing, AllShown, LinkInv, LinkTypes
<1>3. PICK s, t : s \in Seq(Chunk) /\ s = rctx[r].data /\ t = rctx'[r].data
  BY RecvData
<1>4. PICK l \in Nat \ {0} : l = Len(s)
  BY <1>3, RecvData
<1>5. t = Append(s, <<w.f.msg, w.f.idx>>) /\ 1 \in 1..l /\ l + 1 \in 1..(l + 1)
  BY <1>3, <1>4
<1>6. t[1] = s[1] /\ t[l + 1] = <<w.f.msg, w.f.idx>> /\ Len(t) = l + 1 /\ 1 \in DOMAIN t /\ l + 1 \in DOMAIN t
  <2>1. <<w.f.msg, w.f.idx>> \in Chunk
    BY <1>1, AiredAccepted DEF Chunk, LinkInv, WireInv, Shape
  <2>2. \A c \in Chunk : LET u == Append(s, c) IN u[1] = s[1] /\ u[l + 1] = c /\ Len(u) = l + 1 /\ DOMAIN u = 1..(l + 1)
    BY <1>3, <1>4
  <2>3. 1 \in 1..(l + 1)
    OBVIOUS
  <2> QED BY <1>5, <2>1, <2>2, <2>3
<1>7. PICK m \in Msg : Holds(r, m)'
  <2>1. \E m \in Msg : Holds(r, m)'
    BY DEF LinkInv, RecvInv
  <2> QED BY <2>1
<1>8. MsgOf(r) = m /\ MsgOf(r)' = m /\ w.f.msg = m /\ w.f.idx - t[1][2] >= l
  <2>1. /\ \A j \in DOMAIN t : t[j][1] = m
        /\ \A i, j \in DOMAIN t : i <= j => t[j][2] - t[i][2] >= j - i
        /\ t[1][1] = m /\ MsgOf(r)' = m
    BY <1>3, <1>7 DEF Holds, MsgOf
  <2>2. t[l + 1][1] = w.f.msg /\ t[l + 1][2] = w.f.idx /\ t[l + 1][1] = m
    BY <1>6, <2>1
  <2>3. 1 <= l + 1 /\ l + 1 - 1 = l
    OBVIOUS
  <2>4. t[l + 1][2] - t[1][2] >= l
    <3>1. PICK a : a = l + 1
      OBVIOUS
    <3>2. a \in DOMAIN t /\ 1 \in DOMAIN t /\ 1 <= a
      BY <1>6, <2>3, <3>1
    <3>3. t[a][2] - t[1][2] >= a - 1
      BY ONLY <2>1, <3>2
    <3> QED BY <2>3, <3>1, <3>3
  <2>5. MsgOf(r) = m
    BY <1>3, <1>6, <2>1 DEF MsgOf
  <2> QED BY <2>1, <2>2, <2>4, <2>5
<1>9. t[1][2] = 0
  BY <1>3, <1>6, RecvData DEF InSequence
<1>10. PICK i \in Nat : i = w.f.idx /\ i >= l /\ i \in Aired(m)
  BY <1>1, <1>8, <1>9, AiredAccepted
<1>11. i = l
  <2>1. SUFFICES ASSUME l < i PROVE FALSE
    BY <1>10
  <2>2. l \in Aired(m)
    BY <1>2, <1>10, <2>1 DEF NoHoles
  <2>3. Unread(r, m, l) /\ Dest[m] = rctx[r].src
    BY <1>1, <1>3, <1>4, <1>8 DEF Unread
  <2>4. PICK x \in Bus : x.f.msg = m /\ x.f.idx = l
    BY <1>2, <2>2, <2>3 DEF OnBus, Shown
  <2>5. x # w
    BY <1>10, <2>1, <2>4
  <2>6. x.dst = w.dst
    BY <1>1, <1>8, <2>4 DEF LinkInv, WireInv
  <2>7. i < l \/ Later(m, m)
    BY <1>1, <1>8, <1>10, <2>4, <2>5, <2>6 DEF Before
  <2>8. ~Later(m, m)
    BY <1>2, LaterAccepted
  <2> QED BY <2>1, <2>7, <2>8
<1>12. SUFFICES ASSUME NEW n \in Msg, Dest[n] = rctx[r].src, NEW y \in Aired(n)', Unread(r, n, y)'
                PROVE  Shown(n, y)'
  BY DEF OnBus
<1>13. y \in Aired(n) /\ y \in Nat
  BY <1>12, SameSender, AiredAccepted
<1>14. (n = m /\ y >= l + 1) \/ Later(m, n)
  <2>1. Later(m, n)' <=> Later(m, n)
    BY SameSender
  <2> QED BY <1>3, <1>6, <1>8, <1>12, <2>1 DEF Unread
<1>15. Unread(r, n, y) /\ ~(n = m /\ y = l)
  <2>1. y >= l + 1 => y >= l /\ y # l
    BY <1>13
  <2>2. ~Later(m, m)
    BY <1>2, LaterAccepted
  <2> QED BY <1>3, <1>4, <1>8, <1>14, <2>1, <2>2 DEF Unread
<1>16. PICK x \in Bus : x.f.msg = n /\ x.f.idx = y
  BY <1>2, <1>12, <1>13, <1>15 DEF OnBus, Shown
<1>17. x \in Bus'
  BY <1>1, <1>8, <1>10, <1>11, <1>15, <1>16
<1> QED BY <1>16, <1>17 DEF Shown

\* A frame arrives.
LEMMA ReceiveGives ==
  ASSUME Cooperative, LinkInv, LinkInv', NoneMissing, Receive
  PROVE  NoneMissing'
<1>1. PICK w : w = Head(wire)
  OBVIOUS
<1>2. /\ wire # <<>> /\ wire' = Tail(wire) /\ FrameArrives(w.dst, w.f) /\ UNCHANGED <<sendVars, order>>
      /\ w \in Bus /\ DataFrame(w.f)
  <2>1. wire # <<>> /\ wire' = Tail(wire) /\ FrameArrives(w.dst, w.f) /\ UNCHANGED <<sendVars, order>>
    BY <1>1 DEF Receive
  <2> QED BY <1>1, <2>1, ArrivingFrame
<1>3. Inv /\ ContextsInv /\ DOMAIN rctx = RecvBlock
  BY DEF LinkInv, Halves, ContextsInv
<1>4. /\ \A m : Aired(m)' = Aired(m)
      /\ \A b : (Using(b)' <=> Using(b)) /\ Ahead(b)' = Ahead(b) /\ sctx'[b] = sctx[b]
      /\ Driver' = Driver
  BY <1>2, SameSender DEF Driver, sendVars
<1>5. NoHoles'
  BY <1>4 DEF NoHoles, NoneMissing
<1>6. AllGiven'
  <2>1. \A b, x : Given(b, x)' <=> Given(b, x)
    BY <1>4 DEF Given
  <2> QED BY <1>4, <2>1 DEF AllGiven, NoneMissing
<1>7. \A q \in RecvBlock \ rslab : rctx[q].list = "ctx"
  BY <1>3 DEF ContextsInv, ContextSound, InUse, Owned
<1>8. ASSUME NEW q \in RecvBlock \ rslab', rctx'[q].state = "WAIT_CF" PROVE OnBus(q)'
  <2>1. ASSUME q \notin rslab, rctx'[q] = rctx[q], q \notin RFound(w.dst) PROVE OnBus(q)'
    <3>1. rctx[q].src # w.dst
      BY <1>7, <2>1 DEF RFound
    <3> QED BY <1>1, <1>2, <1>8, <2>1, <3>1, OthersShown
  <2>2. ASSUME NEW r \in RFound(w.dst), RxExisting(r, w.f) PROVE OnBus(q)'
    <3>1. r \in RecvBlock \ rslab /\ rctx[r].src = w.dst /\ RFound(w.dst) = {r} /\ rctx[r] \in RecvCtx
          /\ rctx[r].state \in {"WAIT_CF", "PROCESS_SF", "RECYCLE", "ERR"}
      BY <1>2, Listening
    <3>2. rslab \subseteq rslab' /\ \E d : rctx' = [rctx EXCEPT ![r] = d]
      BY <2>2 DEF RxExisting, RFree
    <3>3. CASE q # r
      BY <1>3, <1>8, <2>1, <3>1, <3>2, <3>3
    <3>4. CASE q = r
      <4>1. pool > 0
        BY <1>8, <2>2, <3>4 DEF RxExisting, RFree
      <4>2. PICK c : c = [rctx[r] EXCEPT !.bufs = @ + 1]
        OBVIOUS
      <4>3. c \in RecvCtx /\ c.state = rctx[r].state /\ c.data = rctx[r].data /\ c.src = rctx[r].src
            /\ c.rem = rctx[r].rem /\ c.bs = rctx[r].bs
        <5>1. rctx[r].bufs + 1 \in Nat /\ c = [rctx[r] EXCEPT !.bufs = rctx[r].bufs + 1]
          BY <3>1, <4>2, SMTT(40) DEF RecvCtx
        <5>2. c \in RecvCtx
          BY <3>1, <5>1, PutUnseen, ZenonT(60) DEF Unseen
        <5> QED BY <3>1, <4>2, <5>2 DEF RecvCtx
      <4>4. PICK d : rctx' = [rctx EXCEPT ![r] = d]
                     /\ d = IF c.state = "WAIT_CF" THEN ProcessCf(c, w.f)
                            ELSE IF c.state = "WAIT_FF_SF" THEN ProcessFfSf(c, w.f) ELSE c
        <5>1. r \notin rslab'
          BY <1>8, <3>4
        <5> QED BY <2>2, <4>2, <5>1 DEF RxExisting, RFree
      <4>5. rctx'[r] = d /\ d.state = "WAIT_CF"
        BY <1>3, <1>8, <3>1, <3>4, <4>4
      <4>6. rctx[r].state = "WAIT_CF" /\ d = ProcessCf(c, w.f)
        BY <3>1, <4>3, <4>4, <4>5
      <4>7. Takes(c, w.f, d)
        <5>1. RBs \in 1..255
          BY ReceiveAssumption DEF Cooperative, Polite, ReceiveAssumption
        <5>2. c.bs \in 1..RBs /\ c.rem \in Nat \ {0}
          BY <3>1, <4>3, <4>6, AtLeastTwo DEF LinkInv, RecvInv
        <5> QED BY <1>2, <4>3, <4>6, <5>1, <5>2, CfFields
      <4>8. d.src = rctx[r].src /\ d.data = Append(rctx[r].data, <<w.f.msg, w.f.idx>>)
        BY <4>3, <4>5, <4>7 DEF Takes
      <4> QED BY <1>1, <1>2, <1>8, <3>1, <3>4, <4>5, <4>6, <4>8, NextTaken
    <3> QED BY <3>3, <3>4
  <2>3. ASSUME RFound(w.dst) = {}, RxNew(w.dst, w.f) PROVE OnBus(q)'
    <3>1. PICK r \in rslab : rctx' = [rctx EXCEPT ![r] = ProcessFfSf(NewRecvCtx(r, w.dst), w.f)] /\ rslab' = rslab \ {r}
      BY <2>3 DEF RxNew
    <3>2. PICK d : d = ProcessFfSf(NewRecvCtx(r, w.dst), w.f)
      OBVIOUS
    <3>3. r \in RecvBlock /\ rctx[r] \in RecvCtx
      BY <1>3, <3>1 DEF ContextsInv, Inv, Types
    <3>4. d.state \in {"PROCESS_SF", "PROCESS_FF"}
      BY <3>2, <3>3, FirstFields DEF Opens
    <3>5. rctx'[r] = d
      BY <1>3, <3>1, <3>2, <3>3
    <3>6. q # r
      BY <1>8, <3>4, <3>5
    <3> QED BY <1>3, <1>8, <2>1, <2>3, <3>1, <3>6
  <2>4. ASSUME RFound(w.dst) = {}, RxIgnored PROVE OnBus(q)'
    BY <1>8, <2>1, <2>4 DEF RxIgnored
  <2> QED BY <1>2, <2>2, <2>3, <2>4 DEF FrameArrives
<1>9. AllShown'
  BY <1>8 DEF AllShown
<1> QED BY <1>5, <1>6, <1>9 DEF NoneMissing

\* Flow control arrives: no frame moves.
LEMMA FcGives ==
  ASSUME Cooperative, LinkInv, LinkInv', NoneMissing, ReceiveFc
  PROVE  NoneMissing'
<1>1. PICK b \in SendBlock, d \in SendCtx :
        sctx' = [sctx EXCEPT ![b] = d] /\ Kept(d, sctx[b]) /\ UNCHANGED <<sslab, app, txq, aired>>
  BY FcFindsSender DEF Resumes
<1>2. UNCHANGED <<recvVars, wire, order>>
  BY DEF ReceiveFc
<1> QED BY <1>1, <1>2, KeptGoes

\* A timer of the sender expires.
LEMMA SendTimeoutGives ==
  ASSUME LinkInv, LinkInv', NoneMissing, NEW b \in SendBlock, SendTimeout(b), UNCHANGED <<recvVars, linkVars>>
  PROVE  NoneMissing'
<1>1. PICK c \in SendCtx : c = sctx[b]
  BY DEF LinkInv, Halves, SendTypeInv, SendTypeOK
<1>2. PICK d : d = [c EXCEPT !.timer = FALSE, !.state = IF @ # "SEND_CF" THEN "ERR" ELSE @]
  OBVIOUS
<1>3. Kept(d, c)
  BY <1>2, CtxFields DEF Kept
<1>4. sctx' = [sctx EXCEPT ![b] = d] /\ UNCHANGED <<sslab, app, txq, aired, recvVars, wire, order>>
  BY <1>1, <1>2 DEF SendTimeout, linkVars
<1> QED BY <1>1, <1>3, <1>4, KeptGoes

\* Every step that is not a fault keeps the frames together.
LEMMA NoneMissingStep ==
  ASSUME Cooperative, LinkInv, LinkInv', NoneMissing, [LinkNext]_allVars, \A k : ~Fault(k)
  PROVE  NoneMissing'
<1>1. CASE LinkAppThread
  BY <1>1, AppGives
<1>2. CASE LinkSendWork
  BY <1>2, WorkGives
<1>3. CASE Transmit
  <2>1. PICK f : f = Head(txq)
    OBVIOUS
  <2>2. FrameDone(TRUE) /\ wire' = Append(wire, OnWire(f)) /\ UNCHANGED <<recvVars, order>>
    BY <1>3, <2>1 DEF Transmit
  <2> QED BY <2>1, <2>2, TransmitGives
<1>4. CASE Receive
  BY <1>4, ReceiveGives
<1>5. CASE LinkRecvWork \/ TransmitFc
  BY <1>5, ReceiverGives
<1>6. CASE ReceiveFc
  BY <1>6, FcGives
<1>7. CASE LinkTimeout
  BY <1>7, SendTimeoutGives, ReceiverGives DEF LinkTimeout
<1>8. CASE UNCHANGED allVars
  <2>1. /\ \A m : Aired(m)' = Aired(m)
        /\ \A m, n : Later(m, n)' <=> Later(m, n)
        /\ \A b : (Using(b)' <=> Using(b)) /\ Ahead(b)' = Ahead(b) /\ sctx'[b] = sctx[b]
        /\ Driver' = Driver /\ Bus' = Bus /\ rctx' = rctx /\ rslab' = rslab
    BY <1>8, SameSender DEF Driver, Bus, allVars, sendVars, linkVars, recvVars
  <2>2. NoHoles'
    BY <2>1 DEF NoneMissing, NoHoles
  <2>3. AllGiven'
    <3>1. \A b, x : Given(b, x)' <=> Given(b, x)
      BY <2>1 DEF Given
    <3> QED BY <2>1, <3>1 DEF AllGiven, NoneMissing
  <2>4. AllShown'
    <3>1. \A r, n, y : (Unread(r, n, y)' <=> Unread(r, n, y)) /\ (Shown(n, y)' <=> Shown(n, y))
      BY <2>1 DEF Unread, Shown, MsgOf
    <3>2. \A r : OnBus(r)' <=> OnBus(r)
      BY <2>1, <3>1 DEF OnBus
    <3> QED BY <2>1, <3>2 DEF AllShown, NoneMissing
  <2> QED BY <2>2, <2>3, <2>4 DEF NoneMissing
<1> QED BY <1>1, <1>2, <1>3, <1>4, <1>5, <1>6, <1>7, <1>8 DEF LinkNext

\* At first there is neither a frame nor a context.
LEMMA NoneMissingInitially == LinkInit => NoneMissing
<1> SUFFICES ASSUME LinkInit PROVE NoneMissing
  OBVIOUS
<1>1. aired = [m \in Msg |-> <<>>] /\ sslab = SendBlock /\ rslab = RecvBlock
  BY DEF LinkInit, SendInit, RecvInit
<1>2. \A m \in Msg : Aired(m) = {}
  BY <1>1 DEF Aired
<1> QED BY <1>1, <1>2 DEF NoneMissing, NoHoles, AllGiven, AllShown, Using

\* With all its frames received, a context sends next what the reception waits for.
LEMMA SameFrame ==
  ASSUME LinkInv, NoneMissing, wire = <<>>, txq = <<>>,
         NEW b \in SendBlock, Using(b), sctx[b].state = "SEND_CF", srun.blk # b,
         NEW r \in RecvBlock \ rslab, rctx[r].state = "WAIT_CF", rctx[r].src = sctx[b].addr
  PROVE  sctx[b].sn = rctx[r].sn /\ sctx[b].rem = rctx[r].rem
<1>1. PICK n \in Msg : n = sctx[b].arg /\ Accepted(n) /\ reports[n] = <<>> /\ Dest[n] = rctx[r].src
  BY UsedFacts
<1>2. Bus = {} /\ Driver = {} /\ ~HasSf(b) /\ OrderInv /\ order \in Seq(Msg)
  BY DEF Bus, Driver, HasSf, LinkInv, LinkTypes
<1>3. /\ Sending(b) /\ SenderInv(b) /\ Cfs[n] \in Nat \ {0} /\ sctx[b].rem \in Nat
      /\ Ahead(b) = Cfs[n] + 1 - sctx[b].rem /\ Ahead(b) \in Nat
  BY <1>1, <1>2, LongFacts
<1>4. sctx[b].rem <= Cfs[n] /\ sctx[b].sn = Ahead(b) % SnMod
  BY <1>1, <1>3 DEF SenderInv, InSn, InCf
<1>5. PICK a \in Nat \ {0}, c \in Nat, s \in Nat :
        a = Ahead(b) /\ c = Cfs[n] /\ s = sctx[b].rem /\ a = c + 1 - s
  BY <1>3, <1>4
<1>6. \A x \in Nat : x < a => x \in Aired(n)
  BY <1>1, <1>2, <1>3, <1>5 DEF NoneMissing, AllGiven, Given
<1>7. \A p \in Msg : Dest[p] = rctx[r].src => \A y \in Aired(p) : ~Unread(r, p, y)
  BY <1>2 DEF NoneMissing, AllShown, OnBus, Shown
<1>8. PICK m \in Msg : /\ Holds(r, m) /\ Accepted(m) /\ LastOf(r) \in Aired(m) /\ LastOf(r) \in Nat
                       /\ Dest[m] = rctx[r].src /\ LastOf(r) >= Len(rctx[r].data) - 1
  BY LastAired
<1>9. m = n /\ MsgOf(r) = n
  <2>1. MsgOf(r) = m
    BY <1>8 DEF Holds
  <2>2. m = n \/ Later(m, n)
    BY <1>1, <1>2, <1>8, Latest
  <2>3. 0 \in Aired(n)
    BY <1>5, <1>6
  <2>4. ~Later(m, n)
    BY <1>1, <1>7, <2>1, <2>3 DEF Unread
  <2> QED BY <2>1, <2>2, <2>4
<1>10. PICK l \in Nat \ {0}, t \in Nat \ {0} :
         l = Len(rctx[r].data) /\ t = rctx[r].rem /\ t + l = c + 1 /\ rctx[r].sn = l % SnMod
  BY <1>5, <1>9, AtLeastTwo
<1>11. a <= l
  <2>1. l \notin Aired(n)
    BY <1>1, <1>7, <1>9, <1>10 DEF Unread
  <2> QED BY <1>5, <1>6, <1>10, <2>1
<1>12. l <= a
  <2>1. \A x \in Aired(n) : x < a
    BY <1>1, <1>3, <1>5 DEF Sending, Counts, Aired
  <2>2. PICK z \in Nat : z = LastOf(r) /\ z \in Aired(n) /\ z >= l - 1
    BY <1>8, <1>9, <1>10
  <2>3. a \in Nat /\ l \in Nat /\ z \in Nat /\ z < a
    BY <1>5, <1>10, <2>1, <2>2
  <2> QED BY ONLY <2>2, <2>3
<1>13. a = l /\ s = t
  <2>1. a \in Nat /\ c \in Nat /\ s \in Nat /\ l \in Nat /\ t \in Nat /\ a = c + 1 - s /\ t + l = c + 1
    BY <1>5, <1>10
  <2> QED BY ONLY <1>11, <1>12, <2>1
<1> QED BY <1>4, <1>5, <1>10, <1>13

\* Sender and receiver agree on the sequence number and on what is left (tx_sn and rx_sn,
\* prepare_cf_msg, process_cf), as long as nothing has been lost or refused.
THEOREM SequenceAgrees ==
  Cooperative => (LinkSpec /\ [](PromptReceiver \/ pool > 0) => []SequenceAgreement)
<1> SUFFICES ASSUME Cooperative PROVE LinkSpec /\ [](PromptReceiver \/ pool > 0) => []SequenceAgreement
  OBVIOUS
<1> DEFINE InStep == LinkInv /\ (faults = 0 => NoneMissing)
<1>1. LinkInit => InStep
  BY LinkInitially, NoneMissingInitially
<1>2. InStep /\ (PromptReceiver \/ pool > 0) /\ [LinkNext]_allVars => InStep'
  <2> SUFFICES ASSUME InStep, PromptReceiver \/ pool > 0, [LinkNext]_allVars PROVE InStep'
    OBVIOUS
  <2>1. LinkInv'
    BY LinkStep
  <2>2. ASSUME faults' = 0 PROVE NoneMissing'
    BY <2>1, <2>2, Faultless, NoneMissingStep
  <2> QED BY <2>1, <2>2
<1>3. InStep => SequenceAgreement
  <2> SUFFICES ASSUME InStep, NEW b \in SendBlock, NEW r \in RecvBlock,
                      sctx[b].list = "ctx", sctx[b].state = "SEND_CF", srun.blk # b,
                      rctx[r].list = "ctx", rctx[r].state = "WAIT_CF", rctx[r].src = sctx[b].addr,
                      wire = <<>>, txq = <<>>, faults = 0
               PROVE  sctx[b].sn = rctx[r].sn /\ sctx[b].rem = rctx[r].rem
    BY DEF SequenceAgreement
  <2>1. Using(b)
    <3>1. BlockInv(b)
      BY DEF LinkInv, Halves, SendInv
    <3> QED BY <3>1 DEF BlockInv, FreeBlock, UsedBlock, Fresh, Using
  <2>2. r \notin rslab
    BY DEF LinkInv, Halves, ContextsInv, ContextSound, Idle
  <2> QED BY <2>1, <2>2, SameFrame
<1>4. LinkSpec /\ [](PromptReceiver \/ pool > 0) => []InStep
  <2> HIDE DEF InStep
  <2> QED BY <1>1, <1>2, PTL DEF LinkSpec
<1> QED BY <1>3, <1>4, PTL
=============================================================================
