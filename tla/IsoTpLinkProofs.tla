--------------------------- MODULE IsoTpLinkProofs ---------------------------
(***************************************************************************)
(* Proofs about the link: two nodes that use the transport as it is meant  *)
(* to be used exchange whole messages in order, whatever the bus loses.    *)
(*                                                                         *)
(* What is known of each half alone (IsoTpSendProofs, IsoTpReceiveProofs)  *)
(* assumes a well-behaved peer.  Here each half is the peer of the other,  *)
(* and the invariant says where the two are: while the receiver asks for   *)
(* flow control, the sender waits for it and the bus is silent             *)
(* (SenderParked); once it has been answered, or the answer is lost, the   *)
(* sender transmits no frame beyond the block that the receiver will       *)
(* accept without asking again (Window).                                   *)
(***************************************************************************)
EXTENDS IsoTpLink, IsoTpSendProofs, IsoTpReceiveProofs

-----------------------------------------------------------------------------
(* The invariant.                                                          *)

\* Both nodes use the transport as it is meant to be used, with block-wise flow control.
Cooperative == Disciplined /\ Polite /\ ~RecvPreempted /\ Bs > 0

\* A context in use that isotp_fast_send is not filling any more.
Using(b) == b \notin sslab /\ app.blk # b

\* Messages in the order in which isotp_fast_send has accepted them.
Accepted(m) == \E i \in DOMAIN order : order[i] = m
Later(m, n) == \E i, j \in DOMAIN order : i < j /\ order[i] = m /\ order[j] = n

\* The frames of a message that have been transmitted, and the frames on the bus.
Aired(m) == {aired[m][j] : j \in DOMAIN aired[m]}
Bus == {wire[i] : i \in DOMAIN wire}
NoWire(a) == \A w \in Bus : w.dst # a

WireFrame == [dst : Addr, f : [kind : {"SF", "FF", "CF"}, msg : Msg \cup {NoMsg},
                               idx : Int, len : Nat, sn : 0..(SnMod - 1)]]
LinkTypes ==
  /\ wire \in Seq(WireFrame)
  /\ fcWire \in Seq([dst : Addr, fs : {"CTS", "WAIT", "OVFLW"}, bs : 0..255])
  /\ order \in Seq(Msg)

\* A message is accepted once; of the messages to one address all but the last are
\* reported; and a message that is not reported yet has a context.
OrderInv ==
  /\ \A i, j \in DOMAIN order : order[i] = order[j] => i = j
  /\ \A m \in Msg : Accepted(m) <=> call[m] = "accepted"
  /\ \A m, n \in Msg : Later(m, n) /\ Dest[m] = Dest[n] => reports[m] # <<>>
  /\ \A m \in Msg : Accepted(m) /\ reports[m] = <<>> =>
       \E b \in SendBlock : Using(b) /\ sctx[b].arg = m

\* A context that waits for flow control, its last frame gone.
Parked(b) == sctx[b].state = "WAIT_FC" /\ srun.blk # b /\ ~HasFrame(b)

\* The thread has queued a consecutive frame and not counted it yet.
InCf(b) == srun.blk = b /\ srun.pc \in {"cfSent", "cfLoaded"}

\* Without more flow control, the context sends no frame from this one on.
Reach(b) ==
  LET c == sctx[b] IN
  CASE c.state = "SEND_FF"                -> 1
    [] c.state \in {"SEND_CF", "WAIT_ST"} -> Ahead(b) + c.bs - (IF InCf(b) THEN 1 ELSE 0)
    [] OTHER                              -> Ahead(b)

\* The first frame is out, and sn is the sequence number of the frame that follows.
InSn(b) ==
  /\ sctx[b].rem <= Cfs[sctx[b].arg]
  /\ sctx[b].sn = (IF InCf(b) THEN Ahead(b) - 1 ELSE Ahead(b)) % SnMod

SenderInv(b) ==
  LET c == sctx[b] IN
  Using(b) =>
  /\ c.state \in {"WAIT_FC", "SEND_CF", "WAIT_ST"} \/ (srun.blk = b /\ srun.pc = "ffSent") => InSn(b)
  /\ srun.blk = b /\ srun.pc = "ffSent" => c.rem = Cfs[c.arg]
  /\ c.state \in {"SEND_CF", "WAIT_ST"} => c.bs >= 1
  /\ c.state = "ERR" => c.rem > 0 /\ \A w \in Bus : w.dst # c.addr
  /\ c.state = "WAIT_BACKLOG" => HasFrame(b)
  /\ c.state = "WAIT_FIN" => b \in swork

\* What a frame of a message is, and when one comes before another.
Shape(f) ==
  /\ f.msg \in Msg /\ f.idx \in Nat
  /\ \/ f.kind = "SF" /\ Cfs[f.msg] = 0 /\ f.idx = 0 /\ f.len = 1
     \/ f.kind = "FF" /\ Cfs[f.msg] > 0 /\ f.idx = 0 /\ f.len = Cfs[f.msg] + 1
     \/ f.kind = "CF" /\ f.idx \in 1..Cfs[f.msg] /\ f.sn = f.idx % SnMod
Before(f, g) == (f.msg = g.msg /\ f.idx < g.idx) \/ Later(f.msg, g.msg)

\* The frame in the driver is the last one the context has queued.
Queued(b, f) ==
  /\ Shape(f)
  /\ f.kind # "SF" => f.idx = Ahead(b) - 1
  /\ f.kind = "FF" => sctx[b].state = "WAIT_FC" \/ (srun.pc = "ffSent" /\ srun.blk = b)
DriverInv == \A f \in Driver : Queued(f.blk, f)

\* Frames arrive in the order of the messages and of their parts; behind a first frame
\* its context waits.
WireSorted ==
  \A i, j \in DOMAIN wire : i < j /\ wire[i].dst = wire[j].dst => Before(wire[i].f, wire[j].f)
WireInv ==
  /\ \A m \in Msg : Aired(m) \subseteq Nat
  /\ WireSorted
  /\ \A w \in Bus : Shape(w.f) /\ w.dst = Dest[w.f.msg] /\ w.f.idx \in Aired(w.f.msg)
  /\ \A w \in Bus : w.f.kind = "FF" =>
       \E b \in SendBlock : Using(b) /\ sctx[b].arg = w.f.msg /\ Parked(b) /\ Ahead(b) = 1

\* Flow control on the bus belongs to a reception that waits for the frames it asks for.
FcInv ==
  /\ \A i \in DOMAIN fcq : fcq[i].fs = "CTS" /\ fcq[i].dst = rctx[fcq[i].blk].src
  /\ \A i \in DOMAIN fcWire : fcWire[i].fs = "CTS" /\ fcWire[i].bs = RBs
  /\ \A i, j \in DOMAIN fcWire : fcWire[i].dst = fcWire[j].dst => i = j
  /\ \A i \in DOMAIN fcWire : \E r \in RecvBlock \ rslab :
        rctx[r].src = fcWire[i].dst /\ rctx[r].state = "WAIT_CF" /\ ~Asked(r) /\ rrun.blk # r
FcComes(r) == \E i \in DOMAIN fcWire : fcWire[i].dst = rctx[r].src

\* The receiver asks for flow control: it is about to, or it has and the flow control is
\* on its way.
Asking(r) ==
  \/ rctx[r].state \in {"PROCESS_FF", "TRY_ALLOC", "SEND_FC"}
  \/ rctx[r].state = "WAIT_CF" /\ (Asked(r) \/ FcComes(r))

\* The message a reception is about, and the frame it has received last.
MsgOf(r) == rctx[r].data[1][1]
LastOf(r) == rctx[r].data[Len(rctx[r].data)][2]

\* The buffers hold transmitted frames of one message to this node, in order; what is
\* on the bus comes after them, and what was delivered came before.
Arrived(m) == \E k \in DOMAIN delivered : delivered[k].data = Payload(m)
Fresher(m) == \A n \in Msg : Arrived(n) /\ Dest[n] = Dest[m] => Later(n, m)
Behind(r, m) ==
  \A w \in Bus : w.dst = Dest[m] => (w.f.msg = m /\ LastOf(r) < w.f.idx) \/ Later(m, w.f.msg)
Holds(r, m) ==
  LET c == rctx[r] IN
  /\ MsgOf(r) = m /\ Accepted(m) /\ Dest[m] = c.src /\ c.total = Cfs[m] + 1
  /\ \A j \in DOMAIN c.data : c.data[j][1] = m /\ c.data[j][2] \in Aired(m)
  /\ \A i, j \in DOMAIN c.data : i <= j => c.data[j][2] - c.data[i][2] >= j - i
  /\ Behind(r, m)
  /\ Fresher(m) \/ (rrun.blk = r /\ rrun.pc = "dispatch")

\* The sender of message m waits for flow control, the n frames received sent, and none of
\* its frames is on the bus.
SenderParked(r) ==
  \E m \in Msg :
    /\ MsgOf(r) = m /\ NoWire(Dest[m])
    /\ \E b \in SendBlock : Using(b) /\ sctx[b].arg = m /\ Parked(b) /\ Ahead(b) = Len(rctx[r].data)

\* The frames a sender may send before the receiver has asked again: of the message m that
\* is being received those below l, of later ones the first.
Within(m, l) ==
  /\ \A x \in Aired(m) : x < l
  /\ \A b \in SendBlock : Using(b) /\ sctx[b].addr = Dest[m]
                            => Reach(b) <= IF sctx[b].arg = m THEN l ELSE 1
  /\ reports[m] # <<>> => Cfs[m] + 1 <= l \/ \A w \in Bus : w.f.msg # m
  /\ \A n \in Msg : Later(m, n) /\ Dest[n] = Dest[m] => Aired(n) \subseteq {0}
Window(r) ==
  \E m \in Msg, l \in {Len(rctx[r].data) + rctx[r].bs} : MsgOf(r) = m /\ Within(m, l)

RecvInv(r) ==
  LET c == rctx[r] IN
  r \notin rslab =>
  /\ \A q \in RecvBlock \ rslab : rctx[q].src = c.src => q = r
  /\ c.state # "ERR" => \E m \in Msg : Holds(r, m)
  /\ c.state \in {"TRY_ALLOC", "SEND_FC"} => c.bs = RBs
  /\ c.state = "WAIT_CF" => c.bs \in 1..RBs /\ (Asking(r) => c.bs = RBs)
  /\ Asking(r) => SenderParked(r)
  /\ c.state = "WAIT_CF" /\ ~Asking(r) => Window(r)

\* What has been delivered was sent, whole, and nothing of it is still on the bus; what
\* goes to one address is delivered in the order of the calls.
DeliveredInv ==
  /\ \A k \in DOMAIN delivered : \E m \in Msg :
       delivered[k].data = Payload(m) /\ delivered[k].src = Dest[m]
  /\ \A m \in Msg : Arrived(m) =>
       Accepted(m) /\ Cfs[m] \in Aired(m) /\ \A w \in Bus : w.dst = Dest[m] => Later(m, w.f.msg)
  /\ \A k, l \in DOMAIN delivered : \A m, n \in Msg :
       k < l /\ delivered[k].data = Payload(m) /\ delivered[l].data = Payload(n) /\ Dest[m] = Dest[n]
         => Later(m, n)

\* A message that is reported in error has not been transmitted to its end.
TruthInv ==
  \A m \in Msg : (\E i \in DOMAIN reports[m] : reports[m][i] = "error") => Cfs[m] \notin Aired(m)

\* What is known of each half.
Halves == SendTypeInv /\ SendInv /\ AirInv /\ Inv /\ ContextsInv

LinkInv ==
  /\ Halves /\ LinkTypes /\ OrderInv /\ DriverInv /\ WireInv /\ FcInv /\ DeliveredInv /\ TruthInv
  /\ \A b \in SendBlock : SenderInv(b)
  /\ \A r \in RecvBlock : RecvInv(r)

-----------------------------------------------------------------------------
(* Messages in order, frames on the bus.                                   *)

\* A message is accepted: it comes after all that were accepted before.
LEMMA OrderGrows ==
  ASSUME order \in Seq(Msg), NEW m \in Msg, order' = Append(order, m)
  PROVE  /\ order' \in Seq(Msg)
         /\ \A x : Accepted(x)' <=> (Accepted(x) \/ x = m)
         /\ \A x, y : Later(x, y) => Later(x, y)'
         /\ \A x, y : Later(x, y)' => Later(x, y) \/ (Accepted(x) /\ y = m)
         /\ \A x : Accepted(x) => Later(x, m)'
<1>1. /\ DOMAIN order = 1..Len(order) /\ Len(order) \in Nat
      /\ order' \in Seq(Msg) /\ DOMAIN order' = 1..(Len(order) + 1)
      /\ \A i \in 1..Len(order) : order'[i] = order[i]
      /\ order'[Len(order) + 1] = m
  OBVIOUS
<1>2. \A x : Accepted(x)' <=> (Accepted(x) \/ x = m)
  BY <1>1 DEF Accepted
<1>3. \A x, y : Later(x, y) => Later(x, y)'
  BY <1>1 DEF Later
<1>4. \A x, y : Later(x, y)' => Later(x, y) \/ (Accepted(x) /\ y = m)
  <2>1. SUFFICES ASSUME NEW x, NEW y, NEW i \in DOMAIN order', NEW j \in DOMAIN order', i < j,
                        order'[i] = x, order'[j] = y
                 PROVE  Later(x, y) \/ (Accepted(x) /\ y = m)
    BY DEF Later
  <2>2. i \in 1..Len(order)
    BY <1>1, <2>1
  <2>3. CASE j \in 1..Len(order)
    BY <1>1, <2>1, <2>2, <2>3 DEF Later
  <2>4. CASE j = Len(order) + 1
    BY <1>1, <2>1, <2>2, <2>4 DEF Accepted
  <2> QED BY <1>1, <2>1, <2>3, <2>4
<1>5. \A x : Accepted(x) => Later(x, m)'
  BY <1>1 DEF Accepted, Later
<1> QED BY <1>1, <1>2, <1>3, <1>4, <1>5

\* The order does not change otherwise.
LEMMA SameOrder ==
  ASSUME order' = order
  PROVE  (\A x : Accepted(x)' <=> Accepted(x)) /\ (\A x, y : Later(x, y)' <=> Later(x, y))
BY DEF Accepted, Later

\* Two messages were accepted one after the other.
LEMMA OneAfterAnother ==
  ASSUME order \in Seq(Msg), NEW x, NEW y, Accepted(x), Accepted(y), x # y
  PROVE  Later(x, y) \/ Later(y, x)
<1>1. PICK i \in DOMAIN order, j \in DOMAIN order : order[i] = x /\ order[j] = y
  BY DEF Accepted
<1>2. i \in Nat /\ j \in Nat /\ i # j
  BY <1>1
<1> QED BY <1>1, <1>2 DEF Later

\* No message comes after itself, and what has a place has been accepted.
LEMMA LaterAccepted ==
  ASSUME OrderInv, order \in Seq(Msg), NEW x, NEW y, Later(x, y)
  PROVE  Accepted(x) /\ Accepted(y) /\ x # y /\ x \in Msg /\ y \in Msg /\ ~Later(y, x)
<1>1. PICK i \in DOMAIN order, j \in DOMAIN order : i < j /\ order[i] = x /\ order[j] = y
  BY DEF Later
<1>2. i \in Nat /\ j \in Nat /\ x \in Msg /\ y \in Msg
  BY <1>1
<1>3. x # y
  BY <1>1, <1>2 DEF OrderInv
<1>4. ASSUME Later(y, x) PROVE FALSE
  <2>1. PICK k \in DOMAIN order, l \in DOMAIN order : k < l /\ order[k] = y /\ order[l] = x
    BY <1>4 DEF Later
  <2>2. k = j /\ l = i
    BY <1>1, <2>1 DEF OrderInv
  <2> QED BY <1>1, <1>2, <2>1, <2>2
<1> QED BY <1>1, <1>2, <1>3, <1>4 DEF Accepted

\* A message that is not reported yet is the last one to its address.
LEMMA Latest ==
  ASSUME OrderInv, order \in Seq(Msg), NEW m \in Msg, reports[m] = <<>>, NEW n \in Msg, Dest[n] = Dest[m]
  PROVE  /\ ~Later(m, n)
         /\ Accepted(m) /\ Accepted(n) => n = m \/ Later(n, m)
BY OneAfterAnother DEF OrderInv

\* A frame is put on the bus behind all others.
LEMMA BusAppend ==
  ASSUME wire \in Seq(WireFrame), NEW w \in WireFrame, wire' = Append(wire, w), order' = order,
         WireSorted, \A x \in Bus : x.dst = w.dst => Before(x.f, w.f)
  PROVE  wire' \in Seq(WireFrame) /\ Bus' = Bus \cup {w} /\ WireSorted'
<1>1. /\ DOMAIN wire = 1..Len(wire) /\ Len(wire) \in Nat
      /\ wire' \in Seq(WireFrame) /\ DOMAIN wire' = 1..(Len(wire) + 1)
      /\ \A i \in 1..Len(wire) : wire'[i] = wire[i]
      /\ wire'[Len(wire) + 1] = w
  OBVIOUS
<1>2. Bus' = Bus \cup {w}
  BY <1>1 DEF Bus
<1>3. \A f, g : Before(f, g)' <=> Before(f, g)
  BY SameOrder DEF Before
<1>4. WireSorted'
  <2>1. SUFFICES ASSUME NEW i \in DOMAIN wire', NEW j \in DOMAIN wire', i < j, wire'[i].dst = wire'[j].dst
                 PROVE  Before(wire'[i].f, wire'[j].f)
    BY <1>3 DEF WireSorted
  <2>2. i \in 1..Len(wire)
    BY <1>1, <2>1
  <2>3. CASE j \in 1..Len(wire)
    BY <1>1, <2>1, <2>2, <2>3 DEF WireSorted
  <2>4. CASE j = Len(wire) + 1
    <3>1. wire'[i] \in Bus
      BY <1>1, <2>2 DEF Bus
    <3> QED BY <1>1, <2>1, <2>4, <3>1
  <2> QED BY <1>1, <2>3, <2>4
<1> QED BY <1>1, <1>2, <1>4

\* The first frame is taken off the bus: those that stay come after it.
LEMMA BusTail ==
  ASSUME wire \in Seq(WireFrame), wire # <<>>, wire' = Tail(wire), order' = order, WireSorted
  PROVE  /\ wire' \in Seq(WireFrame) /\ WireSorted' /\ Head(wire) \in Bus /\ Head(wire) \in WireFrame
         /\ Bus' \subseteq Bus /\ \A x \in Bus : x = Head(wire) \/ x \in Bus'
         /\ \A x \in Bus' : x.dst = Head(wire).dst => Before(Head(wire).f, x.f)
<1>1. /\ DOMAIN wire = 1..Len(wire) /\ Len(wire) \in Nat \ {0} /\ Head(wire) = wire[1]
      /\ wire' \in Seq(WireFrame) /\ DOMAIN wire' = 1..(Len(wire) - 1)
      /\ \A i \in 1..(Len(wire) - 1) : wire'[i] = wire[i + 1]
      /\ Head(wire) \in WireFrame
  OBVIOUS
<1>2. Head(wire) \in Bus
  BY <1>1 DEF Bus
<1>3. Bus' \subseteq Bus
  BY <1>1 DEF Bus
<1>4. \A x \in Bus : x = Head(wire) \/ x \in Bus'
  <2> TAKE x \in Bus
  <2>1. PICK i \in 1..Len(wire) : x = wire[i]
    BY <1>1 DEF Bus
  <2>2. CASE i = 1
    BY <1>1, <2>1, <2>2
  <2>3. CASE i # 1
    <3>1. i - 1 \in 1..(Len(wire) - 1) /\ wire'[i - 1] = x
      BY <1>1, <2>1, <2>3
    <3> QED BY <1>1, <3>1 DEF Bus
  <2> QED BY <2>2, <2>3
<1>5. \A f, g : Before(f, g)' <=> Before(f, g)
  BY SameOrder DEF Before
<1>6. WireSorted'
  BY <1>1, <1>5 DEF WireSorted
<1>7. \A x \in Bus' : x.dst = Head(wire).dst => Before(Head(wire).f, x.f)
  <2> TAKE x \in Bus'
  <2>1. PICK i \in 1..(Len(wire) - 1) : x = wire'[i]
    BY <1>1 DEF Bus
  <2>2. i + 1 \in DOMAIN wire /\ 1 \in DOMAIN wire /\ 1 < i + 1 /\ x = wire[i + 1]
    BY <1>1, <2>1
  <2> QED BY <1>1, <2>2 DEF WireSorted
<1> QED BY <1>1, <1>2, <1>3, <1>4, <1>6, <1>7

\* A wire that does not change keeps its order when messages are accepted.
LEMMA BusStays ==
  ASSUME wire' = wire, WireSorted, \A x, y : Later(x, y) => Later(x, y)'
  PROVE  Bus' = Bus /\ WireSorted'
BY DEF Bus, WireSorted, Before

-----------------------------------------------------------------------------
(* What the invariant says of one context.                                 *)

\* A context that isotp_fast_send has filled carries an accepted message that is not
\* reported yet.
LEMMA UsedFacts ==
  ASSUME LinkInv, NEW b \in SendBlock, Using(b)
  PROVE  /\ sctx[b].arg \in Msg /\ Accepted(sctx[b].arg) /\ reports[sctx[b].arg] = <<>>
         /\ Dest[sctx[b].arg] = sctx[b].addr /\ sctx[b] \in SendCtx
<1>1. /\ sctx[b].arg \in Msg /\ call[sctx[b].arg] = "accepted" /\ reports[sctx[b].arg] = <<>>
      /\ Dest[sctx[b].arg] = sctx[b].addr
  BY CarriesOne DEF LinkInv, Halves, Using
<1>2. Accepted(sctx[b].arg)
  BY <1>1 DEF LinkInv, OrderInv
<1>3. sctx[b] \in SendCtx
  BY DEF LinkInv, Halves, SendTypeInv, SendTypeOK
<1> QED BY <1>1, <1>2, <1>3

\* No two of them are for the same address.
LEMMA SoleUser ==
  ASSUME LinkInv, NEW b \in SendBlock, NEW c \in SendBlock, Using(b), Using(c),
         sctx[b].addr = sctx[c].addr
  PROVE  b = c
BY OtherAddr DEF LinkInv, Halves, Using

\* A message of which something has been transmitted has been accepted.
LEMMA AiredAccepted ==
  ASSUME LinkInv, NEW m \in Msg, NEW x \in Aired(m)
  PROVE  Accepted(m) /\ x \in Nat
<1>1. aired[m] # <<>> /\ x \in Nat
  BY DEF Aired, LinkInv, WireInv
<1> QED BY <1>1 DEF LinkInv, Halves, AirInv, Unsent, OrderInv

\* A reception that has not failed holds at least the first frame.
LEMMA RecvData ==
  ASSUME LinkInv, NEW r \in RecvBlock \ rslab, rctx[r].state # "ERR"
  PROVE  /\ rctx[r] \in RecvCtx /\ InSequence(rctx[r].data) /\ rctx[r].data \in Seq(Chunk)
         /\ Len(rctx[r].data) \in Nat \ {0} /\ DOMAIN rctx[r].data = 1..Len(rctx[r].data)
         /\ rctx[r].state \in Receiving => Underway(rctx[r])
         /\ rctx[r].state \in Received => Whole(rctx[r])
         /\ rctx[r].state \in {"PROCESS_SF", "PROCESS_FF", "TRY_ALLOC", "RECYCLE", "WAIT_CF", "SEND_FC"}
<1>1. rctx[r] \in RecvCtx /\ StateSound(rctx[r])
  BY DEF LinkInv, Halves, Inv, Types, BlockSound
<1>2. Lives(r)
  BY DEF LinkInv, Halves, ContextsInv, ContextSound, InUse
<1>3. rctx[r].state \in {"PROCESS_SF", "PROCESS_FF", "TRY_ALLOC", "RECYCLE", "WAIT_CF", "SEND_FC"}
  BY <1>2 DEF Lives
<1>4. /\ rctx[r].state \in Receiving => Underway(rctx[r])
      /\ rctx[r].state \in Received => Whole(rctx[r])
  BY <1>1 DEF StateSound
<1>5. InSequence(rctx[r].data)
  BY <1>3, <1>4 DEF Receiving, Received, Underway, Whole
<1>6. rctx[r].data \in Seq(Chunk)
  BY <1>1 DEF RecvCtx
<1>7. Len(rctx[r].data) \in Nat \ {0} /\ DOMAIN rctx[r].data = 1..Len(rctx[r].data)
  BY <1>5, <1>6 DEF InSequence
<1> QED BY <1>1, <1>3, <1>4, <1>5, <1>6, <1>7

\* A message in consecutive frames has at least two frames.
LEMMA AtLeastTwo ==
  ASSUME LinkInv, NEW r \in RecvBlock \ rslab, rctx[r].state = "WAIT_CF"
  PROVE  /\ rctx[r].rem \in Nat \ {0} /\ rctx[r].rem + Len(rctx[r].data) = Cfs[MsgOf(r)] + 1
         /\ Cfs[MsgOf(r)] \in Nat \ {0} /\ MsgOf(r) \in Msg /\ rctx[r].sn = Len(rctx[r].data) % SnMod
         /\ Len(rctx[r].data) \in Nat \ {0}
<1>1. Underway(rctx[r]) /\ rctx[r] \in RecvCtx /\ Len(rctx[r].data) \in Nat \ {0}
  BY RecvData DEF Receiving
<1>2. MsgOf(r) \in Msg /\ rctx[r].total = Cfs[MsgOf(r)] + 1
  <2>1. PICK m \in Msg : Holds(r, m)
    BY DEF LinkInv, RecvInv
  <2> QED BY <2>1 DEF Holds
<1>3. Cfs[MsgOf(r)] \in Nat
  BY <1>2, CommonAssumption DEF CommonAssumption
<1>4. rctx[r].rem \in Nat /\ rctx[r].rem >= 1 /\ rctx[r].rem + Len(rctx[r].data) = rctx[r].total
      /\ rctx[r].sn = Len(rctx[r].data) % SnMod
  BY <1>1 DEF Underway, RecvCtx
<1> QED BY <1>1, <1>2, <1>3, <1>4

\* The frame received last has been transmitted.
LEMMA LastAired ==
  ASSUME LinkInv, NEW r \in RecvBlock \ rslab, rctx[r].state # "ERR"
  PROVE  \E m \in Msg : /\ Holds(r, m) /\ Accepted(m) /\ LastOf(r) \in Aired(m) /\ LastOf(r) \in Nat
                         /\ Dest[m] = rctx[r].src /\ LastOf(r) >= Len(rctx[r].data) - 1
<1>1. /\ Len(rctx[r].data) \in Nat \ {0} /\ DOMAIN rctx[r].data = 1..Len(rctx[r].data)
      /\ rctx[r].data[1][2] = 0
  BY RecvData DEF InSequence
<1>2. PICK m \in Msg : Holds(r, m)
  BY DEF LinkInv, RecvInv
<1>3. LastOf(r) \in Aired(m) /\ Accepted(m) /\ Dest[m] = rctx[r].src
  BY <1>1, <1>2 DEF Holds, LastOf
<1>4. LastOf(r) \in Nat
  BY <1>3, AiredAccepted
<1>5. LastOf(r) >= Len(rctx[r].data) - 1
  <2>1. PICK n : n = Len(rctx[r].data)
    OBVIOUS
  <2>2. 1 \in DOMAIN rctx[r].data /\ n \in DOMAIN rctx[r].data /\ 1 <= n /\ n \in Nat
    BY <1>1, <2>1
  <2>3. rctx[r].data[n][2] - rctx[r].data[1][2] >= n - 1
    BY <1>2, <2>2 DEF Holds
  <2> QED BY <1>1, <1>4, <2>1, <2>2, <2>3 DEF LastOf
<1> QED BY <1>2, <1>3, <1>4, <1>5

-----------------------------------------------------------------------------
(* The receiver's view of a step of the sender.                            *)

\* A waiting context goes on waiting.
StillParked(b) ==
  /\ Using(b)' /\ Parked(b)' /\ sctx'[b].arg = sctx[b].arg /\ Ahead(b)' = Ahead(b)

\* Frame w of context b is put on the bus.
Sends(b, w) ==
  /\ wire' = Append(wire, w) /\ order' = order
  /\ Using(b) /\ ~Parked(b) /\ sctx[b].arg = w.f.msg /\ w.dst = sctx[b].addr /\ Shape(w.f)
  /\ \A x \in Aired(w.f.msg) : x < w.f.idx
  /\ w.f.idx \in Aired(w.f.msg)'
  /\ Cfs[w.f.msg] > 0 => reports' = reports
  /\ w.f.kind = "FF" => Using(b)' /\ Parked(b)' /\ sctx'[b].arg = w.f.msg /\ Ahead(b)' = 1

\* What a step of the sender may do: accept a message; report one whose frames are all out,
\* or that has none on the bus; transmit a frame within the reach of its context.  A context
\* that waits goes on waiting, unless nobody will answer it.
NobodyAsks == Bus = {} /\ \A r \in RecvBlock \ rslab : ~Asking(r)
Waits == NobodyAsks \/ \A b \in SendBlock : Using(b) /\ Parked(b) => StillParked(b)
ReachOf(b) ==
  Using(b)' =>
    \/ /\ Using(b) /\ sctx'[b].arg = sctx[b].arg /\ sctx'[b].addr = sctx[b].addr
       /\ Reach(b)' \in Int /\ Reach(b)' <= Reach(b)
    \/ ~Accepted(sctx'[b].arg) /\ Reach(b)' <= 1
Reaches == \A b \in SendBlock : ReachOf(b)
Answered ==
  \A m \in Msg :
    /\ reports[m] # <<>> => reports'[m] # <<>>
    /\ reports[m] = <<>> /\ reports'[m] # <<>> =>
         \/ Cfs[m] = 0 \/ NoWire(Dest[m])
         \/ \E b \in SendBlock : Using(b) /\ sctx[b].arg = m /\ Reach(b) = Cfs[m] + 1
Airs ==
  \A m \in Msg :
    /\ Aired(m) \subseteq Aired(m)'
    /\ \A x \in Aired(m)' \ Aired(m) :
         x \in Nat /\ \E b \in SendBlock : Using(b) /\ sctx[b].arg = m /\ x < Reach(b)
SenderStep ==
  /\ UNCHANGED <<recvVars, fcWire>>
  /\ order' = order \/ \E m \in Msg : order' = Append(order, m) /\ ~Accepted(m)
  /\ wire' = wire \/ \E b \in SendBlock, w \in WireFrame : Sends(b, w)
  /\ Waits /\ Reaches /\ Answered /\ Airs

\* The order of the messages grows.
LEMMA OrderFollows ==
  ASSUME LinkInv, SenderStep
  PROVE  /\ order' \in Seq(Msg)
         /\ \A x : Accepted(x) => Accepted(x)'
         /\ \A x, y : Later(x, y) => Later(x, y)'
         /\ \A x, y : Later(x, y)' => Later(x, y) \/ (y \in Msg /\ ~Accepted(y))
<1>1. CASE order' = order
  BY <1>1, SameOrder DEF LinkInv, LinkTypes
<1>2. CASE \E m \in Msg : order' = Append(order, m) /\ ~Accepted(m)
  BY <1>2, OrderGrows DEF LinkInv, LinkTypes
<1> QED BY <1>1, <1>2 DEF SenderStep

\* A frame that is sent comes after those on the bus.
LEMMA SentBehind ==
  ASSUME LinkInv, NEW b \in SendBlock, NEW w \in WireFrame, Sends(b, w)
  PROVE  /\ w.f.msg \in Msg /\ w.dst = Dest[w.f.msg] /\ reports[w.f.msg] = <<>> /\ Accepted(w.f.msg)
         /\ \A n \in Msg : Accepted(n) /\ Dest[n] = w.dst => n = w.f.msg \/ Later(n, w.f.msg)
         /\ \A x \in Bus : x.dst = w.dst => Before(x.f, w.f)
         /\ Bus' = Bus \cup {w} /\ wire' \in Seq(WireFrame) /\ WireSorted'
<1>1. w.f.msg \in Msg /\ w.dst = Dest[w.f.msg] /\ reports[w.f.msg] = <<>> /\ Accepted(w.f.msg)
  BY UsedFacts DEF Sends
<1>2. \A n \in Msg : Accepted(n) /\ Dest[n] = w.dst => n = w.f.msg \/ Later(n, w.f.msg)
  BY <1>1, Latest DEF LinkInv, LinkTypes
<1>3. ASSUME NEW x \in Bus, x.dst = w.dst PROVE Before(x.f, w.f)
  <2>1. x.f.msg \in Msg /\ x.dst = Dest[x.f.msg] /\ x.f.idx \in Aired(x.f.msg)
    BY DEF LinkInv, WireInv, Shape
  <2>2. Accepted(x.f.msg)
    BY <2>1, AiredAccepted
  <2>3. x.f.msg = w.f.msg \/ Later(x.f.msg, w.f.msg)
    BY <1>2, <1>3, <2>1, <2>2
  <2>4. x.f.msg = w.f.msg => x.f.idx < w.f.idx
    BY <2>1 DEF Sends
  <2> QED BY <2>3, <2>4 DEF Before
<1>4. Bus' = Bus \cup {w} /\ wire' \in Seq(WireFrame) /\ WireSorted'
  BY <1>3, BusAppend DEF LinkInv, LinkTypes, WireInv, Sends
<1> QED BY <1>1, <1>2, <1>3, <1>4

\* The frames on the bus stay in order.
LEMMA WireFollows ==
  ASSUME LinkInv, SenderStep
  PROVE  WireInv' /\ wire' \in Seq(WireFrame)
<1>1. \A m \in Msg : Aired(m) \subseteq Aired(m)' /\ Aired(m)' \subseteq Nat
  BY DEF SenderStep, Airs, LinkInv, WireInv
<1>2. ASSUME NEW w \in Bus, w.f.kind = "FF"
      PROVE  \E b \in SendBlock : Using(b)' /\ sctx'[b].arg = w.f.msg /\ Parked(b)' /\ Ahead(b)' = 1
  <2>1. PICK b \in SendBlock : Using(b) /\ sctx[b].arg = w.f.msg /\ Parked(b) /\ Ahead(b) = 1
    BY <1>2 DEF LinkInv, WireInv
  <2>2. StillParked(b)
    BY <2>1 DEF SenderStep, Waits, NobodyAsks
  <2> QED BY <2>1, <2>2 DEF StillParked
<1>3. \A w \in Bus : Shape(w.f) /\ w.dst = Dest[w.f.msg] /\ w.f.idx \in Aired(w.f.msg)'
  BY <1>1 DEF LinkInv, WireInv, Shape
<1>4. CASE wire' = wire
  <2>1. Bus' = Bus /\ WireSorted'
    BY <1>4, OrderFollows, BusStays DEF LinkInv, WireInv
  <2> QED BY <1>1, <1>2, <1>3, <1>4, <2>1 DEF WireInv, LinkInv, LinkTypes, Shape
<1>5. ASSUME NEW b \in SendBlock, NEW w \in WireFrame, Sends(b, w) PROVE WireInv' /\ wire' \in Seq(WireFrame)
  <2>1. Bus' = Bus \cup {w} /\ wire' \in Seq(WireFrame) /\ WireSorted' /\ w.dst = Dest[w.f.msg]
    BY <1>5, SentBehind
  <2>2. Shape(w.f) /\ w.f.idx \in Aired(w.f.msg)'
    BY <1>5 DEF Sends
  <2>3. w.f.kind = "FF" =>
          \E x \in SendBlock : Using(x)' /\ sctx'[x].arg = w.f.msg /\ Parked(x)' /\ Ahead(x)' = 1
    BY <1>5 DEF Sends
  <2>4. \A x \in Bus' : Shape(x.f) /\ x.dst = Dest[x.f.msg] /\ x.f.idx \in Aired(x.f.msg)'
    BY <1>3, <2>1, <2>2
  <2>5. \A x \in Bus' : x.f.kind = "FF" =>
          \E y \in SendBlock : Using(y)' /\ sctx'[y].arg = x.f.msg /\ Parked(y)' /\ Ahead(y)' = 1
    BY <1>2, <2>1, <2>3
  <2> QED BY <1>1, <2>1, <2>4, <2>5 DEF WireInv, Shape
<1> QED BY <1>4, <1>5 DEF SenderStep

\* What was delivered stays in order, and before what is sent.
LEMMA DeliveredFollows ==
  ASSUME LinkInv, SenderStep
  PROVE  DeliveredInv'
<1>1. delivered' = delivered
  BY DEF SenderStep, recvVars
<1>2. \A m : Arrived(m)' <=> Arrived(m)
  BY <1>1 DEF Arrived
<1>3. ASSUME NEW m \in Msg, Arrived(m)
      PROVE  /\ Accepted(m)' /\ Cfs[m] \in Aired(m)'
             /\ \A w \in Bus' : w.dst = Dest[m] => Later(m, w.f.msg)'
  <2>1. /\ Accepted(m) /\ Cfs[m] \in Aired(m)
        /\ \A w \in Bus : w.dst = Dest[m] => Later(m, w.f.msg)
    BY <1>3 DEF LinkInv, DeliveredInv
  <2>2. Accepted(m)' /\ Cfs[m] \in Aired(m)' /\ \A w \in Bus : w.dst = Dest[m] => Later(m, w.f.msg)'
    BY <2>1, OrderFollows DEF SenderStep, Airs
  <2>3. CASE wire' = wire
    BY <2>2, <2>3 DEF Bus
  <2>4. ASSUME NEW b \in SendBlock, NEW w \in WireFrame, Sends(b, w), w.dst = Dest[m] PROVE Later(m, w.f.msg)'
    <3>1. m = w.f.msg \/ Later(m, w.f.msg)
      BY <2>1, <2>4, SentBehind
    <3>2. m # w.f.msg
      BY <2>1, <2>4, CommonAssumption DEF Sends, Shape, CommonAssumption
    <3> QED BY <3>1, <3>2, OrderFollows
  <2>5. ASSUME NEW b \in SendBlock, NEW w \in WireFrame, Sends(b, w) PROVE Bus' = Bus \cup {w}
    BY <2>5, SentBehind
  <2> QED BY <2>2, <2>3, <2>4, <2>5 DEF SenderStep
<1>4. \A k, l \in DOMAIN delivered : \A m, n \in Msg :
       k < l /\ delivered[k].data = Payload(m) /\ delivered[l].data = Payload(n) /\ Dest[m] = Dest[n]
         => Later(m, n)'
  BY OrderFollows DEF LinkInv, DeliveredInv
<1>5. \A k \in DOMAIN delivered : \E m \in Msg :
       delivered[k].data = Payload(m) /\ delivered[k].src = Dest[m]
  BY DEF LinkInv, DeliveredInv
<1> QED BY <1>1, <1>2, <1>3, <1>4, <1>5 DEF DeliveredInv

\* What a reception has received stays ahead of what is on the bus.
LEMMA HoldsFollows ==
  ASSUME LinkInv, SenderStep, NEW r \in RecvBlock \ rslab, rctx[r].state # "ERR", NEW m \in Msg, Holds(r, m)
  PROVE  Holds(r, m)'
<1>1. UNCHANGED <<rctx, rrun, delivered>>
  BY DEF SenderStep, recvVars
<1>2. Accepted(m)' /\ Aired(m) \subseteq Aired(m)'
  BY OrderFollows DEF SenderStep, Airs, Holds
<1>3. Fresher(m)' \/ (rrun.blk = r /\ rrun.pc = "dispatch")
  <2>1. \A n : Arrived(n)' <=> Arrived(n)
    BY <1>1 DEF Arrived
  <2> QED BY <2>1, OrderFollows DEF Fresher, Holds
<1>4. \A w \in Bus : w.dst = Dest[m] => (w.f.msg = m /\ LastOf(r) < w.f.idx) \/ Later(m, w.f.msg)'
  BY OrderFollows DEF Holds, Behind
<1>5. LastOf(r) \in Aired(m) /\ Accepted(m)
  <2>1. PICK n \in Msg : Holds(r, n) /\ LastOf(r) \in Aired(n)
    BY LastAired
  <2> QED BY <2>1 DEF Holds
<1>6. ASSUME NEW b \in SendBlock, NEW w \in WireFrame, Sends(b, w), w.dst = Dest[m]
      PROVE  (w.f.msg = m /\ LastOf(r) < w.f.idx) \/ Later(m, w.f.msg)'
  <2>1. m = w.f.msg \/ Later(m, w.f.msg)
    BY <1>5, <1>6, SentBehind
  <2>2. m = w.f.msg => LastOf(r) < w.f.idx
    BY <1>5, <1>6 DEF Sends
  <2> QED BY <2>1, <2>2, OrderFollows
<1>7. LastOf(r)' = LastOf(r)
  BY <1>1 DEF LastOf
<1>8. Behind(r, m)'
  <2>1. CASE wire' = wire
    BY <1>4, <1>7, <2>1 DEF Behind, Bus
  <2>2. ASSUME NEW b \in SendBlock, NEW w \in WireFrame, Sends(b, w) PROVE Behind(r, m)'
    <3>1. Bus' = Bus \cup {w}
      BY <2>2, SentBehind
    <3> QED BY <1>4, <1>6, <1>7, <2>2, <3>1 DEF Behind
  <2> QED BY <2>1, <2>2 DEF SenderStep
<1> QED BY <1>1, <1>2, <1>3, <1>8 DEF Holds, MsgOf

\* A sender that is asked goes on waiting.
LEMMA ParkedFollows ==
  ASSUME LinkInv, SenderStep, NEW r \in RecvBlock \ rslab, Asking(r)
  PROVE  SenderParked(r)'
<1>1. PICK m \in Msg, b \in SendBlock :
        /\ MsgOf(r) = m /\ NoWire(Dest[m])
        /\ Using(b) /\ sctx[b].arg = m /\ Parked(b) /\ Ahead(b) = Len(rctx[r].data)
  BY DEF LinkInv, RecvInv, SenderParked
<1>2. StillParked(b)
  BY <1>1 DEF SenderStep, Waits, NobodyAsks
<1>3. NoWire(Dest[m])'
  <2>1. CASE wire' = wire
    BY <1>1, <2>1 DEF NoWire, Bus
  <2>2. ASSUME NEW c \in SendBlock, NEW w \in WireFrame, Sends(c, w) PROVE NoWire(Dest[m])'
    <3>1. Bus' = Bus \cup {w}
      BY <2>2, SentBehind
    <3>2. w.dst # Dest[m]
      <4>1. SUFFICES ASSUME w.dst = Dest[m] PROVE FALSE
        OBVIOUS
      <4>2. sctx[c].addr = sctx[b].addr
        BY <1>1, <2>2, <4>1, UsedFacts DEF Sends
      <4>3. b = c
        BY <1>1, <2>2, <4>2, SoleUser DEF Sends
      <4> QED BY <1>1, <2>2, <4>3 DEF Sends
    <3> QED BY <1>1, <3>1, <3>2 DEF NoWire
  <2> QED BY <2>1, <2>2 DEF SenderStep
<1>4. rctx' = rctx
  BY DEF SenderStep, recvVars
<1> QED BY <1>1, <1>2, <1>3, <1>4 DEF SenderParked, StillParked, MsgOf

\* A sender that is not asked stays within the block it was granted.
LEMMA WindowFollows ==
  ASSUME LinkInv, SenderStep, NEW r \in RecvBlock \ rslab, rctx[r].state = "WAIT_CF",
         NEW m \in Msg, MsgOf(r) = m, NEW l \in Nat, Within(m, l)
  PROVE  Within(m, l)'
<1>1. Accepted(m) /\ Cfs[m] \in Nat \ {0}
  <2>1. PICK n \in Msg : Holds(r, n) /\ Accepted(n)
    BY LastAired
  <2> QED BY <2>1, AtLeastTwo DEF Holds
<1>2. ASSUME NEW x \in Aired(m)' PROVE x < l
  <2>1. CASE x \in Aired(m)
    BY <2>1 DEF Within
  <2>2. CASE x \notin Aired(m)
    <3>1. PICK b \in SendBlock : x \in Nat /\ Using(b) /\ sctx[b].arg = m /\ x < Reach(b)
      BY <2>2 DEF SenderStep, Airs
    <3>2. Reach(b) <= l
      BY <3>1, UsedFacts DEF Within
    <3>3. Reach(b) \in Int
      <4>1. sctx[b] \in SendCtx /\ Cfs[sctx[b].arg] \in Nat
        BY <3>1, UsedFacts, CommonAssumption DEF CommonAssumption
      <4> QED BY <4>1 DEF Reach, Ahead, SendCtx
    <3> QED BY <3>1, <3>2, <3>3
  <2> QED BY <2>1, <2>2
<1>3. ASSUME NEW b \in SendBlock, Using(b)', sctx'[b].addr = Dest[m]
      PROVE  Reach(b)' <= IF sctx'[b].arg = m THEN l ELSE 1
  <2>1. CASE ~Accepted(sctx'[b].arg) /\ Reach(b)' <= 1
    BY <1>1, <2>1
  <2>2. CASE /\ Using(b) /\ sctx'[b].arg = sctx[b].arg /\ sctx'[b].addr = sctx[b].addr
             /\ Reach(b)' \in Int /\ Reach(b)' <= Reach(b)
    <3>1. Reach(b) <= IF sctx[b].arg = m THEN l ELSE 1
      BY <1>3, <2>2 DEF Within
    <3>2. Reach(b) \in Int
      <4>1. sctx[b] \in SendCtx /\ Cfs[sctx[b].arg] \in Nat
        BY <2>2, UsedFacts, CommonAssumption DEF CommonAssumption
      <4> QED BY <4>1 DEF Reach, Ahead, SendCtx
    <3> QED BY <2>2, <3>1, <3>2
  <2> QED BY <1>3, <2>1, <2>2 DEF SenderStep, Reaches, ReachOf
<1>4. ASSUME reports'[m] # <<>> PROVE Cfs[m] + 1 <= l \/ \A w \in Bus' : w.f.msg # m
  <2>1. CASE Cfs[m] + 1 <= l
    BY <2>1
  <2>2. CASE ~(Cfs[m] + 1 <= l)
    <3>1. \A w \in Bus : w.f.msg # m
      <4>1. CASE reports[m] # <<>>
        BY <2>2, <4>1 DEF Within
      <4>2. CASE reports[m] = <<>>
        <5>1. \A b \in SendBlock : Using(b) /\ sctx[b].arg = m => Reach(b) # Cfs[m] + 1
          BY <2>2, UsedFacts DEF Within
        <5>2. NoWire(Dest[m])
          BY <1>1, <1>4, <4>2, <5>1 DEF SenderStep, Answered
        <5> QED BY <5>2 DEF NoWire, LinkInv, WireInv
      <4> QED BY <4>1, <4>2
    <3>2. CASE wire' = wire
      BY <3>1, <3>2 DEF Bus
    <3>3. ASSUME NEW b \in SendBlock, NEW w \in WireFrame, Sends(b, w) PROVE \A x \in Bus' : x.f.msg # m
      <4>1. Bus' = Bus \cup {w} /\ reports[w.f.msg] = <<>> /\ w.f.msg \in Msg
        BY <3>3, SentBehind
      <4>2. w.f.msg # m
        <5>1. Cfs[w.f.msg] > 0 => reports' = reports
          BY <3>3 DEF Sends
        <5> QED BY <1>1, <1>4, <4>1, <5>1
      <4> QED BY <3>1, <4>1, <4>2
    <3> QED BY <3>2, <3>3 DEF SenderStep
  <2> QED BY <2>1, <2>2
<1>5. ASSUME NEW n \in Msg, Later(m, n)', Dest[n] = Dest[m], NEW x \in Aired(n)' PROVE x = 0
  <2>1. CASE Later(m, n)
    <3>1. CASE x \in Aired(n)
      BY <1>5, <2>1, <3>1 DEF Within
    <3>2. CASE x \notin Aired(n)
      <4>1. PICK b \in SendBlock : x \in Nat /\ Using(b) /\ sctx[b].arg = n /\ x < Reach(b)
        BY <3>2 DEF SenderStep, Airs
      <4>2. n # m
        BY <2>1, LaterAccepted DEF LinkInv, LinkTypes
      <4>3. Reach(b) <= 1
        BY <1>5, <4>1, <4>2, UsedFacts DEF Within
      <4>4. Reach(b) \in Int
        <5>1. sctx[b] \in SendCtx /\ Cfs[sctx[b].arg] \in Nat
          BY <4>1, UsedFacts, CommonAssumption DEF CommonAssumption
        <5> QED BY <5>1 DEF Reach, Ahead, SendCtx
      <4> QED BY <4>1, <4>3, <4>4
    <3> QED BY <3>1, <3>2
  <2>2. CASE ~Accepted(n)
    <3>1. x \notin Aired(n)
      BY <2>2, AiredAccepted
    <3>2. PICK b \in SendBlock : Using(b) /\ sctx[b].arg = n
      BY <3>1 DEF SenderStep, Airs
    <3> QED BY <2>2, <3>2, UsedFacts
  <2> QED BY <1>5, <2>1, <2>2, OrderFollows
<1> QED BY <1>2, <1>3, <1>4, <1>5 DEF Within

\* The receptions and the bus follow a step of the sender.
LEMMA ReceptionsFollow ==
  ASSUME LinkInv, SenderStep
  PROVE  LinkTypes' /\ WireInv' /\ FcInv' /\ DeliveredInv' /\ \A r \in RecvBlock : RecvInv(r)'
<1>1. UNCHANGED <<rctx, rslab, rrun, fcq, fcWire>>
  BY DEF SenderStep, recvVars
<1>2. LinkTypes'
  BY <1>1, WireFollows, OrderFollows DEF LinkTypes, LinkInv
<1>3. FcInv'
  BY <1>1 DEF FcInv, LinkInv, Asked, HasFc
<1>4. ASSUME NEW r \in RecvBlock PROVE RecvInv(r)'
  <2>1. SUFFICES ASSUME r \notin rslab PROVE RecvInv(r)'
    BY <1>1 DEF RecvInv
  <2>2. RecvInv(r)
    BY DEF LinkInv
  <2>3. Asking(r)' <=> Asking(r)
    BY <1>1 DEF Asking, Asked, HasFc, FcComes
  <2>4. rctx[r].state # "ERR" => \E m \in Msg : Holds(r, m)'
    BY <2>1, <2>2, HoldsFollows DEF RecvInv
  <2>5. Asking(r) => SenderParked(r)'
    BY <2>1, ParkedFollows
  <2>6. ASSUME rctx[r].state = "WAIT_CF", ~Asking(r) PROVE Window(r)'
    <3>1. PICK m \in Msg, l \in {Len(rctx[r].data) + rctx[r].bs} : MsgOf(r) = m /\ Within(m, l)
      BY <2>1, <2>2, <2>6 DEF RecvInv, Window
    <3>2. l \in Nat
      <4>1. rctx[r].bs \in 1..RBs /\ RBs \in Nat
        BY <2>1, <2>2, <2>6, ReceiveAssumption DEF RecvInv, ReceiveAssumption
      <4>2. Len(rctx[r].data) \in Nat
        BY <2>1, <2>6, AtLeastTwo
      <4> QED BY <3>1, <4>1, <4>2
    <3>3. Within(m, l)'
      BY <2>1, <2>6, <3>1, <3>2, WindowFollows
    <3> QED BY <1>1, <3>1, <3>3 DEF Window, MsgOf
  <2>7. /\ \A q \in RecvBlock \ rslab' : rctx'[q].src = rctx'[r].src => q = r
        /\ rctx'[r].state \in {"TRY_ALLOC", "SEND_FC"} => rctx'[r].bs = RBs
        /\ rctx'[r].state = "WAIT_CF" => rctx'[r].bs \in 1..RBs /\ (Asking(r) => rctx'[r].bs = RBs)
    BY <1>1, <2>1, <2>2 DEF RecvInv
  <2>8. /\ rctx'[r].state # "ERR" => \E m \in Msg : Holds(r, m)'
        /\ rctx'[r].state = "WAIT_CF" /\ ~Asking(r) => Window(r)'
    BY <1>1, <2>4, <2>6
  <2> QED BY <2>3, <2>5, <2>7, <2>8 DEF RecvInv
<1> QED BY <1>2, <1>3, <1>4, WireFollows, DeliveredFollows

-----------------------------------------------------------------------------
(* Steps of the sender.                                                    *)

\* A context that a step of the sender leaves alone, and one that it may change.
Calm(c) ==
  /\ sctx'[c] = sctx[c] /\ (c \in sslab' <=> c \in sslab) /\ (app'.blk = c <=> app.blk = c)
  /\ srun' = srun \/ (srun.blk # c /\ srun'.blk # c)
  /\ HasFrame(c)' <=> HasFrame(c)
  /\ c \in swork => c \in swork'
Moves(b) ==
  /\ SenderInv(b)'
  /\ \A f \in Driver' : f.blk = b => Queued(b, f)'
  /\ NobodyAsks \/ (Using(b) /\ Parked(b) => StillParked(b))
  /\ ReachOf(b)

\* What is known of a context that is left alone.
LEMMA CalmStays ==
  ASSUME LinkInv, NEW c \in SendBlock, Calm(c)
  PROVE  /\ Using(c)' <=> Using(c)
         /\ Ahead(c)' = Ahead(c)
         /\ Using(c) /\ Parked(c) => StillParked(c)
         /\ ReachOf(c)
         /\ (\A w \in Bus' : w \in Bus \/ w.dst # sctx[c].addr) => SenderInv(c)'
         /\ \A f : Queued(c, f) => Queued(c, f)'
<1>1. (Using(c)' <=> Using(c)) /\ Ahead(c)' = Ahead(c) /\ sctx'[c] = sctx[c] /\ (InCf(c)' <=> InCf(c))
  BY DEF Calm, Using, Ahead, InCf
<1>2. Using(c) /\ Parked(c) => StillParked(c)
  BY <1>1 DEF Calm, StillParked, Parked
<1>3. Reach(c)' = Reach(c)
  BY <1>1 DEF Reach
<1>4. ReachOf(c)
  <2>1. SUFFICES ASSUME Using(c) PROVE Reach(c) \in Int
    BY <1>1, <1>3 DEF ReachOf
  <2>2. sctx[c] \in SendCtx /\ Cfs[sctx[c].arg] \in Nat
    BY <2>1, UsedFacts, CommonAssumption DEF CommonAssumption
  <2> QED BY <2>2 DEF Reach, Ahead, SendCtx
<1>5. ASSUME \A w \in Bus' : w \in Bus \/ w.dst # sctx[c].addr PROVE SenderInv(c)'
  <2>1. SUFFICES ASSUME Using(c) PROVE SenderInv(c)'
    BY <1>1 DEF SenderInv
  <2>2. SenderInv(c)
    BY DEF LinkInv
  <2>3. InSn(c) => InSn(c)'
    BY <1>1 DEF InSn
  <2>4. (srun'.blk = c /\ srun'.pc = "ffSent") <=> (srun.blk = c /\ srun.pc = "ffSent")
    BY DEF Calm
  <2>5. sctx[c].state = "ERR" => sctx[c].rem > 0 /\ \A w \in Bus' : w.dst # sctx[c].addr
    BY <1>5, <2>1, <2>2 DEF SenderInv
  <2>6. HasFrame(c)' <=> HasFrame(c)
    BY DEF Calm
  <2>7. c \in swork => c \in swork'
    BY DEF Calm
  <2> QED BY <1>1, <2>1, <2>2, <2>3, <2>4, <2>5, <2>6, <2>7 DEF SenderInv
<1>6. ASSUME NEW f, Queued(c, f) PROVE Queued(c, f)'
  <2>1. (srun'.blk = c /\ srun'.pc = "ffSent") <=> (srun.blk = c /\ srun.pc = "ffSent")
    BY DEF Calm
  <2> QED BY <1>1, <1>6, <2>1 DEF Queued, Shape
<1> QED BY <1>1, <1>2, <1>4, <1>5, <1>6

\* A step of the sender that moves one context keeps the invariant.
LEMMA SenderMoves ==
  ASSUME LinkInv, NEW b, \A c \in SendBlock \ {b} : Calm(c), b \in SendBlock => Moves(b),
         SendTypeInv', SendInv', AirInv', UNCHANGED <<recvVars, fcWire>>,
         order' = order \/ \E m \in Msg : order' = Append(order, m) /\ ~Accepted(m),
         \A f \in Driver' : f \in Driver \/ f.blk = b,
         wire' = wire \/ (b \in SendBlock /\ \E w \in WireFrame : Sends(b, w)),
         Answered, Airs, OrderInv', TruthInv'
  PROVE  LinkInv'
<1>1. SenderStep
  <2>1. Waits
    BY CalmStays DEF Waits, Moves
  <2>2. Reaches
    BY CalmStays DEF Reaches, Moves
  <2> QED BY <2>1, <2>2 DEF SenderStep
<1>2. \A c \in SendBlock : SenderInv(c)'
  <2>1. ASSUME NEW c \in SendBlock, c # b PROVE SenderInv(c)'
    <3>1. SUFFICES ASSUME Using(c) PROVE SenderInv(c)'
      BY <2>1, CalmStays DEF SenderInv
    <3>2. \A w \in Bus' : w \in Bus \/ w.dst # sctx[c].addr
      <4>1. CASE wire' = wire
        BY <4>1 DEF Bus
      <4>2. ASSUME b \in SendBlock, NEW w \in WireFrame, Sends(b, w) PROVE \A x \in Bus' : x \in Bus \/ x.dst # sctx[c].addr
        <5>1. Bus' = Bus \cup {w}
          BY <4>2, SentBehind
        <5>2. w.dst # sctx[c].addr
          BY <2>1, <3>1, <4>2, SoleUser DEF Sends
        <5> QED BY <5>1, <5>2
      <4> QED BY <4>1, <4>2
    <3> QED BY <2>1, <3>2, CalmStays
  <2> QED BY <2>1 DEF Moves
<1>3. DriverInv'
  <2>1. ASSUME NEW f \in Driver' PROVE Queued(f.blk, f)'
    <3>1. CASE f.blk = b /\ b \in SendBlock
      BY <2>1, <3>1 DEF Moves
    <3>2. CASE f.blk # b
      <4>1. f \in Driver /\ f.blk \in SendBlock
        BY <2>1, <3>2, FrameOwned DEF LinkInv, Halves
      <4>2. Queued(f.blk, f)
        BY <4>1 DEF LinkInv, DriverInv
      <4> QED BY <3>2, <4>1, <4>2, CalmStays
    <3>3. f.blk \in SendBlock
      <4>1. txq' \in Seq(Frame)
        BY DEF SendTypeInv, SendTypeOK
      <4>2. PICK i \in DOMAIN txq' : f = txq'[i]
        BY <2>1 DEF Driver
      <4>3. f \in Frame
        BY <4>1, <4>2
      <4> QED BY <4>3 DEF Frame
    <3> QED BY <3>1, <3>2, <3>3
  <2> QED BY <2>1 DEF DriverInv
<1>4. Inv' /\ ContextsInv'
  <2>1. UNCHANGED <<rctx, rslab, rwork, rrun, fcq, delivered, runb>>
    BY DEF recvVars
  <2>2. OtherTypes'
    BY <2>1 DEF OtherTypes, LinkInv, Halves, Inv, Types
  <2>3. corrupt' = corrupt
    BY DEF LinkInv, Halves, SendInv, SendTypeInv, SendTypeOK, CommonTypeOK
  <2>4. Inv'
    BY <2>1, <2>2, NothingHere DEF LinkInv, Halves
  <2> QED BY <2>1, <2>3, <2>4, NothingChanges DEF LinkInv, Halves
<1> QED BY <1>1, <1>2, <1>3, <1>4, ReceptionsFollow DEF LinkInv, Halves

\* No message is accepted, and a context goes on with its message or reports it.
LEMMA OrderStays ==
  ASSUME LinkInv, NEW b, \A c \in SendBlock \ {b} : Calm(c),
         b \in SendBlock /\ Using(b) => (Using(b)' /\ sctx'[b].arg = sctx[b].arg) \/ reports'[sctx[b].arg] # <<>>,
         \A m \in Msg : reports'[m] = reports[m] \/ reports'[m] # <<>>, order' = order,
         \A m \in Msg : call'[m] = "accepted" <=> call[m] = "accepted"
  PROVE  OrderInv'
<1>1. /\ \A i, j \in DOMAIN order : order[i] = order[j] => i = j
      /\ \A m \in Msg : Accepted(m) <=> call'[m] = "accepted"
      /\ \A m, n \in Msg : Later(m, n) /\ Dest[m] = Dest[n] => reports'[m] # <<>>
  BY DEF LinkInv, OrderInv
<1>2. ASSUME NEW m \in Msg, Accepted(m), reports'[m] = <<>>
      PROVE  \E c \in SendBlock : Using(c)' /\ sctx'[c].arg = m
  <2>1. reports[m] = <<>>
    BY <1>2
  <2>2. PICK c \in SendBlock : Using(c) /\ sctx[c].arg = m
    BY <1>2, <2>1 DEF LinkInv, OrderInv
  <2>3. CASE c = b
    BY <1>2, <2>2, <2>3
  <2>4. CASE c # b
    BY <2>2, <2>4, CalmStays DEF Calm
  <2> QED BY <2>3, <2>4
<1> QED BY <1>1, <1>2, SameOrder DEF OrderInv

\* Nothing is accepted, transmitted or reported.
LEMMA NothingSaid ==
  ASSUME LinkInv, NEW b, \A c \in SendBlock \ {b} : Calm(c),
         b \in SendBlock /\ Using(b) => Using(b)' /\ sctx'[b].arg = sctx[b].arg,
         UNCHANGED <<order, aired, reports>>,
         \A m \in Msg : call'[m] = "accepted" <=> call[m] = "accepted"
  PROVE  Answered /\ Airs /\ OrderInv' /\ TruthInv'
<1>1. Answered
  BY DEF Answered
<1>2. \A m : Aired(m)' = Aired(m)
  BY DEF Aired
<1>3. Airs
  BY <1>2 DEF Airs
<1>4. TruthInv'
  BY <1>2 DEF TruthInv, LinkInv
<1>5. OrderInv'
  BY OrderStays
<1> QED BY <1>1, <1>3, <1>4, <1>5

\* isotp_fast_send takes a context, or is refused one.
LEMMA GetCtxKeeps ==
  ASSUME Cooperative, LinkInv, NEW m \in Msg, SendGetCtx(m), UNCHANGED <<recvVars, linkVars>>
  PROVE  LinkInv'
<1>1. SendTypeInv /\ SendInv /\ AirInv /\ Disciplined
  BY DEF LinkInv, Halves, Cooperative
<1>2. SendTypeInv' /\ SendInv' /\ AirInv'
  BY <1>1, GetCtxTyped, GetCtxSafe, GetCtxAir
<1>3. /\ Found(Dest[m]) = {} /\ app = NoApp /\ call[m] = "none"
      /\ UNCHANGED <<swork, srun, reports, txq, aired, recvVars, wire, fcWire, order>>
  BY <1>1, NoneFound DEF SendGetCtx, linkVars
<1>4. NoApp.blk = NoBlock /\ NoBlock \notin SendBlock
  BY SendAssumption DEF NoApp, SendAssumption
<1>5. Driver' = Driver /\ \A c \in SendBlock : HasFrame(c)' <=> HasFrame(c)
  BY <1>3 DEF Driver, HasFrame
<1>6. call \in [Msg -> {"none", "busy", "accepted", "refused"}]
  BY <1>1 DEF SendTypeInv, SendTypeOK
<1>7. ASSUME NEW b \in sslab, app'.blk = b, call' = [call EXCEPT ![m] = "busy"],
             sctx' = [sctx EXCEPT ![b] = NewSendCtx(b, Dest[m])], sslab' = sslab \ {b}
      PROVE  LinkInv'
  <2>1. ASSUME NEW c \in SendBlock \ {b} PROVE Calm(c)
    <3>1. sctx'[c] = sctx[c] /\ app.blk # c
      BY <1>1, <1>3, <1>4, <1>7, <2>1 DEF SendTypeInv, SendTypeOK
    <3> QED BY <1>3, <1>5, <1>7, <2>1, <3>1 DEF Calm
  <2>2. ~Using(b) /\ ~Using(b)'
    BY <1>7 DEF Using
  <2>3. \A f \in Driver' : f.blk # b
    BY <1>1, <1>5, <1>7, FrameOwned
  <2>4. Moves(b)
    BY <2>2, <2>3 DEF Moves, SenderInv, ReachOf
  <2>5. \A x \in Msg : call'[x] = "accepted" <=> call[x] = "accepted"
    BY <1>3, <1>6, <1>7
  <2>6. Answered /\ Airs /\ OrderInv' /\ TruthInv'
    BY <1>3, <2>1, <2>2, <2>5, NothingSaid
  <2> QED BY <1>2, <1>3, <1>5, <2>1, <2>4, <2>6, SenderMoves
<1>8. CASE call' = [call EXCEPT ![m] = "refused"] /\ UNCHANGED <<sctx, sslab, app>>
  <2>1. \A c \in SendBlock \ {NoBlock} : Calm(c)
    BY <1>3, <1>5, <1>8 DEF Calm
  <2>2. \A x \in Msg : call'[x] = "accepted" <=> call[x] = "accepted"
    BY <1>3, <1>6, <1>8
  <2>3. Answered /\ Airs /\ OrderInv' /\ TruthInv'
    BY <1>3, <1>4, <2>1, <2>2, NothingSaid
  <2> QED BY <1>2, <1>3, <1>4, <1>5, <2>1, <2>3, SenderMoves
<1> QED BY <1>3, <1>7, <1>8 DEF SendGetCtx

\* A message is accepted.
LEMMA OrderKeeps ==
  ASSUME LinkInv, NEW m \in Msg, order' = Append(order, m), call' = [call EXCEPT ![m] = "accepted"],
         call[m] = "busy", NEW b \in SendBlock, app.blk = b, b \notin sslab, sctx[b].addr = Dest[m],
         UNCHANGED reports, Using(b)', sctx'[b].arg = m, \A c \in SendBlock \ {b} : Calm(c)
  PROVE  OrderInv' /\ ~Accepted(m)
<1>1. SendInv /\ OrderInv /\ order \in Seq(Msg) /\ call \in [Msg -> {"none", "busy", "accepted", "refused"}]
  BY DEF LinkInv, Halves, LinkTypes, SendTypeInv, SendTypeOK
<1>2. ~Accepted(m)
  BY <1>1 DEF OrderInv
<1>3. /\ \A x : Accepted(x)' <=> (Accepted(x) \/ x = m)
      /\ \A x, y : Later(x, y)' => Later(x, y) \/ (Accepted(x) /\ y = m)
  BY <1>1, OrderGrows
<1>4. \A i, j \in DOMAIN order' : order'[i] = order'[j] => i = j
  <2>1. /\ DOMAIN order = 1..Len(order) /\ Len(order) \in Nat /\ DOMAIN order' = 1..(Len(order) + 1)
        /\ \A i \in 1..Len(order) : order'[i] = order[i]
        /\ order'[Len(order) + 1] = m
    BY <1>1
  <2>2. \A i \in DOMAIN order : order[i] # m
    BY <1>2 DEF Accepted
  <2>3. \A i, j \in DOMAIN order : order[i] = order[j] => i = j
    BY <1>1 DEF OrderInv
  <2>4. ASSUME NEW i \in DOMAIN order', i # Len(order) + 1 PROVE i \in DOMAIN order
    <3>1. i \in 1..(Len(order) + 1)
      BY <2>1, <2>4
    <3> QED BY <2>1, <2>4, <3>1
  <2> QED BY <2>1, <2>2, <2>3, <2>4
<1>5. \A x \in Msg : Accepted(x)' <=> call'[x] = "accepted"
  BY <1>1, <1>3 DEF OrderInv
<1>6. ASSUME NEW x \in Msg, Accepted(x), Dest[x] = Dest[m] PROVE reports[x] # <<>>
  <2>1. SUFFICES ASSUME reports[x] = <<>> PROVE FALSE
    OBVIOUS
  <2>2. PICK c \in SendBlock : Using(c) /\ sctx[c].arg = x
    BY <1>1, <1>6, <2>1 DEF OrderInv
  <2>3. sctx[c].addr = sctx[b].addr /\ c # b
    BY <1>6, <2>2, UsedFacts DEF Using
  <2> QED BY <1>1, <2>2, <2>3, OtherAddr DEF Using
<1>7. \A x, y \in Msg : Later(x, y)' /\ Dest[x] = Dest[y] => reports'[x] # <<>>
  BY <1>1, <1>3, <1>6 DEF OrderInv
<1>8. ASSUME NEW x \in Msg, Accepted(x)', reports'[x] = <<>>
      PROVE  \E c \in SendBlock : Using(c)' /\ sctx'[c].arg = x
  <2>1. CASE x = m
    BY <2>1
  <2>2. CASE x # m
    <3>1. PICK c \in SendBlock : Using(c) /\ sctx[c].arg = x
      BY <1>1, <1>3, <1>8, <2>2 DEF OrderInv
    <3>2. c # b
      BY <3>1 DEF Using
    <3> QED BY <3>1, <3>2, CalmStays DEF Calm
  <2> QED BY <2>1, <2>2
<1> QED BY <1>2, <1>4, <1>5, <1>7, <1>8 DEF OrderInv

\* A message in several frames is accepted: its context will send the first frame.
LEMMA MultiKeeps ==
  ASSUME LinkInv, SendMulti, order' = Append(order, app.msg), UNCHANGED <<recvVars, wire, fcWire>>
  PROVE  LinkInv'
<1>1. SendTypeInv /\ SendInv /\ AirInv
  BY DEF LinkInv, Halves
<1>2. SendTypeInv' /\ SendInv' /\ AirInv'
  BY <1>1, MultiTyped, MultiSafe, MultiAir
<1>3. PICK b \in SendBlock, m \in Msg : app.blk = b /\ app.msg = m
  BY <1>1, AppHolds DEF SendMulti
<1>4. b \notin sslab /\ Fresh(b) /\ Carries(b, m) /\ sctx[b] \in SendCtx
  BY <1>1, <1>3, AppHolds DEF SendMulti, SendTypeInv, SendTypeOK
<1>5. /\ sctx' = [sctx EXCEPT ![b] = Loaded(sctx[b], m)] /\ swork' = swork \cup {b}
      /\ call' = [call EXCEPT ![m] = "accepted"] /\ app' = NoApp
      /\ UNCHANGED <<sslab, srun, reports, txq, aired>>
  BY <1>3 DEF SendMulti
<1>6. /\ sctx'[b] = Loaded(sctx[b], m)
      /\ sctx'[b].arg = m /\ sctx'[b].rem = Cfs[m] + 1 /\ sctx'[b].state = "SEND_FF"
      /\ sctx'[b].addr = Dest[m]
  <2>1. sctx'[b] = Loaded(sctx[b], m)
    BY <1>1, <1>5 DEF SendTypeInv, SendTypeOK
  <2> QED BY <1>3, <1>4, <2>1, LoadedRem, LoadedFields DEF Fresh, Carries
<1>7. Driver' = Driver /\ \A c \in SendBlock : HasFrame(c)' <=> HasFrame(c)
  BY <1>5 DEF Driver, HasFrame
<1>8. NoApp.blk = NoBlock /\ NoBlock \notin SendBlock
  BY SendAssumption DEF NoApp, SendAssumption
<1>9. ASSUME NEW c \in SendBlock \ {b} PROVE Calm(c)
  <2>1. sctx'[c] = sctx[c]
    BY <1>1, <1>5, <1>9 DEF SendTypeInv, SendTypeOK
  <2> QED BY <1>3, <1>5, <1>7, <1>8, <1>9, <2>1 DEF Calm
<1>10. ~Using(b) /\ Using(b)'
  BY <1>3, <1>4, <1>5, <1>8 DEF Using
<1>11. OrderInv' /\ ~Accepted(m)
  BY <1>3, <1>4, <1>5, <1>6, <1>9, <1>10, OrderKeeps DEF Carries
<1>12. Moves(b)
  <2>1. Reach(b)' = 1
    BY <1>6 DEF Reach
  <2>2. SenderInv(b)'
    BY <1>4, <1>5, <1>6 DEF SenderInv, Fresh
  <2>3. \A f \in Driver' : f.blk # b
    BY <1>4, <1>7, DriverHas DEF Fresh
  <2> QED BY <1>6, <1>10, <1>11, <2>1, <2>2, <2>3 DEF Moves, ReachOf
<1>13. Answered /\ Airs /\ TruthInv'
  <2>1. \A x : Aired(x)' = Aired(x)
    BY <1>5 DEF Aired
  <2> QED BY <1>5, <2>1 DEF Answered, Airs, TruthInv, LinkInv
<1> QED BY <1>2, <1>3, <1>7, <1>9, <1>11, <1>12, <1>13, SenderMoves

\* A message in a single frame is accepted: the frame is in the driver.
LEMMA SingleKeeps ==
  ASSUME Cooperative, LinkInv, SendSingle, UNCHANGED <<recvVars, wire, fcWire>>,
         order' = IF call'[app.msg] = "accepted" THEN Append(order, app.msg) ELSE order
  PROVE  LinkInv'
<1>1. SendTypeInv /\ SendInv /\ AirInv
  BY DEF LinkInv, Halves
<1>2. SendTypeInv' /\ SendInv' /\ AirInv'
  BY <1>1, SingleTyped, SingleSafe, SingleAir
<1>3. PICK b \in SendBlock, m \in Msg : app.blk = b /\ app.msg = m
  BY <1>1, AppHolds DEF SendSingle
<1>4. b \notin sslab /\ Fresh(b) /\ Carries(b, m) /\ sctx[b] \in SendCtx /\ Cfs[m] = 0
  BY <1>1, <1>3, AppHolds DEF SendSingle, SendTypeInv, SendTypeOK, AirInv, AppFits
<1>5. PICK f \in Frame : f = [kind |-> "SF", msg |-> m, idx |-> 0, len |-> 1, sn |-> 0, blk |-> b]
  <2>1. 0 \in 0..(SnMod - 1) /\ 0 \in Int /\ 1 \in Nat
    BY CommonAssumption DEF CommonAssumption
  <2>2. [kind |-> "SF", msg |-> m, idx |-> 0, len |-> 1, sn |-> 0, blk |-> b] \in Frame
    BY <2>1 DEF Frame
  <2> QED BY <2>2
<1>6. /\ txq' = Append(txq, f) /\ app' = NoApp /\ call' = [call EXCEPT ![m] = "accepted"]
      /\ sctx' = [sctx EXCEPT ![b] = [[sctx[b] EXCEPT !.arg = m] EXCEPT !.pending = @ + 1]]
      /\ UNCHANGED <<sslab, swork, srun, reports, aired>>
  BY <1>3, <1>5 DEF SendSingle, Cooperative, Polite, Fault
<1>7. /\ sctx'[b].arg = m /\ sctx'[b].state = "SEND_FF" /\ sctx'[b].addr = Dest[m]
  <2>1. sctx'[b] = [[sctx[b] EXCEPT !.arg = m] EXCEPT !.pending = @ + 1]
    BY <1>1, <1>6 DEF SendTypeInv, SendTypeOK
  <2> QED BY <1>4, <2>1, SingleFields DEF Fresh, Carries
<1>8. /\ Driver' = Driver \cup {f}
      /\ \A c \in SendBlock \ {b} : HasFrame(c)' <=> HasFrame(c)
  <2>1. txq \in Seq(Frame) /\ f.blk = b
    BY <1>1, <1>5 DEF SendTypeInv, SendTypeOK
  <2> QED BY <1>6, <2>1, DriverAppend, AppendQ
<1>9. NoApp.blk = NoBlock /\ NoBlock \notin SendBlock
  BY SendAssumption DEF NoApp, SendAssumption
<1>10. ASSUME NEW c \in SendBlock \ {b} PROVE Calm(c)
  <2>1. sctx'[c] = sctx[c]
    BY <1>1, <1>6, <1>10 DEF SendTypeInv, SendTypeOK
  <2> QED BY <1>3, <1>6, <1>8, <1>9, <1>10, <2>1 DEF Calm
<1>11. ~Using(b) /\ Using(b)'
  BY <1>3, <1>4, <1>6, <1>9 DEF Using
<1>12. order' = Append(order, m)
  <2>1. call'[m] = "accepted"
    BY <1>1, <1>6 DEF SendTypeInv, SendTypeOK
  <2> QED BY <1>3, <2>1
<1>13. OrderInv' /\ ~Accepted(m)
  BY <1>3, <1>4, <1>6, <1>7, <1>10, <1>11, <1>12, OrderKeeps DEF Carries
<1>14. Moves(b)
  <2>1. Reach(b)' = 1
    BY <1>7 DEF Reach
  <2>2. SenderInv(b)'
    BY <1>4, <1>6, <1>7 DEF SenderInv, Fresh
  <2>3. \A x \in Driver' : x.blk = b => x = f
    BY <1>4, <1>8, DriverHas DEF Fresh
  <2>4. f.kind = "SF" /\ f.msg = m /\ f.idx = 0 /\ f.len = 1
    BY <1>5
  <2>5. Queued(b, f)'
    BY <1>4, <2>4 DEF Queued, Shape
  <2> QED BY <1>7, <1>11, <1>13, <2>1, <2>2, <2>3, <2>5 DEF Moves, ReachOf
<1>15. Answered /\ Airs /\ TruthInv'
  <2>1. \A x : Aired(x)' = Aired(x)
    BY <1>6 DEF Aired
  <2> QED BY <1>6, <2>1 DEF Answered, Airs, TruthInv, LinkInv
<1>16. \A x \in Driver' : x \in Driver \/ x.blk = b
  BY <1>5, <1>8
<1> QED BY <1>2, <1>3, <1>10, <1>12, <1>13, <1>14, <1>15, <1>16, SenderMoves

\* The work queue thread, or an interrupt, changes context b and may queue a frame.
LEMMA ContextMoves ==
  ASSUME LinkInv, NEW b \in SendBlock, Using(b), NEW d, sctx' = [sctx EXCEPT ![b] = d],
         d.arg = sctx[b].arg,
         srun' = srun \/ {srun.blk, srun'.blk} \subseteq {b, NoBlock}, swork \ {b} \subseteq swork',
         UNCHANGED <<sslab, app, call, reports, aired, recvVars, wire, fcWire, order>>,
         txq' = txq \/ \E f \in Frame : f.blk = b /\ txq' = Append(txq, f),
         SendTypeInv', SendInv', AirInv', Moves(b)
  PROVE  LinkInv'
<1>1. SendTypeInv /\ SendInv /\ AirInv /\ txq \in Seq(Frame) /\ NoBlock \notin SendBlock
  BY SendAssumption DEF LinkInv, Halves, SendTypeInv, SendTypeOK, SendAssumption
<1>2. sctx'[b] = d /\ \A c \in SendBlock \ {b} : sctx'[c] = sctx[c]
  BY <1>1 DEF SendTypeInv, SendTypeOK
<1>3. /\ \A c \in SendBlock \ {b} : HasFrame(c)' <=> HasFrame(c)
      /\ \A f \in Driver' : f \in Driver \/ f.blk = b
  <2>1. CASE txq' = txq
    BY <2>1 DEF HasFrame, Driver
  <2>2. ASSUME NEW f \in Frame, f.blk = b, txq' = Append(txq, f)
        PROVE  /\ \A c \in SendBlock \ {b} : HasFrame(c)' <=> HasFrame(c)
               /\ \A x \in Driver' : x \in Driver \/ x.blk = b
    BY <1>1, <2>2, AppendQ, DriverAppend
  <2> QED BY <2>1, <2>2
<1>4. ASSUME NEW c \in SendBlock \ {b} PROVE Calm(c)
  <2>1. srun' = srun \/ (srun.blk # c /\ srun'.blk # c)
    BY <1>1, <1>4
  <2> QED BY <1>2, <1>3, <1>4, <2>1 DEF Calm
<1>5. Using(b)' /\ sctx'[b].arg = sctx[b].arg
  BY <1>2 DEF Using
<1>6. Answered /\ Airs /\ OrderInv' /\ TruthInv'
  BY <1>4, <1>5, NothingSaid
<1> QED BY <1>3, <1>4, <1>6, SenderMoves

\* A context in several frames.
LEMMA LongFacts ==
  ASSUME LinkInv, NEW b \in SendBlock, Using(b), ~HasSf(b)
  PROVE  /\ Sending(b) /\ sctx[b] \in SendCtx /\ sctx[b].arg \in Msg /\ sctx[b].data = sctx[b].arg
         /\ Cfs[sctx[b].arg] \in Nat \ {0} /\ sctx[b].rem \in Nat /\ sctx[b].rem <= Cfs[sctx[b].arg] + 1
         /\ Ahead(b) = Cfs[sctx[b].arg] + 1 - sctx[b].rem /\ Ahead(b) \in Nat
         /\ sctx[b].bs \in 0..255 /\ sctx[b].sn \in 0..(SnMod - 1)
         /\ SenderInv(b)
<1>1. /\ Sending(b) /\ sctx[b].arg \in Msg /\ Cfs[sctx[b].arg] \in Nat \ {0}
      /\ sctx[b].rem \in Nat /\ sctx[b] \in SendCtx
  BY LongOne DEF LinkInv, Halves, Using
<1>2. sctx[b].data = sctx[b].arg /\ sctx[b].rem <= Cfs[sctx[b].arg] + 1
  BY <1>1 DEF Sending, Counts
<1>3. sctx[b].bs \in 0..255 /\ sctx[b].sn \in 0..(SnMod - 1)
  BY <1>1 DEF SendCtx
<1>4. Ahead(b) = Cfs[sctx[b].arg] + 1 - sctx[b].rem
  BY DEF Ahead
<1>5. Ahead(b) \in Nat
  BY <1>1, <1>2, <1>4
<1>6. SenderInv(b)
  BY DEF LinkInv
<1> QED BY <1>1, <1>2, <1>3, <1>4, <1>5, <1>6

\* The thread has queued the first frame and waits for flow control.
LEMMA FfQueuedKeeps ==
  ASSUME LinkInv, SendFfQueued, UNCHANGED <<recvVars, linkVars>>
  PROVE  LinkInv'
<1>1. SendTypeInv /\ SendInv /\ AirInv
  BY DEF LinkInv, Halves
<1>2. SendTypeInv' /\ SendInv' /\ AirInv'
  BY <1>1, FfQueuedTyped, FfQueuedSafe, FfQueuedAir
<1>3. PICK b \in SendBlock : srun.blk = b /\ srun.pc = "ffSent" /\ Using(b) /\ ~HasSf(b) /\ Working(b)
  BY <1>1, RunHolds DEF SendFfQueued, Using
<1>4. PICK d : d = AwaitFc(sctx[b])
  OBVIOUS
<1>5. /\ sctx' = [sctx EXCEPT ![b] = d] /\ srun' = NoRun
      /\ UNCHANGED <<sslab, swork, app, call, reports, txq, aired, recvVars, wire, fcWire, order>>
  BY <1>3, <1>4 DEF SendFfQueued, linkVars
<1>6. /\ sctx[b] \in SendCtx /\ sctx[b].state = "SEND_FF" /\ sctx[b].rem = Cfs[sctx[b].arg] /\ InSn(b)
      /\ Cfs[sctx[b].arg] \in Nat /\ sctx[b].arg \in Msg
  BY <1>3, LongFacts DEF SenderInv, Working
<1>7. /\ Kept(d, sctx[b]) /\ Kin(d, sctx[b]) /\ d.state = "WAIT_FC" /\ d.sn = sctx[b].sn /\ d.bs = sctx[b].bs
  <2>1. d.sn = sctx[b].sn /\ d.bs = sctx[b].bs
    BY <1>4, <1>6, CtxFields DEF AwaitFc
  <2> QED BY <1>4, <1>6, <2>1, WaitingKeeps, AwaitFcFields
<1>8. sctx'[b] = d /\ NoRun.blk = NoBlock /\ NoRun.pc = "idle" /\ b # NoBlock
  BY <1>1, <1>5, SendAssumption DEF SendTypeInv, SendTypeOK, NoRun, SendAssumption
<1>9. Ahead(b) = 1 /\ Ahead(b)' = 1
  BY <1>6, <1>7, <1>8 DEF Ahead, Kept
<1>10. Moves(b)
  <2>1. SenderInv(b)'
    <3>1. InSn(b)'
      <4>1. ~InCf(b) /\ ~InCf(b)'
        BY <1>3, <1>5, <1>8 DEF InCf
      <4>2. sctx[b].rem <= Cfs[sctx[b].arg] /\ sctx[b].sn = Ahead(b) % SnMod
        BY <1>6, <4>1 DEF InSn
      <4> QED BY <1>7, <1>8, <1>9, <4>1, <4>2 DEF InSn, Kept
    <3> QED BY <1>5, <1>7, <1>8, <3>1 DEF SenderInv
  <2>2. \A f \in Driver' : f.blk = b => Queued(b, f)'
    <3>1. ASSUME NEW f \in Driver, f.blk = b PROVE Queued(b, f)'
      <4>1. Queued(b, f)
        BY <3>1 DEF LinkInv, DriverInv
      <4> QED BY <1>7, <1>8, <1>9, <4>1 DEF Queued, Shape
    <3> QED BY <1>5, <3>1 DEF Driver
  <2>3. ~Parked(b)
    BY <1>3 DEF Parked
  <2>4. Reach(b) = 1 /\ Reach(b)' = 1
    BY <1>6, <1>7, <1>8, <1>9 DEF Reach
  <2> QED BY <1>3, <1>7, <1>8, <2>1, <2>2, <2>3, <2>4 DEF Moves, ReachOf, Kin
<1> QED BY <1>2, <1>3, <1>5, <1>7, <1>8, <1>10, ContextMoves DEF Kin

\* The thread loads the counter of its context.
LEMMA CfQueuedKeeps ==
  ASSUME LinkInv, SendCfQueued, UNCHANGED <<recvVars, linkVars>>
  PROVE  LinkInv'
<1>1. SendTypeInv /\ SendInv /\ AirInv /\ sctx \in [SendBlock -> SendCtx]
  BY DEF LinkInv, Halves, SendTypeInv, SendTypeOK
<1>2. SendTypeInv' /\ SendInv' /\ AirInv'
  BY <1>1, CfQueuedTyped, CfQueuedSafe, CfQueuedAir
<1>3. PICK b \in SendBlock : srun.blk = b /\ srun.pc = "cfSent" /\ Using(b) /\ ~HasSf(b) /\ Working(b)
  BY <1>1, RunHolds DEF SendCfQueued, Using
<1>4. /\ srun'.pc = "cfLoaded" /\ srun'.blk = b
      /\ UNCHANGED <<sctx, sslab, swork, app, call, reports, txq, aired, recvVars, wire, fcWire, order>>
  BY <1>1, <1>3 DEF SendCfQueued, linkVars, SendTypeInv, SendTypeOK
<1>5. sctx' = [sctx EXCEPT ![b] = sctx[b]]
  BY <1>1, <1>4
<1>6. Moves(b)
  <2>1. Ahead(b)' = Ahead(b) /\ InCf(b) /\ InCf(b)' /\ sctx[b].state = "SEND_CF" /\ sctx[b].bs \in 0..255
    BY <1>3, <1>4, LongFacts DEF Ahead, InCf, Working
  <2>2. SenderInv(b)'
    <3>1. SenderInv(b)
      BY DEF LinkInv
    <3>2. InSn(b)'
      BY <1>3, <1>4, <2>1, <3>1 DEF InSn, SenderInv
    <3> QED BY <1>3, <1>4, <2>1, <3>1, <3>2 DEF SenderInv
  <2>3. \A f \in Driver' : f.blk = b => Queued(b, f)'
    <3>1. ASSUME NEW f \in Driver, f.blk = b PROVE Queued(b, f)'
      <4>1. Queued(b, f)
        BY <3>1 DEF LinkInv, DriverInv
      <4> QED BY <1>3, <1>4, <2>1, <4>1 DEF Queued, Shape
    <3> QED BY <1>4, <3>1 DEF Driver
  <2>4. ~Parked(b)
    BY <1>3 DEF Parked
  <2>5. Reach(b)' = Reach(b) /\ Reach(b) \in Int
    <3>1. Ahead(b) \in Nat
      BY <1>3, LongFacts
    <3> QED BY <1>4, <2>1, <3>1 DEF Reach
  <2> QED BY <1>3, <1>4, <2>2, <2>3, <2>4, <2>5 DEF Moves, ReachOf
<1> QED BY <1>2, <1>3, <1>4, <1>5, <1>6, ContextMoves

\* The bookkeeping of send_cf moves the sequence number and the block counter.
LEMMA CountedOn == \A c \in SendCtx :
  LET d == Counted(c, 0) IN
  /\ d.sn = NextSn(c.sn) /\ d.bs = Byte(c.bs - 1)
  /\ AwaitFc(d).sn = d.sn /\ AfterLast(d).sn = d.sn /\ [d EXCEPT !.state = "WAIT_ST"].sn = d.sn
  /\ AwaitFc(d).bs = d.bs /\ AfterLast(d).bs = d.bs /\ [d EXCEPT !.state = "WAIT_ST"].bs = d.bs
<1> TAKE c \in SendCtx
<1>1. PICK d \in SendCtx : d = Counted(c, 0)
  BY CountedTyped
<1>2. d.sn = NextSn(c.sn) /\ d.bs = Byte(c.bs - 1)
  BY <1>1, CtxFields DEF Counted
<1>3. /\ AwaitFc(d).sn = d.sn /\ AfterLast(d).sn = d.sn /\ [d EXCEPT !.state = "WAIT_ST"].sn = d.sn
      /\ AwaitFc(d).bs = d.bs /\ AfterLast(d).bs = d.bs /\ [d EXCEPT !.state = "WAIT_ST"].bs = d.bs
  BY CtxFields DEF AwaitFc, AfterLast
<1> QED BY <1>1, <1>2, <1>3

\* After a consecutive frame the thread stops at the end of the block, or goes on.
LEMMA CfCountedKeeps ==
  ASSUME Cooperative, LinkInv, SendCfCounted, UNCHANGED <<recvVars, linkVars>>
  PROVE  LinkInv'
<1>1. SendTypeInv /\ SendInv /\ AirInv /\ sctx \in [SendBlock -> SendCtx] /\ Bs > 0
  BY DEF LinkInv, Halves, SendTypeInv, SendTypeOK, Cooperative
<1>2. SendTypeInv' /\ SendInv' /\ AirInv'
  BY <1>1, CfCountedTyped, CfCountedSafe, CfCountedAir
<1>3. PICK b \in SendBlock : /\ srun.blk = b /\ srun.pc = "cfLoaded" /\ Using(b) /\ ~HasSf(b) /\ Working(b)
                             /\ b # NoBlock
  BY <1>1, RunHolds DEF SendCfCounted, Using
<1>4. PICK e \in SendCtx : e = Counted(sctx[b], 0)
  BY <1>1, CountedTyped
<1>5. /\ Kept(e, sctx[b]) /\ Kin(e, sctx[b]) /\ e.state = "SEND_CF" /\ srun.reg = 0
      /\ sctx[b].state = "SEND_CF" /\ HasFrame(b) /\ sctx[b] \in SendCtx
  BY <1>1, <1>3, <1>4, CountedFields, CountedKeeps DEF Working
<1>6. /\ UNCHANGED <<sslab, swork, app, call, reports, txq, aired, recvVars, wire, fcWire, order>>
      /\ \/ sctx' = [sctx EXCEPT ![b] = AfterLast(e)] /\ srun' = NoRun /\ e.rem = 0
         \/ sctx' = [sctx EXCEPT ![b] = AwaitFc(e)] /\ srun' = NoRun /\ e.rem > 0
         \/ sctx' = [sctx EXCEPT ![b] = [e EXCEPT !.state = "WAIT_ST"]] /\ srun' = NoRun /\ e.rem > 0 /\ e.bs # 0
         \/ sctx' = [sctx EXCEPT ![b] = e] /\ srun' = Running("sem", b) /\ e.rem > 0 /\ e.bs # 0
  <2>1. e = [sctx[b] EXCEPT !.backlog = Byte(srun.reg + 1), !.sn = NextSn(@), !.bs = Byte(@ - 1)]
    BY <1>4, <1>5 DEF Counted
  <2> QED BY <1>1, <1>3, <2>1 DEF SendCfCounted, linkVars
<1>7. PICK d : /\ sctx' = [sctx EXCEPT ![b] = d] /\ Kept(d, e) /\ Kin(d, e) /\ d.sn = e.sn /\ d.bs = e.bs
               /\ \/ srun' = NoRun /\ d.state = "WAIT_BACKLOG" /\ d.rem = 0
                  \/ srun' = NoRun /\ d.state = "WAIT_FC"
                  \/ srun' = NoRun /\ d.state = "WAIT_ST" /\ d.bs # 0
                  \/ srun' = Running("sem", b) /\ d.state = "SEND_CF" /\ d.bs # 0
  <2>1. /\ AwaitFc(e).sn = e.sn /\ AfterLast(e).sn = e.sn /\ [e EXCEPT !.state = "WAIT_ST"].sn = e.sn
        /\ AwaitFc(e).bs = e.bs /\ AfterLast(e).bs = e.bs /\ [e EXCEPT !.state = "WAIT_ST"].bs = e.bs
    BY <1>4, <1>5, CountedOn
  <2>2. /\ Kept(AwaitFc(e), e) /\ Kept(AfterLast(e), e) /\ Kept([e EXCEPT !.state = "WAIT_ST"], e) /\ Kept(e, e)
        /\ Kin(AwaitFc(e), e) /\ Kin(AfterLast(e), e) /\ Kin([e EXCEPT !.state = "WAIT_ST"], e) /\ Kin(e, e)
        /\ AwaitFc(e).state = "WAIT_FC" /\ AfterLast(e).state = "WAIT_BACKLOG"
        /\ [e EXCEPT !.state = "WAIT_ST"].state = "WAIT_ST"
    BY WaitingKeeps, AwaitFcFields, AfterLastFields, StFields DEF Kept, Kin
  <2>3. CASE sctx' = [sctx EXCEPT ![b] = AfterLast(e)] /\ srun' = NoRun /\ e.rem = 0
    BY <2>1, <2>2, <2>3 DEF Kept
  <2>4. CASE sctx' = [sctx EXCEPT ![b] = AwaitFc(e)] /\ srun' = NoRun /\ e.rem > 0
    BY <2>1, <2>2, <2>4
  <2>5. CASE sctx' = [sctx EXCEPT ![b] = [e EXCEPT !.state = "WAIT_ST"]] /\ srun' = NoRun /\ e.rem > 0 /\ e.bs # 0
    BY <2>1, <2>2, <2>5
  <2>6. CASE sctx' = [sctx EXCEPT ![b] = e] /\ srun' = Running("sem", b) /\ e.rem > 0 /\ e.bs # 0
    BY <1>5, <2>1, <2>2, <2>6
  <2> QED BY <1>6, <2>3, <2>4, <2>5, <2>6
<1>8. sctx'[b] = d /\ d.arg = sctx[b].arg /\ d.addr = sctx[b].addr /\ d.rem = sctx[b].rem
  BY <1>1, <1>5, <1>7 DEF Kept, Kin
<1>9. /\ sctx[b].rem \in Nat /\ sctx[b].rem <= Cfs[sctx[b].arg] /\ Cfs[sctx[b].arg] \in Nat
      /\ sctx[b].bs \in 1..255 /\ sctx[b].sn = (Ahead(b) - 1) % SnMod
      /\ Ahead(b) = Cfs[sctx[b].arg] + 1 - sctx[b].rem /\ Ahead(b)' = Ahead(b)
  <2>1. /\ SenderInv(b) /\ sctx[b].bs \in 0..255 /\ sctx[b].rem \in Nat /\ Cfs[sctx[b].arg] \in Nat
        /\ Ahead(b) = Cfs[sctx[b].arg] + 1 - sctx[b].rem
    BY <1>3, LongFacts
  <2>2. InSn(b) /\ sctx[b].bs >= 1 /\ InCf(b)
    BY <1>3, <1>5, <2>1 DEF SenderInv, InCf
  <2>3. Ahead(b)' = Ahead(b)
    BY <1>8 DEF Ahead
  <2> QED BY <2>1, <2>2, <2>3 DEF InSn
<1>10. d.bs = sctx[b].bs - 1
  <2>1. d.bs = Byte(sctx[b].bs - 1)
    BY <1>4, <1>5, <1>7, CountedOn
  <2> QED BY <1>9, <2>1 DEF Byte
<1>11. d.sn = Ahead(b) % SnMod
  <2>1. d.sn = (((Ahead(b) - 1) % SnMod) + 1) % SnMod
    BY <1>4, <1>5, <1>7, <1>9, CountedOn DEF NextSn
  <2>2. PICK x \in Nat : x = Ahead(b) - 1
    BY <1>9
  <2>3. ((x % SnMod) + 1) % SnMod = (x + 1) % SnMod
    BY SnSucceeds, CommonAssumption DEF CommonAssumption
  <2>4. x + 1 = Ahead(b)
    BY <1>9, <2>2
  <2> QED BY <2>1, <2>2, <2>3, <2>4
<1>12. ~InCf(b)' /\ ~(srun'.blk = b /\ srun'.pc = "ffSent") /\ srun'.blk \in {b, NoBlock}
  BY <1>3, <1>7 DEF InCf, NoRun, Running
<1>13. Moves(b)
  <2>1. SenderInv(b)'
    <3>1. InSn(b)'
      BY <1>7, <1>8, <1>9, <1>11, <1>12 DEF InSn
    <3>2. d.state \in {"SEND_CF", "WAIT_ST"} => d.bs >= 1
      BY <1>7, <1>9, <1>10
    <3>3. HasFrame(b)'
      BY <1>5, <1>6 DEF HasFrame
    <3> QED BY <1>7, <1>8, <1>12, <3>1, <3>2, <3>3 DEF SenderInv
  <2>2. \A f \in Driver' : f.blk = b => Queued(b, f)'
    <3>1. ASSUME NEW f \in Driver, f.blk = b PROVE Queued(b, f)'
      <4>1. Queued(b, f)
        BY <3>1 DEF LinkInv, DriverInv
      <4> QED BY <1>3, <1>5, <1>9, <4>1 DEF Queued, Shape
    <3> QED BY <1>6, <3>1 DEF Driver
  <2>3. ~Parked(b)
    BY <1>3 DEF Parked
  <2>4. Reach(b) = Ahead(b) + sctx[b].bs - 1
    BY <1>3, <1>5, <1>9 DEF Reach, InCf
  <2>5. Reach(b)' \in {Ahead(b), Ahead(b) + d.bs}
    BY <1>7, <1>8, <1>9, <1>10, <1>12 DEF Reach
  <2>6. Reach(b)' \in Int /\ Reach(b)' <= Reach(b)
    <3>1. PICK x \in Int, y \in 1..255 : x = Ahead(b) /\ y = sctx[b].bs
      <4>1. Ahead(b) \in Nat /\ sctx[b].bs \in 1..255
        BY <1>3, <1>9, LongFacts
      <4> QED BY <4>1
    <3>2. PICK p, q : p = Reach(b) /\ q = Reach(b)'
      OBVIOUS
    <3>3. p = x + y - 1 /\ q \in {x, x + (y - 1)}
      BY <1>10, <2>4, <2>5, <3>1, <3>2
    <3>4. q \in Int /\ q <= p
      BY <3>1, <3>3
    <3> QED BY <3>2, <3>4
  <2> QED BY <1>3, <1>8, <2>1, <2>2, <2>3, <2>6 DEF Moves, ReachOf
<1> QED BY <1>2, <1>3, <1>6, <1>7, <1>8, <1>12, <1>13, ContextMoves

\* rem_len moves on: the sequence number and the block counter stay.
LEMMA AdvanceOn == \A c \in SendCtx :
  LET d == [Advance(c) EXCEPT !.pending = @ + 1] e == [c EXCEPT !.sn = 1 % SnMod] IN
  /\ d.sn = c.sn /\ d.bs = c.bs
  /\ e \in SendCtx /\ e.sn = 1 % SnMod /\ e.bs = c.bs /\ Kept(e, c) /\ Kin(e, c) /\ e.state = c.state
<1> TAKE c \in SendCtx
<1>1. [Advance(c) EXCEPT !.pending = @ + 1].sn = c.sn /\ [Advance(c) EXCEPT !.pending = @ + 1].bs = c.bs
  BY CtxFields DEF Advance
<1>2. [c EXCEPT !.sn = 1 % SnMod] \in SendCtx
  BY PutSn, SnRange
<1> QED BY <1>1, <1>2, CtxFields DEF Kept, Kin

\* The next part of the message goes into the driver's queue.
LEMMA NextKeeps ==
  ASSUME LinkInv, NEW b \in SendBlock, Using(b), ~HasFrame(b), srun.blk \in {b, NoBlock},
         NEW c \in SendCtx, Kept(c, sctx[b]), Kin(c, sctx[b]), c.bs = sctx[b].bs, c.rem > 0,
         NEW d \in SendCtx, Past(d, c), Kin(d, c), d.sn = c.sn, d.bs = c.bs, d.state = sctx[b].state,
         NEW kind \in {"FF", "CF"}, NEW sn \in 0..(SnMod - 1),
         IF kind = "FF"
         THEN /\ sctx[b].state = "SEND_FF" /\ srun.blk # b /\ srun' = Running("ffSent", b)
              /\ c.sn = 1 % SnMod
         ELSE /\ sctx[b].state = "SEND_CF" /\ ~InCf(b) /\ srun' = Running("cfSent", b)
              /\ sn = c.sn /\ c.sn = sctx[b].sn,
         txq' = Append(txq, NextFrame(c, b, kind, sn)), sctx' = [sctx EXCEPT ![b] = d],
         swork \ {b} \subseteq swork',
         UNCHANGED <<sslab, app, call, reports, aired, recvVars, wire, fcWire, order>>,
         SendTypeInv', SendInv', AirInv'
  PROVE  LinkInv'
<1>1. /\ SendTypeInv /\ SendInv /\ AirInv /\ sctx \in [SendBlock -> SendCtx] /\ txq \in Seq(Frame)
      /\ b # NoBlock
  BY SendAssumption DEF LinkInv, Halves, SendTypeInv, SendTypeOK, SendAssumption
<1>2. ~HasSf(b)
  BY DEF HasSf, HasFrame
<1>3. PICK m \in Msg : m = sctx[b].arg
  BY UsedFacts
<1>4. /\ c.data = m /\ c.arg = m /\ Cfs[m] \in Nat \ {0} /\ c.rem \in Nat /\ c.rem <= Cfs[m] + 1
      /\ Ahead(b) = Cfs[m] + 1 - c.rem /\ sctx[b].rem = c.rem /\ c.rem >= 1
  BY <1>1, <1>2, <1>3, LongFacts DEF Kept, Using
<1>5. PICK f \in Frame : /\ txq' = Append(txq, f) /\ f.kind = kind /\ f.msg = m /\ f.len = c.rem /\ f.sn = sn
                         /\ f.blk = b /\ f.idx = Cfs[m] + 1 - c.rem
  <2>1. NextFrame(c, b, kind, sn) \in Frame
    BY FrameTyped
  <2>2. m # NoMsg
    BY CommonAssumption DEF CommonAssumption
  <2> QED BY <1>4, <2>1, <2>2 DEF NextFrame
<1>6. /\ sctx'[b] = d /\ d.arg = m /\ d.rem = c.rem - 1 /\ d.addr = sctx[b].addr
  BY <1>1, <1>3, <1>4 DEF Past, Kin
<1>7. Ahead(b)' = Cfs[m] + 1 - (c.rem - 1)
  BY <1>6 DEF Ahead
<1>8. \A g \in Driver' : g.blk = b => g = f
  <2>1. Driver' = Driver \cup {f}
    BY <1>1, <1>5, DriverAppend
  <2> QED BY <2>1, DriverHas
<1>9. ~Parked(b) /\ SenderInv(b)
  BY DEF Parked, LinkInv
<1>10. Moves(b)
  <2>1. CASE kind = "FF"
    <3>1. srun'.blk = b /\ srun'.pc = "ffSent" /\ ~InCf(b)' /\ d.state = "SEND_FF" /\ sctx[b].state = "SEND_FF"
      BY <2>1 DEF Running, InCf
    <3>2. c.rem = Cfs[m] + 1
      BY <1>1, <1>2, <1>3, <1>4, <2>1, LongFacts DEF Sending, Phase, Kept
    <3>3. Ahead(b)' = 1 /\ d.rem = Cfs[m] /\ f.idx = 0 /\ f.len = Cfs[m] + 1
      BY <1>4, <1>5, <1>6, <1>7, <3>2
    <3>4. InSn(b)'
      BY <1>4, <1>6, <2>1, <3>1, <3>3 DEF InSn
    <3>5. HasFrame(b)'
      BY <1>1, <1>5, AppendQ
    <3>6. SenderInv(b)'
      BY <1>6, <3>1, <3>3, <3>4, <3>5 DEF SenderInv
    <3>7. Queued(b, f)'
      BY <1>4, <1>5, <2>1, <3>1, <3>3 DEF Queued, Shape
    <3>8. Reach(b) = 1 /\ Reach(b)' = 1
      BY <1>6, <3>1 DEF Reach
    <3>9. ReachOf(b)
      BY <1>3, <1>6, <3>8 DEF ReachOf
    <3> QED BY <1>8, <1>9, <2>1, <3>6, <3>7, <3>9 DEF Moves, Parked
  <2>2. CASE kind = "CF"
    <3>1. srun'.blk = b /\ srun'.pc = "cfSent" /\ InCf(b)' /\ d.state = "SEND_CF" /\ sctx[b].state = "SEND_CF"
      BY <2>2 DEF Running, InCf
    <3>2. c.rem <= Cfs[m] /\ c.sn = Ahead(b) % SnMod /\ c.bs >= 1 /\ c.bs \in 0..255
      <4>1. InSn(b) /\ sctx[b].bs >= 1
        BY <1>9, <3>1 DEF SenderInv
      <4>2. sctx[b].bs \in 0..255
        BY <1>1, <1>2, LongFacts
      <4> QED BY <1>3, <1>4, <2>2, <4>1, <4>2 DEF InSn
    <3>3. PICK x \in Nat : x = Cfs[m] + 1 - c.rem /\ x \in 1..Cfs[m]
      BY <1>4, <3>2
    <3>4. Ahead(b) = x /\ Ahead(b)' = x + 1 /\ f.idx = x /\ f.sn = x % SnMod /\ d.rem <= Cfs[m]
      <4>1. Ahead(b) = x /\ f.idx = x
        BY <1>4, <1>5, <3>3
      <4>2. Ahead(b)' = x + 1 /\ d.rem <= Cfs[m]
        BY <1>4, <1>6, <1>7, <3>2, <3>3
      <4> QED BY <1>5, <2>2, <3>2, <4>1, <4>2
    <3>5. InSn(b)'
      <4>1. d.sn = x % SnMod /\ (x + 1) - 1 = x
        BY <2>2, <3>2, <3>3, <3>4
      <4> QED BY <1>6, <3>1, <3>4, <4>1 DEF InSn
    <3>6. HasFrame(b)'
      BY <1>1, <1>5, AppendQ
    <3>7. SenderInv(b)'
      BY <1>6, <3>1, <3>2, <3>5, <3>6 DEF SenderInv
    <3>8. Queued(b, f)'
      <4>1. Ahead(b)' - 1 = x
        BY <3>3, <3>4
      <4>2. Shape(f)'
        BY <1>5, <2>2, <3>3, <3>4 DEF Shape
      <4> QED BY <1>5, <2>2, <3>4, <4>1, <4>2 DEF Queued
    <3>9. ReachOf(b)
      <4>1. Reach(b) = x + c.bs - 0 /\ Reach(b)' = (x + 1) + c.bs - 1
        BY <1>6, <2>2, <3>1, <3>4 DEF Reach
      <4>2. PICK y \in 0..255 : y = c.bs
        BY <3>2
      <4>3. x + y - 0 = (x + 1) + y - 1 /\ x + y - 0 \in Int
        OBVIOUS
      <4>4. Reach(b)' = Reach(b) /\ Reach(b) \in Int
        BY <4>1, <4>2, <4>3
      <4> QED BY <1>3, <1>6, <4>4 DEF ReachOf
    <3> QED BY <1>8, <2>2, <3>1, <3>7, <3>8, <3>9 DEF Moves, Parked
  <2> QED BY <2>1, <2>2
<1>11. srun' = srun \/ {srun.blk, srun'.blk} \subseteq {b, NoBlock}
  BY DEF Running
<1>12. txq' = txq \/ \E g \in Frame : g.blk = b /\ txq' = Append(txq, g)
  BY <1>5
<1>13. d.arg = sctx[b].arg
  BY <1>3, <1>6
<1> QED BY <1>10, <1>11, <1>12, <1>13, ContextMoves

\* A consecutive frame goes into the driver's queue.
LEMMA SendCfKeeps ==
  ASSUME Cooperative, LinkInv, NEW b \in SendBlock, Using(b), ~HasFrame(b), srun.blk \in {b, NoBlock},
         ~InCf(b), sctx[b].state = "SEND_CF", sctx[b].rem > 0,
         NEW c \in SendCtx, Kept(c, sctx[b]), Kin(c, sctx[b]), c.bs = sctx[b].bs, c.sn = sctx[b].sn,
         c.state = "SEND_CF", SendCf(b, c), swork \ {b} \subseteq swork',
         UNCHANGED <<sslab, app, call, reports, aired, recvVars, wire, fcWire, order>>,
         SendTypeInv', SendInv', AirInv'
  PROVE  LinkInv'
<1>1. PICK d : d = [Advance(c) EXCEPT !.pending = @ + 1]
  OBVIOUS
<1>2. c.rem > 0
  BY DEF Kept
<1>3. d \in SendCtx /\ Past(d, c) /\ Kin(d, c) /\ d.state = c.state /\ d.sn = c.sn /\ d.bs = c.bs
  BY <1>1, <1>2, AdvancePast, AdvanceFields, AdvanceOn
<1>4. /\ txq' = Append(txq, NextFrame(c, b, "CF", c.sn)) /\ sctx' = [sctx EXCEPT ![b] = d]
      /\ srun' = Running("cfSent", b)
  BY <1>1 DEF SendCf, Cooperative, Polite, Fault
<1>5. c.sn \in 0..(SnMod - 1)
  BY DEF SendCtx
<1>6. PICK kind, sn : kind = "CF" /\ sn = c.sn
  OBVIOUS
<1> QED BY <1>2, <1>3, <1>4, <1>5, <1>6, NextKeeps

\* The thread wakes up and sends the next consecutive frame.
LEMMA SemTakenKeeps ==
  ASSUME Cooperative, LinkInv, SendSemTaken, UNCHANGED <<recvVars, linkVars>>
  PROVE  LinkInv'
<1>1. SendTypeInv /\ SendInv /\ AirInv
  BY DEF LinkInv, Halves
<1>2. SendTypeInv' /\ SendInv' /\ AirInv'
  BY <1>1, SemTakenTyped, SemTakenSafe, SemTakenAir
<1>3. PICK b \in SendBlock : srun.blk = b /\ srun.pc = "sem" /\ Using(b) /\ ~HasSf(b) /\ Working(b) /\ UsedBlock(b)
  BY <1>1, RunHolds DEF SendSemTaken, Using
<1>4. PICK c : c = [sctx[b] EXCEPT !.sem = 0]
  OBVIOUS
<1>5. /\ SendCf(b, c) /\ sctx[b].sem = 1
      /\ UNCHANGED <<sslab, swork, app, call, reports, aired, recvVars, wire, fcWire, order>>
  BY <1>3, <1>4 DEF SendSemTaken, linkVars
<1>6. sctx[b] \in SendCtx /\ Sending(b)
  BY <1>3, LongFacts
<1>7. /\ c \in SendCtx /\ Kept(c, sctx[b]) /\ Kin(c, sctx[b]) /\ c.state = sctx[b].state
      /\ c.bs = sctx[b].bs /\ c.sn = sctx[b].sn
  <2>1. c \in SendCtx /\ Kin(c, sctx[b]) /\ c.state = sctx[b].state
    BY <1>4, <1>6, SemTaken
  <2>2. Kept(c, sctx[b])
    BY <1>4, <1>6, TimersKeep
  <2>3. c.bs = sctx[b].bs /\ c.sn = sctx[b].sn
    BY <1>4, <1>6, CtxFields
  <2> QED BY <2>1, <2>2, <2>3
<1>8. sctx[b].state = "SEND_CF" /\ ~InCf(b) /\ ~HasFrame(b)
  BY <1>3, <1>5 DEF Working, InCf
<1>9. sctx[b].rem > 0
  BY <1>6, <1>8, <1>3 DEF Sending, Phase, InCf
<1> QED BY <1>2, <1>3, <1>5, <1>7, <1>8, <1>9, SendCfKeeps

\* Nothing of the context changes that the frames depend on.
LEMMA QuietMoves ==
  ASSUME LinkInv, NEW b \in SendBlock, Using(b), ~HasSf(b), srun.blk # b, NEW d,
         sctx' = [sctx EXCEPT ![b] = d], Kept(d, sctx[b]), Kin(d, sctx[b]),
         d.sn = sctx[b].sn, d.bs = sctx[b].bs,
         d.state = sctx[b].state \/ (sctx[b].state = "WAIT_ST" /\ d.state = "SEND_CF"),
         swork \ {b} \subseteq swork', d.state = "WAIT_FIN" => b \in swork',
         UNCHANGED <<sslab, srun, app, call, reports, txq, aired, recvVars, wire, fcWire, order>>,
         SendTypeInv', SendInv', AirInv'
  PROVE  LinkInv'
<1>1. sctx'[b] = d
  BY DEF LinkInv, Halves, SendTypeInv, SendTypeOK
<1>2. /\ SenderInv(b) /\ ~InCf(b) /\ ~InCf(b)' /\ Ahead(b)' = Ahead(b) /\ Ahead(b) \in Nat
      /\ sctx[b].bs \in 0..255
  BY <1>1, LongFacts DEF InCf, Ahead, Kept
<1>3. Using(b)' /\ (HasFrame(b)' <=> HasFrame(b))
  BY DEF Using, HasFrame
<1>4. InSn(b) => InSn(b)'
  BY <1>1, <1>2 DEF InSn, Kept
<1>5. SenderInv(b)'
  BY <1>1, <1>2, <1>3, <1>4 DEF SenderInv, Kin, Kept, Bus
<1>6. \A f \in Driver' : f.blk = b => Queued(b, f)'
  <2>1. ASSUME NEW f \in Driver, f.blk = b PROVE Queued(b, f)'
    <3>1. Queued(b, f)
      BY <2>1 DEF LinkInv, DriverInv
    <3> QED BY <1>1, <1>2, <3>1 DEF Queued, Shape
  <2> QED BY <2>1 DEF Driver
<1>7. Parked(b) => StillParked(b)
  BY <1>1, <1>2, <1>3 DEF Parked, StillParked, Kin
<1>8. ReachOf(b)
  <2>1. Reach(b)' = Reach(b)
    BY <1>1, <1>2 DEF Reach
  <2>2. Reach(b) \in Int
    <3>1. PICK x \in Int, y \in Int : x = Ahead(b) /\ y = sctx[b].bs
      BY <1>2
    <3>2. Reach(b) \in {1, x + y - 0, x}
      BY <1>2, <3>1 DEF Reach
    <3> QED BY <3>1, <3>2
  <2> QED BY <1>1, <2>1, <2>2 DEF ReachOf, Kin
<1>9. Moves(b)
  BY <1>5, <1>6, <1>7, <1>8 DEF Moves
<1> QED BY <1>9, ContextMoves DEF Kin

\* The transfer is over: it is reported, and its context is free again.
LEMMA EndKeeps ==
  ASSUME LinkInv, NEW b \in SendBlock, srun = NoRun, b \in swork, swork' = swork \ {b},
         NEW res \in {"ok", "error"}, sctx[b].state = (IF res = "ok" THEN "WAIT_FIN" ELSE "ERR"), WorkEnd(b, res),
         UNCHANGED <<app, call, aired, recvVars, wire, fcWire, order>>,
         SendTypeInv', SendInv', AirInv'
  PROVE  LinkInv'
<1>1. SendTypeInv /\ SendInv /\ AirInv /\ sctx \in [SendBlock -> SendCtx]
  BY DEF LinkInv, Halves, SendTypeInv, SendTypeOK
<1>2. b \notin sslab /\ Using(b) /\ ~HasSf(b) /\ Waiting(b) /\ b # NoBlock /\ srun.blk = NoBlock
  BY <1>1, QueuedHolds DEF Using, NoRun
<1>3. /\ SenderInv(b) /\ sctx[b].rem \in Nat /\ sctx[b].rem <= Cfs[sctx[b].arg] + 1
      /\ Ahead(b) = Cfs[sctx[b].arg] + 1 - sctx[b].rem /\ Sending(b) /\ sctx[b] \in SendCtx
      /\ Cfs[sctx[b].arg] \in Nat \ {0}
  BY <1>2, LongFacts
<1>4. PICK m \in Msg : /\ sctx[b].arg = m /\ Accepted(m) /\ reports[m] = <<>> /\ Dest[m] = sctx[b].addr
                       /\ sctx[b].home = "ctx"
  BY <1>1, <1>2, UsedFacts, CarriesOne DEF Using
<1>5. /\ srun' = srun /\ txq' = txq /\ sslab' = sslab \cup {b}
      /\ \A c \in SendBlock \ {b} : sctx'[c] = sctx[c]
  BY <1>1 DEF WorkEnd
<1>6. reports' = [reports EXCEPT ![m] = Append(reports[m], res)] /\ reports \in [Msg -> Seq({"ok", "error"})]
  <2>1. [sctx[b] EXCEPT !.state = "RESET"].home = "ctx" /\ [sctx[b] EXCEPT !.state = "RESET"].arg = m
    BY <1>3, <1>4, EndFields
  <2>2. m # NoMsg
    BY CommonAssumption DEF CommonAssumption
  <2> QED BY <1>1, <2>1, <2>2 DEF WorkEnd, ReportFor, SendTypeInv, SendTypeOK
<1>7. /\ reports'[m] = <<res>> /\ \A n \in Msg \ {m} : reports'[n] = reports[n]
  BY <1>4, <1>6
<1>8. ASSUME NEW c \in SendBlock \ {b} PROVE Calm(c)
  <2>1. HasFrame(c)' <=> HasFrame(c)
    BY <1>5 DEF HasFrame
  <2> QED BY <1>5, <1>8, <2>1 DEF Calm
<1>9. ~Using(b)'
  BY <1>5 DEF Using
<1>10. Driver' = Driver
  BY <1>5 DEF Driver
<1>11. ~Parked(b)
  BY DEF Parked
<1>12. Moves(b)
  <2>1. \A f \in Driver' : f.blk # b
    BY <1>2, <1>10, DriverHas DEF Waiting
  <2> QED BY <1>9, <1>11, <2>1 DEF Moves, SenderInv, ReachOf
<1>13. \A n : Aired(n)' = Aired(n)
  BY DEF Aired
<1>14. Airs
  BY <1>13 DEF Airs
<1>15. Answered
  <2>1. NoWire(Dest[m]) \/ Reach(b) = Cfs[m] + 1
    <3>1. CASE res = "error"
      BY <1>2, <1>3, <1>4, <3>1 DEF SenderInv, NoWire
    <3>2. CASE res = "ok"
      <4>1. sctx[b].rem = 0 /\ sctx[b].state = "WAIT_FIN"
        BY <1>3, <3>2 DEF Sending, Phase
      <4>2. Reach(b) = Ahead(b)
        BY <4>1 DEF Reach
      <4> QED BY <1>3, <1>4, <4>1, <4>2
    <3> QED BY <3>1, <3>2
  <2> QED BY <1>2, <1>4, <1>7, <2>1 DEF Answered
<1>16. TruthInv'
  <2>1. ASSUME res = "error" PROVE Cfs[m] \notin Aired(m)
    <3>1. \A j \in DOMAIN aired[m] : aired[m][j] < Ahead(b)
      BY <1>3, <1>4 DEF Sending, Counts
    <3>2. Ahead(b) <= Cfs[m]
      BY <1>2, <1>3, <1>4, <2>1 DEF SenderInv
    <3>3. SUFFICES ASSUME NEW j \in DOMAIN aired[m], aired[m][j] = Cfs[m] PROVE FALSE
      BY DEF Aired
    <3>4. Cfs[m] < Ahead(b)
      BY <3>1, <3>3
    <3>5. PICK x \in Nat, y \in Int : x = Cfs[m] /\ y = Ahead(b)
      BY <1>3, <1>4
    <3> QED BY <3>2, <3>4, <3>5
  <2>2. res = "ok" => \A i \in DOMAIN reports'[m] : reports'[m][i] # "error"
    BY <1>7
  <2> QED BY <1>7, <1>13, <2>1, <2>2 DEF TruthInv, LinkInv
<1>17. OrderInv'
  BY <1>4, <1>7, <1>8, OrderStays
<1> QED BY <1>8, <1>10, <1>12, <1>14, <1>15, <1>16, <1>17, SenderMoves

\* The work queue runs a context.
LEMMA SendWorkKeeps ==
  ASSUME Cooperative, LinkInv, NEW b \in SendBlock, SendWork(b), UNCHANGED <<recvVars, linkVars>>
  PROVE  LinkInv'
<1>1. SendTypeInv /\ SendInv /\ AirInv /\ sctx \in [SendBlock -> SendCtx]
  BY DEF LinkInv, Halves, SendTypeInv, SendTypeOK
<1>2. SendTypeInv' /\ SendInv' /\ AirInv'
  BY <1>1, WorkStepTyped, WorkSafe, WorkAir
<1>3. /\ srun = NoRun /\ b \in swork /\ swork' = swork \ {b}
      /\ UNCHANGED <<app, call, aired, recvVars, wire, fcWire, order>>
  BY DEF SendWork, linkVars
<1>4. /\ Using(b) /\ ~HasSf(b) /\ Waiting(b) /\ srun.blk = NoBlock /\ srun.pc = "idle" /\ b # NoBlock
      /\ sctx[b] \in SendCtx
  BY <1>1, <1>3, QueuedHolds DEF Using, NoRun
<1>5. ~InCf(b) /\ Sending(b)
  BY <1>4, LongFacts DEF InCf
<1>6. CASE sctx[b].state = "SEND_FF" /\ SendFf(b) /\ UNCHANGED <<sslab, reports>>
  <2>1. PICK c : c = [sctx[b] EXCEPT !.sn = 1 % SnMod]
    OBVIOUS
  <2>2. PICK d : d = [Advance(c) EXCEPT !.pending = @ + 1]
    OBVIOUS
  <2>3. /\ c \in SendCtx /\ c.sn = 1 % SnMod /\ c.bs = sctx[b].bs /\ Kept(c, sctx[b]) /\ Kin(c, sctx[b])
        /\ c.state = sctx[b].state
    BY <1>4, <2>1, AdvanceOn
  <2>4. c.rem > 0
    BY <1>4, <1>5, <1>6, <2>3, LongFacts DEF Kept, Sending, Phase
  <2>5. d \in SendCtx /\ Past(d, c) /\ Kin(d, c) /\ d.state = c.state /\ d.sn = c.sn /\ d.bs = c.bs
    BY <2>2, <2>3, <2>4, AdvancePast, AdvanceFields, AdvanceOn
  <2>6. /\ txq' = Append(txq, NextFrame(c, b, "FF", 0)) /\ sctx' = [sctx EXCEPT ![b] = d]
        /\ srun' = Running("ffSent", b)
    BY <1>6, <2>1, <2>2 DEF SendFf, Cooperative, Polite, Fault
  <2>7. 0 \in 0..(SnMod - 1) /\ ~HasFrame(b)
    BY <1>4, <1>6, CommonAssumption DEF CommonAssumption, Waiting
  <2>8. PICK kind, sn : kind = "FF" /\ sn = 0
    OBVIOUS
  <2> QED BY <1>2, <1>3, <1>4, <1>6, <2>3, <2>4, <2>5, <2>6, <2>7, <2>8, NextKeeps
<1>7. CASE sctx[b].state = "SEND_CF" /\ SendCf(b, [sctx[b] EXCEPT !.timer = FALSE]) /\ UNCHANGED <<sslab, reports>>
  <2>1. PICK c : c = [sctx[b] EXCEPT !.timer = FALSE]
    OBVIOUS
  <2>2. c \in SendCtx /\ Kin(c, sctx[b]) /\ c.state = sctx[b].state
    BY <1>4, <2>1, StopFields
  <2>3. Kept(c, sctx[b]) /\ c.bs = sctx[b].bs /\ c.sn = sctx[b].sn
    BY <1>4, <2>1, TimersKeep, CtxFields
  <2>4. ~HasFrame(b) /\ sctx[b].rem > 0
    BY <1>4, <1>5, <1>7 DEF Waiting, Sending, Phase, InCf
  <2> QED BY <1>2, <1>3, <1>4, <1>5, <1>7, <2>1, <2>2, <2>3, <2>4, SendCfKeeps
<1>8. CASE sctx[b].state = "WAIT_ST" /\ WorkWaitSt(b)
  <2>1. PICK d : d = [sctx[b] EXCEPT !.timer = TRUE, !.state = "SEND_CF"]
    OBVIOUS
  <2>2. Kin(d, sctx[b]) /\ Kept(d, sctx[b]) /\ d.state = "SEND_CF"
    BY <1>4, <2>1, WaitStFields, TimersKeep
  <2>3. d.bs = sctx[b].bs /\ d.sn = sctx[b].sn
    BY <1>4, <2>1, CtxFields
  <2>4. sctx' = [sctx EXCEPT ![b] = d] /\ UNCHANGED <<srun, sslab, reports, txq>>
    BY <1>3, <1>8, <2>1 DEF WorkWaitSt
  <2> QED BY <1>2, <1>3, <1>4, <1>8, <2>2, <2>3, <2>4, QuietMoves
<1>9. CASE sctx[b].state = "ERR" /\ WorkEnd(b, "error")
  <2>1. PICK res \in {"ok", "error"} : res = "error"
    OBVIOUS
  <2> QED BY <1>2, <1>3, <1>9, <2>1, EndKeeps
<1>10. CASE sctx[b].state = "WAIT_FIN" /\ WorkEnd(b, "ok")
  <2>1. PICK res \in {"ok", "error"} : res = "ok"
    OBVIOUS
  <2> QED BY <1>2, <1>3, <1>10, <2>1, EndKeeps
<1>11. CASE sctx[b].state \in {"RESET", "WAIT_FC", "WAIT_BACKLOG"} /\ WorkIgnored
  <2>1. PICK d : d = sctx[b]
    OBVIOUS
  <2>2. Kin(d, sctx[b]) /\ Kept(d, sctx[b]) /\ d.bs = sctx[b].bs /\ d.sn = sctx[b].sn
    BY <2>1 DEF Kin, Kept
  <2>3. sctx' = [sctx EXCEPT ![b] = d] /\ UNCHANGED <<srun, sslab, reports, txq>>
    BY <1>1, <1>3, <1>11, <2>1 DEF WorkIgnored
  <2> QED BY <1>2, <1>3, <1>4, <1>11, <2>1, <2>2, <2>3, QuietMoves
<1> QED BY <1>6, <1>7, <1>8, <1>9, <1>10, <1>11 DEF SendWork

\* When nothing is under way, no reception asks for flow control.
LEMMA QuietAsks ==
  ASSUME LinkInv, wire = <<>>, fcq = <<>>, rwork = {}, rrun = NoRRun, fcWire = <<>>
  PROVE  NobodyAsks
<1>1. Bus = {}
  BY DEF Bus
<1>2. ASSUME NEW r \in RecvBlock \ rslab PROVE ~Asking(r)
  <2>1. Lives(r)
    BY <1>2 DEF LinkInv, Halves, ContextsInv, ContextSound, InUse
  <2>2. NoRRun.blk = NoBlock /\ NoBlock \notin RecvBlock
    BY ReceiveAssumption DEF NoRRun, ReceiveAssumption
  <2>3. rctx[r].state = "WAIT_CF"
    BY <1>2, <2>1, <2>2 DEF Lives, RRunning
  <2> QED BY <2>3 DEF Asking, Asked, HasFc, FcComes
<1> QED BY <1>1, <1>2 DEF NobodyAsks

\* Flow control is overdue, or the separation time is over.
LEMMA SendTimeoutKeeps ==
  ASSUME Cooperative, LinkInv, NEW b \in SendBlock, SendTimeout(b), LinkQuiet, UNCHANGED <<recvVars, linkVars>>
  PROVE  LinkInv'
<1>1. SendTypeInv /\ SendInv /\ AirInv /\ Disciplined /\ sctx \in [SendBlock -> SendCtx]
  BY DEF LinkInv, Halves, SendTypeInv, SendTypeOK, Cooperative
<1>2. SendTypeInv' /\ SendInv' /\ AirInv'
  BY <1>1, TimeoutTyped, TimeoutSafe, TimeoutAir
<1>3. PICK d : d = [sctx[b] EXCEPT !.timer = FALSE, !.state = IF @ # "SEND_CF" THEN "ERR" ELSE @]
  OBVIOUS
<1>4. /\ sctx' = [sctx EXCEPT ![b] = d] /\ swork' = swork \cup {b} /\ sctx[b].timer
      /\ UNCHANGED <<sslab, srun, app, call, reports, txq, aired, recvVars, wire, fcWire, order>>
  BY <1>1, <1>3 DEF SendTimeout, linkVars
<1>5. Using(b) /\ ~HasSf(b) /\ ~HasFrame(b) /\ srun.blk # b /\ Waiting(b)
  <2>1. txq = <<>> /\ srun.blk = NoBlock /\ b # NoBlock
    BY SendAssumption DEF LinkQuiet, NoRun, SendAssumption
  <2>2. BlockInv(b)
    BY <1>1 DEF SendInv
  <2>3. b \notin sslab
    BY <1>4, <2>2 DEF BlockInv, FreeBlock
  <2> QED BY <1>4, <2>1, <2>2, <2>3 DEF BlockInv, UsedBlock, Fresh, Using, HasSf, HasFrame
<1>6. /\ SenderInv(b) /\ Sending(b) /\ sctx[b] \in SendCtx /\ Ahead(b) \in Nat /\ sctx[b].bs \in 0..255
      /\ sctx[b].rem \in Nat /\ Cfs[sctx[b].arg] \in Nat \ {0}
  BY <1>5, LongFacts
<1>7. /\ Kin(d, sctx[b]) /\ d.state = (IF sctx[b].state # "SEND_CF" THEN "ERR" ELSE "SEND_CF")
      /\ Kept(d, sctx[b]) /\ d.sn = sctx[b].sn /\ d.bs = sctx[b].bs
  <2>1. Kin(d, sctx[b]) /\ d.state = (IF sctx[b].state # "SEND_CF" THEN "ERR" ELSE "SEND_CF")
    BY <1>3, <1>6, TimeoutFields
  <2>2. Kept(d, sctx[b]) /\ d.sn = sctx[b].sn /\ d.bs = sctx[b].bs
    BY <1>3, <1>6, CtxFields DEF Kept
  <2> QED BY <2>1, <2>2
<1>8. CASE sctx[b].state = "SEND_CF"
  BY <1>2, <1>4, <1>5, <1>7, <1>8, QuietMoves
<1>9. CASE sctx[b].state # "SEND_CF"
  <2>1. sctx'[b] = d /\ d.state = "ERR" /\ Ahead(b)' = Ahead(b)
    <3>1. sctx'[b] = d /\ d.state = "ERR"
      BY <1>1, <1>4, <1>7, <1>9
    <3> QED BY <1>7, <3>1 DEF Ahead, Kept
  <2>2. sctx[b].state \in {"SEND_FF", "WAIT_FC", "WAIT_ST", "ERR"}
    <3>1. sctx[b].state # "WAIT_BACKLOG" /\ sctx[b].state # "WAIT_FIN"
      BY <1>5, <1>6 DEF SenderInv, LinkQuiet
    <3> QED BY <1>5, <1>6, <1>9, <3>1 DEF Waiting, SendCtx, TxState
  <2>3. sctx[b].rem > 0
    BY <1>5, <1>6, <2>2 DEF Sending, Phase, SenderInv
  <2>4. NobodyAsks /\ Bus' = {}
    BY <1>4, QuietAsks DEF LinkQuiet, NobodyAsks, Bus
  <2>5. SenderInv(b)'
    BY <1>4, <1>5, <1>7, <2>1, <2>3, <2>4 DEF SenderInv, Kept
  <2>6. \A f \in Driver' : f.blk # b
    BY <1>4, <1>5, DriverHas DEF Driver
  <2>7. ReachOf(b)
    <3>1. Reach(b)' = Ahead(b)
      BY <2>1 DEF Reach
    <3>2. PICK x \in Nat, y \in 0..255 : x = Ahead(b) /\ y = sctx[b].bs
      BY <1>6
    <3>3. CASE sctx[b].state = "SEND_FF"
      <4>1. x = 0
        BY <1>5, <1>6, <3>2, <3>3 DEF Sending, Phase, Ahead
      <4> QED BY <1>5, <1>7, <2>1, <3>1, <3>2, <3>3, <4>1 DEF ReachOf, Reach, Kin
    <3>4. CASE sctx[b].state \in {"WAIT_FC", "WAIT_ST", "ERR"}
      <4>1. Reach(b) \in {x, x + y - 0}
        BY <1>5, <3>2, <3>4 DEF Reach, InCf
      <4>2. x \in Int /\ x <= Reach(b)
        BY <4>1
      <4> QED BY <1>5, <1>7, <2>1, <3>1, <3>2, <4>2 DEF ReachOf, Kin
    <3> QED BY <2>2, <3>3, <3>4
  <2>8. Moves(b)
    BY <2>4, <2>5, <2>6, <2>7 DEF Moves
  <2> QED BY <1>2, <1>4, <1>5, <1>7, <2>8, ContextMoves DEF Kin
<1> QED BY <1>8, <1>9

\* What has been transmitted of each message once the driver is done with frame f.
LEMMA AiredGrows ==
  ASSUME LinkInv, NEW ok \in BOOLEAN, FrameDone(ok), NEW f, f = Head(txq), f.msg \in Msg
  PROVE  /\ \A m \in Msg : Aired(m)' = IF ok /\ m = f.msg THEN Aired(m) \cup {f.idx} ELSE Aired(m)
         /\ \A m \in Msg \ {f.msg} : aired'[m] = aired[m]
<1>1. aired \in [Msg -> Seq(Int)] /\ f.msg # NoMsg
  BY CommonAssumption DEF LinkInv, Halves, SendTypeInv, SendTypeOK, CommonAssumption
<1>2. aired' = IF ok THEN [aired EXCEPT ![f.msg] = Append(aired[f.msg], f.idx)] ELSE aired
  BY <1>1 DEF FrameDone
<1>3. \A m \in Msg \ {f.msg} : aired'[m] = aired[m]
  BY <1>1, <1>2
<1>4. \A m \in Msg \ {f.msg} : Aired(m)' = Aired(m)
  BY <1>3 DEF Aired
<1>5. CASE ~ok
  BY <1>2, <1>3, <1>5 DEF Aired
<1>6. CASE ok
  <2>1. PICK s \in Seq(Int) : s = aired[f.msg]
    BY <1>1
  <2>2. aired'[f.msg] = Append(s, f.idx)
    BY <1>1, <1>2, <1>6, <2>1
  <2>3. /\ DOMAIN s = 1..Len(s) /\ Len(s) \in Nat /\ DOMAIN Append(s, f.idx) = 1..(Len(s) + 1)
        /\ \A i \in 1..Len(s) : Append(s, f.idx)[i] = s[i]
        /\ Append(s, f.idx)[Len(s) + 1] = f.idx
    OBVIOUS
  <2>4. {Append(s, f.idx)[j] : j \in DOMAIN Append(s, f.idx)} = {s[j] : j \in DOMAIN s} \cup {f.idx}
    <3>1. \A j \in 1..(Len(s) + 1) : j \in 1..Len(s) \/ j = Len(s) + 1
      BY <2>3
    <3>2. \A j \in 1..Len(s) : j \in 1..(Len(s) + 1)
      BY <2>3
    <3>3. Len(s) + 1 \in 1..(Len(s) + 1)
      BY <2>3
    <3> QED BY <2>3, <3>1, <3>2, <3>3
  <2>5. PICK m \in Msg : m = f.msg
    OBVIOUS
  <2>6. Aired(m)' = Aired(m) \cup {f.idx}
    <3>1. Aired(m) = {s[j] : j \in DOMAIN s}
      BY <2>1, <2>5 DEF Aired
    <3>2. Aired(m)' = {Append(s, f.idx)[j] : j \in DOMAIN Append(s, f.idx)}
      BY <2>2, <2>5 DEF Aired
    <3> QED BY <2>4, <3>1, <3>2
  <2> QED BY <1>3, <1>4, <1>6, <2>5, <2>6
<1> QED BY <1>3, <1>5, <1>6

\* The frame the driver is done with, and the context it belongs to.
LEMMA HeadFrame ==
  ASSUME Cooperative, LinkInv, NEW ok \in BOOLEAN, FrameDone(ok)
  PROVE  \E b \in SendBlock, f \in Frame :
    /\ f = Head(txq) /\ f.blk = b /\ Using(b) /\ HasFrame(b) /\ ~Parked(b) /\ f.msg \in Msg
    /\ sctx[b].arg = f.msg /\ Queued(b, f) /\ Shape(f) /\ (HasSf(b) <=> f.kind = "SF")
    /\ \A x \in Aired(f.msg) : x < f.idx
    /\ srun.blk = b => srun.pc = "sem"
    /\ IF f.kind = "SF" THEN SentSingleCb(b, ok) ELSE SendCanTxCallback(b)
    /\ \A c \in SendBlock \ {b} : Calm(c)
    /\ ~HasFrame(b)' /\ (\A x \in Driver' : x \in Driver /\ x.blk # b)
    /\ UNCHANGED <<srun, app, call>>
<1>1. SendTypeInv /\ SendInv /\ AirInv /\ txq \in Seq(Frame) /\ sctx \in [SendBlock -> SendCtx]
  BY DEF LinkInv, Halves, SendTypeInv, SendTypeOK
<1>2. PICK f \in Frame : f = Head(txq)
  BY <1>1 DEF FrameDone
<1>3. PICK b \in SendBlock : b = f.blk
  BY DEF Frame
<1>4. /\ f \in Driver /\ Driver' = Driver \ {f} /\ \A x \in Driver' : x.blk # b
  BY <1>1, <1>2, <1>3, DriverTail DEF FrameDone, SendInv
<1>5. Using(b) /\ HasFrame(b) /\ ~Parked(b)
  BY <1>1, <1>3, <1>4, FrameOwned DEF Using, Parked
<1>6. /\ f.msg \in Msg /\ f.msg = sctx[b].arg /\ \A j \in DOMAIN aired[f.msg] : aired[f.msg][j] < f.idx
      /\ Queued(b, f) /\ Shape(f)
  <2>1. FrameFits(f) /\ Queued(f.blk, f)
    BY <1>1, <1>4 DEF AirInv, LinkInv, DriverInv
  <2>2. Queued(b, f) /\ Shape(f)
    BY <1>3, <2>1 DEF Queued
  <2> QED BY <1>3, <2>1, <2>2 DEF FrameFits
<1>7. /\ \A c \in SendBlock \ {b} : HasFrame(c)' <=> HasFrame(c)
      /\ ~HasFrame(b)' /\ (HasSf(b) <=> f.kind = "SF")
  BY <1>1, <1>2, <1>3, TailQ DEF FrameDone, SendInv
<1>8. /\ srun.blk = b => srun.pc = "sem"
      /\ IF f.kind = "SF" THEN SentSingleCb(b, ok) ELSE SendCanTxCallback(b)
      /\ UNCHANGED <<srun, app, call>>
  BY <1>2, <1>3 DEF FrameDone, Cooperative, Disciplined
<1>9. /\ \A c \in SendBlock \ {b} : sctx'[c] = sctx[c] /\ (c \in sslab' <=> c \in sslab)
      /\ swork \subseteq swork'
  BY <1>1, <1>8 DEF SentSingleCb, SendCanTxCallback
<1>10. \A c \in SendBlock \ {b} : Calm(c)
  BY <1>7, <1>8, <1>9 DEF Calm
<1> QED BY <1>2, <1>3, <1>4, <1>5, <1>6, <1>7, <1>8, <1>10 DEF Aired

\* The frame goes onto the bus.
LEMMA WentOut ==
  ASSUME LinkInv, NEW b \in SendBlock, NEW f \in Frame, f = Head(txq), f.blk = b, Using(b), ~Parked(b),
         sctx[b].arg = f.msg, f.msg \in Msg, Shape(f), \A x \in Aired(f.msg) : x < f.idx,
         f.idx \in Aired(f.msg)', wire' = Append(wire, OnWire(f)), order' = order,
         Cfs[f.msg] > 0 => reports' = reports,
         f.kind = "FF" => Using(b)' /\ Parked(b)' /\ sctx'[b].arg = f.msg /\ Ahead(b)' = 1
  PROVE  \E w \in WireFrame : Sends(b, w)
<1>1. PICK w : w = OnWire(f)
  OBVIOUS
<1>2. sctx[b].addr \in Addr
  BY UsedFacts DEF SendCtx
<1>3. PICK g : g = [kind |-> f.kind, msg |-> f.msg, idx |-> f.idx, len |-> f.len, sn |-> f.sn]
  OBVIOUS
<1>4. /\ g \in [kind : {"SF", "FF", "CF"}, msg : Msg \cup {NoMsg}, idx : Int, len : Nat, sn : 0..(SnMod - 1)]
      /\ g.kind = f.kind /\ g.msg = f.msg /\ g.idx = f.idx /\ g.len = f.len /\ g.sn = f.sn
  BY <1>3 DEF Frame
<1>5. w = [dst |-> sctx[b].addr, f |-> g]
  BY <1>1, <1>3 DEF OnWire
<1>6. w \in WireFrame /\ w.dst = sctx[b].addr /\ w.f = g
  BY <1>2, <1>4, <1>5 DEF WireFrame
<1>7. Shape(g)
  BY <1>4 DEF Shape
<1>8. Sends(b, w)
  BY <1>1, <1>4, <1>6, <1>7 DEF Sends
<1> QED BY <1>6, <1>8

\* A single frame is transmitted, or not: its message is reported.
LEMMA SfDoneKeeps ==
  ASSUME Cooperative, LinkInv, NEW ok \in BOOLEAN, FrameDone(ok), NEW f, f = Head(txq), f.kind = "SF",
         SendTypeInv', SendInv', AirInv', UNCHANGED <<recvVars, fcWire, order>>,
         wire' = wire \/ (ok /\ wire' = Append(wire, OnWire(f)))
  PROVE  LinkInv'
<1>1. SendTypeInv /\ SendInv /\ AirInv /\ sctx \in [SendBlock -> SendCtx]
  BY DEF LinkInv, Halves, SendTypeInv, SendTypeOK
<1>2. PICK b \in SendBlock :
        /\ f \in Frame /\ f.blk = b /\ Using(b) /\ HasFrame(b) /\ ~Parked(b) /\ f.msg \in Msg
        /\ sctx[b].arg = f.msg /\ Shape(f) /\ HasSf(b)
        /\ \A x \in Aired(f.msg) : x < f.idx
        /\ SentSingleCb(b, ok)
        /\ \A c \in SendBlock \ {b} : Calm(c)
        /\ ~HasFrame(b)' /\ (\A x \in Driver' : x \in Driver /\ x.blk # b)
        /\ UNCHANGED <<srun, app, call>>
  BY HeadFrame
<1>3. PICK m \in Msg : m = f.msg
  BY <1>2
<1>4. Cfs[m] = 0 /\ f.idx = 0
  BY <1>2, <1>3 DEF Shape
<1>5. Aired(m) = {}
  BY <1>1, <1>2, <1>3, <1>4 DEF AirInv, Progress, Using, Aired
<1>6. sctx[b].state = "SEND_FF" /\ b \in sslab' /\ sctx[b] \in SendCtx
  <2>1. BlockInv(b) /\ b \notin sslab
    BY <1>1, <1>2 DEF SendInv, Using
  <2> QED BY <1>1, <1>2, <2>1 DEF BlockInv, UsedBlock, SentSingleCb
<1>7. /\ reports[m] = <<>> /\ sctx[b].home = "ctx" /\ sctx[b].arg = m /\ m # NoMsg
  BY <1>1, <1>2, <1>3, CarriesOne, CommonAssumption DEF Using, CommonAssumption
<1>8. PICK res \in {"ok", "error"} : res = IF ok THEN "ok" ELSE "error"
  OBVIOUS
<1>9. reports' = [reports EXCEPT ![m] = Append(reports[m], res)] /\ reports \in [Msg -> Seq({"ok", "error"})]
  <2>1. [sctx[b] EXCEPT !.pending = @ - 1].home = "ctx" /\ [sctx[b] EXCEPT !.pending = @ - 1].arg = m
    BY <1>6, <1>7, SingleEndFields
  <2> QED BY <1>1, <1>2, <1>7, <1>8, <2>1 DEF SentSingleCb, ReportFor, SendTypeInv, SendTypeOK
<1>10. /\ reports'[m] = <<res>> /\ \A n \in Msg \ {m} : reports'[n] = reports[n]
       /\ reports'[m] # <<>>
  BY <1>7, <1>9
<1>11. ~Using(b)' /\ Moves(b)
  <2>1. ~Using(b)'
    BY <1>6 DEF Using
  <2> QED BY <1>2, <2>1 DEF Moves, SenderInv, ReachOf
<1>12. \A n \in Msg : Aired(n)' = IF ok /\ n = m THEN Aired(n) \cup {0} ELSE Aired(n)
  BY <1>2, <1>3, <1>4, AiredGrows
<1>13. Airs
  <2>1. Reach(b) = 1
    BY <1>6 DEF Reach
  <2>2. 0 \in Nat /\ 0 < Reach(b)
    BY <2>1
  <2> QED BY <1>2, <1>7, <1>12, <2>2 DEF Airs
<1>14. Answered
  BY <1>4, <1>10 DEF Answered
<1>15. OrderInv'
  BY <1>2, <1>7, <1>10, OrderStays
<1>16. TruthInv'
  <2>1. CASE ok
    BY <1>8, <1>10, <1>12, <2>1 DEF TruthInv, LinkInv
  <2>2. CASE ~ok
    BY <1>4, <1>5, <1>10, <1>12, <2>2 DEF TruthInv, LinkInv
  <2> QED BY <2>1, <2>2
<1>17. wire' = wire \/ \E w \in WireFrame : Sends(b, w)
  <2>1. ASSUME ok, wire' = Append(wire, OnWire(f)) PROVE \E w \in WireFrame : Sends(b, w)
    <3>1. f.idx \in Aired(f.msg)'
      BY <1>3, <1>4, <1>12, <2>1
    <3>2. ~(Cfs[f.msg] > 0)
      BY <1>3, <1>4
    <3> QED BY <1>2, <2>1, <3>1, <3>2, WentOut
  <2> QED BY <2>1
<1> QED BY <1>2, <1>11, <1>13, <1>14, <1>15, <1>16, <1>17, SenderMoves

\* The completion callback leaves the sequence number and the block counter.
LEMMA SentOn == \A c \in SendCtx, s \in TxState :
  LET d == [Sent(c) EXCEPT !.state = s] IN
  /\ d.sn = c.sn /\ d.bs = c.bs /\ d.state = s /\ Kept(d, c) /\ Kin(d, c)
<1> TAKE c \in SendCtx, s \in TxState
<1>1. PICK d : d = [Sent(c) EXCEPT !.state = s]
  OBVIOUS
<1>2. d.sn = c.sn /\ d.bs = c.bs /\ Kept(d, c)
  BY <1>1, CtxFields DEF Sent, Kept
<1>3. d.state = s /\ Kin(d, c)
  BY <1>1, SentFields
<1> QED BY <1>1, <1>2, <1>3

\* A first or consecutive frame is transmitted, or not.
LEMMA LongDoneKeeps ==
  ASSUME Cooperative, LinkInv, NEW ok \in BOOLEAN, FrameDone(ok), NEW f, f = Head(txq), f.kind # "SF",
         SendTypeInv', SendInv', AirInv', UNCHANGED <<recvVars, fcWire, order>>,
         wire' = wire \/ (ok /\ wire' = Append(wire, OnWire(f)))
  PROVE  LinkInv'
<1>1. SendTypeInv /\ SendInv /\ AirInv /\ sctx \in [SendBlock -> SendCtx]
  BY DEF LinkInv, Halves, SendTypeInv, SendTypeOK
<1>2. PICK b \in SendBlock :
        /\ f \in Frame /\ f.blk = b /\ Using(b) /\ HasFrame(b) /\ ~Parked(b) /\ f.msg \in Msg
        /\ sctx[b].arg = f.msg /\ Queued(b, f) /\ Shape(f) /\ ~HasSf(b)
        /\ \A x \in Aired(f.msg) : x < f.idx
        /\ srun.blk = b => srun.pc = "sem"
        /\ SendCanTxCallback(b)
        /\ \A c \in SendBlock \ {b} : Calm(c)
        /\ ~HasFrame(b)' /\ (\A x \in Driver' : x \in Driver /\ x.blk # b)
        /\ UNCHANGED <<srun, app, call>>
  BY HeadFrame
<1>3. /\ SenderInv(b) /\ Sending(b) /\ sctx[b] \in SendCtx /\ Ahead(b) \in Nat /\ sctx[b].bs \in 0..255
      /\ ~InCf(b) /\ sctx[b].state \in TxState
  BY <1>2, LongFacts DEF InCf, SendCtx
<1>4. \/ sctx[b].state \in {"WAIT_FC", "WAIT_ST"} /\ srun.blk # b
      \/ sctx[b].state = "WAIT_BACKLOG" /\ sctx[b].backlog = 1 /\ srun.blk # b
      \/ sctx[b].state = "SEND_CF"
  <2>1. BlockInv(b) /\ b \notin sslab
    BY <1>1, <1>2 DEF SendInv, Using
  <2>2. CASE srun.blk = b
    BY <1>2, <2>1, <2>2 DEF BlockInv, UsedBlock, Working
  <2>3. CASE srun.blk # b
    BY <1>2, <1>3, <2>1, <2>3 DEF BlockInv, UsedBlock, Waiting, TxState
  <2> QED BY <2>2, <2>3
<1>5. PICK s \in TxState : s = IF sctx[b].state = "WAIT_BACKLOG" THEN "WAIT_FIN" ELSE sctx[b].state
  BY <1>3 DEF TxState
<1>6. PICK d : d = [Sent(sctx[b]) EXCEPT !.state = s]
  OBVIOUS
<1>7. /\ sctx' = [sctx EXCEPT ![b] = d] /\ swork' = swork \cup {b} /\ UNCHANGED <<sslab, reports>>
  <2>1. PICK e : e = Sent(sctx[b])
    OBVIOUS
  <2>2. e.state = sctx[b].state /\ e.backlog = Byte(sctx[b].backlog - 1)
    BY <1>3, <1>5, <2>1, SentFields
  <2>3. sctx[b].state = "WAIT_BACKLOG" => e.backlog = 0
    BY <1>4, <2>2 DEF Byte
  <2>4. /\ sctx' = [sctx EXCEPT ![b] =
                      [e EXCEPT !.state = IF e.state = "WAIT_BACKLOG" /\ e.backlog = 0 THEN "WAIT_FIN" ELSE @]]
        /\ swork' = IF e.state = "WAIT_BACKLOG" /\ e.backlog > 0 THEN swork ELSE swork \cup {b}
        /\ UNCHANGED <<sslab, reports>>
    BY <1>2, <2>1 DEF SendCanTxCallback, Sent
  <2>5. s = IF e.state = "WAIT_BACKLOG" /\ e.backlog = 0 THEN "WAIT_FIN" ELSE e.state
    BY <1>5, <2>2, <2>3
  <2>6. d = [e EXCEPT !.state = IF e.state = "WAIT_BACKLOG" /\ e.backlog = 0 THEN "WAIT_FIN" ELSE @]
    BY <1>6, <2>1, <2>5
  <2> QED BY <2>2, <2>3, <2>4, <2>6
<1>8. /\ sctx'[b] = d /\ d.sn = sctx[b].sn /\ d.bs = sctx[b].bs /\ d.state = s
      /\ Kept(d, sctx[b]) /\ Kin(d, sctx[b])
  BY <1>1, <1>3, <1>6, <1>7, SentOn
<1>9. Using(b)' /\ ~InCf(b)' /\ Ahead(b)' = Ahead(b) /\ ~(srun'.blk = b /\ srun'.pc = "ffSent")
  <2>1. Ahead(b)' = Ahead(b)
    BY <1>8 DEF Ahead, Kept
  <2> QED BY <1>2, <1>7, <2>1 DEF Using, InCf
<1>10. SenderInv(b)'
  <2>1. InSn(b) => InSn(b)'
    BY <1>3, <1>8, <1>9 DEF InSn, Kept
  <2>2. s \in {"WAIT_FC", "SEND_CF", "WAIT_ST"} => s = sctx[b].state
    BY <1>5
  <2>3. s # "ERR" /\ s # "WAIT_BACKLOG"
    BY <1>4, <1>5
  <2> QED BY <1>2, <1>3, <1>7, <1>8, <1>9, <2>1, <2>2, <2>3 DEF SenderInv
<1>11. PICK x \in Nat, y \in 0..255 : x = Ahead(b) /\ y = sctx[b].bs
  BY <1>3
<1>12. /\ Reach(b)' = Reach(b) /\ Reach(b) = (IF sctx[b].state \in {"SEND_CF", "WAIT_ST"} THEN x + y - 0 ELSE x)
       /\ sctx[b].state \in {"SEND_CF", "WAIT_ST"} => y >= 1
  BY <1>2, <1>3, <1>4, <1>5, <1>8, <1>9, <1>11 DEF Reach, SenderInv
<1>13. Reach(b) \in Int /\ x <= Reach(b)
  BY <1>12
<1>14. Moves(b)
  BY <1>2, <1>8, <1>9, <1>10, <1>12, <1>13 DEF Moves, ReachOf, Kin
<1>15. f.idx \in Nat /\ f.idx = x - 1
  BY <1>2, <1>11 DEF Queued, Shape
<1>16. \A n \in Msg : Aired(n)' = IF ok /\ n = f.msg THEN Aired(n) \cup {f.idx} ELSE Aired(n)
  BY <1>2, AiredGrows
<1>17. Airs
  <2>1. f.idx < Reach(b)
    BY <1>13, <1>15
  <2> QED BY <1>2, <1>15, <1>16, <2>1 DEF Airs
<1>18. Answered /\ OrderInv'
  BY <1>2, <1>7, <1>8, <1>9, OrderStays DEF Answered, Kin
<1>19. TruthInv'
  <2>1. reports[f.msg] = <<>>
    BY <1>2, UsedFacts
  <2>2. DOMAIN reports[f.msg] = {}
    BY <2>1
  <2> QED BY <1>7, <1>16, <2>2 DEF TruthInv, LinkInv
<1>20. wire' = wire \/ \E w \in WireFrame : Sends(b, w)
  <2>1. ASSUME ok, wire' = Append(wire, OnWire(f)) PROVE \E w \in WireFrame : Sends(b, w)
    <3>1. f.idx \in Aired(f.msg)'
      BY <1>2, <1>16, <2>1
    <3>2. f.kind = "FF" => Using(b)' /\ Parked(b)' /\ sctx'[b].arg = f.msg /\ Ahead(b)' = 1
      <4>1. ASSUME f.kind = "FF" PROVE Parked(b)' /\ Ahead(b)' = 1
        <5>1. sctx[b].state = "WAIT_FC" /\ f.idx = 0
          BY <1>2, <4>1 DEF Queued, Shape
        <5>2. x = 1 /\ srun'.blk # b /\ d.state = "WAIT_FC"
          BY <1>2, <1>4, <1>5, <1>8, <1>15, <5>1
        <5> QED BY <1>2, <1>8, <1>9, <1>11, <5>2 DEF Parked
      <4> QED BY <1>2, <1>8, <1>9, <4>1 DEF Kin
    <3> QED BY <1>2, <1>7, <2>1, <3>1, <3>2, WentOut
  <2> QED BY <2>1
<1> QED BY <1>2, <1>14, <1>17, <1>18, <1>19, <1>20, SenderMoves

\* The driver is done with a frame: it is on the bus, lost, or refused by the controller.
LEMMA TransmitKeeps ==
  ASSUME Cooperative, LinkInv, Transmit
  PROVE  LinkInv'
<1>1. SendTypeInv /\ SendInv /\ AirInv /\ Disciplined
  BY DEF LinkInv, Halves, Cooperative
<1>2. PICK f : f = Head(txq)
  OBVIOUS
<1>3. PICK ok \in BOOLEAN :
        /\ FrameDone(ok) /\ (ok \/ ~NoneLost) /\ (NoFault \/ \E k \in FaultKinds : Fault(k))
        /\ UNCHANGED <<recvVars, fcWire, order>>
        /\ wire' = wire \/ (ok /\ wire' = Append(wire, OnWire(f)))
  <2>1. ASSUME FrameDone(TRUE), Fault("loss"), UNCHANGED <<recvVars, linkVars>> PROVE Fault("loss") /\ "loss" \in FaultKinds
    BY <2>1 DEF Fault
  <2>2. ASSUME Fault("txError") PROVE "txError" \in FaultKinds /\ ~NoneLost
    BY <2>2 DEF Fault, NoneLost
  <2> QED BY <1>2, <2>1, <2>2 DEF Transmit, linkVars
<1>4. SendTypeInv' /\ SendInv' /\ AirInv'
  BY <1>1, <1>3, FrameDoneTyped, FrameDoneSafe, FrameDoneAir
<1> QED BY <1>2, <1>3, <1>4, SfDoneKeeps, LongDoneKeeps

-----------------------------------------------------------------------------
(* Steps of the receiver.                                                  *)

\* The sender does not move: its contexts, messages and frames are what they were.
LEMMA SameSender ==
  ASSUME UNCHANGED <<sendVars, order>>
  PROVE  /\ \A b : (Using(b)' <=> Using(b)) /\ (Parked(b)' <=> Parked(b)) /\ Ahead(b)' = Ahead(b)
                   /\ Reach(b)' = Reach(b) /\ sctx'[b] = sctx[b]
         /\ \A m : Aired(m)' = Aired(m) /\ (Accepted(m)' <=> Accepted(m)) /\ reports'[m] = reports[m]
         /\ \A m, n : Later(m, n)' <=> Later(m, n)
<1>1. UNCHANGED <<sctx, sslab, srun, app, reports, txq, aired>>
  BY DEF sendVars
<1>2. \A b : (Using(b)' <=> Using(b)) /\ (Parked(b)' <=> Parked(b)) /\ Ahead(b)' = Ahead(b)
             /\ (InCf(b)' <=> InCf(b))
  BY <1>1 DEF Using, Parked, HasFrame, Ahead, InCf
<1>3. \A b : Reach(b)' = Reach(b)
  BY <1>1, <1>2 DEF Reach
<1>4. \A m : Aired(m)' = Aired(m)
  BY <1>1 DEF Aired
<1> QED BY <1>1, <1>2, <1>3, <1>4, SameOrder

\* What is known of the sender stays, when frames are at most taken off the bus.
LEMMA SenderHalf ==
  ASSUME LinkInv, UNCHANGED <<sendVars, order, corrupt>>, faults' \in {faults, faults + 1}, Bus' \subseteq Bus
  PROVE  /\ SendTypeInv' /\ SendInv' /\ AirInv' /\ OrderInv' /\ DriverInv' /\ TruthInv'
         /\ (\A b \in SendBlock : SenderInv(b)') /\ (WireSorted' => WireInv')
<1>1. UNCHANGED <<sctx, sslab, swork, srun, app, call, reports, txq, aired, bound, unb, corrupt, order>>
  BY DEF sendVars
<1>2. SendTypeInv /\ SendInv /\ AirInv /\ OrderInv /\ DriverInv /\ TruthInv /\ WireInv
  BY DEF LinkInv, Halves
<1>3. SendTypeInv'
  <2>1. CommonTypeOK'
    BY <1>2, FaultTyped DEF SendTypeInv
  <2> QED BY <1>1, <1>2, <2>1 DEF SendTypeInv, SendTypeOK, InHand
<1>4. SendInv'
  <2>1. OneFrame' /\ \A c \in SendBlock : (HasFrame(c)' <=> HasFrame(c)) /\ (HasSf(c)' <=> HasSf(c))
    BY <1>1, <1>2, SameQ DEF SendInv
  <2>2. ASSUME NEW c \in SendBlock PROVE BlockInv(c)'
    <3>1. Untouched(c)
      BY <1>1, <2>1 DEF Untouched
    <3> QED BY <1>2, <3>1, StableBlock DEF SendInv
  <2>3. OneContext' /\ Outcomes' /\ Threads'
    BY <1>1, <1>2 DEF SendInv, OneContext, Outcomes, Threads
  <2> QED BY <1>1, <1>2, <2>1, <2>2, <2>3 DEF SendInv
<1>5. AirInv'
  <2>1. Unsent'
    BY <1>1, <1>2 DEF Unsent, AirInv
  <2> QED BY <1>1, <1>2, <2>1, SameAir
<1>6. OrderInv'
  BY <1>1, <1>2, SameSender DEF OrderInv
<1>7. DriverInv'
  <2>1. Driver' = Driver
    BY <1>1 DEF Driver
  <2>2. \A b, f : Queued(b, f) => Queued(b, f)'
    BY <1>1, SameSender DEF Queued, Shape
  <2> QED BY <1>2, <2>1, <2>2 DEF DriverInv
<1>8. TruthInv'
  BY <1>1, <1>2, SameSender DEF TruthInv
<1>9. ASSUME NEW b \in SendBlock PROVE SenderInv(b)'
  <2>1. SUFFICES ASSUME Using(b) PROVE SenderInv(b)'
    BY SameSender DEF SenderInv
  <2>2. SenderInv(b)
    BY DEF LinkInv
  <2>3. InSn(b) => InSn(b)'
    BY <1>1 DEF InSn, InCf, Ahead
  <2>4. sctx[b].state = "ERR" => sctx[b].rem > 0 /\ \A w \in Bus' : w.dst # sctx[b].addr
    BY <2>1, <2>2 DEF SenderInv
  <2>5. HasFrame(b)' <=> HasFrame(b)
    BY <1>1 DEF HasFrame
  <2> QED BY <1>1, <2>1, <2>2, <2>3, <2>4, <2>5 DEF SenderInv
<1>10. ASSUME WireSorted' PROVE WireInv'
  <2>1. \A w \in Bus' : Shape(w.f) /\ w.dst = Dest[w.f.msg] /\ w.f.idx \in Aired(w.f.msg)'
    BY <1>2, SameSender DEF WireInv
  <2>2. \A w \in Bus' : w.f.kind = "FF" =>
          \E b \in SendBlock : Using(b)' /\ sctx'[b].arg = w.f.msg /\ Parked(b)' /\ Ahead(b)' = 1
    BY <1>2, SameSender DEF WireInv
  <2>3. \A m \in Msg : Aired(m)' \subseteq Nat
    BY <1>2, SameSender DEF WireInv
  <2> QED BY <1>10, <2>1, <2>2, <2>3 DEF WireInv, Shape
<1> QED BY <1>3, <1>4, <1>5, <1>6, <1>7, <1>8, <1>9, <1>10

\* A reception that a step of the receiver leaves alone.
Rests(q) ==
  /\ rctx'[q] = rctx[q] /\ (Asked(q)' <=> Asked(q)) /\ (FcComes(q)' <=> FcComes(q))
  /\ rrun' = rrun \/ (rrun.blk # q /\ rrun'.blk # q)
  /\ \A n \in Msg : Arrived(n)' => Arrived(n) \/ Dest[n] # rctx[q].src

\* The sender goes no further when frames are at most taken off the bus.
LEMMA WithinStays ==
  ASSUME UNCHANGED <<sendVars, order>>, Bus' \subseteq Bus, NEW m, NEW l, Within(m, l)
  PROVE  Within(m, l)'
<1>1. \A x \in Aired(m)' : x < l
  BY SameSender DEF Within
<1>2. \A b \in SendBlock : Using(b)' /\ sctx'[b].addr = Dest[m]
                             => Reach(b)' <= IF sctx'[b].arg = m THEN l ELSE 1
  BY SameSender DEF Within
<1>3. reports'[m] # <<>> => Cfs[m] + 1 <= l \/ \A w \in Bus' : w.f.msg # m
  BY SameSender DEF Within
<1>4. \A n \in Msg : Later(m, n)' /\ Dest[n] = Dest[m] => Aired(n)' \subseteq {0}
  BY SameSender DEF Within
<1> QED BY <1>1, <1>2, <1>3, <1>4 DEF Within

\* Nor does what a reception holds change.
LEMMA HeldStays ==
  ASSUME UNCHANGED <<sendVars, order>>, Bus' \subseteq Bus, NEW q, rctx'[q].data = rctx[q].data
  PROVE  /\ MsgOf(q)' = MsgOf(q) /\ LastOf(q)' = LastOf(q)
         /\ \A m : Behind(q, m) => Behind(q, m)'
         /\ SenderParked(q) => SenderParked(q)'
<1>1. MsgOf(q)' = MsgOf(q) /\ LastOf(q)' = LastOf(q)
  BY DEF MsgOf, LastOf
<1>2. \A m : Behind(q, m) => Behind(q, m)'
  BY <1>1, SameSender DEF Behind
<1>3. SenderParked(q) => SenderParked(q)'
  BY <1>1, SameSender DEF SenderParked, NoWire
<1> QED BY <1>1, <1>2, <1>3

\* What is known of it stays.
LEMMA RestsKept ==
  ASSUME LinkInv, UNCHANGED <<sendVars, order>>, Bus' \subseteq Bus, NEW q \in RecvBlock \ rslab, Rests(q),
         q \notin rslab', \A p \in RecvBlock \ rslab' : rctx'[p].src = rctx'[q].src => p = q
  PROVE  RecvInv(q)'
<1>1. RecvInv(q) /\ rctx'[q] = rctx[q]
  BY DEF LinkInv, Rests
<1>2. Asking(q)' <=> Asking(q)
  BY DEF Asking, Rests
<1>3. ASSUME NEW m \in Msg, Holds(q, m) PROVE Holds(q, m)'
  <2>1. Fresher(m) => Fresher(m)'
    BY <1>3, SameSender DEF Rests, Fresher, Holds
  <2>2. rrun.blk = q /\ rrun.pc = "dispatch" => rrun'.blk = q /\ rrun'.pc = "dispatch"
    BY DEF Rests
  <2> QED BY <1>1, <1>3, <2>1, <2>2, SameSender, HeldStays DEF Holds
<1>4. rctx'[q].state # "ERR" => \E m \in Msg : Holds(q, m)'
  BY <1>1, <1>3 DEF RecvInv
<1>5. Asking(q) => SenderParked(q)'
  BY <1>1, HeldStays DEF RecvInv
<1>6. rctx'[q].state = "WAIT_CF" /\ ~Asking(q) => Window(q)'
  <2>1. ASSUME Window(q) PROVE Window(q)'
    <3>1. PICK m \in Msg, l \in {Len(rctx[q].data) + rctx[q].bs} : MsgOf(q) = m /\ Within(m, l)
      BY <2>1 DEF Window
    <3>2. Within(m, l)'
      BY <3>1, WithinStays
    <3> QED BY <1>1, <3>1, <3>2, HeldStays DEF Window
  <2> QED BY <1>1, <2>1 DEF RecvInv
<1>7. /\ rctx'[q].state \in {"TRY_ALLOC", "SEND_FC"} => rctx'[q].bs = RBs
      /\ rctx'[q].state = "WAIT_CF" => rctx'[q].bs \in 1..RBs /\ (Asking(q) => rctx'[q].bs = RBs)
  BY <1>1 DEF RecvInv
<1> QED BY <1>2, <1>4, <1>5, <1>6, <1>7 DEF RecvInv

\* Flow control stays in place when a step has nothing to do with it.
LEMMA FcStays ==
  ASSUME LinkInv, NEW r, UNCHANGED <<fcq, fcWire>>,
         \A q \in RecvBlock \ {r} : /\ rctx'[q] = rctx[q] /\ (q \in rslab' <=> q \in rslab)
                                    /\ rrun' = rrun \/ (rrun.blk # q /\ rrun'.blk # q),
         r \in RecvBlock => (Asked(r) => rctx'[r].src = rctx[r].src) /\ (r \in rslab \/ ~FcComes(r))
  PROVE  FcInv' /\ \A q \in RecvBlock \ {r} : (Asked(q)' <=> Asked(q)) /\ (FcComes(q)' <=> FcComes(q))
<1>1. FcInv
  BY DEF LinkInv
<1>2. \A q : Asked(q)' <=> Asked(q)
  BY DEF Asked, HasFc
<1>3. ASSUME NEW i \in DOMAIN fcq PROVE fcq[i].fs = "CTS" /\ fcq[i].dst = rctx'[fcq[i].blk].src
  <2>1. fcq[i].fs = "CTS" /\ fcq[i].dst = rctx[fcq[i].blk].src /\ Asked(fcq[i].blk)
    BY <1>1 DEF FcInv, Asked, HasFc
  <2>2. fcq[i].blk \in RecvBlock
    <3>1. fcq \in Seq(FcFrame)
      BY DEF LinkInv, Halves, ContextsInv
    <3>2. fcq[i] \in FcFrame
      BY <3>1
    <3> QED BY <3>2 DEF FcFrame
  <2> QED BY <2>1, <2>2
<1>4. ASSUME NEW i \in DOMAIN fcWire
      PROVE  \E q \in RecvBlock \ rslab' : rctx'[q].src = fcWire[i].dst /\ rctx'[q].state = "WAIT_CF" /\ ~Asked(q) /\ rrun'.blk # q
  <2>1. PICK q \in RecvBlock \ rslab :
          rctx[q].src = fcWire[i].dst /\ rctx[q].state = "WAIT_CF" /\ ~Asked(q) /\ rrun.blk # q
    BY <1>1 DEF FcInv
  <2>2. q # r
    BY <2>1 DEF FcComes
  <2> QED BY <2>1, <2>2
<1>5. FcInv'
  BY <1>1, <1>2, <1>3, <1>4 DEF FcInv
<1>6. \A q \in RecvBlock \ {r} : FcComes(q)' <=> FcComes(q)
  BY DEF FcComes
<1> QED BY <1>2, <1>5, <1>6

\* A step of the receiver that moves one reception keeps the invariant.
LEMMA ReceiverMoves ==
  ASSUME LinkInv, NEW r, UNCHANGED <<sendVars, order, corrupt>>, faults' \in {faults, faults + 1},
         Bus' \subseteq Bus, WireSorted', LinkTypes', Inv', ContextsInv', FcInv', DeliveredInv',
         r \in RecvBlock => RecvInv(r)',
         \A q \in RecvBlock \ {r} : (q \in rslab' <=> q \in rslab) /\ (q \notin rslab => Rests(q))
  PROVE  LinkInv'
<1>1. ASSUME NEW q \in RecvBlock \ {r} PROVE RecvInv(q)'
  <2>1. SUFFICES ASSUME q \notin rslab' PROVE RecvInv(q)'
    BY DEF RecvInv
  <2>2. q \notin rslab /\ Rests(q) /\ rctx'[q] = rctx[q]
    BY <1>1, <2>1 DEF Rests
  <2>3. ASSUME NEW p \in RecvBlock \ rslab', rctx'[p].src = rctx'[q].src PROVE p = q
    <3>1. CASE p = r
      BY <2>1, <2>3, <3>1 DEF RecvInv
    <3>2. CASE p # r
      <4>1. p \notin rslab /\ rctx'[p] = rctx[p]
        BY <2>3, <3>2 DEF Rests
      <4>2. RecvInv(q)
        BY DEF LinkInv
      <4> QED BY <2>2, <2>3, <4>1, <4>2 DEF RecvInv
    <3> QED BY <3>1, <3>2
  <2> QED BY <2>1, <2>2, <2>3, RestsKept
<1>2. \A q \in RecvBlock : RecvInv(q)'
  BY <1>1
<1> QED BY <1>2, SenderHalf DEF LinkInv, Halves

\* What was delivered stays, and before what is on the bus.
LEMMA DeliveredStays ==
  ASSUME LinkInv, UNCHANGED <<sendVars, order, delivered>>, Bus' \subseteq Bus
  PROVE  DeliveredInv' /\ \A m : Arrived(m)' <=> Arrived(m)
<1>1. \A m : Arrived(m)' <=> Arrived(m)
  BY DEF Arrived
<1>2. ASSUME NEW m \in Msg, Arrived(m)
      PROVE  Accepted(m)' /\ Cfs[m] \in Aired(m)' /\ \A w \in Bus' : w.dst = Dest[m] => Later(m, w.f.msg)'
  BY <1>2, SameSender DEF LinkInv, DeliveredInv
<1>3. \A k \in DOMAIN delivered : \E m \in Msg : delivered[k].data = Payload(m) /\ delivered[k].src = Dest[m]
  BY DEF LinkInv, DeliveredInv
<1>4. \A k, l \in DOMAIN delivered : \A m, n \in Msg :
       k < l /\ delivered[k].data = Payload(m) /\ delivered[l].data = Payload(n) /\ Dest[m] = Dest[n]
         => Later(m, n)'
  BY SameSender DEF LinkInv, DeliveredInv
<1> QED BY <1>1, <1>2, <1>3, <1>4 DEF DeliveredInv

\* The frame that arrives, and what is behind it.
LEMMA ArrivingFrame ==
  ASSUME LinkInv, wire # <<>>, wire' = Tail(wire), order' = order, NEW w, w = Head(wire)
  PROVE  /\ w \in WireFrame /\ w \in Bus /\ Shape(w.f) /\ w.dst = Dest[w.f.msg] /\ w.dst \in Src
         /\ w.f.idx \in Aired(w.f.msg) /\ Accepted(w.f.msg) /\ DataFrame(w.f)
         /\ wire' \in Seq(WireFrame) /\ WireSorted' /\ Bus' \subseteq Bus
         /\ \A x \in Bus : x = w \/ x \in Bus'
         /\ \A x \in Bus' : x.dst = w.dst => Before(w.f, x.f)
<1>1. /\ w \in WireFrame /\ w \in Bus
      /\ wire' \in Seq(WireFrame) /\ WireSorted' /\ Bus' \subseteq Bus
      /\ \A x \in Bus : x = w \/ x \in Bus'
      /\ \A x \in Bus' : x.dst = w.dst => Before(w.f, x.f)
  BY BusTail DEF LinkInv, LinkTypes, WireInv
<1>2. Shape(w.f) /\ w.dst = Dest[w.f.msg] /\ w.f.idx \in Aired(w.f.msg) /\ w.f.msg \in Msg
  BY <1>1 DEF LinkInv, WireInv, Shape
<1>3. Accepted(w.f.msg)
  BY <1>2, AiredAccepted
<1>4. w.dst \in Src
  BY <1>1, LinkAssumption DEF WireFrame, LinkAssumption
<1>5. DataFrame(w.f)
  <2>1. Cfs[w.f.msg] \in Nat
    BY <1>2, CommonAssumption DEF CommonAssumption
  <2>2. w.f.kind = "FF" => w.f.len \in Nat /\ w.f.len >= 2
    BY <1>2, <2>1 DEF Shape
  <2>3. w.f.kind = "CF" => w.f.sn = w.f.idx % SnMod
    BY <1>2 DEF Shape
  <2>4. w.f.kind = "SF" => w.f.idx = 0 /\ w.f.len = 1
    BY <1>2 DEF Shape
  <2>5. w.f.kind = "FF" => w.f.idx = 0
    BY <1>2 DEF Shape
  <2>6. w.f.kind \in {"SF", "FF", "CF"} /\ w.f.idx \in Nat
    BY <1>2 DEF Shape
  <2> QED BY <1>2, <2>2, <2>3, <2>4, <2>5, <2>6 DEF DataFrame
<1> QED BY <1>1, <1>2, <1>3, <1>4, <1>5

\* A frame arrives and moves one reception.
LEMMA ArrivalMoves ==
  ASSUME LinkInv, wire # <<>>, wire' = Tail(wire),
         UNCHANGED <<sendVars, fcWire, order, rrun, fcq, delivered, runb, faults, corrupt>>,
         NEW r, Inv', ContextsInv', r \in RecvBlock => RecvInv(r)',
         r \in RecvBlock => (Asked(r) => rctx'[r].src = rctx[r].src) /\ (r \in rslab \/ ~FcComes(r)),
         \A q \in RecvBlock \ {r} : rctx'[q] = rctx[q] /\ (q \in rslab' <=> q \in rslab)
  PROVE  LinkInv'
<1>1. PICK w : w = Head(wire)
  OBVIOUS
<1>2. wire' \in Seq(WireFrame) /\ WireSorted' /\ Bus' \subseteq Bus
  BY <1>1, ArrivingFrame
<1>3. LinkTypes'
  BY <1>2 DEF LinkTypes, LinkInv
<1>4. DeliveredInv' /\ \A m : Arrived(m)' <=> Arrived(m)
  BY <1>2, DeliveredStays
<1>5. FcInv' /\ \A q \in RecvBlock \ {r} : (Asked(q)' <=> Asked(q)) /\ (FcComes(q)' <=> FcComes(q))
  BY FcStays
<1>6. \A q \in RecvBlock \ {r} : (q \in rslab' <=> q \in rslab) /\ (q \notin rslab => Rests(q))
  BY <1>4, <1>5 DEF Rests
<1> QED BY <1>2, <1>3, <1>4, <1>5, <1>6, ReceiverMoves

\* The frame is of no use.
LEMMA IgnoredKeeps ==
  ASSUME LinkInv, wire # <<>>, wire' = Tail(wire), RxIgnored, corrupt' = corrupt,
         UNCHANGED <<sendVars, fcWire, order, rrun, fcq, delivered, rbound, runb, faults>>
  PROVE  LinkInv'
<1>1. UNCHANGED <<rctx, rslab, rwork>>
  BY DEF RxIgnored
<1>2. OtherTypes'
  BY DEF OtherTypes, LinkInv, Halves, Inv, Types
<1>3. Inv' /\ ContextsInv'
  BY <1>1, <1>2, NothingHere, NothingChanges DEF LinkInv, Halves
<1>4. NoBlock \notin RecvBlock
  BY ReceiveAssumption DEF ReceiveAssumption
<1> QED BY <1>1, <1>3, <1>4, ArrivalMoves

\* Flow control on the bus finds its reception waiting for the frames it asks for.
LEMMA FcFor ==
  ASSUME LinkInv, NEW r \in RecvBlock \ rslab, FcComes(r)
  PROVE  rctx[r].state = "WAIT_CF" /\ ~Asked(r) /\ rrun.blk # r
<1>1. PICK q \in RecvBlock \ rslab :
        rctx[q].src = rctx[r].src /\ rctx[q].state = "WAIT_CF" /\ ~Asked(q) /\ rrun.blk # q
  BY DEF FcComes, LinkInv, FcInv
<1>2. q = r
  BY <1>1 DEF LinkInv, RecvInv
<1> QED BY <1>1, <1>2

\* While a reception asks for flow control, nothing is on the bus for it.
LEMMA AskingSilent ==
  ASSUME LinkInv, NEW r \in RecvBlock \ rslab, Asking(r)
  PROVE  NoWire(rctx[r].src)
<1>1. PICK m \in Msg : MsgOf(r) = m /\ NoWire(Dest[m])
  BY DEF LinkInv, RecvInv, SenderParked
<1>2. rctx[r].state # "ERR"
  BY DEF Asking
<1>3. PICK n \in Msg : Holds(r, n)
  BY <1>2 DEF LinkInv, RecvInv
<1> QED BY <1>1, <1>3 DEF Holds

\* A reception that a frame finds does not ask.
LEMMA Listening ==
  ASSUME LinkInv, NEW w \in Bus, NEW r \in RFound(w.dst)
  PROVE  /\ r \in RecvBlock \ rslab /\ rctx[r].src = w.dst /\ ~FcComes(r)
         /\ RFound(w.dst) = {r} /\ rctx[r] \in RecvCtx /\ Owned(r)
         /\ \/ rctx[r].state = "WAIT_CF" /\ ~Asking(r) /\ ~SenderWaits(w.dst)
            \/ rctx[r].state \in {"PROCESS_SF", "RECYCLE", "ERR"} /\ (rrun.blk # r => r \in rwork)
<1>1. r \in RecvBlock /\ rctx[r].src = w.dst /\ rctx[r].list = "ctx" /\ ContextsInv
  BY DEF RFound, LinkInv, Halves
<1>2. \A q \in RFound(w.dst) : q \in RecvBlock \ rslab /\ rctx[q].src = w.dst
  BY <1>1 DEF RFound, ContextsInv, ContextSound, Idle
<1>3. RFound(w.dst) = {r}
  BY <1>2 DEF LinkInv, RecvInv
<1>4. ~Asking(r)
  BY <1>1, <1>2, AskingSilent DEF NoWire
<1>5. Owned(r) /\ Lives(r) /\ rctx[r] \in RecvCtx
  BY <1>1, <1>2 DEF ContextsInv, ContextSound, InUse, LinkInv, Halves, Inv, Types
<1>6. ~FcComes(r)
  BY <1>2, <1>4, FcFor DEF Asking
<1>7. CASE rctx[r].state = "WAIT_CF"
  <2>1. ~Asked(r)
    BY <1>4, <1>7 DEF Asking
  <2>2. RFramesOf(r) = {}
    BY <2>1 DEF RFramesOf, Asked, HasFc
  <2>3. ~SenderWaits(w.dst)
    BY <1>3, <1>7, <2>2 DEF SenderWaits
  <2> QED BY <1>1, <1>2, <1>3, <1>4, <1>5, <1>6, <1>7, <2>3
<1>8. CASE rctx[r].state # "WAIT_CF"
  <2>1. rctx[r].state \in {"PROCESS_SF", "RECYCLE", "ERR"} /\ (rrun.blk # r => r \in rwork)
    BY <1>4, <1>5, <1>8 DEF Lives, Asking, RRunning
  <2> QED BY <1>1, <1>2, <1>3, <1>5, <1>6, <2>1
<1> QED BY <1>7, <1>8

\* The last frame of a block arrives and the message is not complete: its context waits
\* for flow control, and no other frame is on the bus.
LEMMA BlockEnds ==
  ASSUME LinkInv, NEW m \in Msg, Accepted(m), NEW l \in Nat, Within(m, l), 2 <= l, l <= Cfs[m],
         NEW w \in Bus, w.f.msg = m, w.f.idx = l - 1
  PROVE  /\ \E b \in SendBlock : Using(b) /\ sctx[b].arg = m /\ Parked(b) /\ Ahead(b) = l
         /\ \A x \in Bus : x.dst = Dest[m] => ~Before(w.f, x.f)
<1>1. w.dst = Dest[m] /\ l - 1 \in Aired(m) /\ Cfs[m] \in Nat
  BY CommonAssumption DEF LinkInv, WireInv, CommonAssumption
<1>2. reports[m] = <<>>
  BY <1>1 DEF Within
<1>3. PICK b \in SendBlock : Using(b) /\ sctx[b].arg = m
  BY <1>2 DEF LinkInv, OrderInv
<1>4. sctx[b].addr = Dest[m] /\ Reach(b) <= l
  BY <1>3, UsedFacts DEF Within
<1>5. SendTypeInv /\ SendInv /\ AirInv
  BY DEF LinkInv, Halves
<1>6. UsedBlock(b) /\ Threads
  BY <1>3, <1>5 DEF SendInv, BlockInv, Using
<1>6a. srun.blk = b => srun.pc \in {"ffSent", "cfSent", "cfLoaded", "sem"}
  <2>1. srun.pc \in {"idle", "ffSent", "cfSent", "cfLoaded", "sem"}
    BY <1>5 DEF SendTypeInv, SendTypeOK
  <2> QED BY <1>6, <2>1, SendAssumption DEF Threads, SendAssumption
<1>7. ~HasSf(b)
  <2>1. SUFFICES ASSUME HasSf(b) PROVE FALSE
    OBVIOUS
  <2>2. PICK f \in Driver : f.blk = b /\ f.kind = "SF"
    BY <2>1, DriverHas
  <2>3. FrameFits(f)
    BY <1>5 DEF AirInv
  <2> QED BY <1>1, <1>3, <2>2, <2>3 DEF FrameFits
<1>8. /\ Sending(b) /\ sctx[b] \in SendCtx /\ sctx[b].rem \in Nat /\ Ahead(b) = Cfs[m] + 1 - sctx[b].rem
      /\ Ahead(b) \in Nat /\ sctx[b].bs \in 0..255 /\ SenderInv(b)
  BY <1>3, <1>7, LongFacts, SMTT(40)
<1>9. PICK a \in Nat, bs \in 0..255, rem \in Nat, cfs \in Nat :
        a = Ahead(b) /\ bs = sctx[b].bs /\ rem = sctx[b].rem /\ cfs = Cfs[m]
  BY <1>1, <1>8
<1>10. a >= l
  <2>1. l - 1 < Ahead(b)
    BY <1>1, <1>3, <1>8 DEF Sending, Counts, Aired
  <2> QED BY <1>9, <2>1
<1>11. ASSUME HasFrame(b), sctx[b].state # "SEND_FF" PROVE a # l
  <2>1. PICK f \in Driver : f.blk = b
    BY <1>11, DriverHas
  <2>2. Queued(b, f) /\ FrameFits(f) /\ f.kind # "SF"
    BY <1>5, <1>7, <2>1, DriverHas DEF LinkInv, DriverInv, AirInv
  <2>3. f.idx = Ahead(b) - 1 /\ f.msg = m
    BY <1>3, <2>1, <2>2 DEF Queued, FrameFits
  <2>4. l - 1 < f.idx
    BY <1>1, <2>2, <2>3 DEF FrameFits, Aired
  <2> QED BY <1>9, <2>3, <2>4
<1>12. sctx[b].state # "SEND_FF"
  <2>1. SUFFICES ASSUME sctx[b].state = "SEND_FF" PROVE FALSE
    OBVIOUS
  <2>2. CASE srun.blk # b
    <3>1. sctx[b].rem = Cfs[m] + 1
      BY <1>3, <1>8, <2>1, <2>2 DEF Sending, Phase
    <3> QED BY <1>8, <1>9, <1>10, <3>1
  <2>3. CASE srun.blk = b
    <3>1. srun.pc = "ffSent"
      BY <1>6, <1>6a, <2>1, <2>3 DEF UsedBlock, Working
    <3>2. sctx[b].rem = Cfs[m]
      BY <1>3, <1>8, <2>3, <3>1 DEF SenderInv
    <3> QED BY <1>8, <1>9, <1>10, <3>2
  <2> QED BY <2>2, <2>3
<1>13. ASSUME sctx[b].state \in {"SEND_CF", "WAIT_ST"} PROVE FALSE
  <2>1. bs >= 1
    BY <1>3, <1>8, <1>9, <1>13 DEF SenderInv
  <2>2. Reach(b) = a + bs - (IF InCf(b) THEN 1 ELSE 0)
    BY <1>9, <1>12, <1>13 DEF Reach
  <2>3. InCf(b) /\ a = l
    BY <1>4, <1>9, <1>10, <2>1, <2>2
  <2>4. HasFrame(b)
    BY <1>6, <2>3 DEF InCf, UsedBlock, Working
  <2> QED BY <1>11, <1>12, <2>3, <2>4
<1>14. a = l
  <2>1. Reach(b) = a
    BY <1>9, <1>12, <1>13 DEF Reach
  <2> QED BY <1>4, <1>10, <2>1
<1>15. sctx[b].state = "WAIT_FC"
  <2>1. sctx[b].state \in TxState
    BY <1>8 DEF SendCtx
  <2>2. sctx[b].state # "RESET"
    BY <1>6, <1>6a DEF UsedBlock, Working, Waiting
  <2>3. sctx[b].state \notin {"WAIT_BACKLOG", "WAIT_FIN"}
    <3>1. ASSUME sctx[b].state \in {"WAIT_BACKLOG", "WAIT_FIN"} PROVE FALSE
      <4>1. sctx[b].rem = 0
        BY <1>8, <3>1 DEF Sending, Phase
      <4> QED BY <1>8, <1>9, <1>14, <4>1
    <3> QED BY <3>1
  <2>4. sctx[b].state # "ERR"
    BY <1>1, <1>3, <1>4, <1>8 DEF SenderInv
  <2> QED BY <1>12, <1>13, <2>1, <2>2, <2>3, <2>4 DEF TxState
<1>16. Parked(b)
  <2>1. ~HasFrame(b)
    BY <1>11, <1>14, <1>15
  <2>2. srun.blk # b
    BY <1>6, <1>6a, <1>15 DEF UsedBlock, Working
  <2> QED BY <1>15, <2>1, <2>2 DEF Parked
<1>17. ASSUME NEW x \in Bus, x.dst = Dest[m], Before(w.f, x.f) PROVE FALSE
  <2>1. x.f.msg \in Msg /\ Dest[x.f.msg] = Dest[m] /\ x.f.idx \in Aired(x.f.msg) /\ x.f.idx \in Nat
    BY <1>17 DEF LinkInv, WireInv, Shape
  <2>2. CASE x.f.msg = m /\ w.f.idx < x.f.idx
    <3>1. x.f.idx < l
      BY <2>1, <2>2 DEF Within
    <3> QED BY <2>1, <2>2, <3>1
  <2>3. CASE Later(m, x.f.msg)
    BY <1>2, <2>1, <2>3, Latest DEF LinkInv, LinkTypes
  <2> QED BY <1>17, <2>2, <2>3 DEF Before
<1> QED BY <1>3, <1>9, <1>14, <1>16, <1>17

\* What reception c makes of a consecutive frame f that it accepts.
Takes(c, f, d) ==
  /\ d.src = c.src
  /\ d.state # "ERR" =>
       /\ f.kind = "CF" /\ f.sn = c.sn /\ d.total = c.total /\ d.data = Append(c.data, <<f.msg, f.idx>>)
       /\ \/ d.state = "RECYCLE" /\ c.rem = 1
          \/ c.rem > 1 /\ c.bs = 1 /\ d.state = "TRY_ALLOC" /\ d.bs = RBs
          \/ c.rem > 1 /\ c.bs > 1 /\ d.state = "WAIT_CF" /\ d.bs = c.bs - 1

\* It counts the block down, and asks again at its end.
LEMMA CfFields ==
  ASSUME NEW c \in RecvCtx, c.state = "WAIT_CF", RBs \in 1..255, c.bs \in 1..RBs, c.rem \in Nat \ {0},
         NEW f, DataFrame(f), NEW d, d = ProcessCf(c, f)
  PROVE  Takes(c, f, d)
<1> USE DEF Takes
<1>1. CASE f.kind # "CF"
  BY <1>1 DEF ProcessCf, RecvCtx
<1>2. CASE f.kind = "CF"
  <2>1. PICK n : n = [c EXCEPT !.timer = TRUE, !.sn = (@ + 1) % SnMod]
    OBVIOUS
  <2>2. n \in [DOMAIN c -> {n[x] : x \in DOMAIN c}] /\ n.sn = (c.sn + 1) % SnMod
        /\ n.src = c.src /\ n.rem = c.rem /\ n.bs = c.bs /\ n.data = c.data /\ n.total = c.total /\ n.state = c.state
    BY <2>1 DEF RecvCtx
  <2>3. CASE ~Expected(c, f)
    BY <1>2, <2>1, <2>2, <2>3 DEF ProcessCf, RecvCtx
  <2>4. CASE Expected(c, f)
    <3>1. PICK x \in Nat, y \in Nat : x = c.rem /\ y = c.bs
      OBVIOUS
    <3>2. PICK g : g = [n EXCEPT !.rem = IF @ > 0 THEN @ - 1 ELSE 0, !.data = Append(@, <<f.msg, f.idx>>)]
      OBVIOUS
    <3>3. /\ g.rem = x - 1 /\ g.data = Append(c.data, <<f.msg, f.idx>>)
          /\ g.src = c.src /\ g.bs = c.bs /\ g.total = c.total /\ g.state = c.state
          /\ DOMAIN g = DOMAIN c
      BY <2>1, <2>2, <3>1, <3>2 DEF RecvCtx
    <3>4. d = CASE g.rem = 0 -> [g EXCEPT !.state = "RECYCLE"]
                [] g.rem # 0 -> IF Byte(c.bs - 1) = 0 THEN [g EXCEPT !.bs = RBs, !.state = "TRY_ALLOC"]
                                                      ELSE [g EXCEPT !.bs = Byte(@ - 1)]
      BY <1>2, <2>1, <2>4, <3>2 DEF ProcessCf, Complete
    <3>5. Byte(y - 1) = y - 1
      BY <3>1 DEF Byte
    <3>6. {"state", "bs", "src", "data", "rem", "total"} \subseteq DOMAIN g
      BY <3>3 DEF RecvCtx
    <3>7. CASE x = 1
      <4>1. d = [g EXCEPT !.state = "RECYCLE"]
        BY <3>3, <3>4, <3>7
      <4> QED BY <1>2, <2>4, <3>1, <3>3, <3>6, <3>7, <4>1 DEF Expected
    <3>8. CASE x # 1 /\ y = 1
      <4>1. d = [g EXCEPT !.bs = RBs, !.state = "TRY_ALLOC"]
        BY <3>1, <3>3, <3>4, <3>5, <3>8
      <4>2. d.bs = RBs /\ d.state = "TRY_ALLOC" /\ d.src = c.src /\ d.rem = x - 1 /\ d.total = c.total
            /\ d.data = Append(c.data, <<f.msg, f.idx>>)
        BY <3>3, <3>6, <4>1
      <4>3. c.rem > 1 /\ c.bs = 1
        BY <3>1, <3>8
      <4> QED BY <1>2, <2>4, <3>1, <4>2, <4>3 DEF Expected
    <3>9. CASE x # 1 /\ y # 1
      <4>1. d = [g EXCEPT !.bs = Byte(@ - 1)]
        BY <3>1, <3>3, <3>4, <3>5, <3>9
      <4>2. d.bs = y - 1 /\ d.state = "WAIT_CF" /\ d.src = c.src /\ d.rem = x - 1 /\ d.total = c.total
            /\ d.data = Append(c.data, <<f.msg, f.idx>>)
        BY <3>1, <3>3, <3>5, <3>6, <4>1
      <4>3. c.rem > 1 /\ c.bs > 1
        BY <3>1, <3>9
      <4> QED BY <1>2, <2>4, <3>1, <4>2, <4>3 DEF Expected
    <3> QED BY <3>7, <3>8, <3>9
  <2> QED BY <2>3, <2>4
<1> QED BY <1>1, <1>2

\* A block counts down to its last frame.
LEMMA OneLess ==
  ASSUME NEW n \in Nat, NEW b \in 1..n, b > 1
  PROVE  b - 1 \in 1..n
OBVIOUS

\* Frames s of message m, from the set A, in order.
InLine(s, m, A) ==
  /\ \A j \in DOMAIN s : s[j][1] = m /\ s[j][2] \in A
  /\ \A i, j \in DOMAIN s : i <= j => s[j][2] - s[i][2] >= j - i

\* Frame i is put behind the n frames s of its message, which makes t.
Grows(s, n, m, i, A, t) ==
  /\ s \in Seq(Chunk) /\ n \in Nat \ {0} /\ n = Len(s) /\ InLine(s, m, A)
  /\ A \subseteq Nat /\ i \in A /\ s[n][2] < i /\ t = Append(s, <<m, i>>)
Grown(s, n, m, i, A, t) ==
  t[1] = s[1] /\ Len(t) = n + 1 /\ t[n + 1] = <<m, i>> /\ InLine(t, m, A)

\* They stay in line.
LEMMA OneMoreHeld ==
  ASSUME NEW s, NEW n, NEW m, NEW i, NEW A, NEW t, Grows(s, n, m, i, A, t)
  PROVE  Grown(s, n, m, i, A, t)
<1>a. /\ s \in Seq(Chunk) /\ n \in Nat \ {0} /\ n = Len(s) /\ InLine(s, m, A)
      /\ A \subseteq Nat /\ i \in A /\ i \in Nat /\ s[n][2] < i /\ t = Append(s, <<m, i>>)
  BY DEF Grows
<1>0. /\ \A j \in DOMAIN s : s[j][1] = m /\ s[j][2] \in A
      /\ \A j, k \in DOMAIN s : j <= k => s[k][2] - s[j][2] >= k - j
  BY <1>a DEF InLine
<1>b. PICK q \in Seq(Chunk), o \in Nat \ {0}, v \in Nat : q = s /\ o = n /\ v = i
  BY <1>a
<1>c. /\ DOMAIN q = 1..Len(q) /\ DOMAIN Append(q, <<m, v>>) = 1..(Len(q) + 1)
      /\ Len(Append(q, <<m, v>>)) = Len(q) + 1 /\ Append(q, <<m, v>>)[Len(q) + 1] = <<m, v>>
      /\ \A j \in 1..Len(q) : Append(q, <<m, v>>)[j] = q[j]
  OBVIOUS
<1>1. /\ DOMAIN s = 1..n /\ DOMAIN t = 1..(n + 1) /\ Len(t) = n + 1 /\ t[n + 1] = <<m, i>>
      /\ \A j \in 1..n : t[j] = s[j]
  BY ONLY <1>a, <1>b, <1>c
<1>2. <<m, i>>[1] = m /\ <<m, i>>[2] = i
  OBVIOUS
<1>3. t[1] = s[1]
  BY <1>a, <1>1
<1>4. \A j \in DOMAIN t : j \in 1..n \/ j = n + 1
  BY <1>a, <1>1
<1>5. ASSUME NEW j \in DOMAIN t PROVE t[j][1] = m /\ t[j][2] \in A
  BY ONLY <1>a, <1>0, <1>1, <1>2, <1>4
<1>6. ASSUME NEW j \in DOMAIN t, NEW k \in DOMAIN t, j <= k PROVE t[k][2] - t[j][2] >= k - j
  <2>1. CASE k \in 1..n
    <3>1. j \in 1..n
      BY <1>a, <1>1, <1>6, <2>1
    <3> QED BY <1>0, <1>1, <1>6, <2>1, <3>1
  <2>2. CASE k = n + 1 /\ j = n + 1
    <3>1. t[n + 1][2] \in Nat
      BY <1>a, <1>1, <1>2
    <3> QED BY <2>2, <3>1
  <2>3. CASE k = n + 1 /\ j \in 1..n
    <3>0. n \in DOMAIN s /\ j \in DOMAIN s /\ j <= n
      BY <1>a, <1>1, <2>3
    <3>1. s[n][2] \in Nat /\ s[j][2] \in Nat /\ s[n][2] - s[j][2] >= n - j /\ s[n][2] < i
      BY <1>a, <1>0, <3>0
    <3>2. t[k][2] = i /\ t[j][2] = s[j][2]
      BY <1>1, <1>2, <2>3
    <3>3. PICK x \in Nat, y \in Nat : x = s[n][2] /\ y = s[j][2] /\ x - y >= n - j /\ x < i
      BY <3>1
    <3>4. PICK h \in Nat : h = j /\ x - y >= o - h /\ x < v
      BY <1>b, <2>3, <3>3
    <3>5. v - y >= o + 1 - h
      BY <3>4
    <3>6. t[k][2] = v /\ t[j][2] = y /\ k = o + 1 /\ h = j
      BY <1>b, <2>3, <3>2, <3>3, <3>4
    <3> QED BY <3>5, <3>6
  <2> QED BY <1>4, <2>1, <2>2, <2>3
<1> QED BY <1>1, <1>3, <1>5, <1>6 DEF InLine, Grown

\* A reception that waits for a consecutive frame takes one.
LEMMA TakesCf ==
  ASSUME Cooperative, LinkInv, wire # <<>>, wire' = Tail(wire), NEW w, w = Head(wire),
         UNCHANGED <<sendVars, fcWire, order, rrun, fcq, delivered, rslab>>,
         NEW r \in RFound(w.dst), rctx[r].state = "WAIT_CF", rrun.blk # r,
         NEW c \in RecvCtx, c = [rctx[r] EXCEPT !.bufs = @ + 1],
         NEW d, d = ProcessCf(c, w.f), rctx' = [rctx EXCEPT ![r] = d]
  PROVE  RecvInv(r)' /\ d.src = rctx[r].src
<1>1. /\ w \in Bus /\ Shape(w.f) /\ w.dst = Dest[w.f.msg] /\ w.f.idx \in Aired(w.f.msg) /\ DataFrame(w.f)
      /\ Bus' \subseteq Bus /\ \A x \in Bus' : x.dst = w.dst => Before(w.f, x.f)
  BY ArrivingFrame
<1>2. /\ r \in RecvBlock \ rslab /\ rctx[r].src = w.dst /\ ~FcComes(r) /\ ~Asking(r) /\ rctx[r] \in RecvCtx
  BY <1>1, Listening
<1>3. rctx'[r] = d /\ \A q \in RecvBlock \ {r} : rctx'[q] = rctx[q]
  BY <1>2 DEF LinkInv, Halves, ContextsInv
<1>4. RBs \in 1..255
  BY ReceiveAssumption DEF Cooperative, Polite, ReceiveAssumption
<1>5. /\ c.state = "WAIT_CF" /\ c.src = rctx[r].src /\ c.rem = rctx[r].rem /\ c.bs = rctx[r].bs
      /\ c.data = rctx[r].data /\ c.total = rctx[r].total
  BY <1>2 DEF RecvCtx
<1>6. RecvInv(r)
  BY <1>2 DEF LinkInv
<1>7. /\ rctx[r].rem \in Nat \ {0} /\ rctx[r].rem + Len(rctx[r].data) = Cfs[MsgOf(r)] + 1
      /\ Cfs[MsgOf(r)] \in Nat \ {0} /\ Len(rctx[r].data) \in Nat \ {0} /\ rctx[r].bs \in 1..RBs
      /\ rctx[r].data \in Seq(Chunk)
  BY <1>2, <1>6, AtLeastTwo, RecvData DEF RecvInv
<1>8. /\ d.src = rctx[r].src
      /\ d.state # "ERR" =>
           /\ w.f.kind = "CF" /\ d.total = rctx[r].total /\ d.data = Append(rctx[r].data, <<w.f.msg, w.f.idx>>)
           /\ \/ d.state = "RECYCLE"
              \/ c.rem > 1 /\ c.bs = 1 /\ d.state = "TRY_ALLOC" /\ d.bs = RBs
              \/ c.rem > 1 /\ c.bs > 1 /\ d.state = "WAIT_CF" /\ d.bs = c.bs - 1
  <2>1. c.bs \in 1..RBs /\ c.rem \in Nat \ {0} /\ DataFrame(w.f)
    BY <1>1, <1>5, <1>7
  <2>2. Takes(c, w.f, d)
    BY <1>4, <1>5, <2>1, CfFields
  <2> QED BY <1>5, <2>2 DEF Takes
<1>9. \A q \in RecvBlock \ rslab' : rctx'[q].src = rctx'[r].src => q = r
  BY <1>2, <1>3, <1>6, <1>8, ZenonT(60) DEF RecvInv
<1>10. ASSUME d.state = "ERR" PROVE RecvInv(r)'
  BY <1>3, <1>8, <1>9, <1>10 DEF RecvInv, Asking
<1>11. ASSUME d.state # "ERR" PROVE RecvInv(r)'
  <2>1. PICK m \in Msg : Holds(r, m)
    BY <1>2, <1>6 DEF RecvInv
  <2>2. MsgOf(r) = m /\ Accepted(m) /\ Dest[m] = w.dst /\ Behind(r, m) /\ Fresher(m)
    BY <1>2, <2>1 DEF Holds
  <2>3. PICK l \in {Len(rctx[r].data) + rctx[r].bs} : Within(m, l)
    BY <1>2, <1>6, <2>2 DEF RecvInv, Window
  <2>4. PICK n \in Nat \ {0}, bs \in 1..RBs, rem \in Nat \ {0} :
          n = Len(rctx[r].data) /\ bs = rctx[r].bs /\ rem = rctx[r].rem /\ l = n + bs /\ rem + n = Cfs[m] + 1
    BY <1>7, <2>2, <2>3
  <2>5. w.f.msg = m /\ LastOf(r) < w.f.idx
    <3>1. (w.f.msg = m /\ LastOf(r) < w.f.idx) \/ Later(m, w.f.msg)
      BY <1>1, <2>2 DEF Behind
    <3>2. w.f.idx # 0 /\ w.f.msg \in Msg
      <4>1. w.f.idx \in 1..Cfs[w.f.msg]
        BY <1>1, <1>8, <1>11 DEF Shape
      <4>2. w.f.msg \in Msg
        BY <1>1 DEF Shape
      <4> QED BY <4>1, <4>2
    <3> QED BY <1>1, <2>2, <2>3, <3>1, <3>2 DEF Within
  <2>6. w.f.idx \in Nat /\ Aired(m) \subseteq Nat
    BY <1>1 DEF Shape, LinkInv, WireInv
  <2>7. PICK t : t = Append(rctx[r].data, <<m, w.f.idx>>)
    OBVIOUS
  <2>8. rctx'[r].data = t /\ rctx'[r].total = rctx[r].total /\ rctx'[r].src = rctx[r].src
    BY <1>3, <1>8, <1>11, <2>5, <2>7
  <2>9. /\ t[1] = rctx[r].data[1] /\ Len(t) = n + 1 /\ t[n + 1] = <<m, w.f.idx>>
        /\ \A j \in DOMAIN t : t[j][1] = m /\ t[j][2] \in Aired(m)
        /\ \A j, k \in DOMAIN t : j <= k => t[k][2] - t[j][2] >= k - j
    <3>1. /\ \A j \in DOMAIN rctx[r].data : rctx[r].data[j][1] = m /\ rctx[r].data[j][2] \in Aired(m)
          /\ \A i, j \in DOMAIN rctx[r].data : i <= j => rctx[r].data[j][2] - rctx[r].data[i][2] >= j - i
      BY <2>1 DEF Holds
    <3>2. rctx[r].data[n][2] < w.f.idx
      BY <2>4, <2>5 DEF LastOf
    <3>3. w.f.idx \in Aired(m) /\ rctx[r].data \in Seq(Chunk) /\ n = Len(rctx[r].data)
      BY <1>1, <1>7, <2>4, <2>5
    <3>4. PICK s : s = rctx[r].data
      OBVIOUS
    <3>5. PICK A : A = Aired(m)
      OBVIOUS
    <3>6. InLine(s, m, A)
      BY <3>1, <3>4, <3>5 DEF InLine
    <3>6a. PICK i \in Nat : i = w.f.idx
      BY <2>6
    <3>6b. s \in Seq(Chunk) /\ n = Len(s) /\ i \in A /\ A \subseteq Nat /\ s[n][2] < i /\ t = Append(s, <<m, i>>)
      BY <2>6, <2>7, <3>2, <3>3, <3>4, <3>5, <3>6a
    <3>7. Grows(s, n, m, i, A, t)
      BY <3>6, <3>6b DEF Grows
    <3>8. Grown(s, n, m, i, A, t)
      BY <3>7, OneMoreHeld
    <3> QED BY <3>4, <3>5, <3>6a, <3>8 DEF InLine, Grown
  <2>10. MsgOf(r)' = m
    BY <2>2, <2>8, <2>9 DEF MsgOf
  <2>11. LastOf(r)' = w.f.idx
    BY <2>8, <2>9 DEF LastOf
  <2>12. Behind(r, m)'
    <3>1. ASSUME NEW x \in Bus', x.dst = Dest[m]
          PROVE  (x.f.msg = m /\ w.f.idx < x.f.idx) \/ Later(m, x.f.msg)'
      BY <1>1, <2>2, <2>5, <3>1, SameSender DEF Before
    <3> QED BY <2>11, <3>1 DEF Behind
  <2>13. Fresher(m)'
    BY <2>2, SameSender, SMTT(40) DEF Fresher, Arrived
  <2>14. Holds(r, m)'
    <3>1. Accepted(m)' /\ Aired(m)' = Aired(m)
      BY <2>2, SameSender
    <3>2. rctx[r].total = Cfs[m] + 1
      BY <2>1 DEF Holds
    <3> QED BY <1>2, <2>2, <2>8, <2>9, <2>10, <2>12, <2>13, <3>1, <3>2 DEF Holds
  <2>15. CASE d.state = "RECYCLE"
    <3>1. rctx'[r].state = "RECYCLE"
      BY <1>3, <2>15
    <3>2. ~Asking(r)'
      BY <3>1 DEF Asking
    <3> QED BY <1>9, <2>14, <3>1, <3>2 DEF RecvInv
  <2>16. CASE c.rem > 1 /\ c.bs = 1 /\ d.state = "TRY_ALLOC" /\ d.bs = RBs
    <3>1. rem > 1 /\ bs = 1
      BY <1>5, <2>4, <2>16
    <3>2. PICK k \in Nat : k = n + 1
      OBVIOUS
    <3>3. l = k /\ 2 <= k /\ k <= Cfs[m]
      <4>1. Cfs[m] \in Nat
        BY <1>7, <2>2
      <4> QED BY <2>4, <3>1, <3>2, <4>1
    <3>4. w.f.idx = k - 1
      <4>1. w.f.idx < k
        BY <1>1, <2>3, <2>5, <3>3 DEF Within
      <4>2. LastOf(r) \in Nat /\ LastOf(r) >= n - 1
        <5>1. rctx[r].state # "ERR"
          OBVIOUS
        <5>2. PICK x \in Msg : LastOf(r) \in Nat /\ LastOf(r) >= Len(rctx[r].data) - 1
          BY <1>2, <5>1, LastAired
        <5> QED BY <2>4, <5>2
      <4> QED BY <2>5, <2>6, <3>2, <4>1, <4>2
    <3>5. /\ \E b \in SendBlock : Using(b) /\ sctx[b].arg = m /\ Parked(b) /\ Ahead(b) = k
          /\ \A x \in Bus : x.dst = Dest[m] => ~Before(w.f, x.f)
      BY <1>1, <2>2, <2>3, <2>5, <3>3, <3>4, BlockEnds
    <3>6. NoWire(Dest[m])'
      BY <1>1, <2>2, <3>5 DEF NoWire
    <3>7. SenderParked(r)'
      <4>1. Len(rctx'[r].data) = k
        BY <2>8, <2>9, <3>2
      <4>2. \E b \in SendBlock : Using(b)' /\ sctx'[b].arg = m /\ Parked(b)' /\ Ahead(b)' = Len(rctx'[r].data)
        BY <3>5, <4>1, SameSender
      <4> QED BY <2>10, <3>6, <4>2 DEF SenderParked
    <3>8. rctx'[r].state = "TRY_ALLOC" /\ rctx'[r].bs = RBs
      BY <1>3, <2>16
    <3> QED BY <1>9, <2>14, <3>7, <3>8 DEF RecvInv
  <2>17. CASE c.rem > 1 /\ c.bs > 1 /\ d.state = "WAIT_CF" /\ d.bs = c.bs - 1
    <3>0. bs > 1 /\ d.bs = bs - 1
      BY <1>5, <2>4, <2>17
    <3>1. rctx'[r].bs = bs - 1 /\ bs - 1 \in 1..RBs /\ rctx'[r].state = "WAIT_CF"
      <4>1. bs - 1 \in 1..RBs
        <5>1. RBs \in Nat
          BY ONLY <1>4
        <5>2. bs \in 1..RBs
          OBVIOUS
        <5> QED BY <3>0, <5>1, <5>2, OneLess
      <4> QED BY <1>3, <2>17, <3>0, <4>1
    <3>2. ~Asking(r)'
      <4>1. ~Asked(r) /\ ~FcComes(r)
        BY <1>2, <1>5 DEF Asking
      <4>2. ~Asked(r)' /\ ~FcComes(r)'
        BY <2>8, <4>1 DEF Asked, FcComes
      <4> QED BY <3>1, <4>2 DEF Asking
    <3>3. Window(r)'
      <4>1. l = Len(rctx'[r].data) + rctx'[r].bs
        <5>1. Len(rctx'[r].data) = n + 1 /\ rctx'[r].bs = bs - 1
          BY <2>8, <2>9, <3>1
        <5>2. l = (n + 1) + (bs - 1)
          BY <2>4
        <5> QED BY <5>1, <5>2
      <4>2. Within(m, l)'
        BY <1>1, <2>3, WithinStays
      <4>3. \E x \in {Len(rctx'[r].data) + rctx'[r].bs} : MsgOf(r)' = m /\ Within(m, x)'
        BY <2>10, <4>1, <4>2
      <4> QED BY <4>3 DEF Window
    <3> QED BY <1>9, <2>14, <3>1, <3>2, <3>3 DEF RecvInv
  <2> QED BY <1>8, <1>11, <2>15, <2>16, <2>17
<1> QED BY <1>8, <1>10, <1>11

\* What a reception holds stays what it is, whatever else the step does to its context.
LEMMA HoldsStays ==
  ASSUME UNCHANGED <<sendVars, order>>, Bus' \subseteq Bus, NEW q, NEW m \in Msg, Holds(q, m),
         rctx'[q].data = rctx[q].data, rctx'[q].src = rctx[q].src, rctx'[q].total = rctx[q].total,
         \A n \in Msg : Arrived(n)' => Arrived(n) \/ Dest[n] # Dest[m],
         rrun.blk = q /\ rrun.pc = "dispatch" => rrun'.blk = q /\ rrun'.pc = "dispatch"
  PROVE  Holds(q, m)'
<1>1. Fresher(m) => Fresher(m)'
  BY SameSender DEF Fresher
<1>2. MsgOf(q)' = MsgOf(q) /\ Behind(q, m)'
  BY HeldStays DEF Holds
<1>3. Accepted(m)' /\ Aired(m)' = Aired(m)
  BY SameSender DEF Holds
<1> QED BY <1>1, <1>2, <1>3 DEF Holds

\* A frame for a message that is complete, or in error, takes a buffer and is dropped.
LEMMA BufferTaken ==
  ASSUME LinkInv, wire # <<>>, wire' = Tail(wire),
         UNCHANGED <<sendVars, fcWire, order, rrun, fcq, delivered, rbound, runb, faults, corrupt, rslab>>,
         NEW r \in RecvBlock \ rslab, rctx[r].state \in {"PROCESS_SF", "RECYCLE", "ERR"},
         r \in rwork, rrun.blk # r, ~FcComes(r),
         rctx' = [rctx EXCEPT ![r] = [rctx[r] EXCEPT !.bufs = @ + 1]], rwork' = rwork \cup {r}
  PROVE  LinkInv'
<1>1. Inv /\ ContextsInv /\ RecvInv(r)
  BY DEF LinkInv, Halves
<1>2. rctx[r] \in RecvCtx /\ DOMAIN rctx = RecvBlock /\ Owned(r) /\ Lives(r) /\ OtherTypes
  BY <1>1 DEF Inv, Types, ContextsInv, ContextSound, InUse
<1>3. PICK d : d = [rctx[r] EXCEPT !.bufs = @ + 1]
  OBVIOUS
<1>4. rctx[r].bufs + 1 \in Nat /\ d = [rctx[r] EXCEPT !.bufs = rctx[r].bufs + 1]
  BY <1>2, <1>3, SMTT(40) DEF RecvCtx
<1>5. d \in RecvCtx /\ Alike(rctx[r], d) /\ d.state = rctx[r].state
  BY <1>2, <1>4, PutUnseen, ZenonT(60) DEF Unseen
<1>6. d.src = rctx[r].src /\ SameControl(d, rctx[r])
  BY <1>2, <1>4 DEF Owned, HasControl, SameControl
<1>7. rctx' = [rctx EXCEPT ![r] = d] /\ rctx'[r] = d /\ \A q \in RecvBlock \ {r} : rctx'[q] = rctx[q]
  BY <1>2, <1>3
<1>8. Inv'
  <2>1. OtherTypes'
    BY <1>2 DEF OtherTypes
  <2> QED BY <1>1, <1>5, <1>7, <2>1, Quietly
<1>9. ~Asked(r) /\ ~Asked(r)'
  BY <1>2 DEF Lives, Asked, RRunning
<1>10. ContextsInv'
  <2>1. Owned(r)'
    BY <1>2, <1>6, <1>7, <1>9, OwnedStays
  <2>2. Lives(r)'
    BY <1>5, <1>7, <1>9 DEF Lives
  <2>3. ContextSound(r)'
    BY <2>1, <2>2 DEF ContextSound, InUse
  <2>4. fcq' \in Seq(FcFrame) /\ OneEach(fcq') /\ ThreadPlace' /\ ~corrupt'
    BY <1>1 DEF ContextsInv, ThreadPlace
  <2> QED BY <1>1, <1>7, <2>3, <2>4, OneContextSound DEF ContextsInv
<1>11. RecvInv(r)'
  <2>1. Bus' \subseteq Bus
    BY ArrivingFrame
  <2>2. \A q \in RecvBlock \ rslab' : rctx'[q].src = rctx'[r].src => q = r
    BY <1>1, <1>6, <1>7 DEF RecvInv
  <2>3. \A n \in Msg : Arrived(n)' => Arrived(n)
    BY DEF Arrived
  <2>4. ASSUME NEW m \in Msg, Holds(r, m) PROVE Holds(r, m)'
    BY <1>5, <1>6, <1>7, <2>1, <2>3, <2>4, HoldsStays DEF Alike
  <2>5. rctx'[r].state \in {"PROCESS_SF", "RECYCLE", "ERR"} /\ ~Asking(r)'
    BY <1>5, <1>7 DEF Asking
  <2> QED BY <1>1, <1>5, <1>7, <2>2, <2>4, <2>5 DEF RecvInv
<1> QED BY <1>6, <1>7, <1>8, <1>10, <1>11, ArrivalMoves

\* A frame arrives for a reception that its context is still listed for.
LEMMA ExistingReceived ==
  ASSUME Cooperative, LinkInv, wire # <<>>, wire' = Tail(wire), NEW w, w = Head(wire),
         PromptReceiver => rwork = {}, PromptReceiver \/ pool > 0,
         NEW r \in RFound(w.dst), RxExisting(r, w.f), RTouch(r), rrun.blk # r,
         UNCHANGED <<sendVars, fcWire, order, rrun, fcq, delivered, rbound, runb, faults>>
  PROVE  LinkInv'
<1>1. w \in Bus /\ DataFrame(w.f)
  BY ArrivingFrame
<1>2. /\ r \in RecvBlock \ rslab /\ rctx[r].src = w.dst /\ ~FcComes(r) /\ rctx[r] \in RecvCtx
      /\ \/ rctx[r].state = "WAIT_CF" /\ ~Asking(r) /\ ~SenderWaits(w.dst)
         \/ rctx[r].state \in {"PROCESS_SF", "RECYCLE", "ERR"} /\ r \in rwork
  BY <1>1, Listening
<1>3. corrupt' = corrupt /\ DOMAIN rctx = RecvBlock /\ Inv /\ ContextsInv
  BY <1>2 DEF RTouch, Safe, LinkInv, Halves, ContextsInv
<1>4. CASE rctx[r].state \in {"PROCESS_SF", "RECYCLE", "ERR"}
  <2>1. r \in rwork /\ pool > 0
    BY <1>2, <1>4
  <2>2. /\ rctx' = [rctx EXCEPT ![r] = [rctx[r] EXCEPT !.bufs = @ + 1]] /\ rwork' = rwork \cup {r}
        /\ UNCHANGED rslab
    <3>1. pool # 0
      <4>1. ~(0 > 0)
        OBVIOUS
      <4> QED BY <2>1, <4>1
    <3>2. PICK c : c = [rctx[r] EXCEPT !.bufs = @ + 1]
      OBVIOUS
    <3>3. c.state = rctx[r].state
      BY <1>2, <3>2 DEF RecvCtx
    <3> QED BY <1>4, <3>1, <3>2, <3>3 DEF RxExisting
  <2> QED BY <1>2, <1>3, <1>4, <2>1, <2>2, BufferTaken
<1>5. CASE rctx[r].state = "WAIT_CF"
  <2>1. ~Asking(r) /\ ~SenderWaits(w.dst) /\ ~Asked(r)
    BY <1>2, <1>5, SMTT(40) DEF Asking
  <2>2. ContextsInv'
    BY <1>3, <2>1, ExistingSound DEF Cooperative
  <2>3. Inv'
    BY <1>1, <1>2, <1>3, ExistingKeeps
  <2>4. CASE pool = 0
    <3>1. rctx' = [rctx EXCEPT ![r] = RFreed(rctx[r])] /\ rslab' = rslab \cup {r}
      <4>1. ~(0 > 0)
        OBVIOUS
      <4> QED BY <2>4, <4>1 DEF RxExisting, RFree
    <3>2. RecvInv(r)'
      BY <3>1 DEF RecvInv
    <3> QED BY <1>2, <1>3, <2>1, <2>2, <2>3, <3>1, <3>2, ArrivalMoves
  <2>5. CASE pool # 0
    <3>1. PICK c : c = [rctx[r] EXCEPT !.bufs = @ + 1]
      OBVIOUS
    <3>2. c \in RecvCtx /\ c.state = "WAIT_CF"
      <4>1. rctx[r].bufs + 1 \in Nat /\ c = [rctx[r] EXCEPT !.bufs = rctx[r].bufs + 1]
        BY <1>2, <3>1 DEF RecvCtx
      <4> QED BY <1>2, <1>5, <4>1, PutUnseen, ZenonT(60) DEF Unseen
    <3>3. PICK d : d = ProcessCf(c, w.f)
      OBVIOUS
    <3>4. rctx' = [rctx EXCEPT ![r] = d] /\ UNCHANGED rslab
      BY <2>5, <3>1, <3>2, <3>3 DEF RxExisting
    <3>5. RecvInv(r)' /\ d.src = rctx[r].src
      BY <1>5, <3>1, <3>2, <3>3, <3>4, TakesCf, ZenonT(60)
    <3> QED BY <1>2, <1>3, <2>1, <2>2, <2>3, <3>4, <3>5, ArrivalMoves
  <2> QED BY <2>4, <2>5
<1> QED BY <1>2, <1>4, <1>5

\* What a context makes of the first frame of a message.
Opens(d, s, f) ==
  /\ d.src = s /\ d.total = f.len /\ d.data = Append(<<>>, <<f.msg, f.idx>>)
  /\ d.state = IF f.kind = "SF" THEN "PROCESS_SF" ELSE "PROCESS_FF"

\* Whatever its block held before.
LEMMA FirstFields ==
  ASSUME NEW r, rctx[r] \in RecvCtx, NEW s, NEW f
  PROVE  Opens(ProcessFfSf(NewRecvCtx(r, s), f), s, f)
<1>1. PICK c : c = NewRecvCtx(r, s)
  OBVIOUS
<1>2. c.src = s /\ c.data = <<>> /\ {"state", "rem", "total", "sn", "data", "src"} \subseteq DOMAIN c
  BY <1>1 DEF NewRecvCtx, RecvCtx
<1> QED BY <1>1, <1>2 DEF ProcessFfSf, Opens

\* A first frame arrives: its context waits for flow control, and no other frame for the
\* same address is behind it.
LEMMA FirstAlone ==
  ASSUME LinkInv, NEW w \in Bus, w.f.kind = "FF"
  PROVE  /\ \E b \in SendBlock : Using(b) /\ sctx[b].arg = w.f.msg /\ Parked(b) /\ Ahead(b) = 1
         /\ \A x \in Bus : x.dst = w.dst => ~Before(w.f, x.f)
<1>1. PICK b \in SendBlock : Using(b) /\ sctx[b].arg = w.f.msg /\ Parked(b) /\ Ahead(b) = 1
  BY DEF LinkInv, WireInv
<1>2. w.f.msg \in Msg /\ reports[w.f.msg] = <<>> /\ w.dst = Dest[w.f.msg] /\ w.f.idx = 0
  BY <1>1, UsedFacts DEF LinkInv, WireInv, Shape
<1>3. ~HasSf(b)
  BY <1>1 DEF Parked, HasSf, HasFrame
<1>4. Sending(b)
  BY <1>1, <1>3, LongFacts
<1>5. ASSUME NEW x \in Bus, x.dst = w.dst, Before(w.f, x.f) PROVE FALSE
  <2>1. x.f.msg \in Msg /\ Dest[x.f.msg] = Dest[w.f.msg] /\ x.f.idx \in Aired(x.f.msg) /\ x.f.idx \in Nat
    BY <1>2, <1>5 DEF LinkInv, WireInv, Shape
  <2>2. CASE w.f.msg = x.f.msg /\ w.f.idx < x.f.idx
    <3>1. x.f.idx < 1
      BY <1>1, <1>4, <2>1, <2>2 DEF Sending, Counts, Aired
    <3> QED BY <1>2, <2>1, <2>2, <3>1
  <2>3. CASE Later(w.f.msg, x.f.msg)
    BY <1>2, <2>1, <2>3, Latest DEF LinkInv, LinkTypes
  <2> QED BY <1>5, <2>2, <2>3 DEF Before
<1> QED BY <1>1, <1>5

\* A first or single frame opens a reception.
LEMMA NewReceived ==
  ASSUME LinkInv, wire # <<>>, wire' = Tail(wire), NEW w, w = Head(wire),
         RFound(w.dst) = {}, RxNew(w.dst, w.f),
         UNCHANGED <<sendVars, fcWire, order, rrun, fcq, delivered, rbound, runb, faults>>
  PROVE  LinkInv'
<1>1. /\ w \in Bus /\ Shape(w.f) /\ w.dst = Dest[w.f.msg] /\ w.dst \in Src /\ w.f.idx \in Aired(w.f.msg)
      /\ Accepted(w.f.msg) /\ DataFrame(w.f)
      /\ Bus' \subseteq Bus /\ \A x \in Bus' : x.dst = w.dst => Before(w.f, x.f)
  BY ArrivingFrame
<1>2. Inv /\ ContextsInv /\ DeliveredInv
  BY DEF LinkInv, Halves
<1>3. ContextsInv' /\ ~corrupt' /\ Inv'
  BY <1>1, <1>2, NewSound, NewKeeps
<1>4. PICK r \in rslab :
        /\ rctx' = [rctx EXCEPT ![r] = ProcessFfSf(NewRecvCtx(r, w.dst), w.f)] /\ rslab' = rslab \ {r}
        /\ IF r \in rwork THEN Corrupt ELSE Safe
  BY DEF RxNew
<1>5. r \in RecvBlock /\ DOMAIN rctx = RecvBlock /\ rctx[r] \in RecvCtx /\ ~Asked(r) /\ r \notin rwork
  BY <1>2, <1>4 DEF ContextsInv, ContextSound, Idle, Inv, Types
<1>6. corrupt' = corrupt
  BY <1>4, <1>5 DEF Safe
<1>7. PICK d : d = ProcessFfSf(NewRecvCtx(r, w.dst), w.f)
  OBVIOUS
<1>8. rctx'[r] = d /\ \A q \in RecvBlock \ {r} : rctx'[q] = rctx[q] /\ (q \in rslab' <=> q \in rslab)
  BY <1>4, <1>5, <1>7
<1>9. PICK m \in Msg : m = w.f.msg
  BY <1>1 DEF Shape
<1>10. w.f.idx = 0 /\ w.f.len = Cfs[m] + 1
  <2>1. w.f.kind \in {"SF", "FF"}
    BY DEF RxNew
  <2>2. CASE w.f.kind = "SF"
    <3>1. Cfs[m] = 0 /\ w.f.idx = 0 /\ w.f.len = 1
      BY <1>1, <1>9, <2>2 DEF Shape
    <3> QED BY <3>1
  <2>3. CASE w.f.kind = "FF"
    <3>1. w.f.idx = 0 /\ w.f.len = Cfs[w.f.msg] + 1
      BY <1>1, <2>3 DEF Shape
    <3> QED BY <1>9, <3>1
  <2> QED BY <2>1, <2>2, <2>3
<1>11. /\ d.src = w.dst /\ d.total = Cfs[m] + 1 /\ d.data = Append(<<>>, <<m, 0>>)
       /\ d.state = IF w.f.kind = "SF" THEN "PROCESS_SF" ELSE "PROCESS_FF"
  <2>1. /\ d.src = w.dst /\ d.total = w.f.len /\ d.data = Append(<<>>, <<w.f.msg, w.f.idx>>)
        /\ d.state = IF w.f.kind = "SF" THEN "PROCESS_SF" ELSE "PROCESS_FF"
    <3>1. Opens(d, w.dst, w.f)
      BY <1>5, <1>7, FirstFields
    <3> QED BY <3>1 DEF Opens
  <2> QED BY <1>9, <1>10, <2>1
<1>12. d.data[1] = <<m, 0>> /\ Len(d.data) = 1 /\ DOMAIN d.data = {1}
  <2>1. PICK s : s = Append(<<>>, <<m, 0>>)
    OBVIOUS
  <2>2. s[1] = <<m, 0>> /\ Len(s) = 1 /\ DOMAIN s = {1}
    BY <2>1
  <2> QED BY <1>11, <2>1, <2>2
<1>13. MsgOf(r)' = m /\ LastOf(r)' = 0
  BY <1>8, <1>12 DEF MsgOf, LastOf
<1>14. Holds(r, m)'
  <2>1. Behind(r, m)'
    <3>1. ASSUME NEW x \in Bus', x.dst = Dest[m] PROVE (x.f.msg = m /\ 0 < x.f.idx) \/ Later(m, x.f.msg)'
      BY <1>1, <1>9, <1>10, <3>1, SameSender DEF Before
    <3> QED BY <1>13, <3>1 DEF Behind
  <2>2. Fresher(m)'
    <3>1. ASSUME NEW n \in Msg, Arrived(n), Dest[n] = Dest[m] PROVE Later(n, m)
      BY <1>1, <1>2, <1>9, <3>1 DEF DeliveredInv
    <3> QED BY <3>1, SameSender DEF Fresher, Arrived
  <2>3. Accepted(m)' /\ 0 \in Aired(m)' /\ Dest[m] = rctx'[r].src
    BY <1>1, <1>8, <1>9, <1>10, <1>11, SameSender
  <2>4. \A j \in DOMAIN rctx'[r].data : rctx'[r].data[j][1] = m /\ rctx'[r].data[j][2] = 0 /\ j = 1
    BY <1>8, <1>12
  <2>5. \A i, j \in DOMAIN rctx'[r].data : i <= j => rctx'[r].data[j][2] - rctx'[r].data[i][2] >= j - i
    BY <2>4
  <2> QED BY <1>8, <1>11, <1>13, <2>1, <2>2, <2>3, <2>4, <2>5 DEF Holds
<1>15. \A q \in RecvBlock \ rslab' : rctx'[q].src = rctx'[r].src => q = r
  <2>1. ASSUME NEW q \in RecvBlock \ rslab, rctx[q].src = w.dst PROVE FALSE
    <3>1. rctx[q].list = "ctx"
      BY <1>2, <2>1 DEF ContextsInv, ContextSound, InUse, Owned
    <3> QED BY <2>1, <3>1 DEF RFound
  <2> QED BY <1>4, <1>8, <1>11, <2>1
<1>16. RecvInv(r)'
  <2>1. CASE w.f.kind = "SF"
    <3>1. rctx'[r].state = "PROCESS_SF"
      BY <1>8, <1>11, <2>1
    <3> QED BY <1>14, <1>15, <3>1 DEF RecvInv, Asking
  <2>2. CASE w.f.kind # "SF"
    <3>1. w.f.kind = "FF" /\ rctx'[r].state = "PROCESS_FF"
      BY <1>1, <1>8, <1>11, <2>2 DEF RxNew
    <3>2. SenderParked(r)'
      <4>1. NoWire(Dest[m])'
        BY <1>1, <1>9, <3>1, FirstAlone DEF NoWire
      <4>2. \E b \in SendBlock : Using(b)' /\ sctx'[b].arg = m /\ Parked(b)' /\ Ahead(b)' = Len(rctx'[r].data)
        BY <1>1, <1>8, <1>9, <1>12, <3>1, FirstAlone, SameSender
      <4> QED BY <1>13, <4>1, <4>2 DEF SenderParked
    <3> QED BY <1>14, <1>15, <3>1, <3>2 DEF RecvInv
  <2> QED BY <2>1, <2>2
<1> QED BY <1>3, <1>4, <1>5, <1>6, <1>8, <1>16, ArrivalMoves

\* can_rx_callback at the receiver.
LEMMA ReceiveKeeps ==
  ASSUME Cooperative, LinkInv, PromptReceiver \/ pool > 0, Receive
  PROVE  LinkInv'
<1>1. PICK w : w = Head(wire)
  OBVIOUS
<1>2. /\ wire # <<>> /\ wire' = Tail(wire) /\ FrameArrives(w.dst, w.f)
      /\ PromptReceiver => rwork = {}
      /\ UNCHANGED <<sendVars, fcWire, order, rrun, fcq, delivered, rbound, runb, faults>>
  BY <1>1 DEF Receive, FrameArrives, NoFault
<1>3. CASE \E r \in RFound(w.dst) : RxExisting(r, w.f) /\ RTouch(r)
  <2>1. PICK r \in RFound(w.dst) : RxExisting(r, w.f) /\ RTouch(r)
    BY <1>3
  <2>2. rrun.blk # r
    BY <1>2, <2>1 DEF FrameArrives, Cooperative
  <2> QED BY <1>1, <1>2, <2>1, <2>2, ExistingReceived
<1>4. CASE RFound(w.dst) = {} /\ RxNew(w.dst, w.f)
  BY <1>1, <1>2, <1>4, NewReceived
<1>5. CASE RxIgnored /\ Safe
  BY <1>2, <1>5, IgnoredKeeps DEF Safe
<1> QED BY <1>2, <1>3, <1>4, <1>5 DEF FrameArrives

-----------------------------------------------------------------------------
(* The receiver's work queue.                                              *)

\* Any other step of the receiver that moves one reception, the bus as it is.
LEMMA WorkMoves ==
  ASSUME LinkInv, UNCHANGED <<sendVars, linkVars, corrupt>>, faults' \in {faults, faults + 1},
         NEW r \in RecvBlock, Inv', ContextsInv', FcInv', DeliveredInv', RecvInv(r)',
         \A q \in RecvBlock \ {r} : /\ rctx'[q] = rctx[q] /\ (q \in rslab' <=> q \in rslab)
                                    /\ (Asked(q)' <=> Asked(q))
                                    /\ rrun' = rrun \/ (rrun.blk # q /\ rrun'.blk # q),
         \A q \in RecvBlock \ ({r} \cup rslab) : \A n \in Msg : Arrived(n)' => Arrived(n) \/ Dest[n] # rctx[q].src
  PROVE  LinkInv'
<1>1. UNCHANGED <<wire, fcWire, order>>
  BY DEF linkVars
<1>2. Bus' = Bus /\ WireSorted'
  BY <1>1, SameSender, BusStays DEF LinkInv, WireInv
<1>3. LinkTypes'
  BY <1>1 DEF LinkInv, LinkTypes
<1>4. \A q \in RecvBlock \ {r} : (q \in rslab' <=> q \in rslab) /\ (q \notin rslab => Rests(q))
  BY <1>1 DEF Rests, FcComes
<1> QED BY <1>1, <1>2, <1>3, <1>4, ReceiverMoves

\* A message that is received whole is the message that was sent.
LEMMA WholeIs ==
  ASSUME LinkInv, NEW r \in RecvBlock \ rslab, rctx[r].state \in Received, NEW m \in Msg, Holds(r, m)
  PROVE  rctx[r].data = Payload(m) /\ Cfs[m] \in Aired(m) /\ LastOf(r) = Cfs[m] /\ rctx[r].src = Dest[m]
<1>1. /\ rctx[r].data \in Seq(Chunk) /\ Whole(rctx[r]) /\ DOMAIN rctx[r].data = 1..Len(rctx[r].data)
      /\ Len(rctx[r].data) \in Nat \ {0}
  BY RecvData DEF Received
<1>2. PICK s \in Seq(Chunk) : s = rctx[r].data
  BY <1>1
<1>3. PICK n \in Nat : n = Cfs[m]
  BY CommonAssumption DEF CommonAssumption
<1>4. Len(s) = n + 1 /\ DOMAIN s = 1..(n + 1) /\ s[1][2] = 0
  BY <1>1, <1>2, <1>3 DEF Whole, Holds, InSequence
<1>5. /\ \A j \in DOMAIN s : s[j][1] = m /\ s[j][2] \in Aired(m)
      /\ \A i, j \in DOMAIN s : i <= j => s[j][2] - s[i][2] >= j - i
  BY <1>2 DEF Holds
<1>6. \A x \in Aired(m) : x \in Nat /\ x <= n
  BY <1>3 DEF LinkInv, WireInv, Halves, AirInv, AiredInOrder, Aired
<1>7. ASSUME NEW j \in 1..(n + 1) PROVE s[j] = <<m, j - 1>>
  <2>1. j \in DOMAIN s /\ 1 \in DOMAIN s /\ n + 1 \in DOMAIN s /\ 1 <= j /\ j <= n + 1
    BY <1>4
  <2>2. s[j][2] - s[1][2] >= j - 1 /\ s[n + 1][2] - s[j][2] >= (n + 1) - j
    BY <1>5, <2>1
  <2>3. PICK x \in Nat, y \in Nat : x = s[j][2] /\ y = s[n + 1][2] /\ y <= n
    BY <1>5, <1>6, <2>1
  <2>4. x - 0 >= j - 1 /\ y - x >= (n + 1) - j
    BY <1>4, <2>2, <2>3
  <2>5. x = j - 1
    BY <2>3, <2>4, SMTT(30)
  <2>6. s[j] \in Chunk
    BY <2>1
  <2>7. s[j] = <<s[j][1], s[j][2]>>
    BY <2>6 DEF Chunk
  <2> QED BY <1>5, <2>1, <2>3, <2>5, <2>7
<1>8. s = Payload(m)
  <2>1. Payload(m) = [i \in 1..(n + 1) |-> <<m, i - 1>>]
    BY <1>3 DEF Payload
  <2>2. s = [i \in DOMAIN s |-> s[i]]
    OBVIOUS
  <2> QED BY <1>4, <1>7, <2>1, <2>2
<1>9. s[n + 1] = <<m, n>> /\ s[n + 1][2] \in Aired(m)
  <2>1. n + 1 \in 1..(n + 1) /\ (n + 1) - 1 = n
    OBVIOUS
  <2> QED BY <1>4, <1>5, <1>7, <2>1
<1>10. LastOf(r) = n
  BY <1>2, <1>4, <1>9 DEF LastOf
<1> QED BY <1>2, <1>3, <1>8, <1>9, <1>10 DEF Holds

\* Messages differ in what they carry.
LEMMA PayloadIs ==
  ASSUME NEW m \in Msg, NEW n \in Msg, Payload(m) = Payload(n)
  PROVE  m = n
<1>1. 1 \in 1..(Cfs[m] + 1) /\ 1 \in 1..(Cfs[n] + 1)
  BY CommonAssumption DEF CommonAssumption
<1>2. Payload(m)[1] = <<m, 1 - 1>> /\ Payload(n)[1] = <<n, 1 - 1>>
  BY <1>1 DEF Payload
<1> QED BY <1>2

\* recv_callback is called with a message.
LEMMA DispatchMoves ==
  ASSUME LinkInv, NEW r \in RecvBlock \ rslab, rctx[r].state \in Received, Dispatch(r), rrun = NoRRun,
         UNCHANGED <<sendVars, linkVars>>, Inv', ContextsInv', Owned(r)
  PROVE  LinkInv'
<1>1. PICK m \in Msg : Holds(r, m)
  <2>1. rctx[r].state # "ERR"
    BY DEF Received
  <2> QED BY <2>1 DEF LinkInv, RecvInv
<1>2. /\ rctx[r].data = Payload(m) /\ Cfs[m] \in Aired(m) /\ LastOf(r) = Cfs[m] /\ rctx[r].src = Dest[m]
      /\ rctx[r] \in RecvCtx /\ DOMAIN rctx = RecvBlock /\ RecvInv(r) /\ Fresher(m) /\ Accepted(m) /\ Behind(r, m)
  <2>1. /\ rctx[r].data = Payload(m) /\ Cfs[m] \in Aired(m) /\ LastOf(r) = Cfs[m]
        /\ rctx[r].src = Dest[m]
    BY <1>1, WholeIs
  <2>2. rctx[r] \in RecvCtx /\ DOMAIN rctx = RecvBlock /\ RecvInv(r)
    BY DEF LinkInv, Halves, ContextsInv, Inv, Types
  <2>3. Fresher(m) /\ Accepted(m) /\ Behind(r, m)
    BY <1>1 DEF Holds, NoRRun
  <2> QED BY <2>1, <2>2, <2>3
<1>3. PICK x : x = [src |-> rctx[r].src, total |-> rctx[r].total, data |-> rctx[r].data]
  OBVIOUS
<1>4. delivered' = Append(delivered, x) /\ x.data = Payload(m) /\ x.src = Dest[m]
  BY <1>2, <1>3 DEF Dispatch, Owned
<1>5. /\ rctx' = [rctx EXCEPT ![r].state = "RECYCLE", ![r].rem = 0] /\ rrun' = RRunning("dispatch", r)
      /\ UNCHANGED <<rslab, pool, fcq, faults, corrupt>>
  BY DEF Dispatch, NoFault, RTouch, Safe
<1>6. /\ rctx'[r].state = "RECYCLE" /\ rctx'[r].data = rctx[r].data /\ rctx'[r].src = rctx[r].src
      /\ rctx'[r].total = rctx[r].total /\ \A q \in RecvBlock \ {r} : rctx'[q] = rctx[q]
  BY <1>2, <1>5 DEF RecvCtx
<1>7. /\ Len(delivered) \in Nat /\ DOMAIN delivered = 1..Len(delivered)
      /\ DOMAIN delivered' = 1..(Len(delivered) + 1) /\ delivered'[Len(delivered) + 1] = x
      /\ \A k \in 1..Len(delivered) : delivered'[k] = delivered[k]
  <2>1. delivered \in Seq([src : Src, total : Nat, data : Seq(Chunk)])
    BY DEF LinkInv, Halves, Inv, Types, OtherTypes
  <2>2. x \in [src : Src, total : Nat, data : Seq(Chunk)]
    BY <1>2, <1>3, SMTT(40) DEF RecvCtx
  <2> QED BY <1>4, <2>1, <2>2
<1>8. PICK k \in Nat : k = Len(delivered)
  BY <1>7
<1>9. \A n \in Msg : Arrived(n)' <=> (Arrived(n) \/ n = m)
  <2>1. ASSUME NEW n \in Msg, Arrived(n)' PROVE Arrived(n) \/ n = m
    <3>1. PICK i \in 1..(k + 1) : delivered'[i].data = Payload(n)
      BY <1>7, <1>8, <2>1 DEF Arrived
    <3>2. CASE i \in 1..k
      BY <1>7, <1>8, <3>1, <3>2 DEF Arrived
    <3>3. CASE i = k + 1
      BY <1>4, <1>7, <1>8, <3>1, <3>3, PayloadIs
    <3> QED BY <3>2, <3>3
  <2>2. ASSUME NEW n \in Msg, Arrived(n) PROVE Arrived(n)'
    <3>1. PICK i \in 1..k : delivered[i].data = Payload(n)
      BY <1>7, <1>8, <2>2 DEF Arrived
    <3> QED BY <1>7, <1>8, <3>1 DEF Arrived
  <2>3. Arrived(m)'
    <3>1. k + 1 \in 1..(k + 1)
      OBVIOUS
    <3> QED BY <1>4, <1>7, <1>8, <3>1 DEF Arrived
  <2> QED BY <2>1, <2>2, <2>3
<1>10. Bus' = Bus
  BY DEF linkVars, Bus
<1>11. DeliveredInv'
  <2>0. DeliveredInv
    BY DEF LinkInv
  <2>1. ASSUME NEW i \in DOMAIN delivered' PROVE \E n \in Msg : delivered'[i].data = Payload(n) /\ delivered'[i].src = Dest[n]
    <3>1. i \in 1..k \/ i = k + 1
      BY <1>7, <1>8
    <3>2. CASE i \in 1..k
      BY <1>7, <1>8, <2>0, <3>2 DEF DeliveredInv
    <3>3. CASE i = k + 1
      BY <1>4, <1>7, <1>8, <3>3
    <3> QED BY <3>1, <3>2, <3>3
  <2>2. ASSUME NEW n \in Msg, Arrived(n)'
        PROVE  Accepted(n)' /\ Cfs[n] \in Aired(n)' /\ \A w \in Bus' : w.dst = Dest[n] => Later(n, w.f.msg)'
    <3>1. CASE Arrived(n)
      BY <1>10, <2>0, <3>1, SameSender DEF DeliveredInv, linkVars
    <3>2. CASE n = m
      <4>1. ASSUME NEW w \in Bus, w.dst = Dest[m] PROVE Later(m, w.f.msg)
        <5>1. w.f.msg = m => w.f.idx \in Aired(m)
          BY DEF LinkInv, WireInv
        <5>2. w.f.msg = m => ~(Cfs[m] < w.f.idx)
          <6>1. \A y \in Aired(m) : y \in Nat /\ y <= Cfs[m]
            BY DEF LinkInv, WireInv, Halves, AirInv, AiredInOrder, Aired
          <6>2. Cfs[m] \in Nat
            BY CommonAssumption DEF CommonAssumption
          <6> QED BY <5>1, <6>1, <6>2
        <5> QED BY <1>2, <4>1, <5>2 DEF Behind
      <4> QED BY <1>2, <1>10, <3>2, <4>1, SameSender DEF linkVars
    <3> QED BY <1>9, <2>2, <3>1, <3>2
  <2>3. ASSUME NEW i \in DOMAIN delivered', NEW j \in DOMAIN delivered', NEW a \in Msg, NEW b \in Msg,
               i < j, delivered'[i].data = Payload(a), delivered'[j].data = Payload(b), Dest[a] = Dest[b]
        PROVE  Later(a, b)
    <3>1. i \in 1..k /\ (j \in 1..k \/ j = k + 1)
      BY <1>7, <1>8, <2>3
    <3>2. delivered[i].data = Payload(a)
      BY <1>7, <1>8, <2>3, <3>1
    <3>3. CASE j \in 1..k
      <4>1. delivered[j].data = Payload(b)
        BY <1>7, <1>8, <2>3, <3>3
      <4> QED BY <1>7, <1>8, <2>0, <2>3, <3>1, <3>2, <3>3, <4>1 DEF DeliveredInv
    <3>4. CASE j = k + 1
      <4>1. b = m
        BY <1>4, <1>7, <1>8, <2>3, <3>4, PayloadIs
      <4>2. Arrived(a)
        BY <1>7, <1>8, <3>1, <3>2 DEF Arrived
      <4> QED BY <1>2, <2>3, <4>1, <4>2 DEF Fresher
    <3> QED BY <3>1, <3>3, <3>4
  <2> QED BY <2>1, <2>2, <2>3, SameSender DEF DeliveredInv, linkVars
<1>12. ~FcComes(r)
  BY FcFor DEF Received
<1>13. FcInv' /\ \A q \in RecvBlock \ {r} : (Asked(q)' <=> Asked(q)) /\ (FcComes(q)' <=> FcComes(q))
  <2>1. \A q \in RecvBlock \ {r} : rrun.blk # q /\ rrun'.blk # q
    BY <1>5, ReceiveAssumption DEF NoRRun, RRunning, ReceiveAssumption
  <2> QED BY <1>5, <1>6, <1>12, <2>1, FcStays DEF linkVars
<1>14. RecvInv(r)'
  <2>1. Holds(r, m)'
    <3>1. MsgOf(r)' = MsgOf(r) /\ Behind(r, m)'
      BY <1>2, <1>6, <1>10, HeldStays DEF linkVars
    <3>2. rrun'.blk = r /\ rrun'.pc = "dispatch"
      BY <1>5 DEF RRunning
    <3>3. Accepted(m)' /\ Aired(m)' = Aired(m)
      BY <1>2, SameSender DEF linkVars
    <3> QED BY <1>1, <1>6, <3>1, <3>2, <3>3 DEF Holds
  <2>2. \A q \in RecvBlock \ rslab' : rctx'[q].src = rctx'[r].src => q = r
    BY <1>2, <1>5, <1>6 DEF RecvInv
  <2> QED BY <1>6, <2>1, <2>2 DEF RecvInv, Asking
<1>15. ASSUME NEW q \in RecvBlock \ ({r} \cup rslab), NEW n \in Msg, Arrived(n)'
       PROVE  Arrived(n) \/ Dest[n] # rctx[q].src
  BY <1>2, <1>9, <1>15 DEF RecvInv
<1>16. \A q \in RecvBlock \ {r} : rrun.blk # q /\ rrun'.blk # q
  BY <1>5, ReceiveAssumption DEF NoRRun, RRunning, ReceiveAssumption
<1> QED BY <1>5, <1>6, <1>11, <1>13, <1>14, <1>15, <1>16, WorkMoves

\* Flow control is asked for: it is in the driver, and the thread is about to wait.
LEMMA SendCtsMoves ==
  ASSUME Cooperative, LinkInv, NEW r \in RecvBlock \ rslab, rctx[r].state \in {"PROCESS_FF", "TRY_ALLOC"},
         NEW c \in RecvCtx, c.data = rctx[r].data, c.src = rctx[r].src, c.total = rctx[r].total, c.bs = RBs,
         SendCts(r, c), rrun = NoRRun, ~Asked(r), UNCHANGED <<sendVars, linkVars, delivered>>, Inv', ContextsInv'
  PROVE  LinkInv'
<1>1. PICK e : e = [c EXCEPT !.timer = FALSE, !.state = "SEND_FC"]
  OBVIOUS
<1>2. PICK d : d = [e EXCEPT !.pending = @ + 1]
  OBVIOUS
<1>3. /\ d.data = rctx[r].data /\ d.src = rctx[r].src /\ d.total = rctx[r].total /\ d.bs = RBs
      /\ d.state = "SEND_FC" /\ e.src = rctx[r].src
  BY <1>1, <1>2 DEF RecvCtx
<1>4. PICK x : x = [fs |-> "CTS", dst |-> e.src, blk |-> r]
  OBVIOUS
<1>5. /\ fcq' = Append(fcq, x) /\ rctx' = [rctx EXCEPT ![r] = d] /\ rrun' = RRunning("ctsSent", r)
      /\ UNCHANGED <<rslab, faults, corrupt>>
  <2>1. SendFc(r, e, "CTS", "ctsSent") /\ ~Fault("sendFails")
    BY <1>1 DEF SendCts, Fault, Cooperative, Polite
  <2> QED BY <1>2, <1>4, <2>1 DEF SendFc, NoFault, RTouch, Safe
<1>6. DOMAIN rctx = RecvBlock /\ fcq \in Seq(FcFrame) /\ OneEach(fcq) /\ RecvInv(r) /\ FcInv
  BY DEF LinkInv, Halves, ContextsInv
<1>7. x \in FcFrame /\ x.fs = "CTS" /\ x.dst = rctx[r].src /\ x.blk = r
  BY <1>1, <1>3, <1>4 DEF FcFrame, RecvCtx
<1>8. rctx'[r] = d /\ \A q \in RecvBlock \ {r} : rctx'[q] = rctx[q]
  BY <1>5, <1>6
<1>9. \A q : HasFc(fcq', q) <=> (q = r \/ HasFc(fcq, q))
  BY <1>5, <1>6, <1>7, AddFc DEF Asked
<1>10. \A q \in RecvBlock \ {r} : Asked(q)' <=> Asked(q)
  BY <1>9 DEF Asked
<1>11. Bus' = Bus
  BY DEF linkVars, Bus
<1>12. ~FcComes(r)
  BY FcFor
<1>13. NoBlock \notin RecvBlock /\ rrun.blk = NoBlock /\ rrun'.blk = r
  BY <1>5, ReceiveAssumption DEF NoRRun, RRunning, ReceiveAssumption
<1>14. FcInv'
  <2>1. ASSUME NEW i \in DOMAIN fcq' PROVE fcq'[i].fs = "CTS" /\ fcq'[i].dst = rctx'[fcq'[i].blk].src
    <3>1. DOMAIN fcq' = DOMAIN fcq \cup {Len(fcq) + 1} /\ fcq'[Len(fcq) + 1] = x
          /\ \A j \in DOMAIN fcq : fcq'[j] = fcq[j]
      BY <1>5, <1>6, <1>7
    <3>2. CASE i = Len(fcq) + 1
      BY <1>3, <1>7, <1>8, <3>1, <3>2
    <3>3. CASE i \in DOMAIN fcq
      <4>1. fcq[i].fs = "CTS" /\ fcq[i].dst = rctx[fcq[i].blk].src /\ Asked(fcq[i].blk)
        BY <1>6, <3>3 DEF FcInv, Asked, HasFc
      <4>2. fcq[i].blk \in RecvBlock
        <5>1. fcq[i] \in FcFrame
          BY <1>6, <3>3
        <5> QED BY <5>1 DEF FcFrame
      <4> QED BY <1>8, <3>1, <3>3, <4>1, <4>2
    <3> QED BY <2>1, <3>1, <3>2, <3>3
  <2>2. ASSUME NEW i \in DOMAIN fcWire
        PROVE  \E q \in RecvBlock \ rslab' : rctx'[q].src = fcWire[i].dst /\ rctx'[q].state = "WAIT_CF"
                                             /\ ~Asked(q)' /\ rrun'.blk # q
    <3>1. PICK q \in RecvBlock \ rslab :
            rctx[q].src = fcWire[i].dst /\ rctx[q].state = "WAIT_CF" /\ ~Asked(q) /\ rrun.blk # q
      BY <1>6 DEF FcInv
    <3>2. q # r
      BY <3>1
    <3> QED BY <1>5, <1>8, <1>10, <1>13, <3>1, <3>2
  <2>3. UNCHANGED fcWire
    BY DEF linkVars
  <2> QED BY <1>6, <2>1, <2>2, <2>3 DEF FcInv
<1>15. DeliveredInv' /\ \A m : Arrived(m)' <=> Arrived(m)
  BY <1>11, DeliveredStays DEF linkVars
<1>16. RecvInv(r)'
  <2>1. PICK m \in Msg : Holds(r, m)
    BY <1>6 DEF RecvInv
  <2>2. Holds(r, m)'
    BY <1>3, <1>8, <1>11, <1>13, <1>15, <2>1, HoldsStays DEF linkVars
  <2>3. SenderParked(r)'
    <3>1. SenderParked(r)
      BY <1>6 DEF RecvInv, Asking
    <3> QED BY <1>3, <1>8, <1>11, <3>1, HeldStays DEF linkVars
  <2>4. \A q \in RecvBlock \ rslab' : rctx'[q].src = rctx'[r].src => q = r
    BY <1>3, <1>5, <1>6, <1>8 DEF RecvInv
  <2> QED BY <1>3, <1>8, <2>2, <2>3, <2>4 DEF RecvInv
<1> QED BY <1>5, <1>8, <1>10, <1>13, <1>14, <1>15, <1>16, WorkMoves

\* A reception ends: its context is free again.
LEMMA FreedMoves ==
  ASSUME LinkInv, NEW r \in RecvBlock, ~FcComes(r), ~Asked(r), r \in rslab',
         UNCHANGED <<sendVars, linkVars, delivered, fcq, faults, corrupt>>, Inv', ContextsInv',
         \A q \in RecvBlock \ {r} : /\ rctx'[q] = rctx[q] /\ (q \in rslab' <=> q \in rslab)
                                    /\ rrun' = rrun \/ (rrun.blk # q /\ rrun'.blk # q)
  PROVE  LinkInv'
<1>1. UNCHANGED <<wire, fcWire, order>>
  BY DEF linkVars
<1>2. FcInv' /\ \A q \in RecvBlock \ {r} : (Asked(q)' <=> Asked(q)) /\ (FcComes(q)' <=> FcComes(q))
  BY <1>1, FcStays
<1>3. Bus' = Bus
  BY <1>1 DEF Bus
<1>4. DeliveredInv' /\ \A m : Arrived(m)' <=> Arrived(m)
  BY <1>1, <1>3, DeliveredStays
<1>5. RecvInv(r)'
  BY DEF RecvInv
<1> QED BY <1>2, <1>4, <1>5, WorkMoves

\* receive_work_handler.
LEMMA RecvWorkKeeps ==
  ASSUME Cooperative, LinkInv, NEW r \in RecvBlock, RecvWork(r), UNCHANGED <<sendVars, linkVars>>
  PROVE  LinkInv'
<1>1. Inv /\ ContextsInv /\ RecvInv(r) /\ Polite
  BY DEF LinkInv, Halves, Cooperative
<1>2. ContextsInv' /\ ~corrupt'
  BY <1>1, WorkSound
<1>3. Inv'
  BY <1>1, <1>2, WorkKeeps
<1>4. rrun = NoRRun /\ r \in rwork /\ UNCHANGED runb
  BY DEF RecvWork
<1>5. rrun.blk # r /\ NoBlock \notin RecvBlock /\ rrun.blk = NoBlock
  BY <1>4, ReceiveAssumption DEF NoRRun, ReceiveAssumption
<1>6. r \notin rslab /\ Owned(r) /\ Lives(r)
  BY <1>1, <1>4 DEF ContextsInv, ContextSound, Idle, InUse
<1>7. rctx[r].state \in {"PROCESS_SF", "PROCESS_FF", "TRY_ALLOC", "RECYCLE", "ERR"} /\ ~Asked(r)
  BY <1>4, <1>5, <1>6 DEF Lives, RRunning, Cooperative
<1>8. rctx[r] \in RecvCtx /\ DOMAIN rctx = RecvBlock
  BY <1>1 DEF Inv, Types, ContextsInv
<1>9. CASE rctx[r].state \in Received
  <2>1. Dispatch(r)
    BY <1>9 DEF RecvWork, Received
  <2> QED BY <1>2, <1>3, <1>4, <1>6, <1>9, <2>1, DispatchMoves
<1>10. CASE rctx[r].state = "PROCESS_FF"
  <2>1. RBs > 0 /\ RBs \in 0..255 /\ ~(RBs = 0)
    BY <1>1, ReceiveAssumption DEF Polite, ReceiveAssumption
  <2>2. PICK c : c = [rctx[r] EXCEPT !.bs = RBs, !.wft = 255]
    OBVIOUS
  <2>3. SendCts(r, c) /\ UNCHANGED delivered
    BY <1>10, <2>1, <2>2 DEF RecvWork
  <2>4. c \in RecvCtx /\ c.data = rctx[r].data /\ c.src = rctx[r].src /\ c.total = rctx[r].total /\ c.bs = RBs
    <3>1. PICK d : d = rctx[r]
      OBVIOUS
    <3>2. d \in RecvCtx /\ c = [d EXCEPT !.bs = RBs, !.wft = 255]
      BY <1>8, <2>2, <3>1
    <3>3. PICK e : e = [d EXCEPT !.bs = RBs]
      OBVIOUS
    <3>4. Unseen(d, e)
      BY ONLY <2>1, <3>2, <3>3, PutUnseen, ZenonT(60)
    <3>5. c = [e EXCEPT !.wft = 255]
      BY ONLY <3>2, <3>3
    <3>6. Unseen(e, c)
      <4>1. 255 \in 0..255
        OBVIOUS
      <4>2. e \in RecvCtx
        BY <3>4 DEF Unseen
      <4> QED BY ONLY <3>5, <4>1, <4>2, PutUnseen, ZenonT(60)
    <3>7. e.src = d.src /\ e.bs = RBs
      <4>1. {"src", "bs"} \subseteq DOMAIN d
        BY ONLY <3>2 DEF RecvCtx
      <4> QED BY ONLY <3>3, <4>1
    <3>8. c.src = e.src /\ c.bs = e.bs
      BY ONLY <3>5
    <3>9. c \in RecvCtx /\ c.data = d.data /\ c.total = d.total
      BY <3>4, <3>6 DEF Unseen, Alike
    <3> QED BY <3>1, <3>7, <3>8, <3>9
  <2> QED BY <1>2, <1>3, <1>4, <1>6, <1>7, <1>10, <2>3, <2>4, SendCtsMoves
<1>11. CASE rctx[r].state = "TRY_ALLOC"
  <2>1. SendCts(r, rctx[r]) /\ UNCHANGED delivered
    BY <1>11 DEF RecvWork
  <2>2. rctx[r].bs = RBs
    BY <1>1, <1>6, <1>11 DEF RecvInv
  <2> QED BY <1>2, <1>3, <1>4, <1>6, <1>7, <1>8, <1>11, <2>1, <2>2, SendCtsMoves
<1>12. CASE rctx[r].state = "ERR"
  <2>1. RecvError(r, rctx[r]) /\ UNCHANGED delivered /\ rctx[r].error # "overflow"
    BY <1>6, <1>12 DEF RecvWork, Owned
  <2>2. /\ rctx' = [rctx EXCEPT ![r] = RFreed([rctx[r] EXCEPT !.state = "UNBOUND"])]
        /\ rslab' = rslab \cup {r} /\ rrun' = NoRRun /\ UNCHANGED <<fcq, faults, corrupt>>
    BY <1>6, <2>1 DEF RecvError, RFree, NoFault, RTouch, Safe
  <2>3. ~FcComes(r)
    BY <1>6, <1>12, FcFor
  <2> QED BY <1>2, <1>3, <1>4, <1>7, <1>8, <2>1, <2>2, <2>3, FreedMoves
<1> QED BY <1>7, <1>9, <1>10, <1>11, <1>12 DEF Received

\* Whatever becomes of flow control, a sender that waits for it sends nothing beyond what the
\* receiver has.
LEMMA ParkedWindow ==
  ASSUME LinkInv, NEW r, SenderParked(r), NEW l \in Nat, Len(rctx[r].data) \in Nat, l >= Len(rctx[r].data)
  PROVE  \E m \in Msg : MsgOf(r) = m /\ Within(m, l)
<1>1. PICK m \in Msg, b \in SendBlock :
        MsgOf(r) = m /\ Using(b) /\ sctx[b].arg = m /\ Parked(b) /\ Ahead(b) = Len(rctx[r].data)
  BY DEF SenderParked
<1>2. reports[m] = <<>> /\ Dest[m] = sctx[b].addr
  BY <1>1, UsedFacts
<1>3. ~HasSf(b)
  BY <1>1, DriverHas DEF Parked
<1>4. Counts(b) /\ Ahead(b) \in Nat
  BY <1>1, <1>3, LongFacts DEF Sending
<1>5. PICK k \in Nat : k = Ahead(b) /\ k <= l
  BY <1>1, <1>4
<1>6. ASSUME NEW x \in Aired(m) PROVE x < l
  <2>1. x \in Nat
    BY AiredAccepted, <1>6
  <2>2. x < k
    BY <1>1, <1>4, <1>5, <1>6 DEF Counts, Aired
  <2> QED BY <1>5, <2>1, <2>2
<1>7. ASSUME NEW c \in SendBlock, Using(c), sctx[c].addr = Dest[m]
      PROVE  Reach(c) <= IF sctx[c].arg = m THEN l ELSE 1
  <2>1. c = b
    BY <1>1, <1>2, <1>7, SoleUser
  <2>2. Reach(b) = k
    BY <1>1, <1>5 DEF Reach, Parked
  <2> QED BY <1>1, <1>5, <2>1, <2>2
<1>8. ASSUME NEW n \in Msg, Later(m, n), Dest[n] = Dest[m] PROVE FALSE
  BY <1>2, <1>8, Latest DEF LinkInv, LinkTypes
<1>9. Within(m, l)
  BY <1>2, <1>6, <1>7, <1>8 DEF Within
<1> QED BY <1>1, <1>9

\* The rest of receive_send_fc's caller: the thread waits for consecutive frames.
LEMMA AwaitMoves ==
  ASSUME Cooperative, LinkInv, FcQueued, UNCHANGED <<sendVars, linkVars>>
  PROVE  LinkInv'
<1>1. Inv /\ ContextsInv /\ Polite /\ ~RecvPreempted
  BY DEF LinkInv, Halves, Cooperative
<1>2. ContextsInv' /\ ~corrupt'
  BY <1>1, RecvThreadSound
<1>3. Inv'
  BY <1>1, <1>2, FcQueuedKeeps
<1>4. PICK r \in RecvBlock : rrun = RRunning("ctsSent", r)
  BY <1>1 DEF ContextsInv, ThreadPlace, FcQueued, NoRRun, RRunning
<1>5. rrun.blk = r /\ rrun.pc = "ctsSent" /\ NoBlock \notin RecvBlock /\ rrun'.blk = NoBlock
  BY <1>4, ReceiveAssumption DEF RRunning, FcQueued, NoRRun, ReceiveAssumption
<1>6. r \notin rslab /\ Lives(r)
  BY <1>1, <1>5 DEF ContextsInv, ContextSound, Idle, InUse
<1>7. rctx[r].state = "SEND_FC"
  BY <1>1, <1>5, <1>6 DEF Lives, RRunning
<1>8. rctx[r] \in RecvCtx /\ DOMAIN rctx = RecvBlock /\ RecvInv(r)
  BY <1>1 DEF Inv, Types, ContextsInv, LinkInv
<1>9. PICK d : d = [rctx[r] EXCEPT !.timer = TRUE, !.state = "WAIT_CF"]
  OBVIOUS
<1>10. /\ d.data = rctx[r].data /\ d.src = rctx[r].src /\ d.total = rctx[r].total /\ d.bs = rctx[r].bs
       /\ d.state = "WAIT_CF"
  BY <1>8, <1>9 DEF RecvCtx
<1>11. rctx' = [rctx EXCEPT ![r] = d] /\ rrun' = NoRRun /\ UNCHANGED <<rslab, fcq, delivered, faults>>
  BY <1>5, <1>9 DEF FcQueued, AwaitCf, NoFault
<1>12. rctx'[r] = d /\ \A q \in RecvBlock \ {r} : rctx'[q] = rctx[q] /\ (q \in rslab' <=> q \in rslab)
                                                  /\ rrun.blk # q /\ rrun'.blk # q
  BY <1>5, <1>8, <1>11
<1>13. UNCHANGED <<wire, fcWire, order, corrupt>>
  BY <1>5, <1>6 DEF linkVars, FcQueued, RTouch, Safe
<1>14. FcInv' /\ \A q \in RecvBlock \ {r} : Asked(q)' <=> Asked(q)
  <2>1. ~FcComes(r)
    BY <1>6, <1>7, FcFor
  <2>2. rctx'[r].src = rctx[r].src
    BY <1>10, <1>12
  <2> QED BY <1>11, <1>12, <1>13, <2>1, <2>2, FcStays
<1>15. Bus' = Bus
  BY <1>13 DEF Bus
<1>16. DeliveredInv' /\ \A m : Arrived(m)' <=> Arrived(m)
  BY <1>11, <1>13, <1>15, DeliveredStays
<1>17. RecvInv(r)'
  <2>1. PICK m \in Msg : Holds(r, m)
    BY <1>6, <1>7, <1>8 DEF RecvInv
  <2>2. Holds(r, m)'
    <3>1. /\ rctx'[r].data = rctx[r].data /\ rctx'[r].src = rctx[r].src /\ rctx'[r].total = rctx[r].total
      BY <1>10, <1>12
    <3> QED BY <1>5, <1>13, <1>15, <1>16, <2>1, <3>1, HoldsStays
  <2>3. SenderParked(r) /\ SenderParked(r)'
    <3>1. SenderParked(r)
      BY <1>6, <1>7, <1>8 DEF RecvInv, Asking
    <3> QED BY <1>10, <1>12, <1>13, <1>15, <3>1, HeldStays
  <2>4. rctx[r].bs = RBs /\ RBs \in Nat \ {0}
    BY <1>1, <1>6, <1>7, <1>8, ReceiveAssumption DEF RecvInv, Polite, ReceiveAssumption
  <2>5. Window(r)'
    <3>1. PICK n : n = Len(rctx[r].data)
      OBVIOUS
    <3>2. n \in Nat
      BY <1>6, <1>7, <3>1, RecvData
    <3>3. PICK l : l = n + RBs
      OBVIOUS
    <3>4. l \in Nat /\ l >= n
      BY <2>4, <3>2, <3>3
    <3>5. PICK x \in Msg : MsgOf(r) = x /\ Within(x, l)
      BY <2>3, <3>1, <3>2, <3>4, ParkedWindow
    <3>6. Within(x, l)'
      BY <1>13, <1>15, <3>5, WithinStays
    <3>7. MsgOf(r)' = x /\ Len(rctx'[r].data) + rctx'[r].bs = l
      BY <1>10, <1>12, <2>4, <3>1, <3>3, <3>5 DEF MsgOf
    <3> QED BY <3>6, <3>7 DEF Window
  <2>6. \A q \in RecvBlock \ rslab' : rctx'[q].src = rctx'[r].src => q = r
    BY <1>6, <1>8, <1>10, <1>11, <1>12 DEF RecvInv
  <2>7. rctx'[r].state = "WAIT_CF" /\ rctx'[r].bs = RBs /\ RBs \in 1..RBs
    BY <1>10, <1>12, <2>4
  <2> QED BY <2>2, <2>3, <2>5, <2>6, <2>7 DEF RecvInv
<1> QED BY <1>2, <1>3, <1>11, <1>12, <1>13, <1>14, <1>16, <1>17, WorkMoves

\* Behind recv_callback: the context is freed.
LEMMA EndMoves ==
  ASSUME Cooperative, LinkInv, RecvEnd, UNCHANGED <<sendVars, linkVars>>
  PROVE  LinkInv'
<1>1. Inv /\ ContextsInv /\ Polite
  BY DEF LinkInv, Halves, Cooperative
<1>2. ContextsInv' /\ ~corrupt'
  BY <1>1, RecvThreadSound
<1>3. Inv'
  BY <1>1, <1>2, RecvEndKeeps
<1>4. PICK r \in RecvBlock : rrun = RRunning("dispatch", r)
  BY <1>1 DEF ContextsInv, ThreadPlace, RecvEnd, NoRRun, RRunning
<1>5. rrun.blk = r /\ rrun.pc = "dispatch" /\ NoBlock \notin RecvBlock /\ rrun'.blk = NoBlock
  BY <1>4, ReceiveAssumption DEF RRunning, RecvEnd, NoRRun, ReceiveAssumption
<1>6. r \notin rslab /\ Lives(r)
  BY <1>1, <1>5 DEF ContextsInv, ContextSound, Idle, InUse
<1>7. rctx[r].state = "RECYCLE" /\ ~Asked(r)
  BY <1>1, <1>5, <1>6 DEF Lives, RRunning
<1>8. rctx' = [rctx EXCEPT ![r] = RFreed([rctx[r] EXCEPT !.state = "UNBOUND"])]
      /\ rslab' = rslab \cup {r} /\ UNCHANGED <<fcq, delivered, faults>>
  BY <1>5 DEF RecvEnd, RFree, NoFault
<1>9. UNCHANGED <<wire, fcWire, order, corrupt>>
  BY <1>5, <1>6 DEF linkVars, RecvEnd, RTouch, Safe
<1>10. \A q \in RecvBlock \ {r} : /\ rctx'[q] = rctx[q] /\ (q \in rslab' <=> q \in rslab)
                                  /\ rrun.blk # q /\ rrun'.blk # q
  BY <1>1, <1>5, <1>8 DEF ContextsInv
<1>11. ~FcComes(r)
  BY <1>6, <1>7, FcFor
<1> QED BY <1>2, <1>3, <1>7, <1>8, <1>9, <1>10, <1>11, FreedMoves

\* The flow control frame that is transmitted, and the reception it belongs to.
LEMMA FcLeaves ==
  ASSUME Cooperative, LinkInv, NEW ok \in BOOLEAN, FcDone(ok)
  PROVE  \E r \in RecvBlock \ rslab :
    /\ r = Head(fcq).blk /\ rctx[r].state = "WAIT_CF" /\ Asked(r) /\ ~FcComes(r) /\ rrun.blk # r
    /\ rctx' = [rctx EXCEPT ![r] = FcAnswered(rctx[r], ok)]
    /\ \A b : HasFc(fcq', b) <=> (b # r /\ HasFc(fcq, b))
    /\ Head(fcq).fs = "CTS" /\ Head(fcq).dst = rctx[r].src
    /\ \A i \in DOMAIN fcq' : fcq'[i].blk # r /\ \E j \in DOMAIN fcq : fcq'[i] = fcq[j]
    /\ UNCHANGED <<rslab, rrun, delivered, corrupt>> /\ Inv' /\ ContextsInv'
<1>1. Inv /\ ContextsInv /\ FcInv
  BY DEF LinkInv, Halves
<1>2. Inv' /\ ContextsInv'
  BY <1>1, FcDoneKeeps, FcDoneSound
<1>3. fcq # <<>> /\ fcq \in Seq(FcFrame) /\ OneEach(fcq) /\ fcq' = Tail(fcq)
  BY <1>1 DEF FcDone, ContextsInv
<1>4. PICK r : r = Head(fcq).blk
  OBVIOUS
<1>5. r \in RecvBlock /\ Asked(r) /\ \A b : HasFc(fcq', b) <=> (b # r /\ HasFc(fcq, b))
  BY <1>3, <1>4, HeadFc DEF Asked
<1>6. r \notin rslab /\ Lives(r)
  BY <1>1, <1>5 DEF ContextsInv, ContextSound, Idle, InUse
<1>7. /\ rctx' = [rctx EXCEPT ![r] = FcAnswered(rctx[r], ok)] /\ rrun.blk # r
      /\ RTouch(r) /\ UNCHANGED <<rslab, rrun, delivered>>
  BY <1>4 DEF FcDone, Cooperative
<1>8. rctx[r].state = "WAIT_CF"
  BY <1>5, <1>6, <1>7 DEF Lives, RRunning
<1>9. ~FcComes(r)
  BY <1>5, <1>6, FcFor
<1>10. UNCHANGED corrupt
  BY <1>6, <1>7 DEF RTouch, Safe
<1>11. Head(fcq).fs = "CTS" /\ Head(fcq).dst = rctx[r].src
  <2>1. 1 \in DOMAIN fcq /\ Head(fcq) = fcq[1]
    BY <1>3
  <2> QED BY <1>1, <1>4, <2>1 DEF FcInv
<1>12. ASSUME NEW i \in DOMAIN fcq' PROVE fcq'[i].blk # r /\ \E j \in DOMAIN fcq : fcq'[i] = fcq[j]
  <2>1. fcq'[i].blk # r
    BY <1>5 DEF HasFc
  <2>2. i + 1 \in DOMAIN fcq /\ fcq'[i] = fcq[i + 1]
    BY <1>3
  <2> QED BY <2>1, <2>2
<1> QED BY <1>2, <1>4, <1>5, <1>6, <1>7, <1>8, <1>9, <1>10, <1>11, <1>12

\* What FcAnswered leaves of a context.
LEMMA FcAnsweredFields ==
  ASSUME NEW c \in RecvCtx, NEW ok \in BOOLEAN, NEW d, d = FcAnswered(c, ok)
  PROVE  /\ d.data = c.data /\ d.src = c.src /\ d.total = c.total /\ d.bs = c.bs
         /\ d.state = IF ok THEN c.state ELSE "ERR"
<1>1. CASE ok
  BY <1>1 DEF FcAnswered, RecvCtx
<1>2. CASE ~ok
  BY <1>2 DEF FcAnswered, RecvCtx
<1> QED BY <1>1, <1>2

\* receive_can_tx: the flow control is on the bus, or it is lost, or the controller reports an
\* error.
LEMMA FcMoves ==
  ASSUME Cooperative, LinkInv, NEW ok \in BOOLEAN, FcDone(ok), UNCHANGED <<sendVars, wire, order>>,
         faults' \in {faults, faults + 1},
         NEW x, x = [dst |-> Head(fcq).dst, fs |-> Head(fcq).fs, bs |-> RBs],
         fcWire' = fcWire \/ (ok /\ fcWire' = Append(fcWire, x))
  PROVE  LinkInv'
<1>1. PICK r \in RecvBlock \ rslab :
        /\ r = Head(fcq).blk /\ rctx[r].state = "WAIT_CF" /\ Asked(r) /\ ~FcComes(r) /\ rrun.blk # r
        /\ rctx' = [rctx EXCEPT ![r] = FcAnswered(rctx[r], ok)]
        /\ \A b : HasFc(fcq', b) <=> (b # r /\ HasFc(fcq, b))
        /\ Head(fcq).fs = "CTS" /\ Head(fcq).dst = rctx[r].src
        /\ \A i \in DOMAIN fcq' : fcq'[i].blk # r /\ \E j \in DOMAIN fcq : fcq'[i] = fcq[j]
        /\ UNCHANGED <<rslab, rrun, delivered, corrupt>> /\ Inv' /\ ContextsInv'
  BY FcLeaves
<1>2. rctx[r] \in RecvCtx /\ DOMAIN rctx = RecvBlock /\ RecvInv(r) /\ FcInv
      /\ fcWire \in Seq([dst : Addr, fs : {"CTS", "WAIT", "OVFLW"}, bs : 0..255])
  BY DEF LinkInv, Halves, Inv, Types, ContextsInv, LinkTypes
<1>3. PICK d : d = FcAnswered(rctx[r], ok)
  OBVIOUS
<1>4. /\ d.data = rctx[r].data /\ d.src = rctx[r].src /\ d.total = rctx[r].total /\ d.bs = rctx[r].bs
      /\ d.state = IF ok THEN "WAIT_CF" ELSE "ERR"
  BY <1>1, <1>2, <1>3, FcAnsweredFields
<1>5. rctx'[r] = d /\ \A q \in RecvBlock \ {r} : rctx'[q] = rctx[q]
  BY <1>1, <1>2, <1>3
<1>6. Asking(r) /\ SenderParked(r) /\ rctx[r].bs = RBs /\ RBs \in 1..255
  <2>1. Asking(r)
    BY <1>1 DEF Asking
  <2>2. SenderParked(r) /\ rctx[r].bs = RBs
    BY <1>1, <1>2, <2>1 DEF RecvInv
  <2> QED BY <2>1, <2>2, ReceiveAssumption DEF Cooperative, Polite, ReceiveAssumption
<1>7. ~Asked(r)' /\ \A q \in RecvBlock \ {r} : Asked(q)' <=> Asked(q)
  BY <1>1 DEF Asked
<1>8. x = [dst |-> rctx[r].src, fs |-> "CTS", bs |-> RBs]
  BY <1>1
<1>9. x \in [dst : Addr, fs : {"CTS", "WAIT", "OVFLW"}, bs : 0..255] /\ x.dst = rctx[r].src /\ x.fs = "CTS" /\ x.bs = RBs
  <2>1. rctx[r].src \in Addr
    BY <1>2, LinkAssumption DEF RecvCtx, LinkAssumption
  <2> QED BY <1>6, <1>8, <2>1
<1>10. /\ fcWire' \in Seq([dst : Addr, fs : {"CTS", "WAIT", "OVFLW"}, bs : 0..255])
       /\ \A i \in DOMAIN fcWire : i \in DOMAIN fcWire' /\ fcWire'[i] = fcWire[i]
       /\ \A i \in DOMAIN fcWire' : i \in DOMAIN fcWire \/ (ok /\ i = Len(fcWire) + 1 /\ fcWire'[i] = x)
  <2>1. CASE fcWire' = fcWire
    BY <1>2, <2>1
  <2>2. CASE ok /\ fcWire' = Append(fcWire, x)
    BY <1>2, <1>9, <2>2
  <2> QED BY <2>1, <2>2
<1>11. FcInv'
  <2>1. ASSUME NEW i \in DOMAIN fcq' PROVE fcq'[i].fs = "CTS" /\ fcq'[i].dst = rctx'[fcq'[i].blk].src
    <3>1. PICK j \in DOMAIN fcq : fcq'[i] = fcq[j]
      BY <1>1
    <3>2. fcq[j].fs = "CTS" /\ fcq[j].dst = rctx[fcq[j].blk].src
      BY <1>2 DEF FcInv
    <3>3. fcq[j].blk # r
      BY <1>1, <3>1
    <3>4. fcq[j].blk \in RecvBlock
      <4>1. fcq[j] \in FcFrame
        BY DEF LinkInv, Halves, ContextsInv
      <4> QED BY <4>1 DEF FcFrame
    <3> QED BY <1>5, <3>1, <3>2, <3>3, <3>4
  <2>2. ASSUME NEW i \in DOMAIN fcWire' PROVE fcWire'[i].fs = "CTS" /\ fcWire'[i].bs = RBs
    BY <1>2, <1>9, <1>10, <2>2 DEF FcInv
  <2>3. ASSUME NEW i \in DOMAIN fcWire PROVE fcWire[i].dst # rctx[r].src
    BY <1>1, <2>3 DEF FcComes
  <2>4. ASSUME NEW i \in DOMAIN fcWire', NEW j \in DOMAIN fcWire', fcWire'[i].dst = fcWire'[j].dst PROVE i = j
    <3>1. CASE i \in DOMAIN fcWire /\ j \in DOMAIN fcWire
      BY <1>2, <1>10, <2>4, <3>1 DEF FcInv
    <3>2. CASE i \in DOMAIN fcWire /\ j \notin DOMAIN fcWire
      BY <1>9, <1>10, <2>3, <2>4, <3>2
    <3>3. CASE i \notin DOMAIN fcWire /\ j \in DOMAIN fcWire
      BY <1>9, <1>10, <2>3, <2>4, <3>3
    <3>4. CASE i \notin DOMAIN fcWire /\ j \notin DOMAIN fcWire
      BY <1>10, <2>4, <3>4
    <3> QED BY <3>1, <3>2, <3>3, <3>4
  <2>5. ASSUME NEW i \in DOMAIN fcWire'
        PROVE  \E q \in RecvBlock \ rslab' : rctx'[q].src = fcWire'[i].dst /\ rctx'[q].state = "WAIT_CF"
                                             /\ ~Asked(q)' /\ rrun'.blk # q
    <3>1. CASE i \in DOMAIN fcWire
      <4>1. PICK q \in RecvBlock \ rslab :
              rctx[q].src = fcWire[i].dst /\ rctx[q].state = "WAIT_CF" /\ ~Asked(q) /\ rrun.blk # q
        BY <1>2, <3>1 DEF FcInv
      <4>2. q # r
        BY <1>1, <4>1
      <4> QED BY <1>1, <1>5, <1>7, <1>10, <3>1, <4>1, <4>2
    <3>2. CASE i \notin DOMAIN fcWire
      BY <1>1, <1>4, <1>5, <1>7, <1>9, <1>10, <3>2
    <3> QED BY <3>1, <3>2
  <2> QED BY <2>1, <2>2, <2>4, <2>5 DEF FcInv
<1>12. Bus' = Bus /\ WireSorted' /\ LinkTypes'
  <2>1. Bus' = Bus
    BY DEF Bus
  <2>2. WireSorted'
    BY SameSender DEF LinkInv, WireInv, WireSorted, Before
  <2>3. LinkTypes'
    BY <1>10 DEF LinkInv, LinkTypes
  <2> QED BY <2>1, <2>2, <2>3
<1>13. DeliveredInv' /\ \A m : Arrived(m)' <=> Arrived(m)
  BY <1>1, <1>12, DeliveredStays
<1>14. RecvInv(r)'
  <2>1. \A q \in RecvBlock \ rslab' : rctx'[q].src = rctx'[r].src => q = r
    BY <1>1, <1>2, <1>4, <1>5 DEF RecvInv
  <2>2. CASE ~ok
    <3>1. rctx'[r].state = "ERR"
      BY <1>4, <1>5, <2>2
    <3> QED BY <2>1, <3>1 DEF RecvInv, Asking
  <2>3. CASE ok
    <3>1. rctx'[r].state = "WAIT_CF" /\ rctx'[r].bs = RBs /\ RBs \in 1..RBs
      BY <1>4, <1>5, <1>6, <2>3
    <3>2. PICK m \in Msg : Holds(r, m)
      BY <1>1, <1>2 DEF RecvInv
    <3>3. Holds(r, m)'
      <4>1. rctx'[r].data = rctx[r].data /\ rctx'[r].src = rctx[r].src /\ rctx'[r].total = rctx[r].total
        BY <1>4, <1>5
      <4> QED BY <1>1, <1>12, <1>13, <3>2, <4>1, HoldsStays
    <3>4. SenderParked(r)'
      BY <1>4, <1>5, <1>6, <1>12, HeldStays
    <3>5. Window(r)'
      <4>1. PICK n : n = Len(rctx[r].data)
        OBVIOUS
      <4>2. n \in Nat
        BY <1>1, <4>1, RecvData
      <4>3. PICK l : l = n + RBs
        OBVIOUS
      <4>4. l \in Nat /\ l >= n
        BY <1>6, <4>2, <4>3
      <4>5. PICK y \in Msg : MsgOf(r) = y /\ Within(y, l)
        BY <1>6, <4>1, <4>2, <4>4, ParkedWindow
      <4>6. Within(y, l)'
        BY <1>12, <4>5, WithinStays
      <4>7. MsgOf(r)' = y /\ Len(rctx'[r].data) + rctx'[r].bs = l
        BY <1>4, <1>5, <1>6, <4>1, <4>3, <4>5 DEF MsgOf
      <4> QED BY <4>6, <4>7 DEF Window
    <3> QED BY <2>1, <3>1, <3>3, <3>4, <3>5 DEF RecvInv
  <2> QED BY <2>2, <2>3
<1>15. ASSUME NEW q \in RecvBlock \ {r}, q \notin rslab PROVE Rests(q)
  <2>1. rctx[q].src # rctx[r].src
    BY <1>1, <1>2, <1>15 DEF RecvInv
  <2>2. FcComes(q)' <=> FcComes(q)
    BY <1>5, <1>9, <1>10, <1>15, <2>1 DEF FcComes
  <2> QED BY <1>1, <1>5, <1>7, <1>13, <1>15, <2>2 DEF Rests
<1> QED BY <1>1, <1>11, <1>12, <1>13, <1>14, <1>15, ReceiverMoves

\* Flow control is transmitted.
LEMMA TransmitFcKeeps ==
  ASSUME Cooperative, LinkInv, TransmitFc
  PROVE  LinkInv'
<1>1. PICK x : x = [dst |-> Head(fcq).dst, fs |-> Head(fcq).fs, bs |-> RBs]
  OBVIOUS
<1>2. CASE FcDone(TRUE) /\ NoFault /\ fcWire' = Append(fcWire, x) /\ UNCHANGED <<sendVars, wire, order>>
  BY <1>1, <1>2, FcMoves DEF NoFault
<1>3. CASE FcDone(TRUE) /\ Fault("loss") /\ UNCHANGED <<sendVars, linkVars>>
  BY <1>1, <1>3, FcMoves DEF Fault, linkVars
<1>4. CASE FcDone(FALSE) /\ Fault("txError") /\ UNCHANGED <<sendVars, linkVars>>
  BY <1>1, <1>4, FcMoves DEF Fault, linkVars
<1> QED BY <1>1, <1>2, <1>3, <1>4 DEF TransmitFc

\* receive_timeout_handler: nothing is under way, so the frame it waits for is lost.
LEMMA RecvTimeoutKeeps ==
  ASSUME Cooperative, LinkInv, NEW r \in RecvBlock, RecvTimeout(r), LinkQuiet, UNCHANGED <<sendVars, linkVars>>
  PROVE  LinkInv'
<1>1. Inv /\ ContextsInv /\ Polite
  BY DEF LinkInv, Halves, Cooperative
<1>2. Inv' /\ ContextsInv'
  BY <1>1, TimeoutKeeps, TimeoutSound
<1>3. fcq = <<>> /\ rwork = {} /\ rrun = NoRRun /\ fcWire = <<>> /\ rctx[r].timer
  BY DEF LinkQuiet, RecvTimeout
<1>4. r \notin rslab /\ Lives(r) /\ rctx[r] \in RecvCtx /\ DOMAIN rctx = RecvBlock
  BY <1>1, <1>3 DEF ContextsInv, ContextSound, Idle, InUse, Inv, Types
<1>5. rctx[r].state = "WAIT_CF"
  BY <1>3, <1>4 DEF Lives, NoRRun, RRunning
<1>6. PICK d : d = [[rctx[r] EXCEPT !.state = "ERR", !.error = "other"] EXCEPT !.timer = FALSE]
  OBVIOUS
<1>7. d.state = "ERR" /\ d.src = rctx[r].src
  BY <1>4, <1>6 DEF RecvCtx
<1>8. rctx' = [rctx EXCEPT ![r] = d] /\ UNCHANGED <<rslab, pool, rrun, fcq, delivered, faults, corrupt>>
  BY <1>4, <1>5, <1>6 DEF RecvTimeout, RTouch, Safe, NoFault
<1>9. rctx'[r] = d /\ \A q \in RecvBlock \ {r} : rctx'[q] = rctx[q]
  BY <1>4, <1>8
<1>10. ~FcComes(r) /\ ~Asked(r)
  BY <1>3 DEF FcComes, Asked, HasFc
<1>11. UNCHANGED <<wire, fcWire, order>>
  BY DEF linkVars
<1>12. FcInv' /\ \A q \in RecvBlock \ {r} : Asked(q)' <=> Asked(q)
  BY <1>8, <1>9, <1>10, <1>11, FcStays
<1>13. DeliveredInv' /\ \A m : Arrived(m)' <=> Arrived(m)
  BY <1>8, <1>11, DeliveredStays DEF Bus
<1>14. RecvInv(r)'
  <2>1. \A q \in RecvBlock \ rslab' : rctx'[q].src = rctx'[r].src => q = r
    BY <1>4, <1>7, <1>8, <1>9 DEF LinkInv, RecvInv
  <2> QED BY <1>7, <1>9, <2>1 DEF RecvInv, Asking
<1> QED BY <1>2, <1>8, <1>9, <1>12, <1>13, <1>14, WorkMoves

\* A context that has been asked for the next block.
Resumes(d, c) == Kept(d, c) /\ Kin(d, c) /\ d.sn = c.sn /\ d.state = "SEND_CF" /\ d.bs = RBs
LEMMA AskedOn ==
  ASSUME NEW c \in SendCtx, NEW fc \in FlowControl, fc.fs = "CTS", fc.bs = RBs,
         NEW d, d = ProcessFc([c EXCEPT !.timer = FALSE], fc)
  PROVE  d \in SendCtx /\ Resumes(d, c)
<1>1. d \in SendCtx /\ Kept(d, c) /\ Kin(d, c)
  BY FcKeeps, FcFields
<1>2. d = [[c EXCEPT !.timer = FALSE] EXCEPT !.state = "SEND_CF", !.wft = 0, !.backlog = 0, !.sem = 0, !.bs = fc.bs]
  BY DEF ProcessFc
<1>3. d.sn = c.sn /\ d.state = "SEND_CF" /\ d.bs = RBs
  BY <1>2, CtxFields
<1> QED BY <1>1, <1>3 DEF Resumes

\* Flow control arrives, and the sender waits for it.
Answering(r, b) ==
  /\ rctx[r].src = Head(fcWire).dst /\ rctx[r].state = "WAIT_CF" /\ ~Asked(r) /\ rctx[r].bs = RBs
  /\ Using(b) /\ sctx[b].arg = MsgOf(r) /\ sctx[b].addr = rctx[r].src /\ Parked(b)
  /\ Ahead(b) = Len(rctx[r].data) /\ NoWire(sctx[b].addr)
LEMMA FcFindsSender ==
  ASSUME Cooperative, LinkInv, ReceiveFc
  PROVE  \E r \in RecvBlock \ rslab, b \in SendBlock, d \in SendCtx :
    /\ Answering(r, b) /\ sctx' = [sctx EXCEPT ![b] = d] /\ Resumes(d, sctx[b]) /\ swork' = swork \cup {b}
    /\ UNCHANGED <<sslab, srun, app, call, reports, txq, aired, corrupt>>
    /\ SendTypeInv' /\ SendInv' /\ AirInv'
<1>1. SendTypeInv /\ SendInv /\ AirInv /\ FcInv /\ sctx \in [SendBlock -> SendCtx]
  BY DEF LinkInv, Halves, SendTypeInv, SendTypeOK
<1>2. /\ fcWire # <<>> /\ fcWire \in Seq([dst : Addr, fs : {"CTS", "WAIT", "OVFLW"}, bs : 0..255])
      /\ 1 \in DOMAIN fcWire /\ fcWire[1] = Head(fcWire)
  BY DEF ReceiveFc, LinkInv, LinkTypes
<1>3. PICK x : x = Head(fcWire)
  OBVIOUS
<1>4. x.fs = "CTS" /\ x.bs = RBs /\ x.dst \in Addr /\ x = fcWire[1]
  <2>1. fcWire[1].fs = "CTS" /\ fcWire[1].bs = RBs
    <3>1. \A i \in DOMAIN fcWire : fcWire[i].fs = "CTS" /\ fcWire[i].bs = RBs
      BY <1>1 DEF FcInv
    <3> QED BY ONLY <1>2, <3>1
  <2>2. PICK S : S = [dst : Addr, fs : {"CTS", "WAIT", "OVFLW"}, bs : 0..255]
    OBVIOUS
  <2>3. fcWire[1].dst \in Addr
    <3>1. fcWire \in Seq(S) /\ 1 \in DOMAIN fcWire
      BY ONLY <1>2, <2>2
    <3>2. fcWire[1] \in S
      BY ONLY <3>1
    <3> QED BY ONLY <2>2, <3>2
  <2> QED BY <1>2, <1>3, <2>1, <2>3
<1>5. PICK r \in RecvBlock \ rslab :
        rctx[r].src = x.dst /\ rctx[r].state = "WAIT_CF" /\ ~Asked(r) /\ rrun.blk # r
  BY <1>1, <1>2, <1>4 DEF FcInv
<1>6. Asking(r) /\ RecvInv(r)
  BY <1>2, <1>4, <1>5 DEF Asking, FcComes, LinkInv
<1>7. PICK m \in Msg, b \in SendBlock :
        /\ MsgOf(r) = m /\ NoWire(Dest[m])
        /\ Using(b) /\ sctx[b].arg = m /\ Parked(b) /\ Ahead(b) = Len(rctx[r].data)
  BY <1>5, <1>6 DEF RecvInv, SenderParked
<1>8. Dest[m] = sctx[b].addr
  BY <1>7, UsedFacts
<1>9. Holds(r, m)
  BY <1>5, <1>6, <1>7 DEF RecvInv, Holds
<1>10. Dest[m] = rctx[r].src /\ rctx[r].bs = RBs
  BY <1>5, <1>6, <1>9 DEF Holds, RecvInv
<1>11. Answering(r, b)
  BY <1>3, <1>5, <1>7, <1>8, <1>10 DEF Answering
<1>12. UsedBlock(b)
  BY <1>1, <1>7 DEF SendInv, BlockInv, Using
<1>13. b \in Found(x.dst)
  BY <1>5, <1>8, <1>10, <1>12 DEF Found, UsedBlock
<1>14. PICK fc : fc = [fs |-> x.fs, bs |-> x.bs]
  OBVIOUS
<1>15. fc \in FlowControl /\ fc.fs = "CTS" /\ fc.bs = RBs
  BY <1>4, <1>14, ReceiveAssumption DEF FlowControl, ReceiveAssumption
<1>16. FcArrives(x.dst, fc)
  BY <1>3, <1>13, <1>14 DEF ReceiveFc
<1>17. Answers(b, x.dst, fc)
  BY <1>1, <1>7, <1>13, <1>16, FcFinds DEF Parked
<1>18. SendTypeInv'
  <2>1. NoFault
    BY DEF ReceiveFc
  <2> QED BY <1>1, <1>4, <1>15, <1>16, <2>1, FcTyped
<1>19. SendInv'
  BY <1>1, <1>15, <1>17, AnswerSafe
<1>20. AirInv'
  <2>1. ~HasSf(b)
    BY <1>7, DriverHas DEF Parked
  <2>2. sctx[b].data = m
    BY <1>7, <2>1, LongFacts
  <2>3. rctx[r].data[1][2] \in Aired(m)
    <3>1. 1 \in DOMAIN rctx[r].data
      BY <1>5, RecvData
    <3> QED BY <1>9, <3>1 DEF Holds
  <2>4. \E i \in DOMAIN aired[sctx[b].data] : TRUE
    BY <2>2, <2>3 DEF Aired
  <2> QED BY <1>1, <1>15, <1>17, <2>4, AnswerAir
<1>21. PICK d : d = ProcessFc([sctx[b] EXCEPT !.timer = FALSE], fc)
  OBVIOUS
<1>22. d \in SendCtx /\ Resumes(d, sctx[b])
  BY <1>1, <1>7, <1>15, <1>21, AskedOn
<1>23. /\ sctx' = [sctx EXCEPT ![b] = d] /\ swork' = swork \cup {b}
       /\ UNCHANGED <<sslab, srun, app, call, reports, txq, aired, corrupt>>
  BY <1>17, <1>21 DEF Answers
<1> QED BY <1>5, <1>7, <1>11, <1>18, <1>19, <1>20, <1>22, <1>23

\* The sender's half when it has been asked for the next block.
LEMMA SenderResumes ==
  ASSUME Cooperative, LinkInv, NEW r \in RecvBlock \ rslab, NEW b \in SendBlock, NEW d \in SendCtx, Answering(r, b),
         sctx' = [sctx EXCEPT ![b] = d], Resumes(d, sctx[b]), swork' = swork \cup {b},
         UNCHANGED <<sslab, srun, app, call, reports, txq, aired, wire, order>>
  PROVE  /\ OrderInv' /\ DriverInv' /\ WireInv' /\ TruthInv' /\ \A c \in SendBlock : SenderInv(c)'
         /\ \A c \in SendBlock \ {b} : Calm(c)
         /\ Using(b)' /\ sctx'[b] = d /\ Ahead(b)' = Ahead(b) /\ Reach(b)' = Ahead(b) + RBs
<1>1. sctx'[b] = d /\ \A c \in SendBlock \ {b} : sctx'[c] = sctx[c]
  BY DEF LinkInv, Halves, SendTypeInv, SendTypeOK
<1>2. Using(b) /\ Parked(b) /\ NoWire(sctx[b].addr)
  BY DEF Answering
<1>3. Using(b)' /\ (\A c : HasFrame(c)' <=> HasFrame(c)) /\ Bus' = Bus /\ Driver' = Driver
  BY <1>2 DEF Using, HasFrame, Bus, Driver
<1>4. \A c \in SendBlock \ {b} : Calm(c)
  BY <1>1, <1>3 DEF Calm
<1>5. Ahead(b)' = Ahead(b) /\ ~InCf(b) /\ ~InCf(b)'
  BY <1>1, <1>2 DEF Ahead, Resumes, Kept, InCf, Parked
<1>6. Reach(b)' = Ahead(b) + RBs
  <2>1. ~HasSf(b)
    BY <1>2, DriverHas DEF Parked
  <2>2. Ahead(b) \in Nat /\ RBs \in Nat
    BY <1>2, <2>1, LongFacts, ReceiveAssumption DEF ReceiveAssumption
  <2>3. sctx'[b].state = "SEND_CF" /\ sctx'[b].bs = RBs
    BY <1>1 DEF Resumes
  <2> QED BY <1>5, <2>2, <2>3 DEF Reach
<1>7. OrderInv'
  <2>1. sctx'[b].arg = sctx[b].arg
    BY <1>1 DEF Resumes, Kept
  <2> QED BY <1>3, <1>4, <2>1, OrderStays
<1>8. DriverInv'
  <2>1. ASSUME NEW f \in Driver PROVE Queued(f.blk, f)'
    <3>1. Queued(f.blk, f) /\ f.blk \in SendBlock
      BY FrameOwned DEF LinkInv, DriverInv, Halves
    <3>2. f.blk # b
      BY <1>2, DriverHas DEF Parked
    <3> QED BY <1>4, <3>1, <3>2, CalmStays
  <2> QED BY <1>3, <2>1 DEF DriverInv
<1>9. WireInv'
  <2>1. (\A m \in Msg : Aired(m)' = Aired(m)) /\ (\A x, y : Later(x, y)' <=> Later(x, y))
    BY DEF Aired, Later
  <2>2. WireSorted'
    BY <2>1 DEF LinkInv, WireInv, WireSorted, Before
  <2>3. ASSUME NEW w \in Bus, w.f.kind = "FF"
        PROVE  \E c \in SendBlock : Using(c)' /\ sctx'[c].arg = w.f.msg /\ Parked(c)' /\ Ahead(c)' = 1
    <3>1. PICK c \in SendBlock : Using(c) /\ sctx[c].arg = w.f.msg /\ Parked(c) /\ Ahead(c) = 1
      BY <2>3 DEF LinkInv, WireInv
    <3>2. w.dst = Dest[w.f.msg] /\ Dest[w.f.msg] = sctx[c].addr
      BY <3>1, UsedFacts DEF LinkInv, WireInv
    <3>3. c # b
      BY <1>2, <3>2 DEF NoWire
    <3> QED BY <1>4, <3>1, <3>3, CalmStays DEF StillParked
  <2>4. ASSUME NEW w \in Bus PROVE Shape(w.f)' /\ w.dst = Dest[w.f.msg] /\ w.f.idx \in Aired(w.f.msg)'
    <3>1. Shape(w.f) /\ w.dst = Dest[w.f.msg] /\ w.f.idx \in Aired(w.f.msg)
      BY DEF LinkInv, WireInv
    <3>2. w.f.idx \in Aired(w.f.msg)'
      BY <3>1 DEF Aired
    <3> QED BY <3>1, <3>2 DEF Shape
  <2>5. \A m \in Msg : Aired(m)' \subseteq Nat
    BY <2>1 DEF LinkInv, WireInv
  <2> QED BY <1>3, <2>2, <2>3, <2>4, <2>5 DEF WireInv
<1>10. TruthInv'
  BY DEF LinkInv, TruthInv, Aired
<1>11. SenderInv(b)'
  <2>1. InSn(b)
    BY <1>2 DEF LinkInv, SenderInv, Parked
  <2>2. InSn(b)'
    BY <1>1, <1>5, <2>1 DEF InSn, Resumes, Kept
  <2>3. sctx'[b].state = "SEND_CF" /\ sctx'[b].bs >= 1 /\ ~(srun'.blk = b)
    <3>1. RBs >= 1
      BY ReceiveAssumption DEF Cooperative, Polite, ReceiveAssumption
    <3> QED BY <1>1, <1>2, <3>1 DEF Resumes, Parked
  <2> QED BY <2>2, <2>3 DEF SenderInv
<1>12. \A c \in SendBlock : SenderInv(c)'
  <2>1. ASSUME NEW c \in SendBlock \ {b} PROVE SenderInv(c)'
    BY <1>3, <1>4, CalmStays
  <2> QED BY <1>11, <2>1
<1> QED BY <1>1, <1>3, <1>4, <1>5, <1>6, <1>7, <1>8, <1>9, <1>10, <1>12

\* The window of a reception at another address stays as it is.
LEMMA WithinElsewhere ==
  ASSUME LinkInv, NEW b \in SendBlock, Using(b), \A c \in SendBlock \ {b} : Calm(c), Using(b)',
         sctx'[b].addr = sctx[b].addr, UNCHANGED <<srun, aired, reports, wire, order>>,
         NEW m, Dest[m] # sctx[b].addr, NEW l, Within(m, l)
  PROVE  Within(m, l)'
<1>1. Bus' = Bus /\ (\A n : Aired(n)' = Aired(n)) /\ (\A x, y : Later(x, y)' <=> Later(x, y))
  BY DEF Bus, Aired, Later
<1>2. ASSUME NEW c \in SendBlock, Using(c)', sctx'[c].addr = Dest[m]
      PROVE  Reach(c)' <= IF sctx'[c].arg = m THEN l ELSE 1
  <2>1. c # b
    BY <1>2
  <2>2. Calm(c)
    BY <2>1
  <2>3. Using(c) /\ sctx'[c] = sctx[c] /\ Ahead(c)' = Ahead(c)
    BY <1>2, <2>2, CalmStays DEF Calm
  <2>4. Reach(c)' = Reach(c)
    BY <2>3 DEF Reach, InCf
  <2>5. Reach(c) <= IF sctx[c].arg = m THEN l ELSE 1
    BY <1>2, <2>3 DEF Within
  <2> QED BY <2>3, <2>4, <2>5
<1> QED BY <1>1, <1>2 DEF Within

\* Flow control is received: the rest of what is on its way.
LEMMA FcTail ==
  ASSUME FcInv, fcWire # <<>>, NEW S, fcWire \in Seq(S), fcWire' = Tail(fcWire), UNCHANGED recvVars
  PROVE  /\ FcInv' /\ fcWire' \in Seq(S)
         /\ \A a : (\E i \in DOMAIN fcWire' : fcWire'[i].dst = a)
                     <=> a # Head(fcWire).dst /\ \E i \in DOMAIN fcWire : fcWire[i].dst = a
<1>1. PICK k \in Nat : k = Len(fcWire)
  OBVIOUS
<1>2. /\ k >= 1 /\ DOMAIN fcWire = 1..k /\ DOMAIN fcWire' = 1..(k - 1) /\ Head(fcWire) = fcWire[1]
      /\ fcWire' \in Seq(S)
  BY <1>1
<1>3. \A i \in 1..(k - 1) : i + 1 \in 1..k /\ fcWire'[i] = fcWire[i + 1] /\ i + 1 # 1 /\ i \in Int
  BY <1>1, <1>2
<1>4. \A i \in 1..k : i = 1 \/ (i - 1 \in 1..(k - 1) /\ fcWire'[i - 1] = fcWire[i])
  BY <1>1, <1>2
<1>5. \A i, j \in 1..k : fcWire[i].dst = fcWire[j].dst => i = j
  BY <1>2 DEF FcInv
<1>6. 1 \in 1..k
  BY <1>2
<1>7. ASSUME NEW a PROVE (\E i \in 1..(k - 1) : fcWire'[i].dst = a)
                          <=> a # fcWire[1].dst /\ \E i \in 1..k : fcWire[i].dst = a
  <2>1. ASSUME NEW i \in 1..(k - 1), fcWire'[i].dst = a
        PROVE  a # fcWire[1].dst /\ \E j \in 1..k : fcWire[j].dst = a
    BY <1>3, <1>5, <1>6, <2>1
  <2>2. ASSUME a # fcWire[1].dst, NEW i \in 1..k, fcWire[i].dst = a PROVE \E j \in 1..(k - 1) : fcWire'[j].dst = a
    BY <1>4, <2>2
  <2> QED BY <2>1, <2>2
<1>8. FcInv'
  <2>1. UNCHANGED <<rctx, rslab, rrun, fcq>>
    BY DEF recvVars
  <2>2. ASSUME NEW i \in 1..(k - 1)
        PROVE  /\ fcWire'[i].fs = "CTS" /\ fcWire'[i].bs = RBs
               /\ \E r \in RecvBlock \ rslab : rctx[r].src = fcWire'[i].dst /\ rctx[r].state = "WAIT_CF"
                                               /\ ~Asked(r) /\ rrun.blk # r
    <3>1. i + 1 \in DOMAIN fcWire /\ fcWire'[i] = fcWire[i + 1]
      BY <1>2, <1>3
    <3>2. fcWire[i + 1].fs = "CTS" /\ fcWire[i + 1].bs = RBs
      BY <3>1 DEF FcInv
    <3>3. \E r \in RecvBlock \ rslab : rctx[r].src = fcWire[i + 1].dst /\ rctx[r].state = "WAIT_CF"
                                       /\ ~Asked(r) /\ rrun.blk # r
      BY <3>1 DEF FcInv
    <3> QED BY <3>1, <3>2, <3>3
  <2>3. ASSUME NEW i \in 1..(k - 1), NEW j \in 1..(k - 1), fcWire'[i].dst = fcWire'[j].dst PROVE i = j
    <3>1. PICK x, y : x = i + 1 /\ y = j + 1
      OBVIOUS
    <3>2. /\ x \in 1..k /\ y \in 1..k /\ fcWire'[i] = fcWire[x] /\ fcWire'[j] = fcWire[y]
          /\ i \in Int /\ j \in Int
      BY <1>3, <3>1
    <3>3. fcWire[x].dst = fcWire[y].dst
      BY <2>3, <3>2
    <3>4. x = y
      BY <1>5, <3>2, <3>3
    <3> QED BY ONLY <3>1, <3>2, <3>4
  <2>4. \A r : Asked(r)' <=> Asked(r)
    BY <2>1 DEF Asked
  <2>5. \A i \in DOMAIN fcq' : fcq'[i].fs = "CTS" /\ fcq'[i].dst = rctx'[fcq'[i].blk].src
    BY <2>1 DEF FcInv
  <2> QED BY <1>2, <2>1, <2>2, <2>3, <2>4, <2>5 DEF FcInv
<1> QED BY <1>2, <1>7, <1>8

\* send_can_rx: the sender goes on with the block that was asked for.
LEMMA ReceiveFcKeeps ==
  ASSUME Cooperative, LinkInv, ReceiveFc
  PROVE  LinkInv'
<1>1. PICK r \in RecvBlock \ rslab, b \in SendBlock, d \in SendCtx :
        /\ Answering(r, b) /\ sctx' = [sctx EXCEPT ![b] = d] /\ Resumes(d, sctx[b]) /\ swork' = swork \cup {b}
        /\ UNCHANGED <<sslab, srun, app, call, reports, txq, aired, corrupt>>
        /\ SendTypeInv' /\ SendInv' /\ AirInv'
  BY FcFindsSender
<1>2. fcWire # <<>> /\ fcWire' = Tail(fcWire) /\ UNCHANGED <<recvVars, wire, order, faults>>
  BY DEF ReceiveFc, NoFault
<1>3. UNCHANGED <<rctx, rslab, rrun, rwork, fcq, delivered, runb, rbound, pool>>
  BY <1>2 DEF recvVars
<1>4. /\ OrderInv' /\ DriverInv' /\ WireInv' /\ TruthInv' /\ \A c \in SendBlock : SenderInv(c)'
      /\ \A c \in SendBlock \ {b} : Calm(c)
      /\ Using(b)' /\ sctx'[b] = d /\ Ahead(b)' = Ahead(b) /\ Reach(b)' = Ahead(b) + RBs
  BY <1>1, <1>2, SenderResumes
<1>5. /\ FcInv' /\ LinkTypes'
      /\ \A q : FcComes(q)' <=> rctx[q].src # rctx[r].src /\ FcComes(q)
  <2>1. PICK S : S = [dst : Addr, fs : {"CTS", "WAIT", "OVFLW"}, bs : 0..255]
    OBVIOUS
  <2>2. fcWire \in Seq(S) /\ FcInv
    BY <2>1 DEF LinkInv, LinkTypes
  <2>3. /\ FcInv' /\ fcWire' \in Seq(S)
        /\ \A a : (\E i \in DOMAIN fcWire' : fcWire'[i].dst = a)
                     <=> a # Head(fcWire).dst /\ \E i \in DOMAIN fcWire : fcWire[i].dst = a
    BY <1>2, <2>2, FcTail
  <2>4. LinkTypes'
    BY <1>2, <2>1, <2>3 DEF LinkInv, LinkTypes
  <2>5. rctx[r].src = Head(fcWire).dst
    BY <1>1 DEF Answering
  <2> QED BY <1>3, <2>3, <2>4, <2>5 DEF FcComes
<1>6. Inv' /\ ContextsInv'
  <2>1. Inv' <=> Inv
    BY <1>3 DEF Inv, Types, OtherTypes, ThreadSound, BlockSound, Awaits, DeliveredInSequence
  <2>2. ContextsInv' <=> ContextsInv
    BY <1>1, <1>3 DEF ContextsInv, ThreadPlace, ContextSound, InUse, Idle, Owned, Lives, Asked
  <2> QED BY <2>1, <2>2 DEF LinkInv, Halves
<1>7. /\ Bus' = Bus /\ (\A n : Aired(n)' = Aired(n)) /\ (\A x, y : Later(x, y)' <=> Later(x, y))
      /\ (\A x : Accepted(x)' <=> Accepted(x)) /\ (\A x : Arrived(x)' <=> Arrived(x))
  BY <1>1, <1>2, <1>3 DEF Bus, Aired, Later, Accepted, Arrived
<1>8. DeliveredInv'
  BY <1>3, <1>7 DEF LinkInv, DeliveredInv
<1>9. \A q : (MsgOf(q)' = MsgOf(q)) /\ (Asked(q)' <=> Asked(q)) /\ \A n \in Msg : Holds(q, n) => Holds(q, n)'
  <2>1. ASSUME NEW q, NEW n \in Msg, Holds(q, n) PROVE Holds(q, n)'
    <3>1. Behind(q, n)'
      BY <1>3, <1>7, <2>1 DEF Holds, Behind, LastOf
    <3>2. Fresher(n)' <=> Fresher(n)
      BY <1>7 DEF Fresher
    <3> QED BY <1>3, <1>7, <2>1, <3>1, <3>2 DEF Holds, MsgOf
  <2> QED BY <1>3, <2>1 DEF MsgOf, Asked
<1>10. RecvInv(r) /\ MsgOf(r) \in Msg /\ Holds(r, MsgOf(r)) /\ Dest[MsgOf(r)] = rctx[r].src /\ RBs \in 1..RBs
  <2>1. RecvInv(r) /\ rctx[r].state = "WAIT_CF"
    BY <1>1 DEF LinkInv, Answering
  <2>2. PICK n \in Msg : Holds(r, n)
    BY <2>1 DEF RecvInv
  <2>3. MsgOf(r) = n /\ Dest[n] = rctx[r].src
    BY <2>2 DEF Holds
  <2>4. RBs \in 1..RBs
    BY ReceiveAssumption DEF Cooperative, Polite, ReceiveAssumption
  <2> QED BY <2>1, <2>2, <2>3, <2>4
<1>11. RecvInv(r)'
  <2>1. PICK m \in Msg : m = MsgOf(r)
    BY <1>10
  <2>2. PICK n \in Nat : n = Len(rctx[r].data)
    <3>1. rctx[r].state # "ERR"
      BY <1>1 DEF Answering
    <3> QED BY <3>1, RecvData
  <2>3. PICK l : l = n + RBs
    OBVIOUS
  <2>4. l \in Nat /\ l >= n
    BY <1>10, <2>2, <2>3
  <2>5. Dest[m] = sctx[b].addr /\ sctx[b].arg = m /\ Ahead(b) = n /\ Using(b)
    BY <1>1, <1>10, <2>1, <2>2 DEF Answering
  <2>6. reports[m] = <<>>
    BY <2>5, UsedFacts
  <2>7. SenderParked(r)
    BY <1>1, <1>10 DEF Answering, SenderParked
  <2>8. PICK x \in Msg : MsgOf(r) = x /\ Within(x, l)
    BY <2>2, <2>4, <2>7, ParkedWindow
  <2>9. Within(m, l)'
    <3>1. Within(m, l)
      BY <2>1, <2>8
    <3>2. ASSUME NEW c \in SendBlock, Using(c)', sctx'[c].addr = Dest[m]
          PROVE  Reach(c)' <= IF sctx'[c].arg = m THEN l ELSE 1
      <4>1. CASE c = b
        <5>1. sctx'[b].arg = m
          BY <1>1, <1>4, <2>5 DEF Resumes, Kept
        <5>2. Reach(b)' = l
          BY <1>4, <2>3, <2>5
        <5> QED BY <2>4, <4>1, <5>1, <5>2
      <4>2. CASE c # b
        <5>1. Using(c) /\ sctx'[c] = sctx[c]
          BY <1>4, <3>2, <4>2, CalmStays DEF Calm
        <5> QED BY <2>5, <3>2, <4>2, <5>1, SoleUser
      <4> QED BY <4>1, <4>2
    <3> QED BY <1>1, <1>7, <2>6, <3>1, <3>2 DEF Within
  <2>10. ~Asking(r)'
    BY <1>1, <1>3, <1>5, <1>9 DEF Asking, Answering
  <2>11. Window(r)'
    BY <1>1, <1>3, <1>9, <2>1, <2>2, <2>3, <2>9 DEF Window, Answering
  <2>12. Holds(r, m)' /\ (\A q \in RecvBlock \ rslab : rctx[q].src = rctx[r].src => q = r)
    BY <1>9, <1>10, <2>1 DEF RecvInv
  <2> QED BY <1>1, <1>3, <1>10, <2>10, <2>11, <2>12 DEF RecvInv, Answering
<1>12. ASSUME NEW q \in RecvBlock \ {r}, q \notin rslab PROVE RecvInv(q)'
  <2>1. RecvInv(q) /\ rctx[q].src # rctx[r].src
    BY <1>10, <1>12 DEF LinkInv, RecvInv
  <2>2. Asking(q)' <=> Asking(q)
    BY <1>3, <1>5, <1>9, <2>1 DEF Asking
  <2>3. CASE rctx[q].state = "ERR"
    BY <1>3, <2>1, <2>2, <2>3 DEF RecvInv, Asking
  <2>4. CASE rctx[q].state # "ERR"
    <3>1. PICK m \in Msg : Holds(q, m)
      BY <1>12, <2>1, <2>4 DEF RecvInv
    <3>2. Dest[m] = rctx[q].src /\ MsgOf(q) = m /\ Dest[m] # sctx[b].addr
      BY <1>1, <2>1, <3>1 DEF Holds, Answering
    <3>3. SenderParked(q) => SenderParked(q)'
      <4>1. SUFFICES ASSUME SenderParked(q) PROVE SenderParked(q)'
        OBVIOUS
      <4>2. PICK c \in SendBlock : NoWire(Dest[m]) /\ Using(c) /\ sctx[c].arg = m /\ Parked(c)
                                   /\ Ahead(c) = Len(rctx[q].data)
        BY <3>2, <4>1 DEF SenderParked
      <4>3. c # b
        BY <3>2, <4>2, UsedFacts
      <4>4. StillParked(c)
        BY <1>4, <4>2, <4>3, CalmStays
      <4>5. NoWire(Dest[m])'
        BY <1>7, <4>2 DEF NoWire
      <4>6. MsgOf(q)' = m /\ rctx'[q] = rctx[q]
        BY <1>3, <1>9, <3>2
      <4> QED BY <4>2, <4>4, <4>5, <4>6 DEF SenderParked, StillParked
    <3>4. Window(q) => Window(q)'
      <4>1. SUFFICES ASSUME Window(q) PROVE Window(q)'
        OBVIOUS
      <4>2. PICK l : l = Len(rctx[q].data) + rctx[q].bs
        OBVIOUS
      <4>3. Within(m, l)
        BY <3>2, <4>1, <4>2 DEF Window
      <4>4. sctx'[b].addr = sctx[b].addr /\ Using(b)
        BY <1>1, <1>4 DEF Resumes, Kin, Answering
      <4>5. Within(m, l)'
        BY <1>1, <1>2, <1>4, <3>2, <4>3, <4>4, WithinElsewhere
      <4>6. MsgOf(q)' = m /\ Len(rctx'[q].data) + rctx'[q].bs = l
        BY <1>3, <1>9, <3>2, <4>2
      <4> QED BY <4>5, <4>6 DEF Window
    <3>5. Holds(q, m)'
      BY <1>9, <3>1
    <3> QED BY <1>3, <2>1, <2>2, <3>3, <3>4, <3>5 DEF RecvInv
  <2> QED BY <2>3, <2>4
<1>13. \A q \in RecvBlock : RecvInv(q)'
  <2>1. \A q \in rslab : RecvInv(q)'
    BY <1>3 DEF RecvInv
  <2> QED BY <1>11, <1>12, <2>1
<1> QED BY <1>1, <1>4, <1>5, <1>6, <1>8, <1>13 DEF LinkInv, Halves

-----------------------------------------------------------------------------
(* Every step of the link.                                                 *)

\* Nothing happens.
LEMMA NothingMoves ==
  ASSUME LinkInv, UNCHANGED allVars
  PROVE  LinkInv'
<1>1. UNCHANGED <<sendVars, recvVars, linkVars, faults, corrupt>>
  BY DEF allVars
<1>2. UNCHANGED <<rctx, rslab, rrun, rwork, fcq, delivered, runb, rbound, pool, wire, fcWire, order>>
  BY <1>1 DEF recvVars, linkVars
<1>3. Inv' /\ ContextsInv'
  <2>1. Inv' <=> Inv
    BY <1>2 DEF Inv, Types, OtherTypes, ThreadSound, BlockSound, Awaits, DeliveredInSequence
  <2>2. ContextsInv' <=> ContextsInv
    BY <1>1, <1>2 DEF ContextsInv, ThreadPlace, ContextSound, InUse, Idle, Owned, Lives, Asked
  <2> QED BY <2>1, <2>2 DEF LinkInv, Halves
<1>4. FcInv' /\ \A q \in RecvBlock : (Asked(q)' <=> Asked(q)) /\ (FcComes(q)' <=> FcComes(q))
  <2>1. NoBlock \notin RecvBlock
    BY ReceiveAssumption DEF ReceiveAssumption
  <2> QED BY <1>2, <2>1, FcStays
<1>5. Bus' = Bus /\ WireSorted' /\ LinkTypes'
  <2>1. WireSorted'
    BY <1>1, <1>2, SameSender DEF LinkInv, WireInv, WireSorted, Before
  <2>2. LinkTypes'
    BY <1>2 DEF LinkInv, LinkTypes
  <2> QED BY <1>2, <2>1, <2>2 DEF Bus
<1>6. DeliveredInv' /\ \A m : Arrived(m)' <=> Arrived(m)
  BY <1>1, <1>2, <1>5, DeliveredStays
<1>7. \A q \in RecvBlock : (q \in rslab' <=> q \in rslab) /\ Rests(q)
  BY <1>2, <1>4, <1>6 DEF Rests
<1>8. NoBlock \notin RecvBlock
  BY ReceiveAssumption DEF ReceiveAssumption
<1> QED BY <1>1, <1>2, <1>3, <1>4, <1>5, <1>6, <1>7, <1>8, ReceiverMoves

\* The application thread.
LEMMA LinkAppKeeps ==
  ASSUME Cooperative, LinkInv, LinkAppThread
  PROVE  LinkInv'
<1>1. UNCHANGED <<recvVars, wire, fcWire>>
  BY DEF LinkAppThread
<1>2. CASE \E m \in Msg : SendGetCtx(m)
  <2>1. PICK m \in Msg : SendGetCtx(m)
    BY <1>2
  <2>2. app.pc = "idle"
    BY <2>1 DEF SendGetCtx, NoApp
  <2>3. UNCHANGED linkVars
    BY <1>1, <2>2 DEF LinkAppThread, linkVars
  <2> QED BY <1>1, <2>1, <2>3, GetCtxKeeps
<1>3. CASE SendMulti
  <2>1. app.msg \in Msg /\ app.pc # "idle"
    BY <1>3 DEF SendMulti, LinkInv, Halves, SendTypeInv, InHand
  <2>2. call'[app.msg] = "accepted"
    BY <1>3, <2>1 DEF SendMulti, LinkInv, Halves, SendTypeInv, SendTypeOK
  <2>3. order' = Append(order, app.msg)
    BY <2>1, <2>2 DEF LinkAppThread
  <2> QED BY <1>1, <1>3, <2>3, MultiKeeps
<1>4. CASE SendSingle
  <2>1. app.pc # "idle"
    BY <1>4 DEF SendSingle
  <2>2. order' = IF call'[app.msg] = "accepted" THEN Append(order, app.msg) ELSE order
    BY <2>1 DEF LinkAppThread
  <2> QED BY <1>1, <1>4, <2>2, SingleKeeps
<1> QED BY <1>2, <1>3, <1>4 DEF LinkAppThread

\* The sender's work queue.
LEMMA LinkSendWorkKeeps ==
  ASSUME Cooperative, LinkInv, LinkSendWork
  PROVE  LinkInv'
<1>1. UNCHANGED <<recvVars, linkVars>>
  BY DEF LinkSendWork
<1>2. CASE \E b \in SendBlock : SendWork(b)
  BY <1>1, <1>2, SendWorkKeeps
<1>3. CASE SendFfQueued
  BY <1>1, <1>3, FfQueuedKeeps
<1>4. CASE SendCfQueued
  BY <1>1, <1>4, CfQueuedKeeps
<1>5. CASE SendCfCounted
  BY <1>1, <1>5, CfCountedKeeps
<1>6. CASE SendSemTaken
  BY <1>1, <1>6, SemTakenKeeps
<1> QED BY <1>2, <1>3, <1>4, <1>5, <1>6 DEF LinkSendWork, SendWorkQueue

\* The receiver's work queue.
LEMMA LinkRecvWorkKeeps ==
  ASSUME Cooperative, LinkInv, LinkRecvWork
  PROVE  LinkInv'
<1>1. UNCHANGED <<sendVars, linkVars>>
  BY DEF LinkRecvWork
<1>2. CASE \E r \in RecvBlock : RecvWork(r)
  BY <1>1, <1>2, RecvWorkKeeps
<1>3. CASE FcQueued
  BY <1>1, <1>3, AwaitMoves
<1>4. CASE RecvEnd
  BY <1>1, <1>4, EndMoves
<1> QED BY <1>2, <1>3, <1>4 DEF LinkRecvWork, RecvWorkQueue

\* Any step, as long as there are buffers whenever frames arrive that the receiver's work
\* queue has not emptied before.
LEMMA LinkStep ==
  ASSUME Cooperative, LinkInv, PromptReceiver \/ pool > 0, [LinkNext]_allVars
  PROVE  LinkInv'
<1>1. CASE LinkTimeout
  <2>1. LinkQuiet
    BY <1>1 DEF LinkTimeout, Cooperative, Polite
  <2>2. CASE (\E b \in SendBlock : SendTimeout(b)) /\ UNCHANGED <<recvVars, linkVars>>
    BY <2>1, <2>2, SendTimeoutKeeps
  <2>3. CASE (\E r \in RecvBlock : RecvTimeout(r)) /\ UNCHANGED <<sendVars, linkVars>>
    BY <2>1, <2>3, RecvTimeoutKeeps
  <2> QED BY <1>1, <2>2, <2>3 DEF LinkTimeout
<1>2. CASE LinkAppThread \/ LinkSendWork \/ LinkRecvWork
  BY <1>2, LinkAppKeeps, LinkSendWorkKeeps, LinkRecvWorkKeeps
<1>3. CASE Transmit
  BY <1>3, TransmitKeeps
<1>4. CASE Receive
  BY <1>4, ReceiveKeeps
<1>5. CASE TransmitFc
  BY <1>5, TransmitFcKeeps
<1>6. CASE ReceiveFc
  BY <1>6, ReceiveFcKeeps
<1>7. CASE UNCHANGED allVars
  BY <1>7, NothingMoves
<1> QED BY <1>1, <1>2, <1>3, <1>4, <1>5, <1>6, <1>7 DEF LinkNext

\* Nothing has been sent.
LEMMA LinkInitially == LinkInit => LinkInv
<1> SUFFICES ASSUME LinkInit PROVE LinkInv
  OBVIOUS
<1>1. SendStart /\ RecvStart /\ CommonInit /\ SendInit /\ RecvInit
  BY DEF LinkInit, SendStart, RecvStart
<1>2. SendTypeInv /\ SendInv /\ AirInv
  BY <1>1, InitTyped, InitSafe, InitAir
<1>3. Inv /\ ContextsInv
  BY <1>1, InvInit, SoundInit
<1>4. /\ wire = <<>> /\ fcWire = <<>> /\ order = <<>> /\ delivered = <<>> /\ rslab = RecvBlock
      /\ sslab = SendBlock /\ txq = <<>> /\ fcq = <<>>
      /\ (\A m \in Msg : call[m] = "none" /\ reports[m] = <<>> /\ aired[m] = <<>>)
  BY <1>1 DEF LinkInit, SendInit, RecvInit
<1>5. LinkTypes
  BY <1>4 DEF LinkTypes
<1>6. OrderInv
  BY <1>4 DEF OrderInv, Accepted, Later
<1>7. Bus = {} /\ Driver = {} /\ \A m \in Msg : Aired(m) = {}
  BY <1>4 DEF Bus, Driver, Aired
<1>8. DriverInv /\ TruthInv
  BY <1>4, <1>7 DEF DriverInv, TruthInv
<1>9. WireInv
  <2>1. WireSorted
    BY <1>4 DEF WireSorted
  <2> QED BY <1>7, <2>1 DEF WireInv
<1>10. FcInv
  BY <1>4 DEF FcInv
<1>11. DeliveredInv
  <2>1. \A m \in Msg : ~Arrived(m)
    BY <1>4 DEF Arrived
  <2> QED BY <1>4, <2>1 DEF DeliveredInv
<1>12. \A b \in SendBlock : SenderInv(b)
  BY <1>4 DEF SenderInv, Using
<1>13. \A r \in RecvBlock : RecvInv(r)
  BY <1>4 DEF RecvInv
<1> QED BY <1>2, <1>3, <1>5, <1>6, <1>8, <1>9, <1>10, <1>11, <1>12, <1>13 DEF LinkInv, Halves

-----------------------------------------------------------------------------
(* The theorem.                                                            *)

\* The invariant of the link: with block-wise flow control, an application that has one transfer
\* to an address at a time, and a receiver that has a buffer for every frame or is done with
\* a message before the next arrives, whatever is lost or fails.
THEOREM LinkAlwaysSound ==
  Cooperative => (LinkSpec /\ [](PromptReceiver \/ pool > 0) => []LinkInv)
<1> SUFFICES ASSUME Cooperative PROVE LinkSpec /\ [](PromptReceiver \/ pool > 0) => []LinkInv
  OBVIOUS
<1>1. LinkInit => LinkInv
  BY LinkInitially
<1>2. LinkInv /\ (PromptReceiver \/ pool > 0) /\ [LinkNext]_allVars => LinkInv'
  BY LinkStep
<1> QED BY <1>1, <1>2, PTL DEF LinkSpec

=============================================================================
