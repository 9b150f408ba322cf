------------------------ MODULE IsoTpReceiveProofs ------------------------
(***************************************************************************)
(* Proof that the receiver passes on only messages of the announced length *)
(* whose frames have gapless sequence numbers, for any senders, messages,  *)
(* block and pool sizes, late timers, faults, and unbinding at any moment, *)
(* that it passes on nothing once unbind has returned, that no buffer is   *)
(* lost, that the state has its types, and that nothing points to a freed  *)
(* context as long as senders wait for flow control.                       *)
(***************************************************************************)
EXTENDS IsoTpReceive, FiniteSetTheorems, WellFoundedInduction, TLAPS

\* The types of the variables; the number of free buffers is not needed here.
Thread == [pc : {"idle", "ctsSent", "waitSent", "overflowSent", "dispatch"},
           blk : RecvBlock \cup {NoBlock}]
OtherTypes ==
  /\ fcq \in Seq(FcFrame)
  /\ delivered \in Seq([src : Src, total : Nat, data : Seq(Chunk)])
  /\ runb \in [pc : {"off", "head", "next", "cancel", "check", "again", "free", "orphan", "done"},
               blk : RecvBlock \cup {NoBlock}, nxt : RecvBlock \cup {NoBlock}]
  /\ runb.pc \in {"cancel", "check", "again", "free", "orphan"} => runb.blk \in RecvBlock
Types == rctx \in [RecvBlock -> RecvCtx] /\ rslab \subseteq RecvBlock /\ rrun \in Thread /\ OtherTypes

\* Chunks that start with the first one and follow each other, as far as their sequence
\* numbers tell.
InSequence(data) ==
  /\ Len(data) >= 1
  /\ \A j \in DOMAIN data : data[j][2] % SnMod = (j - 1) % SnMod
  /\ data[1][2] = 0

\* A message of which frames are missing, and one that is complete.
Underway(c) ==
  /\ InSequence(c.data)
  /\ c.rem >= 1 /\ c.rem + Len(c.data) = c.total /\ c.sn = Len(c.data) % SnMod
Whole(c) == InSequence(c.data) /\ Len(c.data) = c.total

Receiving == {"PROCESS_FF", "TRY_ALLOC", "SEND_FC", "WAIT_CF", "SEND_WAIT"}
Received == {"PROCESS_SF", "RECYCLE"}

\* What the state of a context in use says of its message.
StateSound(c) ==
  /\ c.state # "WAIT_FF_SF"
  /\ c.state \in Receiving => Underway(c)
  /\ c.state \in Received => Whole(c)

\* The work queue thread sets the state once more after it has queued flow control, so
\* what it relies on is said as well.
Awaits(b) == rrun.blk = b /\ rrun.pc \in {"ctsSent", "waitSent"}
BlockSound(b) == StateSound(rctx[b]) /\ (Awaits(b) => Underway(rctx[b]))

\* The thread works on a block in use.
ThreadSound == rrun.blk \notin rslab /\ (rrun.pc # "idle" => rrun.blk \in RecvBlock)

Inv == Types /\ ThreadSound /\ (\A b \in RecvBlock \ rslab : BlockSound(b)) /\ DeliveredInSequence

-----------------------------------------------------------------------------
(* Sequence numbers.                                                       *)

\* Counting on modulo SnMod.
LEMMA SnSucceeds ==
  ASSUME NEW n \in Nat \ {0}, NEW x \in Nat
  PROVE  ((x % n) + 1) % n = (x + 1) % n
<1> DEFINE q == x \div n r == x % n
<1>1. q \in Nat /\ r \in 0..(n - 1) /\ x = n * q + r
  OBVIOUS
<1> HIDE DEF q, r
<1>2. \A p \in Nat, t \in 0..(n - 1) : (n * p + t) % n = t
  OBVIOUS
<1>3. CASE r + 1 < n
  <2>1. r + 1 \in 0..(n - 1) /\ x + 1 = n * q + (r + 1)
    BY <1>1, <1>3
  <2>2. (x + 1) % n = r + 1
    BY <1>1, <1>2, <2>1
  <2>3. (r + 1) % n = r + 1
    BY <2>1
  <2> QED BY <2>2, <2>3 DEF r
<1>4. CASE r + 1 = n
  <2>1. x + 1 = n * (q + 1) + 0 /\ q + 1 \in Nat /\ 0 \in 0..(n - 1)
    BY <1>1, <1>4
  <2>2. (x + 1) % n = 0
    BY <1>2, <2>1
  <2>3. n % n = 0
    OBVIOUS
  <2> QED BY <1>4, <2>2, <2>3 DEF r
<1> QED BY <1>1, <1>3, <1>4

\* The next chunk continues the sequence if its number is the expected one.
LEMMA OneMore ==
  ASSUME NEW data \in Seq(Chunk), InSequence(data), NEW m \in Msg, NEW i \in Nat,
         i % SnMod = Len(data) % SnMod
  PROVE  /\ InSequence(Append(data, <<m, i>>)) /\ Append(data, <<m, i>>) \in Seq(Chunk)
         /\ Len(Append(data, <<m, i>>)) = Len(data) + 1
<1> DEFINE e == <<m, i>> d == Append(data, e)
<1>1. e \in Chunk /\ e[2] = i
  BY DEF Chunk
<1> HIDE DEF e
<1>2. /\ d \in Seq(Chunk) /\ Len(d) = Len(data) + 1 /\ Len(data) \in Nat
      /\ DOMAIN d = 1..(Len(data) + 1) /\ DOMAIN data = 1..Len(data)
      /\ d[Len(data) + 1] = e /\ \A j \in 1..Len(data) : d[j] = data[j]
  BY <1>1
<1> HIDE DEF d
<1>3. ASSUME NEW j \in DOMAIN d PROVE d[j][2] % SnMod = (j - 1) % SnMod
  <2>1. CASE j = Len(data) + 1
    <3>1. j - 1 = Len(data)
      BY <1>2, <2>1
    <3> QED BY <1>1, <1>2, <2>1, <3>1
  <2>2. CASE j # Len(data) + 1
    BY <1>2, <2>2 DEF InSequence
  <2> QED BY <2>1, <2>2
<1>4. d[1][2] = 0
  BY <1>2 DEF InSequence
<1>5. InSequence(d)
  BY <1>2, <1>3, <1>4 DEF InSequence
<1> QED BY <1>2, <1>5 DEF d, e

\* A first frame begins a sequence.
LEMMA FirstChunk ==
  ASSUME NEW m \in Msg
  PROVE  /\ InSequence(Append(<<>>, <<m, 0>>)) /\ Append(<<>>, <<m, 0>>) \in Seq(Chunk)
         /\ Len(Append(<<>>, <<m, 0>>)) = 1
<1> DEFINE e == <<m, 0>> d == Append(<<>>, e)
<1>1. e \in Chunk /\ e[2] = 0
  BY DEF Chunk
<1> HIDE DEF e
<1>2. d \in Seq(Chunk) /\ Len(d) = 1 /\ DOMAIN d = {1} /\ d[1] = e
  BY <1>1
<1> HIDE DEF d
<1>3. InSequence(d)
  BY <1>1, <1>2, CommonAssumption DEF InSequence
<1> QED BY <1>2, <1>3 DEF d, e

\* What the receiver relies on in a data frame: single and first frames are the first of
\* their message and say how long it is, the sequence number of the others is their index.
DataFrame(f) ==
  /\ f.msg \in Msg /\ f.kind \in {"SF", "FF", "CF"} /\ f.idx \in Nat
  /\ f.kind = "SF" => f.idx = 0 /\ f.len = 1
  /\ f.kind = "FF" => f.idx = 0 /\ f.len \in Nat /\ f.len >= 2
  /\ f.kind = "CF" => f.sn = f.idx % SnMod

\* The frames of arbitrary senders are such frames.
LEMMA FrameIs ==
  ASSUME NEW f \in DataFrames
  PROVE  DataFrame(f)
<1> USE DEF DataFrame
<1>1. CASE f \in [kind : {"SF"}, msg : {m \in Msg : Cfs[m] = 0}, idx : {0}, len : {1}, sn : {0}]
  BY <1>1
<1>2. CASE \E m \in Msg : Cfs[m] > 0
                /\ f = [kind |-> "FF", msg |-> m, idx |-> 0, len |-> Cfs[m] + 1, sn |-> 0]
  <2>1. PICK m \in Msg : Cfs[m] > 0 /\ f = [kind |-> "FF", msg |-> m, idx |-> 0, len |-> Cfs[m] + 1, sn |-> 0]
    BY <1>2
  <2>2. Cfs[m] \in Nat
    BY CommonAssumption
  <2> QED BY <2>1, <2>2
<1>3. CASE \E m \in Msg : Cfs[m] > 0 /\ \E i \in 1..Cfs[m] :
             f = [kind |-> "CF", msg |-> m, idx |-> i, len |-> 0, sn |-> i % SnMod]
  <2>1. PICK m \in Msg : Cfs[m] > 0 /\ \E i \in 1..Cfs[m] :
             f = [kind |-> "CF", msg |-> m, idx |-> i, len |-> 0, sn |-> i % SnMod]
    BY <1>3
  <2>2. PICK i \in 1..Cfs[m] : f = [kind |-> "CF", msg |-> m, idx |-> i, len |-> 0, sn |-> i % SnMod]
    BY <2>1
  <2>3. Cfs[m] \in Nat
    BY CommonAssumption
  <2>4. i \in Nat
    BY <2>3, SMTT(40)
  <2> QED BY <2>2, <2>4
<1> QED BY <1>1, <1>2, <1>3 DEF DataFrames

-----------------------------------------------------------------------------
(* What the handlers make of a context.                                    *)

\* Both contexts hold the same part of the same message.
Alike(c, d) == d.data = c.data /\ d.rem = c.rem /\ d.sn = c.sn /\ d.total = c.total
Unseen(c, d) == d \in RecvCtx /\ Alike(c, d) /\ d.state = c.state

\* Fields that have nothing to do with the message.
LEMMA PutUnseen ==
  ASSUME NEW c \in RecvCtx
  PROVE  /\ \A v \in Src : Unseen(c, [c EXCEPT !.src = v])
         /\ \A v \in 0..255 : Unseen(c, [c EXCEPT !.bs = v])
         /\ \A v \in 0..255 : Unseen(c, [c EXCEPT !.wft = v])
         /\ \A v \in {"none", "overflow", "other"} : Unseen(c, [c EXCEPT !.error = v])
         /\ \A v \in Int : Unseen(c, [c EXCEPT !.pending = v])
         /\ \A v \in BOOLEAN : Unseen(c, [c EXCEPT !.timer = v])
         /\ \A v \in Nat : Unseen(c, [c EXCEPT !.bufs = v])
         /\ \A v \in {"ctx", "orphanage"} : Unseen(c, [c EXCEPT !.home = v])
         /\ \A v \in {"none", "ctx", "orphanage"} : Unseen(c, [c EXCEPT !.list = v])
<1>1. \A v \in Src : Unseen(c, [c EXCEPT !.src = v])
  BY ZenonT(60) DEF RecvCtx, Unseen, Alike
<1>2. \A v \in 0..255 : Unseen(c, [c EXCEPT !.bs = v])
  BY ZenonT(60) DEF RecvCtx, Unseen, Alike
<1>3. \A v \in 0..255 : Unseen(c, [c EXCEPT !.wft = v])
  BY ZenonT(60) DEF RecvCtx, Unseen, Alike
<1>4. \A v \in {"none", "overflow", "other"} : Unseen(c, [c EXCEPT !.error = v])
  BY ZenonT(60) DEF RecvCtx, Unseen, Alike
<1>5. \A v \in Int : Unseen(c, [c EXCEPT !.pending = v])
  BY DEF RecvCtx, Unseen, Alike
<1>6. \A v \in BOOLEAN : Unseen(c, [c EXCEPT !.timer = v])
  BY ZenonT(60) DEF RecvCtx, Unseen, Alike
<1>7. \A v \in Nat : Unseen(c, [c EXCEPT !.bufs = v])
  BY ZenonT(60) DEF RecvCtx, Unseen, Alike
<1>8. \A v \in {"ctx", "orphanage"} : Unseen(c, [c EXCEPT !.home = v])
  BY ZenonT(60) DEF RecvCtx, Unseen, Alike
<1>9. \A v \in {"none", "ctx", "orphanage"} : Unseen(c, [c EXCEPT !.list = v])
  BY ZenonT(60) DEF RecvCtx, Unseen, Alike
<1> QED BY <1>1, <1>2, <1>3, <1>4, <1>5, <1>6, <1>7, <1>8, <1>9

\* The state.
LEMMA PutPhase ==
  ASSUME NEW c \in RecvCtx, NEW v \in RxState
  PROVE  LET d == [c EXCEPT !.state = v] IN d \in RecvCtx /\ Alike(c, d) /\ d.state = v
BY ZenonT(60) DEF RecvCtx, Alike

\* Fields of the message.
LEMMA PutExpected ==
  ASSUME NEW c \in RecvCtx, NEW v \in 0..(SnMod - 1)
  PROVE  LET d == [c EXCEPT !.sn = v] IN
         d \in RecvCtx /\ d.data = c.data /\ d.rem = c.rem /\ d.sn = v
          /\ d.total = c.total /\ d.state = c.state
BY ZenonT(60) DEF RecvCtx

\* How many frames are missing.
LEMMA PutRest ==
  ASSUME NEW c \in RecvCtx, NEW v \in Nat
  PROVE  LET d == [c EXCEPT !.rem = v] IN
         d \in RecvCtx /\ d.data = c.data /\ d.rem = v /\ d.sn = c.sn
          /\ d.total = c.total /\ d.state = c.state
BY ZenonT(60) DEF RecvCtx

\* How many frames there are.
LEMMA PutTotal ==
  ASSUME NEW c \in RecvCtx, NEW v \in Nat
  PROVE  LET d == [c EXCEPT !.total = v] IN
         d \in RecvCtx /\ d.data = c.data /\ d.rem = c.rem /\ d.sn = c.sn /\ d.total = v /\ d.state = c.state
BY ZenonT(60) DEF RecvCtx

\* What the buffers hold.
LEMMA PutChunks ==
  ASSUME NEW c \in RecvCtx, NEW v \in Seq(Chunk)
  PROVE  LET d == [c EXCEPT !.data = v] IN
         d \in RecvCtx /\ d.data = v /\ d.rem = c.rem /\ d.sn = c.sn
          /\ d.total = c.total /\ d.state = c.state
BY ZenonT(60) DEF RecvCtx

\* A fresh context that gets the frame it was set up for.
LEMMA FirstFrame ==
  ASSUME NEW c \in RecvCtx, c.data = <<>>, NEW f, DataFrame(f), f.kind \in {"FF", "SF"}
  PROVE  LET d == ProcessFfSf(c, f) IN
         /\ d \in RecvCtx
         /\ f.kind = "SF" => d.state = "PROCESS_SF" /\ Whole(d)
         /\ f.kind = "FF" => d.state = "PROCESS_FF" /\ Underway(d)
<1> DEFINE d == ProcessFfSf(c, f) data == Append(<<>>, <<f.msg, 0>>)
           st == IF f.kind = "SF" THEN "PROCESS_SF" ELSE "PROCESS_FF"
           r == f.len - 1 sn == 1 % SnMod
<1>1. f.msg \in Msg /\ f.idx = 0 /\ f.len \in Nat \ {0}
      /\ (f.kind = "SF" => f.len = 1) /\ (f.kind = "FF" => f.len >= 2)
  BY DEF DataFrame
<1>2. InSequence(data) /\ data \in Seq(Chunk) /\ Len(data) = 1
  BY <1>1, FirstChunk
<1>3. sn \in 0..(SnMod - 1) /\ r \in Nat /\ st \in RxState
  BY <1>1, CommonAssumption DEF RxState
<1>4. data = Append(c.data, <<f.msg, f.idx>>)
  BY <1>1
<1>5. d = [[[[[c EXCEPT !.state = st] EXCEPT !.rem = r] EXCEPT !.total = f.len] EXCEPT !.sn = sn]
               EXCEPT !.data = data]
  BY <1>4 DEF ProcessFfSf
<1> HIDE DEF d, data, st, r, sn
<1> DEFINE d1 == [c EXCEPT !.state = st] d2 == [d1 EXCEPT !.rem = r] d3 == [d2 EXCEPT !.total = f.len]
           d4 == [d3 EXCEPT !.sn = sn]
<1>6. d1 \in RecvCtx /\ d1.state = st
  BY <1>3, PutPhase
<1> HIDE DEF d1
<1>7. d2 \in RecvCtx /\ d2.state = st /\ d2.rem = r
  BY <1>3, <1>6, PutRest
<1> HIDE DEF d2
<1>8. d3 \in RecvCtx /\ d3.state = st /\ d3.rem = r /\ d3.total = f.len
  BY <1>1, <1>7, PutTotal
<1> HIDE DEF d3
<1>9. d4 \in RecvCtx /\ d4.state = st /\ d4.rem = r /\ d4.total = f.len /\ d4.sn = sn
  BY <1>3, <1>8, PutExpected
<1>10. d = [d4 EXCEPT !.data = data]
  BY <1>5 DEF d1, d2, d3
<1> HIDE DEF d4
<1>11. d \in RecvCtx /\ d.state = st /\ d.rem = r /\ d.total = f.len /\ d.sn = sn /\ d.data = data
  BY <1>2, <1>9, <1>10, PutChunks
<1>12. f.kind = "SF" => Whole(d)
  BY <1>1, <1>2, <1>11 DEF Whole
<1>13. f.kind = "FF" => Underway(d)
  <2>1. f.kind = "FF" => r >= 1 /\ r + 1 = f.len
    BY <1>1 DEF r
  <2>2. sn = 1 % SnMod
    BY DEF sn
  <2> QED BY <1>2, <1>11, <2>1, <2>2 DEF Underway
<1> QED BY <1>11, <1>12, <1>13 DEF d, st

\* A frame that arrives while a consecutive frame is awaited.
LEMMA ConsecutiveFrame ==
  ASSUME NEW c \in RecvCtx, c.state = "WAIT_CF", Underway(c), NEW f, DataFrame(f)
  PROVE  LET d == ProcessCf(c, f) IN
         /\ d \in RecvCtx /\ d.state \in {"ERR", "RECYCLE", "TRY_ALLOC", "WAIT_CF"}
         /\ d.state \in Receiving => Underway(d)
         /\ d.state = "RECYCLE" => Whole(d)
<1> DEFINE d == ProcessCf(c, f)
           sn == (c.sn + 1) % SnMod
           data == Append(c.data, <<f.msg, f.idx>>)
           next == [[c EXCEPT !.timer = TRUE] EXCEPT !.sn = sn]
<1>1. f.msg \in Msg /\ f.idx \in Nat /\ (f.kind = "CF" => f.sn = f.idx % SnMod)
  BY DEF DataFrame
<1>2. /\ c.data \in Seq(Chunk) /\ c.rem \in Nat /\ c.sn \in 0..(SnMod - 1) /\ c.total \in Nat
      /\ SnMod \in Nat \ {0} /\ RBs \in 0..255
  BY CommonAssumption, ReceiveAssumption DEF RecvCtx
<1>3. /\ InSequence(c.data) /\ c.rem >= 1 /\ c.rem + Len(c.data) = c.total
      /\ c.sn = Len(c.data) % SnMod /\ Len(c.data) \in Nat
  BY <1>2 DEF Underway
<1>4. sn \in 0..(SnMod - 1) /\ sn = (Len(c.data) + 1) % SnMod
  <2>1. \A x \in Nat : x % SnMod \in 0..(SnMod - 1)
    BY <1>2
  <2>2. c.sn + 1 \in Nat /\ SnMod \in Nat \ {0}
    BY <1>2
  <2>3. ((Len(c.data) % SnMod) + 1) % SnMod = (Len(c.data) + 1) % SnMod
    BY <1>3, <2>2, SnSucceeds
  <2> QED BY <1>3, <2>1, <2>2, <2>3
<1>5. \A x \in RecvCtx : LET y == [[x EXCEPT !.state = "ERR"] EXCEPT !.error = "other"] IN
        y \in RecvCtx /\ y.state = "ERR"
  <2>1. \A x \in RecvCtx : LET y == [x EXCEPT !.state = "ERR"] IN y \in RecvCtx /\ y.state = "ERR"
    BY PutPhase DEF RxState
  <2>2. \A x \in RecvCtx : LET y == [x EXCEPT !.error = "other"] IN y \in RecvCtx /\ y.state = x.state
    BY PutUnseen, ZenonT(60) DEF Unseen
  <2> QED BY <2>1, <2>2
<1>6. next \in RecvCtx /\ next.data = c.data /\ next.rem = c.rem /\ next.total = c.total
      /\ next.state = "WAIT_CF" /\ next.sn = sn
  <2> DEFINE t == [c EXCEPT !.timer = TRUE]
  <2>1. t \in RecvCtx /\ t.data = c.data /\ t.rem = c.rem /\ t.total = c.total /\ t.state = "WAIT_CF"
    BY PutUnseen, ZenonT(60) DEF Unseen, Alike
  <2> HIDE DEF t, sn
  <2>2. next = [t EXCEPT !.sn = sn]
    BY DEF t
  <2> HIDE DEF next
  <2> QED BY <1>4, <2>1, <2>2, PutExpected
<1> HIDE DEF next, data, sn
<1>7. CASE f.kind # "CF"
  <2>1. d = [[c EXCEPT !.state = "ERR"] EXCEPT !.error = "other"]
    BY <1>7 DEF ProcessCf
  <2> HIDE DEF d
  <2>2. d \in RecvCtx /\ d.state = "ERR"
    BY <1>5, <2>1
  <2> QED BY <2>2 DEF Receiving, d
<1>8. CASE f.kind = "CF" /\ f.sn # c.sn
  <2>1. d = [[next EXCEPT !.state = "ERR"] EXCEPT !.error = "other"]
    BY <1>8 DEF ProcessCf, Expected, next, sn
  <2> HIDE DEF d
  <2>2. d \in RecvCtx /\ d.state = "ERR"
    BY <1>5, <1>6, <2>1
  <2> QED BY <2>2 DEF Receiving, d
<1>9. CASE f.kind = "CF" /\ f.sn = c.sn
  <2> DEFINE r == IF c.rem > 0 THEN c.rem - 1 ELSE 0
             got == [[next EXCEPT !.rem = r] EXCEPT !.data = data]
  <2>1. InSequence(data) /\ data \in Seq(Chunk) /\ Len(data) = Len(c.data) + 1
    <3>1. f.idx % SnMod = Len(c.data) % SnMod
      BY <1>1, <1>3, <1>9
    <3> QED BY <1>1, <1>2, <1>3, <3>1, OneMore DEF data
  <2>2. r \in Nat /\ r = c.rem - 1
    BY <1>2, <1>3
  <2>3. got \in RecvCtx /\ got.rem = r /\ got.data = data /\ got.total = c.total
        /\ got.state = "WAIT_CF" /\ got.sn = sn
    <3> DEFINE g == [next EXCEPT !.rem = r]
    <3> HIDE DEF r
    <3>1. g \in RecvCtx /\ g.rem = r /\ g.total = c.total /\ g.state = "WAIT_CF" /\ g.sn = sn
      BY <1>6, <2>2, PutRest
    <3>2. got = [g EXCEPT !.data = data]
      OBVIOUS
    <3> HIDE DEF g, got
    <3> QED BY <2>1, <3>1, <3>2, PutChunks
  <2> DEFINE asked == [[got EXCEPT !.bs = RBs] EXCEPT !.state = "TRY_ALLOC"]
             counted == [got EXCEPT !.bs = Byte(got.bs - 1)]
             done == [got EXCEPT !.state = "RECYCLE"]
  <2>4. \/ d = done /\ got.rem = 0
        \/ (d = got \/ d = asked \/ d = counted) /\ got.rem # 0
    <3>1. d = CASE Complete(got) -> done
                [] ~Complete(got) /\ RBs = 0 -> got
                [] ~Complete(got) /\ RBs > 0 -> IF Byte(c.bs - 1) = 0 THEN asked ELSE counted
      BY <1>6, <1>9 DEF ProcessCf, Expected, next, sn, data
    <3> HIDE DEF d, got, asked, counted, done
    <3>2. RBs = 0 \/ RBs > 0
      BY <1>2
    <3>3. Complete(got) <=> got.rem = 0
      BY DEF Complete
    <3> QED BY <3>1, <3>2, <3>3
  <2> HIDE DEF r, got, d
  <2>5. done \in RecvCtx /\ Alike(got, done) /\ done.state = "RECYCLE"
    BY <2>3, PutPhase DEF RxState
  <2>6. asked \in RecvCtx /\ Alike(got, asked) /\ asked.state = "TRY_ALLOC"
    <3> DEFINE a == [got EXCEPT !.bs = RBs]
    <3>1. a \in RecvCtx /\ Alike(got, a)
      BY <1>2, <2>3, PutUnseen, ZenonT(60) DEF Unseen
    <3>2. asked = [a EXCEPT !.state = "TRY_ALLOC"]
      OBVIOUS
    <3> HIDE DEF a, asked
    <3>3. asked \in RecvCtx /\ Alike(a, asked) /\ asked.state = "TRY_ALLOC"
      BY <3>1, <3>2, PutPhase DEF RxState
    <3> QED BY <3>1, <3>3, SMTT(40) DEF Alike
  <2>7. counted \in RecvCtx /\ Alike(got, counted) /\ counted.state = "WAIT_CF"
    <3>1. got.bs \in 0..255
      BY <2>3 DEF RecvCtx
    <3>2. Byte(got.bs - 1) \in 0..255
      BY <3>1 DEF Byte
    <3> QED BY <2>3, <3>2, PutUnseen, ZenonT(60) DEF Unseen
  <2>8. got.rem = 0 => Whole(done)
    <3>1. got.rem = 0 => Len(data) = c.total
      BY <1>2, <1>3, <2>1, <2>2, <2>3
    <3> QED BY <2>1, <2>3, <2>5, <3>1 DEF Whole, Alike
  <2>9. got.rem # 0 => Underway(got)
    <3>1. got.rem # 0 => got.rem >= 1 /\ got.rem + Len(data) = c.total
      BY <1>2, <1>3, <2>1, <2>2, <2>3
    <3> QED BY <1>4, <2>1, <2>3, <3>1 DEF Underway
  <2>10. got.rem # 0 => Underway(asked) /\ Underway(counted)
    BY <2>6, <2>7, <2>9 DEF Underway, Alike
  <2> HIDE DEF done, asked, counted
  <2> QED BY <2>3, <2>4, <2>5, <2>6, <2>7, <2>8, <2>9, <2>10 DEF Receiving, d
<1> QED BY <1>7, <1>8, <1>9

-----------------------------------------------------------------------------
(* Steps that concern one block.                                           *)

\* A context that holds the same as before, in a state that asks for no more.
LEMMA StaysSound ==
  ASSUME NEW c, NEW d, Alike(c, d), StateSound(c),
         \/ d.state = c.state \/ d.state \in {"ERR", "UNBOUND"}
         \/ c.state \in Receiving /\ d.state \in Receiving
  PROVE  StateSound(d)
<1>1. (Underway(c) <=> Underway(d)) /\ (Whole(c) <=> Whole(d))
  BY DEF Alike, Underway, Whole
<1> QED BY <1>1 DEF StateSound, Receiving, Received

\* One block changes, and the thread goes on with it, leaves it, or works elsewhere.
LEMMA OneReception ==
  ASSUME Inv, NEW b \in RecvBlock, NEW d \in RecvCtx, rctx' = [rctx EXCEPT ![b] = d],
         rslab' \subseteq RecvBlock, \A u \in RecvBlock \ {b} : u \in rslab' <=> u \in rslab,
         rrun' \in Thread, rrun' = rrun \/ rrun'.blk = b \/ rrun'.pc = "idle",
         OtherTypes', ThreadSound', DeliveredInSequence',
         b \notin rslab' => StateSound(d) /\ (Awaits(b)' => Underway(d))
  PROVE  Inv'
<1>1. rctx' \in [RecvBlock -> RecvCtx] /\ rctx'[b] = d /\ \A u \in RecvBlock \ {b} : rctx'[u] = rctx[u]
  BY DEF Inv, Types
<1>2. Types'
  BY <1>1 DEF Types
<1>3. ASSUME NEW u \in RecvBlock \ rslab' PROVE BlockSound(u)'
  <2>1. CASE u = b
    BY <1>1, <1>3, <2>1 DEF BlockSound
  <2>2. CASE u # b
    <3>1. u \notin rslab /\ rctx'[u] = rctx[u]
      BY <1>1, <1>3, <2>2
    <3>2. BlockSound(u)
      BY <3>1 DEF Inv
    <3>3. Awaits(u)' => Awaits(u)
      BY <2>2 DEF Awaits
    <3> QED BY <3>1, <3>2, <3>3 DEF BlockSound
  <2> QED BY <2>1, <2>2
<1> QED BY <1>2, <1>3 DEF Inv

\* A context goes to another state, or its timer or its bookkeeping changes.
LEMMA Quietly ==
  ASSUME Inv, NEW b \in RecvBlock, NEW d \in RecvCtx, rctx' = [rctx EXCEPT ![b] = d],
         Alike(rctx[b], d),
         \/ d.state = rctx[b].state \/ d.state \in {"ERR", "UNBOUND"}
         \/ rctx[b].state \in Receiving /\ d.state \in Receiving,
         UNCHANGED <<rslab, rrun, delivered>>, OtherTypes'
  PROVE  Inv'
<1>1. rslab' \subseteq RecvBlock /\ rrun' \in Thread /\ ThreadSound' /\ DeliveredInSequence'
  BY DEF Inv, Types, ThreadSound, DeliveredInSequence
<1>2. ASSUME b \notin rslab' PROVE StateSound(d) /\ (Awaits(b)' => Underway(d))
  <2>1. BlockSound(b)
    BY <1>2 DEF Inv
  <2>2. StateSound(d)
    BY <2>1, StaysSound DEF BlockSound
  <2>3. Awaits(b)' => Underway(d)
    BY <2>1 DEF BlockSound, Awaits, Alike, Underway
  <2> QED BY <2>2, <2>3
<1> QED BY <1>1, <1>2, OneReception

\* A context is freed.
LEMMA Frees ==
  ASSUME Inv, NEW b \in RecvBlock, NEW d \in RecvCtx, rctx' = [rctx EXCEPT ![b] = d],
         rslab' = rslab \cup {b}, rrun' = NoRRun \/ (rrun' = rrun /\ rrun.blk # b),
         UNCHANGED delivered, OtherTypes'
  PROVE  Inv'
<1>1. rslab' \subseteq RecvBlock /\ DeliveredInSequence'
      /\ \A u \in RecvBlock \ {b} : u \in rslab' <=> u \in rslab
  BY DEF Inv, Types, DeliveredInSequence
<1>2. rrun' \in Thread /\ ThreadSound' /\ (rrun' = rrun \/ rrun'.pc = "idle")
  <2>1. CASE rrun' = NoRRun
    BY <1>1, <2>1, ReceiveAssumption DEF NoRRun, Thread, ThreadSound
  <2>2. CASE rrun' = rrun /\ rrun.blk # b
    BY <2>2 DEF Inv, Types, ThreadSound
  <2> QED BY <2>1, <2>2
<1>3. b \in rslab'
  OBVIOUS
<1> QED BY <1>1, <1>2, <1>3, OneReception

\* What a freed context is.
LEMMA RFreedTyped == ASSUME NEW c \in RecvCtx PROVE RFreed(c) \in RecvCtx
<1> DEFINE l == IF c.list = c.home THEN "none" ELSE c.list
           c1 == [c EXCEPT !.timer = FALSE] c2 == [c1 EXCEPT !.bufs = 0] c3 == [c2 EXCEPT !.data = <<>>]
<1>1. RFreed(c) = [c3 EXCEPT !.list = l]
  BY DEF RFreed
<1>2. l \in {"none", "ctx", "orphanage"}
  BY DEF RecvCtx
<1>3. c1 \in RecvCtx
  BY PutUnseen, ZenonT(60) DEF Unseen
<1> HIDE DEF c1, l
<1>4. c2 \in RecvCtx
  BY <1>3, PutUnseen DEF Unseen
<1> HIDE DEF c2
<1>5. c3 \in RecvCtx
  <2>1. <<>> \in Seq(Chunk)
    OBVIOUS
  <2> QED BY <1>4, <2>1, PutChunks
<1> HIDE DEF c3
<1> QED BY <1>1, <1>2, <1>5, PutUnseen, ZenonT(60) DEF Unseen

\* Memory stays valid if the block is in use.
LEMMA Touched == ASSUME NEW b, RTouch(b), ~corrupt' PROVE b \notin rslab
BY DEF RTouch, Corrupt

-----------------------------------------------------------------------------
(* Interrupts.                                                             *)

\* A frame arrives for a context, which the thread is not working on.
LEMMA ExistingKeeps ==
  ASSUME Inv, NEW b \in RecvBlock, NEW f, DataFrame(f), RxExisting(b, f), rrun.blk # b, b \notin rslab,
         UNCHANGED <<rrun, fcq, delivered, runb>>
  PROVE  Inv'
<1> DEFINE c == [rctx[b] EXCEPT !.bufs = rctx[b].bufs + 1]
           after == IF c.state = "WAIT_CF" THEN ProcessCf(c, f)
                    ELSE IF c.state = "WAIT_FF_SF" THEN ProcessFfSf(c, f) ELSE c
<1>1. rctx[b] \in RecvCtx /\ BlockSound(b) /\ OtherTypes' /\ rrun \in Thread
      /\ rslab \subseteq RecvBlock /\ rctx \in [RecvBlock -> RecvCtx]
  BY DEF Inv, Types, OtherTypes
<1>2. CASE RFree(b, rctx[b])
  <2>1. RFreed(rctx[b]) \in RecvCtx
    BY <1>1, RFreedTyped
  <2> QED BY <1>1, <1>2, <2>1, Frees DEF RFree
<1>3. CASE rctx' = [rctx EXCEPT ![b] = after] /\ UNCHANGED rslab
  <2>1. c \in RecvCtx /\ Alike(rctx[b], c) /\ c.state = rctx[b].state
    <3>1. rctx[b].bufs + 1 \in Nat
      BY <1>1 DEF RecvCtx
    <3> QED BY <1>1, <3>1, PutUnseen DEF Unseen
  <2> HIDE DEF c
  <2>2. StateSound(c)
    BY <1>1, <2>1, StaysSound DEF BlockSound
  <2>3. after \in RecvCtx /\ StateSound(after)
    <3>1. CASE c.state = "WAIT_CF"
      <4> DEFINE d == ProcessCf(c, f)
      <4>1. Underway(c)
        BY <2>2, <3>1 DEF StateSound, Receiving
      <4>2. /\ d \in RecvCtx /\ d.state \in {"ERR", "RECYCLE", "TRY_ALLOC", "WAIT_CF"}
            /\ d.state \in Receiving => Underway(d)
            /\ d.state = "RECYCLE" => Whole(d)
        BY <2>1, <3>1, <4>1, ConsecutiveFrame
      <4>3. after = d
        BY <3>1
      <4> HIDE DEF d, after
      <4> QED BY <4>2, <4>3 DEF StateSound, Received
    <3>2. CASE c.state # "WAIT_CF"
      <4>1. c.state # "WAIT_FF_SF"
        BY <2>2 DEF StateSound
      <4> QED BY <2>1, <2>2, <3>2, <4>1
    <3> QED BY <3>1, <3>2
  <2> HIDE DEF after
  <2>4. rslab' \subseteq RecvBlock /\ rrun' \in Thread /\ ThreadSound' /\ DeliveredInSequence' /\ ~Awaits(b)'
    BY <1>1, <1>3 DEF Inv, ThreadSound, DeliveredInSequence, Awaits
  <2> QED BY <1>1, <1>3, <2>3, <2>4, OneReception
<1> QED BY <1>2, <1>3 DEF RxExisting

\* The context get_recv_ctx sets up.
LEMMA NewTyped ==
  ASSUME NEW b, rctx[b] \in RecvCtx, NEW s \in Src
  PROVE  NewRecvCtx(b, s) \in RecvCtx /\ NewRecvCtx(b, s).data = <<>>
<1> DEFINE r == rctx[b] n == NewRecvCtx(b, s)
<1> DEFINE c1 == [r EXCEPT !.state = "WAIT_FF_SF"] c2 == [c1 EXCEPT !.src = s]
           c3 == [c2 EXCEPT !.error = "none"] c4 == [c3 EXCEPT !.pending = 0]
           c5 == [c4 EXCEPT !.timer = FALSE] c6 == [c5 EXCEPT !.data = <<>>]
           c7 == [c6 EXCEPT !.bufs = 1] c8 == [c7 EXCEPT !.home = "ctx"] c9 == [c8 EXCEPT !.list = "ctx"]
<1>1. n = c9 /\ 0 \in Int /\ 1 \in Nat
  BY DEF NewRecvCtx
<1>2. c1 \in RecvCtx
  BY PutPhase DEF RxState
<1> HIDE DEF c1
<1>3. c2 \in RecvCtx
  BY <1>2, PutUnseen, ZenonT(60) DEF Unseen
<1> HIDE DEF c2
<1>4. c3 \in RecvCtx
  BY <1>3, PutUnseen, ZenonT(60) DEF Unseen
<1> HIDE DEF c3
<1>5. c4 \in RecvCtx
  BY <1>1, <1>4, PutUnseen, ZenonT(60) DEF Unseen
<1> HIDE DEF c4
<1>6. c5 \in RecvCtx
  BY <1>5, PutUnseen DEF Unseen
<1> HIDE DEF c5
<1>7. c6 \in RecvCtx /\ c6.data = <<>>
  <2>1. <<>> \in Seq(Chunk)
    BY SMTT(40)
  <2> QED BY <1>6, <2>1, PutChunks
<1> HIDE DEF c6
<1>8. c7 \in RecvCtx /\ c7.data = <<>>
  BY <1>1, <1>7, PutUnseen, ZenonT(60) DEF Unseen, Alike
<1> HIDE DEF c7
<1>9. c8 \in RecvCtx /\ c8.data = <<>>
  BY <1>8, PutUnseen, ZenonT(60) DEF Unseen, Alike
<1> HIDE DEF c8
<1>10. c9 \in RecvCtx /\ c9.data = <<>>
  BY <1>9, PutUnseen DEF Unseen, Alike
<1> HIDE DEF c9
<1> QED BY <1>1, <1>10

\* A frame arrives from a sender without a context.
LEMMA NewKeeps ==
  ASSUME Inv, NEW s \in Src, NEW f, DataFrame(f), RxNew(s, f), UNCHANGED <<rrun, fcq, delivered, runb>>
  PROVE  Inv'
<1>1. PICK b \in rslab : /\ rctx' = [rctx EXCEPT ![b] = ProcessFfSf(NewRecvCtx(b, s), f)]
                         /\ rslab' = rslab \ {b} /\ f.kind \in {"FF", "SF"}
  BY DEF RxNew
<1>2. /\ b \in RecvBlock /\ rctx[b] \in RecvCtx /\ OtherTypes' /\ rrun \in Thread /\ rrun.blk # b
      /\ rslab' \subseteq RecvBlock /\ \A u \in RecvBlock \ {b} : u \in rslab' <=> u \in rslab
  BY <1>1 DEF Inv, Types, OtherTypes, ThreadSound
<1> DEFINE r == rctx[b] n == NewRecvCtx(b, s)
<1>3. n \in RecvCtx /\ n.data = <<>>
  BY <1>2, NewTyped
<1> HIDE DEF n
<1> DEFINE d == ProcessFfSf(n, f)
<1>4. /\ d \in RecvCtx
      /\ f.kind = "SF" => d.state = "PROCESS_SF" /\ Whole(d)
      /\ f.kind = "FF" => d.state = "PROCESS_FF" /\ Underway(d)
  BY <1>1, <1>3, FirstFrame
<1>5. rctx' = [rctx EXCEPT ![b] = d]
  BY <1>1 DEF n
<1> HIDE DEF d
<1>6. StateSound(d)
  BY <1>1, <1>4 DEF StateSound, Receiving, Received
<1>7. ThreadSound' /\ DeliveredInSequence' /\ ~Awaits(b)' /\ rrun' \in Thread
  BY <1>1, <1>2 DEF Inv, ThreadSound, DeliveredInSequence, Awaits
<1> QED BY <1>2, <1>4, <1>5, <1>6, <1>7, OneReception

\* A step that touches none of what the invariant is about.
LEMMA NothingHere ==
  ASSUME Inv, UNCHANGED <<rctx, rslab, rrun, fcq, delivered>>, OtherTypes'
  PROVE  Inv'
<1>1. Types' /\ ThreadSound' /\ DeliveredInSequence'
  BY DEF Inv, Types, ThreadSound, DeliveredInSequence
<1>2. \A b \in RecvBlock \ rslab' : BlockSound(b)'
  BY DEF Inv, BlockSound, Awaits
<1> QED BY <1>1, <1>2 DEF Inv

\* A data frame arrives; the thread is not working on the context it is for.
LEMMA FrameArrivesKeeps ==
  ASSUME Inv, ~RecvPreempted, NEW s \in Src, NEW f, DataFrame(f), FrameArrives(s, f), ~corrupt'
  PROVE  Inv'
<1>1. rrun.blk \notin RFound(s) /\ UNCHANGED <<rrun, fcq, delivered, runb>>
  BY DEF FrameArrives
<1>2. CASE \E b \in RFound(s) : RxExisting(b, f) /\ RTouch(b)
  <2>1. PICK b \in RFound(s) : RxExisting(b, f) /\ RTouch(b)
    BY <1>2
  <2>2. b \in RecvBlock /\ b \notin rslab /\ rrun.blk # b
    BY <1>1, <2>1, Touched DEF RFound
  <2> QED BY <1>1, <2>1, <2>2, ExistingKeeps
<1>3. CASE RxNew(s, f)
  BY <1>1, <1>3, NewKeeps
<1>4. CASE RxIgnored
  BY <1>1, <1>4, NothingHere DEF RxIgnored, Inv, Types, OtherTypes
<1> QED BY <1>2, <1>3, <1>4 DEF FrameArrives

\* A flow control frame is transmitted, or could not be.
LEMMA FcDoneKeeps ==
  ASSUME Inv, NEW ok \in BOOLEAN, FcDone(ok)
  PROVE  Inv'
<1> DEFINE b == Head(fcq).blk c == rctx[b] d == FcAnswered(c, ok)
           c1 == [c EXCEPT !.pending = c.pending - 1] c2 == [c1 EXCEPT !.state = "ERR"]
           c3 == [c2 EXCEPT !.error = "other"]
<1>1. /\ fcq # <<>> /\ rctx' = [rctx EXCEPT ![b] = d] /\ fcq' = Tail(fcq)
      /\ UNCHANGED <<rslab, rrun, delivered, runb>>
  BY DEF FcDone
<1>2. b \in RecvBlock /\ fcq' \in Seq(FcFrame)
  <2>1. fcq \in Seq(FcFrame)
    BY DEF Inv, Types, OtherTypes
  <2>2. Head(fcq) \in FcFrame /\ Tail(fcq) \in Seq(FcFrame)
    BY <1>1, <2>1
  <2> QED BY <1>1, <2>2 DEF FcFrame
<1>3. OtherTypes'
  BY <1>1, <1>2 DEF Inv, Types, OtherTypes
<1> HIDE DEF b
<1>4. c \in RecvCtx
  BY <1>2 DEF Inv, Types
<1>5. d = IF ok THEN c1 ELSE c3
  BY SMTT(40) DEF FcAnswered
<1>6. c1 \in RecvCtx /\ Alike(c, c1) /\ c1.state = c.state
  <2>1. c.pending - 1 \in Int
    BY <1>4 DEF RecvCtx
  <2> QED BY <1>4, <2>1, PutUnseen, ZenonT(60) DEF Unseen
<1> HIDE DEF c1
<1>7. c2 \in RecvCtx /\ Alike(c1, c2) /\ c2.state = "ERR"
  BY <1>6, PutPhase DEF RxState
<1> HIDE DEF c2
<1>8. c3 \in RecvCtx /\ Alike(c2, c3) /\ c3.state = "ERR"
  BY <1>7, PutUnseen DEF Unseen
<1> HIDE DEF c3, d
<1>9. d \in RecvCtx /\ Alike(c, d) /\ (d.state = c.state \/ d.state \in {"ERR", "UNBOUND"})
  BY <1>5, <1>6, <1>7, <1>8 DEF Alike
<1> QED BY <1>1, <1>2, <1>3, <1>9, Quietly

\* A timer expires.
LEMMA TimeoutKeeps ==
  ASSUME Inv, NEW b \in RecvBlock, RecvTimeout(b)
  PROVE  Inv'
<1> DEFINE c == rctx[b]
           e == CASE c.state = "WAIT_CF"   -> [c EXCEPT !.state = "ERR", !.error = "other"]
                  [] c.state = "TRY_ALLOC" -> [c EXCEPT !.state = "SEND_WAIT"]
                  [] OTHER                 -> c
           d == [e EXCEPT !.timer = FALSE]
<1>1. rctx' = [rctx EXCEPT ![b] = d] /\ UNCHANGED <<rslab, rrun, fcq, delivered, runb>>
  BY DEF RecvTimeout
<1>2. c \in RecvCtx /\ OtherTypes'
  BY <1>1 DEF Inv, Types, OtherTypes
<1>3. /\ e \in RecvCtx /\ Alike(c, e)
      /\ e.state = c.state \/ e.state \in {"ERR", "UNBOUND"} \/ (c.state \in Receiving /\ e.state \in Receiving)
  <2>1. CASE c.state = "WAIT_CF"
    <3> DEFINE x == [c EXCEPT !.state = "ERR"] y == [x EXCEPT !.error = "other"]
    <3>1. x \in RecvCtx /\ Alike(c, x) /\ x.state = "ERR"
      BY <1>2, PutPhase DEF RxState
    <3>2. e = y
      BY <2>1, SMTT(40)
    <3> HIDE DEF x, e
    <3>3. y \in RecvCtx /\ Alike(x, y) /\ y.state = "ERR"
      BY <3>1, PutUnseen, ZenonT(60) DEF Unseen
    <3> HIDE DEF y
    <3> QED BY <3>1, <3>2, <3>3 DEF Alike
  <2>2. CASE c.state = "TRY_ALLOC"
    <3> DEFINE x == [c EXCEPT !.state = "SEND_WAIT"]
    <3>1. x \in RecvCtx /\ Alike(c, x) /\ x.state = "SEND_WAIT"
      BY <1>2, PutPhase DEF RxState
    <3>2. e = x
      BY <2>2
    <3> HIDE DEF x, e
    <3> QED BY <2>2, <3>1, <3>2 DEF Receiving
  <2>3. CASE c.state \notin {"WAIT_CF", "TRY_ALLOC"}
    <3>1. e = c
      BY <2>3
    <3> HIDE DEF e
    <3> QED BY <1>2, <3>1 DEF Alike
  <2> QED BY <2>1, <2>2, <2>3
<1> HIDE DEF e
<1>4. d \in RecvCtx /\ Alike(e, d) /\ d.state = e.state
  BY <1>3, PutUnseen, ZenonT(60) DEF Unseen
<1> HIDE DEF d
<1>5. Alike(c, d)
  BY <1>3, <1>4 DEF Alike
<1> QED BY <1>1, <1>2, <1>3, <1>4, <1>5, Quietly

-----------------------------------------------------------------------------
(* The work queue thread.                                                  *)

\* Flow control is queued for a block in use; what the thread will set the state to must
\* suit the message.
LEMMA SendFcKeeps ==
  ASSUME Inv, NEW b \in RecvBlock, NEW c \in RecvCtx, NEW fs \in {"CTS", "WAIT", "OVFLW"},
         NEW pc \in {"ctsSent", "waitSent", "overflowSent"}, SendFc(b, c, fs, pc), ~corrupt',
         StateSound(c), pc # "overflowSent" => Underway(c), UNCHANGED <<delivered, runb>>
  PROVE  Inv'
<1> DEFINE d == [c EXCEPT !.pending = c.pending + 1] frame == [fs |-> fs, dst |-> c.src, blk |-> b]
<1>1. /\ fcq' = Append(fcq, frame) /\ rctx' = [rctx EXCEPT ![b] = d]
      /\ rrun' = RRunning(pc, b) /\ RTouch(b) /\ rslab' = rslab
  BY DEF SendFc, Corrupt
<1>2. b \notin rslab
  BY <1>1, Touched
<1>3. d \in RecvCtx /\ Alike(c, d) /\ d.state = c.state
  <2>1. c.pending + 1 \in Int
    BY DEF RecvCtx
  <2> QED BY <2>1, PutUnseen DEF Unseen
<1> HIDE DEF d
<1>4. frame \in FcFrame
  <2>1. c.src \in Src
    BY DEF RecvCtx
  <2> QED BY <2>1 DEF FcFrame
<1> HIDE DEF frame
<1>5. OtherTypes'
  <2>1. fcq \in Seq(FcFrame)
    BY DEF Inv, Types, OtherTypes
  <2>2. fcq' \in Seq(FcFrame)
    BY <1>1, <1>4, <2>1
  <2> QED BY <2>2 DEF Inv, Types, OtherTypes
<1>6. rrun' \in Thread /\ rrun'.blk = b /\ rrun'.pc = pc
  BY <1>1 DEF RRunning, Thread
<1>7. ThreadSound' /\ DeliveredInSequence' /\ rslab' \subseteq RecvBlock
  BY <1>1, <1>2, <1>6 DEF Inv, Types, ThreadSound, DeliveredInSequence
<1>8. StateSound(d) /\ (Awaits(b)' => Underway(d))
  <2>1. StateSound(d)
    BY <1>3, StaysSound
  <2>2. pc \in {"ctsSent", "waitSent"} => Underway(d)
    BY <1>3 DEF Alike, Underway
  <2> QED BY <1>6, <2>1, <2>2 DEF Awaits
<1> QED BY <1>1, <1>3, <1>5, <1>6, <1>7, <1>8, OneReception

\* Memory stays valid if flow control is sent for a block in use, and can be sent.
LEMMA SendFcTouches ==
  ASSUME NEW b, NEW c, NEW fs, NEW pc, SendFc(b, c, fs, pc), ~corrupt'
  PROVE  b \notin rslab
<1>1. RTouch(b)
  BY DEF SendFc, Corrupt
<1> QED BY <1>1, Touched

\* The next block is asked for.
LEMMA SendCtsKeeps ==
  ASSUME Inv, NEW b \in RecvBlock, NEW c \in RecvCtx, Underway(c), SendCts(b, c), ~corrupt',
         UNCHANGED <<delivered, runb>>
  PROVE  Inv'
<1> DEFINE x == [c EXCEPT !.timer = FALSE] d == [x EXCEPT !.state = "SEND_FC"]
<1>1. SendFc(b, d, "CTS", "ctsSent")
  BY SMTT(40) DEF SendCts
<1>2. x \in RecvCtx /\ Alike(c, x)
  BY PutUnseen, ZenonT(60) DEF Unseen
<1> HIDE DEF x
<1>3. d \in RecvCtx /\ Alike(x, d) /\ d.state = "SEND_FC"
  BY <1>2, PutPhase DEF RxState
<1> HIDE DEF d
<1>4. Underway(d)
  BY <1>2, <1>3 DEF Alike, Underway
<1>5. StateSound(d)
  BY <1>3, <1>4 DEF StateSound, Receiving, Received
<1> QED BY <1>1, <1>3, <1>4, <1>5, SendFcKeeps

\* A context in the error state tells the sender or is freed.
LEMMA RecvErrorKeeps ==
  ASSUME Inv, NEW b \in RecvBlock, NEW c \in RecvCtx, c.state = "ERR", RecvError(b, c), ~corrupt',
         UNCHANGED <<delivered, runb>>
  PROVE  Inv'
<1>1. CASE c.error = "overflow"
  <2> DEFINE d == [c EXCEPT !.timer = FALSE]
  <2>1. d \in RecvCtx /\ d.state = "ERR"
    BY PutUnseen DEF Unseen
  <2>2. SendFc(b, d, "OVFLW", "overflowSent")
    BY <1>1 DEF RecvError
  <2> HIDE DEF d
  <2>3. StateSound(d)
    BY <2>1 DEF StateSound, Receiving, Received
  <2> QED BY <2>1, <2>2, <2>3, SendFcKeeps
<1>2. CASE c.error # "overflow"
  <2> DEFINE x == [c EXCEPT !.state = "UNBOUND"] d == RFreed(x)
  <2>1. rctx' = [rctx EXCEPT ![b] = d] /\ rslab' = rslab \cup {b} /\ rrun' = NoRRun /\ UNCHANGED fcq
    BY <1>2 DEF RecvError, RFree
  <2>2. x \in RecvCtx
    BY PutPhase DEF RxState
  <2> HIDE DEF x
  <2>3. d \in RecvCtx
    BY <2>2, RFreedTyped
  <2>4. OtherTypes'
    BY <2>1 DEF Inv, Types, OtherTypes
  <2> HIDE DEF d
  <2> QED BY <2>1, <2>3, <2>4, Frees
<1> QED BY <1>1, <1>2

\* A complete message is passed to recv_callback.
LEMMA DispatchKeeps ==
  ASSUME Inv, NEW b \in RecvBlock, rctx[b].state \in Received, Dispatch(b), ~corrupt', UNCHANGED runb
  PROVE  Inv'
<1> DEFINE c == rctx[b] x == [c EXCEPT !.state = "RECYCLE"] d == [x EXCEPT !.rem = 0]
           m == [src |-> c.src, total |-> c.total, data |-> c.data]
<1>1. /\ rctx' = [rctx EXCEPT ![b] = d] /\ rrun' = RRunning("dispatch", b) /\ RTouch(b)
      /\ UNCHANGED <<rslab, fcq>>
      /\ delivered' = Append(delivered, m) \/ delivered' = delivered
  <2>1. rctx' = [rctx EXCEPT ![b] = d]
    <3>1. rctx' = [rctx EXCEPT ![b].state = "RECYCLE", ![b].rem = 0]
      BY DEF Dispatch
    <3>2. rctx \in [RecvBlock -> RecvCtx]
      BY DEF Inv, Types
    <3> QED BY <3>1, <3>2
  <2> QED BY <2>1 DEF Dispatch
<1>2. b \notin rslab /\ c \in RecvCtx
  BY <1>1, Touched DEF Inv, Types
<1>3. Whole(c)
  BY <1>2 DEF Inv, BlockSound, StateSound
<1>4. x \in RecvCtx /\ Alike(c, x) /\ x.state = "RECYCLE"
  BY <1>2, PutPhase DEF RxState
<1> HIDE DEF x
<1>5. d \in RecvCtx /\ d.data = x.data /\ d.total = x.total /\ d.state = "RECYCLE"
  BY <1>4, PutRest
<1> HIDE DEF d
<1>6. StateSound(d)
  BY <1>3, <1>4, <1>5 DEF StateSound, Alike, Whole, Receiving, Received
<1>7. rrun' \in Thread /\ rrun'.blk = b /\ rrun'.pc = "dispatch"
  BY <1>1 DEF RRunning, Thread
<1>8. m \in [src : Src, total : Nat, data : Seq(Chunk)]
  BY <1>2 DEF RecvCtx
<1>9. OtherTypes'
  <2> DEFINE Messages == Seq([src : Src, total : Nat, data : Seq(Chunk)])
  <2>1. delivered \in Messages
    BY DEF Inv, Types, OtherTypes
  <2>2. Append(delivered, m) \in Messages
    BY <1>8, <2>1
  <2> HIDE DEF m
  <2>3. delivered' \in Messages
    BY <1>1, <2>1, <2>2
  <2> QED BY <1>1, <2>3 DEF Inv, Types, OtherTypes
<1>10. DeliveredInSequence'
  <2>1. delivered \in Seq([src : Src, total : Nat, data : Seq(Chunk)]) /\ DeliveredInSequence
    BY DEF Inv, Types, OtherTypes
  <2>2. /\ Len(m.data) = m.total /\ \A j \in DOMAIN m.data : m.data[j][2] % SnMod = (j - 1) % SnMod
        /\ m.data[1][2] = 0
    BY <1>3 DEF Whole, InSequence
  <2> HIDE DEF m
  <2>3. CASE delivered' = Append(delivered, m)
    <3>1. \A i \in DOMAIN delivered' : delivered'[i] = m \/ (i \in DOMAIN delivered /\ delivered'[i] = delivered[i])
      BY <1>8, <2>1, <2>3
    <3>2. ASSUME NEW i \in DOMAIN delivered'
          PROVE  LET e == delivered'[i] IN
                 /\ Len(e.data) = e.total
                 /\ \A j \in DOMAIN e.data : e.data[j][2] % SnMod = (j - 1) % SnMod
                 /\ e.data[1][2] = 0
      <4>1. CASE delivered'[i] = m
        BY <2>2, <4>1
      <4>2. CASE i \in DOMAIN delivered /\ delivered'[i] = delivered[i]
        BY <2>1, <4>2 DEF DeliveredInSequence
      <4> QED BY <3>1, <4>1, <4>2
    <3> QED BY <3>2 DEF DeliveredInSequence
  <2>4. CASE delivered' = delivered
    BY <2>1, <2>4 DEF DeliveredInSequence
  <2> QED BY <1>1, <2>3, <2>4
<1>11. ThreadSound' /\ rslab' \subseteq RecvBlock /\ ~Awaits(b)'
  BY <1>1, <1>2, <1>7 DEF Inv, Types, ThreadSound, Awaits
<1> QED BY <1>1, <1>5, <1>6, <1>7, <1>9, <1>10, <1>11, OneReception

\* The thread takes a work item.
LEMMA WorkKeeps ==
  ASSUME Inv, NEW b \in RecvBlock, RecvWork(b), ~corrupt'
  PROVE  Inv'
<1> DEFINE c == rctx[b] waits == Byte(c.wft + 1)
<1>1. c \in RecvCtx /\ UNCHANGED runb
  BY DEF Inv, Types, RecvWork
<1>2. b \notin rslab => StateSound(c)
  BY DEF Inv, BlockSound
<1>3. waits \in 0..255
  <2>1. c.wft \in 0..255
    BY <1>1 DEF RecvCtx
  <2> QED BY <2>1 DEF Byte
<1>4. \A d : SendCts(b, d) => b \notin rslab
  BY SendFcTouches DEF SendCts
<1>5. CASE c.state \in {"PROCESS_SF", "RECYCLE"} /\ Dispatch(b)
  BY <1>1, <1>5, DispatchKeeps DEF Received
<1>6. CASE /\ c.state = "PROCESS_FF" /\ UNCHANGED delivered
           /\ SendCts(b, [c EXCEPT !.bs = IF RBs > 0 THEN RBs ELSE c.bs, !.wft = 255])
  <2> DEFINE v == IF RBs > 0 THEN RBs ELSE c.bs x == [c EXCEPT !.bs = v]
             w == 255 d == [x EXCEPT !.wft = w]
  <2>1. v \in 0..255 /\ w \in 0..255
    <3>1. c.bs \in 0..255 /\ RBs \in 0..255
      BY <1>1, ReceiveAssumption, SMTT(40) DEF RecvCtx
    <3> HIDE DEF c
    <3> QED BY <3>1
  <2>2. SendCts(b, d)
    BY <1>6
  <2> HIDE DEF v, w
  <2>3. x \in RecvCtx /\ Alike(c, x)
    BY <1>1, <2>1, PutUnseen, ZenonT(60) DEF Unseen
  <2> HIDE DEF x
  <2>4. d \in RecvCtx /\ Alike(x, d)
    BY <2>1, <2>3, PutUnseen, ZenonT(60) DEF Unseen
  <2> HIDE DEF d
  <2>5. b \notin rslab
    BY <1>4, <2>2
  <2>6. Underway(d)
    BY <1>2, <1>6, <2>3, <2>4, <2>5 DEF StateSound, Receiving, Underway, Alike
  <2> QED BY <1>1, <1>6, <2>2, <2>4, <2>6, SendCtsKeeps
<1>7. CASE /\ c.state = "PROCESS_FF" /\ UNCHANGED delivered
           /\ RecvError(b, [c EXCEPT !.state = "ERR", !.error = "overflow"])
  <2> DEFINE x == [c EXCEPT !.state = "ERR"] d == [x EXCEPT !.error = "overflow"]
  <2>1. RecvError(b, d)
    BY <1>7
  <2>2. x \in RecvCtx /\ x.state = "ERR"
    BY <1>1, PutPhase DEF RxState
  <2> HIDE DEF x
  <2>3. d \in RecvCtx /\ d.state = "ERR"
    BY <2>2, PutUnseen, ZenonT(60) DEF Unseen
  <2> HIDE DEF d
  <2> QED BY <1>1, <1>7, <2>1, <2>3, RecvErrorKeeps
<1>8. CASE c.state \in {"TRY_ALLOC", "SEND_FC"} /\ SendCts(b, c) /\ UNCHANGED delivered
  <2>1. b \notin rslab
    BY <1>4, <1>8
  <2>2. Underway(c)
    BY <1>2, <1>8, <2>1 DEF StateSound, Receiving
  <2> QED BY <1>1, <1>8, <2>2, SendCtsKeeps
<1>9. CASE c.state = "SEND_WAIT" /\ SendFc(b, [c EXCEPT !.wft = waits], "WAIT", "waitSent") /\ UNCHANGED delivered
  <2> DEFINE d == [c EXCEPT !.wft = waits]
  <2>1. b \notin rslab
    BY <1>9, SendFcTouches
  <2> HIDE DEF waits
  <2>2. d \in RecvCtx /\ Alike(c, d) /\ d.state = c.state
    BY <1>1, <1>3, PutUnseen, ZenonT(60) DEF Unseen
  <2>3. SendFc(b, d, "WAIT", "waitSent")
    BY <1>9
  <2> HIDE DEF d
  <2>4. StateSound(d)
    BY <1>2, <2>1, <2>2, StaysSound
  <2>5. Underway(d)
    BY <1>9, <2>2, <2>4 DEF StateSound, Receiving
  <2> QED BY <1>1, <1>9, <2>2, <2>3, <2>4, <2>5, SendFcKeeps
<1>10. CASE /\ c.state = "SEND_WAIT" /\ UNCHANGED delivered
            /\ RecvError(b, [c EXCEPT !.wft = waits, !.state = "ERR", !.error = "overflow"])
  <2> DEFINE y == [c EXCEPT !.wft = waits] x == [y EXCEPT !.state = "ERR"] d == [x EXCEPT !.error = "overflow"]
  <2>1. RecvError(b, d)
    BY <1>10
  <2> HIDE DEF waits
  <2>2. y \in RecvCtx
    BY <1>1, <1>3, PutUnseen DEF Unseen
  <2> HIDE DEF y
  <2>3. x \in RecvCtx /\ x.state = "ERR"
    BY <2>2, PutPhase DEF RxState
  <2> HIDE DEF x
  <2>4. d \in RecvCtx /\ d.state = "ERR"
    BY <2>3, PutUnseen DEF Unseen
  <2> HIDE DEF d
  <2> QED BY <1>1, <1>10, <2>1, <2>4, RecvErrorKeeps
<1>11. CASE c.state = "ERR" /\ RecvError(b, c) /\ UNCHANGED delivered
  BY <1>1, <1>11, RecvErrorKeeps
<1>12. CASE UNCHANGED <<rctx, rslab, fcq, delivered>> /\ rrun' = NoRRun
  <2>1. rrun = NoRRun
    BY DEF RecvWork
  <2>2. UNCHANGED <<rctx, rslab, rrun, fcq, delivered>>
    BY <1>12, <2>1
  <2>3. OtherTypes'
    BY <1>1, <2>2 DEF Inv, Types, OtherTypes
  <2> QED BY <2>2, <2>3, NothingHere
<1> QED BY <1>5, <1>6, <1>7, <1>8, <1>9, <1>10, <1>11, <1>12 DEF RecvWork

\* After it has queued flow control, the thread sets the state.
LEMMA FcQueuedKeeps ==
  ASSUME Inv, FcQueued, ~corrupt'
  PROVE  Inv'
<1> DEFINE b == rrun.blk c == rctx[b] st == IF rrun.pc = "ctsSent" THEN "WAIT_CF" ELSE "TRY_ALLOC"
           x == [c EXCEPT !.timer = TRUE] d == [x EXCEPT !.state = st]
<1>1. /\ rctx' = [rctx EXCEPT ![b] = d] /\ rrun' = NoRRun /\ RTouch(b)
      /\ rrun.pc \in {"ctsSent", "waitSent"} /\ UNCHANGED <<rslab, fcq, delivered, runb>>
  BY DEF FcQueued, AwaitCf
<1>2. b \in RecvBlock /\ b \notin rslab /\ Awaits(b)
  BY <1>1, Touched DEF Inv, ThreadSound, Awaits
<1>3. c \in RecvCtx /\ Underway(c)
  BY <1>2 DEF Inv, Types, BlockSound
<1>4. x \in RecvCtx /\ Alike(c, x)
  BY <1>3, PutUnseen DEF Unseen
<1> HIDE DEF x
<1>5. st \in Receiving /\ st \in RxState
  BY DEF Receiving, RxState
<1> HIDE DEF st
<1>6. d \in RecvCtx /\ Alike(x, d) /\ d.state = st
  BY <1>4, <1>5, PutPhase
<1> HIDE DEF d
<1>7. Underway(d)
  BY <1>3, <1>4, <1>6 DEF Alike, Underway
<1>8. StateSound(d)
  BY <1>5, <1>6, <1>7 DEF StateSound, Receiving, Received
<1>9. rrun' \in Thread /\ rrun'.pc = "idle" /\ ThreadSound' /\ rslab' \subseteq RecvBlock
  BY <1>1, ReceiveAssumption DEF NoRRun, Thread, ThreadSound, Inv, Types
<1>10. OtherTypes' /\ DeliveredInSequence'
  BY <1>1 DEF Inv, Types, OtherTypes, DeliveredInSequence
<1> HIDE DEF b
<1> QED BY <1>1, <1>2, <1>6, <1>7, <1>8, <1>9, <1>10, OneReception

\* After the callback, or the overflow frame, the context is freed.
LEMMA RecvEndKeeps ==
  ASSUME Inv, RecvEnd
  PROVE  Inv'
<1> DEFINE b == rrun.blk x == [rctx[b] EXCEPT !.state = "UNBOUND"] d == RFreed(x)
<1>1. /\ rctx' = [rctx EXCEPT ![b] = d] /\ rslab' = rslab \cup {b} /\ rrun' = NoRRun
      /\ rrun.pc # "idle" /\ UNCHANGED <<fcq, delivered, runb>>
  BY DEF RecvEnd, RFree
<1>2. b \in RecvBlock /\ rctx[b] \in RecvCtx /\ OtherTypes'
  BY <1>1 DEF Inv, Types, OtherTypes, ThreadSound
<1> HIDE DEF b
<1>3. x \in RecvCtx
  BY <1>2, PutPhase DEF RxState
<1> HIDE DEF x
<1>4. d \in RecvCtx
  BY <1>3, RFreedTyped
<1> HIDE DEF d
<1> QED BY <1>1, <1>2, <1>4, Frees

-----------------------------------------------------------------------------
(* The application thread.                                                 *)

\* isotp_fast_unbind, step by step.
LEMMA UnbindKeeps ==
  ASSUME Inv, RUnbind, ~corrupt'
  PROVE  Inv'
<1> DEFINE Pcs == {"off", "head", "next", "cancel", "check", "again", "free", "orphan", "done"}
           Blocks == RecvBlock \cup {NoBlock}
<1>1. runb \in [pc : Pcs, blk : Blocks, nxt : Blocks] /\ rctx \in [RecvBlock -> RecvCtx]
  BY DEF Inv, Types, OtherTypes
<1>2. CASE RUnbindStart \/ RUnbindCancel \/ RUnbindCheck \/ RUnbindCancelAgain
  <2>1. UNCHANGED <<rctx, rslab, rrun, fcq, delivered>>
    BY <1>2 DEF RUnbindStart, RUnbindCancel, RUnbindCheck, RUnbindCancelAgain
  <2>2. PICK q \in Pcs : /\ runb' = [runb EXCEPT !.pc = q]
                         /\ q = "head" \/ runb.pc \in {"cancel", "check", "again"}
    BY <1>2 DEF RUnbindStart, RUnbindCancel, RUnbindCheck, RUnbindCancelAgain
  <2>3. OtherTypes'
    BY <1>1, <2>1, <2>2 DEF Inv, Types, OtherTypes
  <2> QED BY <2>1, <2>3, NothingHere
<1>3. CASE RUnbindNext
  <2>1. UNCHANGED <<rslab, rrun, fcq, delivered>>
    BY <1>3 DEF RUnbindNext
  <2>2. CASE runb' = [pc |-> "done", blk |-> NoBlock, nxt |-> NoBlock] /\ UNCHANGED rctx
    <3>1. OtherTypes'
      BY <2>1, <2>2 DEF Inv, Types, OtherTypes
    <3> QED BY <2>1, <2>2, <3>1, NothingHere
  <2>3. CASE \E b \in RecvBlock, n \in Blocks :
               /\ rctx' = [rctx EXCEPT ![b] = [rctx[b] EXCEPT !.timer = FALSE]]
               /\ runb' = [pc |-> "cancel", blk |-> b, nxt |-> n]
    <3>1. PICK b \in RecvBlock, n \in Blocks :
               /\ rctx' = [rctx EXCEPT ![b] = [rctx[b] EXCEPT !.timer = FALSE]]
               /\ runb' = [pc |-> "cancel", blk |-> b, nxt |-> n]
      BY <2>3
    <3> DEFINE d == [rctx[b] EXCEPT !.timer = FALSE]
    <3>2. d \in RecvCtx /\ Alike(rctx[b], d) /\ d.state = rctx[b].state
      BY <1>1, PutUnseen DEF Unseen
    <3>3. rctx' = [rctx EXCEPT ![b] = d]
      BY <3>1
    <3> HIDE DEF d
    <3>4. OtherTypes'
      BY <2>1, <3>1 DEF Inv, Types, OtherTypes
    <3> QED BY <2>1, <3>2, <3>3, <3>4, Quietly
  <2>4. \/ runb' = [pc |-> "done", blk |-> NoBlock, nxt |-> NoBlock] /\ UNCHANGED rctx
        \/ \E b \in RecvBlock, n \in Blocks :
               /\ rctx' = [rctx EXCEPT ![b].timer = FALSE]
               /\ runb' = [pc |-> "cancel", blk |-> b, nxt |-> n]
    <3> DEFINE left == IF runb.pc = "head" THEN RListed ELSE {runb.nxt} \ {NoBlock}
    <3>1. left \subseteq RecvBlock
      BY <1>1 DEF RListed
    <3>2. RListed \subseteq RecvBlock
      BY DEF RListed
    <3>3. \/ \E b \in left : \E n \in (RListed \ {b}) \cup {NoBlock} :
               /\ rctx' = [rctx EXCEPT ![b].timer = FALSE]
               /\ runb' = [pc |-> "cancel", blk |-> b, nxt |-> n]
          \/ runb' = [pc |-> "done", blk |-> NoBlock, nxt |-> NoBlock] /\ UNCHANGED rctx
      BY <1>3 DEF RUnbindNext
    <3> HIDE DEF left
    <3> QED BY <3>1, <3>2, <3>3
  <2>5. \A b \in RecvBlock : [rctx EXCEPT ![b].timer = FALSE] = [rctx EXCEPT ![b] = [rctx[b] EXCEPT !.timer = FALSE]]
    OBVIOUS
  <2> QED BY <2>2, <2>3, <2>4, <2>5
<1>4. CASE RUnbindFree
  <2> DEFINE b == runb.blk d == RFreed(rctx[b])
  <2>1. /\ rctx' = [rctx EXCEPT ![b] = d] /\ rslab' = rslab \cup {b} /\ rrun.blk # b
        /\ runb' = [runb EXCEPT !.pc = "next", !.blk = NoBlock] /\ UNCHANGED <<rrun, fcq, delivered>>
    BY <1>4 DEF RUnbindFree, RFree, Corrupt
  <2>2. b \in RecvBlock
    BY <1>4 DEF RUnbindFree, Inv, Types, OtherTypes
  <2>3. d \in RecvCtx
    BY <1>1, <2>2, RFreedTyped
  <2> HIDE DEF d
  <2>4. OtherTypes'
    BY <1>1, <2>1 DEF Inv, Types, OtherTypes
  <2> HIDE DEF b
  <2> QED BY <2>1, <2>2, <2>3, <2>4, Frees
<1>5. CASE RUnbindOrphan
  <2> DEFINE b == runb.blk
             x == [rctx[b] EXCEPT !.state = "UNBOUND"]
             y == [x EXCEPT !.home = "orphanage"] d == [y EXCEPT !.list = "orphanage"]
  <2>1. b \in RecvBlock
    BY <1>5 DEF RUnbindOrphan, Inv, Types, OtherTypes
  <2>2. /\ runb' = [runb EXCEPT !.pc = "next", !.blk = NoBlock]
        /\ UNCHANGED <<rslab, rrun, fcq, delivered>>
    BY <1>5 DEF RUnbindOrphan
  <2>3. rctx' = [rctx EXCEPT ![b] = d]
    <3>1. rctx' = [rctx EXCEPT ![b].state = "UNBOUND", ![b].home = "orphanage", ![b].list = "orphanage"]
      BY <1>5 DEF RUnbindOrphan
    <3> HIDE DEF b
    <3> QED BY <1>1, <2>1, <3>1
  <2>4. OtherTypes'
    BY <1>1, <2>2 DEF Inv, Types, OtherTypes
  <2> HIDE DEF b
  <2>5. x \in RecvCtx /\ Alike(rctx[b], x) /\ x.state = "UNBOUND"
    BY <1>1, <2>1, PutPhase DEF RxState
  <2> HIDE DEF x
  <2>6. y \in RecvCtx /\ Alike(x, y) /\ y.state = "UNBOUND"
    BY <2>5, PutUnseen, ZenonT(60) DEF Unseen
  <2> HIDE DEF y
  <2>7. d \in RecvCtx /\ Alike(y, d) /\ d.state = "UNBOUND"
    BY <2>6, PutUnseen DEF Unseen
  <2>8. rctx' = [rctx EXCEPT ![b] = d]
    BY <2>3 DEF x, y
  <2> HIDE DEF d
  <2>9. Alike(rctx[b], d)
    BY <2>5, <2>6, <2>7 DEF Alike
  <2> QED BY <2>1, <2>2, <2>4, <2>7, <2>8, <2>9, Quietly
<1> QED BY <1>2, <1>3, <1>4, <1>5 DEF RUnbind

-----------------------------------------------------------------------------
(* The theorem.                                                            *)

\* All blocks are on the slab at first.
LEMMA InvInit == RecvStart => Inv
<1> SUFFICES ASSUME RecvStart PROVE Inv
  OBVIOUS
<1>1. PICK s \in Src :
        rctx = [b \in RecvBlock |->
                 [state |-> "UNBOUND", src |-> s, rem |-> 0, sn |-> 0, bs |-> 0,
                  wft |-> 0, error |-> "none", pending |-> 0, timer |-> FALSE,
                  total |-> 0, data |-> <<>>, bufs |-> 0,
                  home |-> "ctx", list |-> "none"]]
  BY DEF RecvStart, RecvInit
<1>2. rctx \in [RecvBlock -> RecvCtx]
  <2> DEFINE c == [state |-> "UNBOUND", src |-> s, rem |-> 0, sn |-> 0, bs |-> 0,
                   wft |-> 0, error |-> "none", pending |-> 0, timer |-> FALSE,
                   total |-> 0, data |-> <<>>, bufs |-> 0,
                   home |-> "ctx", list |-> "none"]
  <2>1. 0 \in 0..(SnMod - 1) /\ 0 \in 0..255 /\ 0 \in Nat /\ 0 \in Int /\ <<>> \in Seq(Chunk)
    BY CommonAssumption
  <2>2. c \in RecvCtx
    BY <2>1 DEF RecvCtx, RxState
  <2> HIDE DEF c
  <2>3. rctx = [b \in RecvBlock |-> c]
    BY <1>1 DEF c
  <2> QED BY <2>2, <2>3
<1>3. /\ rslab = RecvBlock /\ rrun = NoRRun /\ fcq = <<>> /\ delivered = <<>>
      /\ runb = [pc |-> "off", blk |-> NoBlock, nxt |-> NoBlock]
  BY DEF RecvStart, RecvInit
<1>4. OtherTypes
  BY <1>3 DEF OtherTypes
<1>5. rrun \in Thread /\ ThreadSound /\ DeliveredInSequence
  BY <1>3, ReceiveAssumption DEF NoRRun, Thread, ThreadSound, DeliveredInSequence
<1> QED BY <1>2, <1>3, <1>4, <1>5 DEF Inv, Types

\* Every step keeps the invariant or corrupts memory.
LEMMA InvNext ==
  ASSUME ~RecvPreempted, Inv, RecvNext, ~corrupt'
  PROVE  Inv'
<1>1. CASE RUnbind
  BY <1>1, UnbindKeeps
<1>2. CASE \E b \in RecvBlock : RecvWork(b)
  BY <1>2, WorkKeeps
<1>3. CASE FcQueued
  BY <1>3, FcQueuedKeeps
<1>4. CASE RecvEnd
  BY <1>4, RecvEndKeeps
<1>5. CASE FcDone(TRUE) \/ FcDone(FALSE)
  BY <1>5, FcDoneKeeps
<1>6. CASE \E s \in Src, f \in DataFrames : FrameArrives(s, f)
  BY <1>6, FrameIs, FrameArrivesKeeps
<1>7. CASE \E b \in RecvBlock : RecvTimeout(b)
  BY <1>7, TimeoutKeeps
<1> QED BY <1>1, <1>2, <1>3, <1>4, <1>5, <1>6, <1>7 DEF RecvNext, RecvWorkQueue, RecvDriver, Senders

\* As long as memory stays valid, and interrupts for a context wait until the work queue
\* thread has left its state machine, recv_callback is given only messages of the announced
\* length that begin with a first or single frame and continue without a gap in the sequence
\* numbers, whatever arrives, fails, times out or is unbound in between (process_cf).
THEOREM DeliveredInSequenceAlways ==
  ~RecvPreempted => (RecvSpec => [](MemorySafe => DeliveredInSequence))
<1> SUFFICES ASSUME ~RecvPreempted PROVE RecvSpec => [](MemorySafe => DeliveredInSequence)
  OBVIOUS
<1> DEFINE I == corrupt \/ Inv
<1>1. RecvStart => I
  BY InvInit
<1>2. I /\ [RecvNext]_allRecvVars => I'
  <2>1. CASE UNCHANGED allRecvVars
    <3>1. UNCHANGED <<corrupt, rctx, rslab, rrun, fcq, delivered, runb>>
      BY <2>1 DEF allRecvVars, recvVars
    <3>2. Inv => OtherTypes'
      BY <3>1 DEF Inv, Types, OtherTypes
    <3> QED BY <3>1, <3>2, NothingHere
  <2>2. CASE RecvNext
    <3>1. ~corrupt
      BY <2>2 DEF RecvNext
    <3> QED BY <2>2, <3>1, InvNext
  <2> QED BY <2>1, <2>2
<1>3. I => (MemorySafe => DeliveredInSequence)
  BY DEF MemorySafe, Inv
<1> QED BY <1>1, <1>2, <1>3, PTL DEF RecvSpec

-----------------------------------------------------------------------------
(* isotp_fast_unbind in any use, however it is interrupted, as long as     *)
(* memory stays valid: who owns a context.                                 *)

\* Where unbind can be.
UnbindPlace == [pc : {"off", "head", "next", "cancel", "check", "again", "free", "orphan", "done"},
                blk : RecvBlock \cup {NoBlock}, nxt : RecvBlock \cup {NoBlock}]

\* A context in use is on the list of its owner.
ROwned(b) ==
  LET c == rctx[b] IN
  /\ {"home", "list"} \subseteq DOMAIN c
  /\ IF b \in rslab THEN c.list = "none" ELSE c.home = c.list /\ c.home \in {"ctx", "orphanage"}

\* What is left on the list of the owner is in unbind's hand or is the context it remembers
\* as the next.
ROwnerInv ==
  /\ DOMAIN rctx = RecvBlock /\ runb \in UnbindPlace
  /\ \A b \in RecvBlock : ROwned(b)
  /\ rbound => runb.pc = "off"
  /\ runb.nxt = NoBlock /\ runb.pc \in {"cancel", "check", "again", "free", "orphan"} => RListed \subseteq {runb.blk}
  /\ runb.pc = "done" \/ (runb.nxt = NoBlock /\ runb.pc = "next") => RListed = {}

\* The context stays with its owner.
Stays(d, c) == {"home", "list"} \subseteq DOMAIN d /\ d.home = c.home /\ d.list = c.list

\* No recv_callback when no context of the owner is left.
RSilent == RListed = {} => UNCHANGED delivered

\* A handler that works on one context, wherever its pointer leads.
LEMMA StaysOwned ==
  ASSUME ROwnerInv, NEW b, NEW d, rctx' = [rctx EXCEPT ![b] = d], b \in RecvBlock => Stays(d, rctx[b]),
         UNCHANGED <<rslab, rbound, runb>>
  PROVE  ROwnerInv'
<1>1. DOMAIN rctx' = RecvBlock /\ \A c \in RecvBlock : rctx'[c] = rctx[c] \/ (c = b /\ rctx'[c] = d)
  BY DEF ROwnerInv
<1>2. \A c \in RecvBlock : ROwned(c)' /\ rctx'[c].list = rctx[c].list
  BY <1>1 DEF ROwnerInv, ROwned, Stays
<1>3. RListed' = RListed
  BY <1>2 DEF RListed
<1> QED BY <1>1, <1>2, <1>3 DEF ROwnerInv

\* free_recv_ctx.
LEMMA FreedOwned ==
  ASSUME ROwnerInv, NEW b, NEW c, b \notin rslab, b \in RecvBlock => Stays(c, rctx[b]), RFree(b, c)
  PROVE  /\ DOMAIN rctx' = RecvBlock /\ (\A x \in RecvBlock : ROwned(x)') /\ RListed' = RListed \ {b}
<1> DEFINE d == RFreed(c)
<1>1. rctx' = [rctx EXCEPT ![b] = d] /\ rslab' = rslab \cup {b}
  BY DEF RFree
<1>2. b \in RecvBlock => {"home", "list"} \subseteq DOMAIN d /\ d.list = "none"
  BY DEF RFreed, Stays, ROwnerInv, ROwned
<1> HIDE DEF d
<1>3. DOMAIN rctx' = RecvBlock /\ \A x \in RecvBlock : rctx'[x] = IF x = b THEN d ELSE rctx[x]
  BY <1>1 DEF ROwnerInv
<1>4. \A x \in RecvBlock : ROwned(x)' /\ (rctx'[x].list = "ctx" <=> x # b /\ rctx[x].list = "ctx")
  BY <1>1, <1>2, <1>3 DEF ROwnerInv, ROwned
<1>5. RListed' = RListed \ {b}
  BY <1>4 DEF RListed
<1> QED BY <1>3, <1>4, <1>5

\* The context is freed outside of unbind.
LEMMA EndsOwned ==
  ASSUME ROwnerInv, NEW b, NEW c, b \notin rslab, b \in RecvBlock => Stays(c, rctx[b]), RFree(b, c),
         UNCHANGED <<rbound, runb>>
  PROVE  ROwnerInv'
<1>1. /\ DOMAIN rctx' = RecvBlock /\ (\A x \in RecvBlock : ROwned(x)') /\ RListed' = RListed \ {b}
  BY FreedOwned
<1> QED BY <1>1 DEF ROwnerInv

\* Nothing happens to the contexts.
LEMMA SameOwned == ROwnerInv /\ UNCHANGED <<rctx, rslab, rbound, runb>> => ROwnerInv'
BY DEF ROwnerInv, ROwned, RListed

\* process_ff_sf and process_cf.
LEMMA ProcessStays ==
  ASSUME NEW c, {"home", "list"} \subseteq DOMAIN c, NEW f
  PROVE  Stays(ProcessFfSf(c, f), c) /\ Stays(ProcessCf(c, f), c)
<1>0. Stays(c, c)
  BY DEF Stays
<1>1. Stays(ProcessFfSf(c, f), c)
  BY <1>0 DEF ProcessFfSf, Stays
<1>2. CASE f.kind # "CF"
  <2>1. ProcessCf(c, f) = [c EXCEPT !.state = "ERR", !.error = "other"]
    BY <1>2 DEF ProcessCf
  <2>2. Stays(ProcessCf(c, f), c)
    BY <1>0, <2>1 DEF Stays
  <2> QED BY <1>1, <2>2
<1>3. CASE f.kind = "CF"
  <2> DEFINE nx == [c EXCEPT !.timer = TRUE, !.sn = (@ + 1) % SnMod]
             er == [nx EXCEPT !.state = "ERR", !.error = "other"]
             got == [nx EXCEPT !.rem = IF @ > 0 THEN @ - 1 ELSE 0, !.data = Append(@, <<f.msg, f.idx>>)]
             g1 == [got EXCEPT !.state = "RECYCLE"]
             g2 == [got EXCEPT !.bs = RBs, !.state = "TRY_ALLOC"]
             g3 == [got EXCEPT !.bs = Byte(@ - 1)]
  <2>1. Stays(nx, c)
    BY <1>0 DEF Stays
  <2>2. Stays(er, c) /\ Stays(got, c)
    <3> HIDE DEF nx
    <3> QED BY <2>1 DEF Stays
  <2>3. Stays(g1, c) /\ Stays(g2, c) /\ Stays(g3, c)
    <3> HIDE DEF nx, got
    <3> QED BY <2>2 DEF Stays
  <2>4. ~Complete(got) => RBs = 0 \/ RBs > 0
    BY ReceiveAssumption DEF ReceiveAssumption
  <2>5. ProcessCf(c, f) \in {er, g1, got, g2, g3}
    BY <1>3, <2>4 DEF ProcessCf
  <2> HIDE DEF er, g1, got, g2, g3
  <2> QED BY <1>1, <2>2, <2>3, <2>5
<1> QED BY <1>1, <1>2, <1>3

\* can_rx_callback, until unbind begins.
LEMMA ArrivesOwned ==
  ASSUME ROwnerInv, NEW s, NEW f, FrameArrives(s, f), ~corrupt'
  PROVE  ROwnerInv' /\ RSilent
<1>1. rbound /\ UNCHANGED <<delivered, rbound, runb>>
  BY DEF FrameArrives
<1>2. ASSUME NEW b \in RFound(s), RxExisting(b, f), RTouch(b) PROVE ROwnerInv'
  <2>1. b \in RecvBlock /\ b \notin rslab /\ {"home", "list"} \subseteq DOMAIN rctx[b]
    BY <1>2, Touched DEF RFound, ROwnerInv, ROwned
  <2>2. CASE RFree(b, rctx[b])
    <3>1. Stays(rctx[b], rctx[b])
      BY <2>1 DEF Stays
    <3> QED BY <1>1, <2>1, <2>2, <3>1, EndsOwned
  <2> DEFINE c == [rctx[b] EXCEPT !.bufs = @ + 1]
             after == IF c.state = "WAIT_CF" THEN ProcessCf(c, f)
                      ELSE IF c.state = "WAIT_FF_SF" THEN ProcessFfSf(c, f) ELSE c
  <2>3. CASE rctx' = [rctx EXCEPT ![b] = after] /\ UNCHANGED rslab
    <3>1. Stays(c, rctx[b]) /\ {"home", "list"} \subseteq DOMAIN c
      BY <2>1 DEF Stays
    <3> HIDE DEF c
    <3>2. Stays(after, c)
      BY <3>1, ProcessStays DEF Stays
    <3> HIDE DEF after
    <3>3. Stays(after, rctx[b])
      BY <3>1, <3>2 DEF Stays
    <3> QED BY <1>1, <2>3, <3>3, StaysOwned
  <2> QED BY <1>2, <2>2, <2>3 DEF RxExisting
<1>3. ASSUME RxNew(s, f) PROVE ROwnerInv'
  <2>1. PICK b \in rslab : /\ rctx' = [rctx EXCEPT ![b] = ProcessFfSf(NewRecvCtx(b, s), f)]
                           /\ rslab' = rslab \ {b}
    BY <1>3 DEF RxNew
  <2> DEFINE c == NewRecvCtx(b, s) d == ProcessFfSf(c, f)
  <2>2. b \in RecvBlock => {"home", "list"} \subseteq DOMAIN c /\ c.home = "ctx" /\ c.list = "ctx"
    BY DEF ROwnerInv, ROwned, NewRecvCtx
  <2> HIDE DEF c
  <2>3. b \in RecvBlock => {"home", "list"} \subseteq DOMAIN d /\ d.home = "ctx" /\ d.list = "ctx"
    BY <2>2, ProcessStays DEF Stays
  <2>4. rctx' = [rctx EXCEPT ![b] = d]
    BY <2>1 DEF c
  <2> HIDE DEF d
  <2>5. DOMAIN rctx' = RecvBlock /\ \A x \in RecvBlock : rctx'[x] = IF x = b THEN d ELSE rctx[x]
    BY <2>4 DEF ROwnerInv
  <2>6. \A x \in RecvBlock : ROwned(x)'
    BY <2>1, <2>3, <2>5 DEF ROwnerInv, ROwned
  <2> QED BY <1>1, <2>5, <2>6 DEF ROwnerInv
<1>4. ASSUME RxIgnored PROVE ROwnerInv'
  BY <1>1, <1>4, SameOwned DEF RxIgnored
<1>5. ROwnerInv'
  BY <1>2, <1>3, <1>4 DEF FrameArrives
<1> QED BY <1>1, <1>5 DEF RSilent

\* receive_can_tx and receive_timeout_handler.
LEMMA InterruptOwned ==
  ASSUME ROwnerInv, ~corrupt', RecvDriver \/ \E b \in RecvBlock : RecvTimeout(b)
  PROVE  ROwnerInv' /\ RSilent
<1>1. ASSUME NEW ok \in BOOLEAN, FcDone(ok) PROVE ROwnerInv' /\ RSilent
  <2> SUFFICES ASSUME NEW b, b = Head(fcq).blk PROVE ROwnerInv' /\ RSilent
    OBVIOUS
  <2> DEFINE d == FcAnswered(rctx[b], ok)
  <2>1. rctx' = [rctx EXCEPT ![b] = d] /\ UNCHANGED <<rslab, delivered, rbound, runb>>
    BY <1>1 DEF FcDone
  <2>2. b \in RecvBlock => Stays(d, rctx[b])
    BY DEF FcAnswered, Stays, ROwnerInv, ROwned
  <2> HIDE DEF d
  <2> QED BY <2>1, <2>2, StaysOwned DEF RSilent
<1>2. ASSUME NEW b \in RecvBlock, RecvTimeout(b) PROVE ROwnerInv' /\ RSilent
  <2> DEFINE c == rctx[b]
             e == CASE c.state = "WAIT_CF"   -> [c EXCEPT !.state = "ERR", !.error = "other"]
                    [] c.state = "TRY_ALLOC" -> [c EXCEPT !.state = "SEND_WAIT"]
                    [] OTHER                 -> c
             d == [e EXCEPT !.timer = FALSE]
  <2>1. rctx' = [rctx EXCEPT ![b] = d] /\ UNCHANGED <<rslab, delivered, rbound, runb>>
    BY <1>2 DEF RecvTimeout
  <2>2. Stays(e, rctx[b])
    <3>1. {"home", "list"} \subseteq DOMAIN rctx[b]
      BY DEF ROwnerInv, ROwned
    <3> QED BY <3>1 DEF Stays
  <2> HIDE DEF e
  <2>3. Stays(d, rctx[b])
    BY <2>2 DEF Stays
  <2> HIDE DEF d
  <2> QED BY <2>1, <2>3, StaysOwned DEF RSilent
<1> QED BY <1>1, <1>2 DEF RecvDriver

\* receive_send_fc: when can_send fails, memory is corrupted.
LEMMA SendFcOwned ==
  ASSUME ROwnerInv, NEW b, NEW c, NEW fs, NEW pc, SendFc(b, c, fs, pc), ~corrupt',
         b \in RecvBlock => Stays(c, rctx[b]), UNCHANGED <<rbound, runb>>
  PROVE  ROwnerInv'
<1> DEFINE d == [c EXCEPT !.pending = @ + 1]
<1>1. rctx' = [rctx EXCEPT ![b] = d] /\ UNCHANGED rslab
  BY DEF SendFc, Corrupt
<1>2. b \in RecvBlock => Stays(d, rctx[b])
  BY DEF Stays
<1> HIDE DEF d
<1> QED BY <1>1, <1>2, StaysOwned

\* The error path of the state machine.
LEMMA ErrorOwned ==
  ASSUME ROwnerInv, NEW b \in RecvBlock, NEW c, RecvError(b, c), ~corrupt',
         Stays(c, rctx[b]), UNCHANGED <<rbound, runb>>
  PROVE  ROwnerInv'
<1>1. CASE c.error = "overflow"
  <2> DEFINE d == [c EXCEPT !.timer = FALSE]
  <2>1. SendFc(b, d, "OVFLW", "overflowSent") /\ Stays(d, rctx[b])
    BY <1>1 DEF RecvError, Stays
  <2> HIDE DEF d
  <2> QED BY <2>1, SendFcOwned
<1>2. CASE c.error # "overflow"
  <2> DEFINE d == [c EXCEPT !.state = "UNBOUND"]
  <2>1. RFree(b, d) /\ RTouch(b) /\ Stays(d, rctx[b])
    BY <1>2 DEF RecvError, Stays
  <2> HIDE DEF d
  <2> QED BY <2>1, Touched, EndsOwned
<1> QED BY <1>1, <1>2

\* receive_work_handler: recv_callback is called for the owner's contexts only.
LEMMA WorkOwned ==
  ASSUME ROwnerInv, NEW b \in RecvBlock, RecvWork(b), ~corrupt'
  PROVE  ROwnerInv' /\ RSilent
<1> DEFINE c == rctx[b] waits == Byte(c.wft + 1)
<1>1. {"home", "list"} \subseteq DOMAIN c /\ Stays(c, c) /\ UNCHANGED <<rbound, runb>>
  BY DEF ROwnerInv, ROwned, Stays, RecvWork
<1>2. CASE Dispatch(b)
  <2>1. b \notin rslab /\ UNCHANGED rslab
    BY <1>2, Touched DEF Dispatch
  <2> DEFINE d == [[c EXCEPT !.state = "RECYCLE"] EXCEPT !.rem = 0]
  <2>2. rctx' = [rctx EXCEPT ![b] = d]
    BY <1>2 DEF Dispatch, ROwnerInv
  <2>3. Stays(d, rctx[b])
    BY <1>1 DEF Stays
  <2> HIDE DEF d
  <2>4. ROwnerInv'
    BY <1>1, <2>1, <2>2, <2>3, StaysOwned
  <2>5. c.home = "ctx" => b \in RListed
    BY <2>1 DEF ROwnerInv, ROwned, RListed
  <2> QED BY <1>2, <2>4, <2>5 DEF RSilent, Dispatch
<1>3. ASSUME NEW x, SendCts(b, x), Stays(x, rctx[b]) PROVE ROwnerInv'
  <2> DEFINE d == [x EXCEPT !.timer = FALSE, !.state = "SEND_FC"]
  <2>1. SendFc(b, d, "CTS", "ctsSent") /\ Stays(d, rctx[b])
    BY <1>3 DEF SendCts, Stays
  <2> HIDE DEF d
  <2> QED BY <1>1, <2>1, SendFcOwned
<1>4. CASE UNCHANGED delivered
  <2> DEFINE c1 == [c EXCEPT !.bs = IF RBs > 0 THEN RBs ELSE @, !.wft = 255]
             c2 == [c EXCEPT !.state = "ERR", !.error = "overflow"]
             c3 == [c EXCEPT !.wft = waits]
             c4 == [c EXCEPT !.wft = waits, !.state = "ERR", !.error = "overflow"]
  <2>1. Stays(c1, rctx[b]) /\ Stays(c2, rctx[b]) /\ Stays(c3, rctx[b]) /\ Stays(c4, rctx[b])
    BY <1>1 DEF Stays
  <2>2. \/ Dispatch(b) \/ SendCts(b, c1) \/ RecvError(b, c2) \/ SendCts(b, c)
        \/ SendFc(b, c3, "WAIT", "waitSent") \/ RecvError(b, c4) \/ RecvError(b, c)
        \/ UNCHANGED <<rctx, rslab>>
    BY DEF RecvWork
  <2> HIDE DEF c1, c2, c3, c4
  <2>3. ROwnerInv'
    <3>1. CASE SendCts(b, c1) \/ SendCts(b, c)
      BY <1>1, <1>3, <2>1, <3>1
    <3>2. CASE RecvError(b, c2) \/ RecvError(b, c4) \/ RecvError(b, c)
      BY <1>1, <2>1, <3>2, ErrorOwned
    <3>3. CASE SendFc(b, c3, "WAIT", "waitSent")
      BY <1>1, <2>1, <3>3, SendFcOwned
    <3>4. CASE UNCHANGED <<rctx, rslab>>
      BY <1>1, <3>4, SameOwned
    <3> QED BY <1>2, <2>2, <3>1, <3>2, <3>3, <3>4
  <2> QED BY <1>4, <2>3 DEF RSilent
<1> QED BY <1>2, <1>4 DEF RecvWork

\* The rest of receive_state_machine.
LEMMA ThreadOwned ==
  ASSUME ROwnerInv, FcQueued \/ RecvEnd, ~corrupt'
  PROVE  ROwnerInv' /\ RSilent
<1> SUFFICES ASSUME NEW b, b = rrun.blk PROVE ROwnerInv' /\ RSilent
  OBVIOUS
<1>1. b \in RecvBlock => {"home", "list"} \subseteq DOMAIN rctx[b]
  BY DEF ROwnerInv, ROwned
<1>2. CASE FcQueued
  <2> DEFINE d == AwaitCf(rctx[b], rrun.pc)
  <2>1. rctx' = [rctx EXCEPT ![b] = d] /\ UNCHANGED <<rslab, delivered, rbound, runb>>
    BY <1>2 DEF FcQueued
  <2>2. b \in RecvBlock => Stays(d, rctx[b])
    BY <1>1 DEF AwaitCf, Stays
  <2> HIDE DEF d
  <2> QED BY <2>1, <2>2, StaysOwned DEF RSilent
<1>3. CASE RecvEnd
  <2> DEFINE d == [rctx[b] EXCEPT !.state = "UNBOUND"]
  <2>1. RFree(b, d) /\ RTouch(b) /\ UNCHANGED <<delivered, rbound, runb>>
    BY <1>3 DEF RecvEnd
  <2>2. b \in RecvBlock => Stays(d, rctx[b])
    BY <1>1 DEF Stays
  <2> HIDE DEF d
  <2> QED BY <2>1, <2>2, Touched, EndsOwned DEF RSilent
<1> QED BY <1>2, <1>3

\* isotp_fast_unbind itself.
LEMMA UnbindOwned ==
  ASSUME ROwnerInv, RUnbind, ~corrupt'
  PROVE  ROwnerInv' /\ UNCHANGED delivered
<1>0. UNCHANGED delivered
  BY DEF RUnbind, RUnbindStart, RUnbindNext, RUnbindCancel, RUnbindCheck, RUnbindCancelAgain, RUnbindFree, RUnbindOrphan
<1>1. CASE RUnbindStart
  <2>1. runb.pc = "off" /\ rbound' = FALSE /\ UNCHANGED <<rctx, rslab>> /\ runb' = [runb EXCEPT !.pc = "head"]
    BY <1>1 DEF RUnbindStart, ROwnerInv
  <2>2. runb'.pc = "head" /\ runb' \in UnbindPlace
    BY <2>1 DEF ROwnerInv, UnbindPlace
  <2>3. \A c \in RecvBlock : ROwned(c)'
    BY <2>1 DEF ROwnerInv, ROwned
  <2> QED BY <1>0, <2>1, <2>2, <2>3 DEF ROwnerInv
<1>2. CASE RUnbindNext
  <2>1. ~rbound /\ UNCHANGED <<rslab, rbound>>
    BY <1>2 DEF RUnbindNext, ROwnerInv
  <2>2. ASSUME NEW b \in RecvBlock, NEW n \in (RListed \ {b}) \cup {NoBlock},
               n = NoBlock <=> RListed \subseteq {b},
               rctx' = [rctx EXCEPT ![b].timer = FALSE],
               runb' = [pc |-> "cancel", blk |-> b, nxt |-> n]
        PROVE  ROwnerInv'
    <3> DEFINE d == [rctx[b] EXCEPT !.timer = FALSE]
    <3>1. DOMAIN rctx' = RecvBlock /\ rctx'[b] = d /\ \A c \in RecvBlock \ {b} : rctx'[c] = rctx[c]
      BY <2>2 DEF ROwnerInv
    <3>2. Stays(d, rctx[b])
      BY DEF ROwnerInv, ROwned, Stays
    <3> HIDE DEF d
    <3>3. (\A c \in RecvBlock : ROwned(c)') /\ RListed' = RListed
      BY <2>1, <3>1, <3>2 DEF ROwnerInv, ROwned, Stays, RListed
    <3>4. runb' \in UnbindPlace
      BY <2>2 DEF UnbindPlace, RListed
    <3> QED BY <2>1, <2>2, <3>1, <3>3, <3>4 DEF ROwnerInv
  <2>3. ASSUME (IF runb.pc = "head" THEN RListed ELSE {runb.nxt} \ {NoBlock}) = {},
               runb' = [pc |-> "done", blk |-> NoBlock, nxt |-> NoBlock], UNCHANGED rctx
        PROVE  ROwnerInv'
    <3>1. RListed = {}
      BY <1>2, <2>3 DEF RUnbindNext, ROwnerInv
    <3>2. (\A c \in RecvBlock : ROwned(c)') /\ RListed' = RListed
      BY <2>1, <2>3 DEF ROwnerInv, ROwned, RListed
    <3>3. runb' \in UnbindPlace
      BY <2>3 DEF UnbindPlace
    <3> QED BY <2>1, <2>3, <3>1, <3>2, <3>3 DEF ROwnerInv
  <2>4. RListed \subseteq RecvBlock /\ {runb.nxt} \ {NoBlock} \subseteq RecvBlock
    BY DEF RListed, ROwnerInv, UnbindPlace
  <2> QED BY <1>0, <1>2, <2>2, <2>3, <2>4 DEF RUnbindNext
<1>3. CASE RUnbindCancel \/ RUnbindCheck \/ RUnbindCancelAgain
  <2>1. /\ UNCHANGED <<rctx, rslab, rbound>> /\ runb'.blk = runb.blk /\ runb'.nxt = runb.nxt
        /\ runb'.pc \in {"check", "again", "free", "orphan"} /\ runb.pc \in {"cancel", "check", "again"}
        /\ runb' \in UnbindPlace
    BY <1>3 DEF RUnbindCancel, RUnbindCheck, RUnbindCancelAgain, ROwnerInv, UnbindPlace
  <2>2. (\A c \in RecvBlock : ROwned(c)') /\ RListed' = RListed
    BY <2>1 DEF ROwnerInv, ROwned, RListed
  <2> QED BY <1>0, <2>1, <2>2 DEF ROwnerInv
<1>4. ASSUME DOMAIN rctx' = RecvBlock, \A c \in RecvBlock : ROwned(c)', RListed' = RListed \ {runb.blk},
             runb.pc \in {"free", "orphan"}, runb' = [runb EXCEPT !.pc = "next", !.blk = NoBlock],
             UNCHANGED rbound
      PROVE  ROwnerInv'
  <2>1. runb'.pc = "next" /\ runb'.nxt = runb.nxt /\ runb' \in UnbindPlace
    BY <1>4 DEF ROwnerInv, UnbindPlace
  <2> QED BY <1>4, <2>1 DEF ROwnerInv
<1>5. CASE RUnbindFree
  <2> SUFFICES ASSUME NEW b, b = runb.blk PROVE ROwnerInv'
    BY <1>0
  <2>1. /\ RFree(b, rctx[b]) /\ RTouch(b) /\ UNCHANGED rbound /\ runb.pc \in {"free", "orphan"}
        /\ runb' = [runb EXCEPT !.pc = "next", !.blk = NoBlock]
    BY <1>5 DEF RUnbindFree, Corrupt
  <2>2. b \in RecvBlock => Stays(rctx[b], rctx[b])
    BY DEF Stays, ROwnerInv, ROwned
  <2>3. /\ DOMAIN rctx' = RecvBlock /\ (\A x \in RecvBlock : ROwned(x)') /\ RListed' = RListed \ {b}
    BY <2>1, <2>2, Touched, FreedOwned
  <2> QED BY <1>4, <2>1, <2>3
<1>6. CASE RUnbindOrphan
  <2> SUFFICES ASSUME NEW b, b = runb.blk PROVE ROwnerInv'
    BY <1>0
  <2>1. /\ rctx' = [rctx EXCEPT ![b].state = "UNBOUND", ![b].home = "orphanage", ![b].list = "orphanage"]
        /\ RTouch(b) /\ UNCHANGED <<rslab, rbound>> /\ runb.pc \in {"free", "orphan"}
        /\ runb' = [runb EXCEPT !.pc = "next", !.blk = NoBlock]
    BY <1>6 DEF RUnbindOrphan
  <2>2. b \notin rslab
    BY <2>1, Touched
  <2> DEFINE d == [[[rctx[b] EXCEPT !.state = "UNBOUND"] EXCEPT !.home = "orphanage"] EXCEPT !.list = "orphanage"]
  <2>3. DOMAIN rctx' = RecvBlock /\ \A x \in RecvBlock : rctx'[x] = IF x = b THEN d ELSE rctx[x]
    BY <2>1 DEF ROwnerInv
  <2>4. b \in RecvBlock => {"home", "list"} \subseteq DOMAIN d /\ d.home = "orphanage" /\ d.list = "orphanage"
    BY DEF ROwnerInv, ROwned
  <2> HIDE DEF d
  <2>5. \A x \in RecvBlock : ROwned(x)' /\ (rctx'[x].list = "ctx" <=> x # b /\ rctx[x].list = "ctx")
    BY <2>1, <2>2, <2>3, <2>4 DEF ROwnerInv, ROwned
  <2>6. RListed' = RListed \ {b}
    BY <2>5 DEF RListed
  <2> QED BY <1>4, <2>1, <2>3, <2>5, <2>6
<1> QED BY <1>0, <1>1, <1>2, <1>3, <1>5, <1>6 DEF RUnbind

\* Once isotp_fast_unbind has returned, recv_callback is not called any more: with any
\* senders and faults, late timers, a work queue and an unbind interrupted anywhere, as long
\* as memory stays valid.
THEOREM RSilentOnceUnbound == RecvSpec => RSilentAfterUnbind
<1>1. RecvStart => (MemorySafe => ROwnerInv)
  BY DEF RecvStart, RecvInit, ROwnerInv, ROwned, RListed, UnbindPlace
<1>2. (MemorySafe => ROwnerInv) /\ [RecvNext]_allRecvVars =>
        /\ MemorySafe' => ROwnerInv'
        /\ [runb.pc = "done" /\ MemorySafe' => UNCHANGED delivered]_allRecvVars
  <2> SUFFICES ASSUME MemorySafe => ROwnerInv, ~corrupt', [RecvNext]_allRecvVars
               PROVE  ROwnerInv' /\ [runb.pc = "done" => UNCHANGED delivered]_allRecvVars
    BY DEF MemorySafe
  <2>6. ROwnerInv
    BY DEF MemorySafe, RecvNext, allRecvVars
  <2>0. runb.pc = "done" => RListed = {}
    BY <2>6 DEF ROwnerInv
  <2>1. CASE RUnbind
    BY <2>1, <2>6, UnbindOwned
  <2>2. CASE RecvWorkQueue
    BY <2>0, <2>2, <2>6, WorkOwned, ThreadOwned DEF RecvWorkQueue, RSilent
  <2>3. CASE RecvDriver \/ \E b \in RecvBlock : RecvTimeout(b)
    BY <2>0, <2>3, <2>6, InterruptOwned DEF RSilent
  <2>4. CASE Senders
    BY <2>0, <2>4, <2>6, ArrivesOwned DEF Senders, RSilent
  <2>5. CASE UNCHANGED allRecvVars
    <3>1. UNCHANGED <<rctx, rslab, delivered, rbound, runb>>
      BY <2>5 DEF allRecvVars, recvVars
    <3> QED BY <2>6, <3>1, SameOwned
  <2> QED BY <2>1, <2>2, <2>3, <2>4, <2>5 DEF RecvNext
<1> QED BY <1>1, <1>2, PTL DEF RecvSpec, RSilentAfterUnbind

-----------------------------------------------------------------------------
(* A receiver whose senders wait for flow control, with block sizes, with  *)
(* timers that are long, and without an unbind: what points to a context.  *)

\* The environment: flow control is asked for block by block, can be queued, and is waited
\* for; no timer expires while its context still has work or frames.
Polite == RBs > 0 /\ ~LateTimers /\ ~EagerSender /\ ~RMayUnbind /\ "sendFails" \notin FaultKinds

\* Flow control of block b among the frames q, and at most one of each block.
HasFc(q, b) == \E i \in DOMAIN q : q[i].blk = b
OneEach(q) == \A i, j \in DOMAIN q : q[i].blk = q[j].blk => i = j
Asked(b) == HasFc(fcq, b)

\* What the control of a context consists of.
HasControl(c) ==
  {"state", "src", "error", "pending", "timer", "home", "list"} \subseteq DOMAIN c /\ c.src \in Src

\* Nothing points to a free context.
Idle(b) ==
  /\ HasControl(rctx[b]) /\ rctx[b].list = "none" /\ rctx[b].pending = 0 /\ rctx[b].timer = FALSE
  /\ ~Asked(b) /\ b \notin rwork /\ rrun.blk # b

\* A context in use, and what will go on with it in each of its states: its work item, its
\* timer, or the thread.
Lives(b) ==
  LET c == rctx[b] IN
  \/ /\ c.state \in {"PROCESS_SF", "PROCESS_FF", "TRY_ALLOC", "RECYCLE", "ERR"}
     /\ b \in rwork /\ ~Asked(b) /\ rrun.blk # b
  \/ /\ c.state = "WAIT_CF" /\ c.timer = TRUE /\ rrun.blk # b
     /\ b \in rwork => RecvPreempted /\ ~Asked(b)
  \/ /\ c.state = "SEND_FC" /\ b \notin rwork /\ rrun = RRunning("ctsSent", b)
  \/ /\ c.state = "ERR" /\ b \in rwork /\ ~Asked(b) /\ rrun = RRunning("ctsSent", b) /\ RecvPreempted
  \/ /\ c.state = "RECYCLE" /\ b \notin rwork /\ ~Asked(b) /\ rrun = RRunning("dispatch", b)
Owned(b) ==
  LET c == rctx[b] IN
  /\ HasControl(c) /\ c.list = "ctx" /\ c.home = "ctx" /\ c.error # "overflow"
  /\ c.pending = IF Asked(b) THEN 1 ELSE 0
InUse(b) == Owned(b) /\ Lives(b)

ContextSound(b) == IF b \in rslab THEN Idle(b) ELSE InUse(b)
ThreadPlace == rrun = NoRRun \/ \E b \in RecvBlock : \E pc \in {"ctsSent", "dispatch"} : rrun = RRunning(pc, b)

ContextsInv ==
  /\ DOMAIN rctx = RecvBlock /\ rslab \subseteq RecvBlock /\ rwork \subseteq RecvBlock
  /\ ThreadPlace
  /\ fcq \in Seq(FcFrame) /\ OneEach(fcq)
  /\ \A b \in RecvBlock : ContextSound(b)
  /\ runb.pc = "off" /\ runb.blk = NoBlock
  /\ ~corrupt

\* The frame at the head of the driver's queue is finished.
LEMMA HeadFc ==
  ASSUME NEW q \in Seq(FcFrame), q # <<>>, OneEach(q)
  PROVE  /\ Head(q).blk \in RecvBlock /\ HasFc(q, Head(q).blk)
         /\ Tail(q) \in Seq(FcFrame) /\ OneEach(Tail(q))
         /\ \A b : HasFc(Tail(q), b) <=> (b # Head(q).blk /\ HasFc(q, b))
<1>1. PICK h, t, n : h = Head(q) /\ t = Tail(q) /\ n = Len(q)
  OBVIOUS
<1>2. n \in Nat \ {0} /\ DOMAIN q = 1..n /\ h = q[1] /\ h \in FcFrame
  BY <1>1
<1>3. t \in Seq(FcFrame) /\ DOMAIN t = 1..n - 1
  BY <1>1
<1>4. \A i \in 1..n - 1 : t[i] = q[i + 1]
  BY <1>1
<1>5. 1 \in DOMAIN q /\ \A i \in 1..n - 1 : i + 1 \in DOMAIN q /\ i + 1 # 1
  BY ONLY <1>2
<1>6. h.blk \in RecvBlock
  BY ONLY <1>2 DEF FcFrame
<1>7. HasFc(q, h.blk)
  BY ONLY <1>2, <1>5 DEF HasFc
<1>8. ASSUME NEW i \in DOMAIN t, NEW j \in DOMAIN t, t[i].blk = t[j].blk PROVE i = j
  <2>1. i \in 1..n - 1 /\ j \in 1..n - 1 /\ n \in Nat
    BY <1>2, <1>3
  <2>2. t[i] = q[i + 1] /\ t[j] = q[j + 1] /\ i + 1 \in DOMAIN q /\ j + 1 \in DOMAIN q
    BY <1>4, <1>5, <2>1
  <2>3. i + 1 = j + 1
    BY <1>8, <2>2 DEF OneEach
  <2> QED BY ONLY <2>1, <2>3
<1>9. ASSUME NEW b PROVE HasFc(t, b) <=> (b # h.blk /\ HasFc(q, b))
  <2>1. ASSUME NEW i \in DOMAIN t, t[i].blk = b PROVE b # h.blk /\ HasFc(q, b)
    <3>1. t[i] = q[i + 1] /\ i + 1 \in DOMAIN q /\ i + 1 # 1 /\ 1 \in DOMAIN q
      BY <1>3, <1>4, <1>5, <2>1
    <3>2. q[i + 1].blk # q[1].blk
      BY <3>1 DEF OneEach
    <3> QED BY <1>2, <2>1, <3>1, <3>2 DEF HasFc
  <2>2. ASSUME NEW i \in DOMAIN q, q[i].blk = b, b # h.blk PROVE HasFc(t, b)
    <3>1. i # 1
      BY <1>2, <2>2
    <3>2. i - 1 \in 1..n - 1 /\ (i - 1) + 1 = i
      BY <1>2, <3>1
    <3>3. t[i - 1] = q[i]
      BY <1>4, <3>2
    <3> QED BY <1>3, <2>2, <3>2, <3>3 DEF HasFc
  <2> QED BY <2>1, <2>2 DEF HasFc
<1>10. OneEach(t)
  BY ONLY <1>8 DEF OneEach
<1> QED BY <1>1, <1>3, <1>6, <1>7, <1>9, <1>10

\* Flow control is queued for a block of which none is under way.
LEMMA AddFc ==
  ASSUME NEW q \in Seq(FcFrame), OneEach(q), NEW x \in FcFrame, ~HasFc(q, x.blk)
  PROVE  /\ Append(q, x) \in Seq(FcFrame) /\ OneEach(Append(q, x))
         /\ \A b : HasFc(Append(q, x), b) <=> (b = x.blk \/ HasFc(q, b))
<1>1. PICK t, n : t = Append(q, x) /\ n = Len(q)
  OBVIOUS
<1>2. n \in Nat /\ DOMAIN q = 1..n
  BY <1>1
<1>3. t \in Seq(FcFrame) /\ DOMAIN t = 1..n + 1 /\ t[n + 1] = x
  BY <1>1
<1>4. \A i \in 1..n : t[i] = q[i]
  BY <1>1
<1>5. n + 1 \in DOMAIN t /\ (\A i \in DOMAIN q : i \in DOMAIN t /\ t[i] = q[i])
  BY <1>2, <1>3, <1>4
<1>6. \A i \in DOMAIN t : i = n + 1 \/ (i \in DOMAIN q /\ t[i] = q[i])
  BY <1>2, <1>3, <1>4
<1>7. \A i \in DOMAIN q : q[i].blk # x.blk
  BY DEF HasFc
<1>8. OneEach(t)
  BY ONLY <1>3, <1>6, <1>7, OneEach(q) DEF OneEach
<1>9. \A b : HasFc(t, b) <=> (b = x.blk \/ HasFc(q, b))
  BY ONLY <1>3, <1>5, <1>6 DEF HasFc
<1> QED BY <1>1, <1>3, <1>8, <1>9

\* One context changes; whatever concerns the others stays.
LEMMA OneContextSound ==
  ASSUME ContextsInv, NEW b \in RecvBlock, NEW d, rctx' = rctx \/ rctx' = [rctx EXCEPT ![b] = d],
         rslab' \subseteq RecvBlock, rwork' \subseteq RecvBlock, fcq' \in Seq(FcFrame), OneEach(fcq'),
         \A u \in RecvBlock \ {b} : /\ (u \in rslab' <=> u \in rslab)
                                   /\ (u \in rwork' <=> u \in rwork)
                                   /\ (HasFc(fcq', u) <=> HasFc(fcq, u)),
         ThreadPlace', rrun' = rrun \/ {rrun.blk, rrun'.blk} \subseteq {b, NoBlock},
         UNCHANGED runb, ~corrupt', ContextSound(b)'
  PROVE  ContextsInv'
<1>1. DOMAIN rctx' = RecvBlock /\ \A u \in RecvBlock \ {b} : rctx'[u] = rctx[u]
  BY DEF ContextsInv
<1>2. ASSUME NEW u \in RecvBlock, u # b PROVE ContextSound(u)'
  <2>1. (u \in rslab' <=> u \in rslab) /\ (u \in rwork' <=> u \in rwork) /\ (Asked(u)' <=> Asked(u))
    BY <1>2 DEF Asked
  <2>2. rctx'[u] = rctx[u] /\ ContextSound(u)
    BY <1>1, <1>2 DEF ContextsInv
  <2>3. (rrun'.blk = u <=> rrun.blk = u) /\ (rrun.blk = u => rrun' = rrun)
    <3>1. u \notin {b, NoBlock}
      BY <1>2, ReceiveAssumption
    <3> QED BY <3>1
  <2>4. ~(rrun.blk = u) => \A pc : rrun # RRunning(pc, u)
    BY DEF RRunning
  <2>5. (Idle(u) => Idle(u)') /\ (Owned(u) => Owned(u)')
    BY ONLY <2>1, <2>2, <2>3 DEF Idle, Owned
  <2>6. Lives(u) => Lives(u)'
    BY ONLY <2>1, <2>2, <2>3, <2>4 DEF Lives
  <2> QED BY ONLY <2>1, <2>2, <2>5, <2>6 DEF ContextSound, InUse
<1> QED BY <1>1, <1>2 DEF ContextsInv

\* A context value d that is owned as c is.
SameControl(d, c) ==
  /\ HasControl(d) /\ d.pending = c.pending /\ d.home = c.home /\ d.list = c.list
  /\ d.error \in {c.error, "other"}

\* A step that leaves block b in use leaves it owned.
LEMMA OwnedStays ==
  ASSUME NEW b \in RecvBlock, DOMAIN rctx = RecvBlock, Owned(b), NEW d, SameControl(d, rctx[b]),
         rctx' = [rctx EXCEPT ![b] = d], Asked(b)' <=> Asked(b)
  PROVE  rctx'[b] = d /\ Owned(b)'
<1>1. rctx'[b] = d
  OBVIOUS
<1>2. d.list = "ctx" /\ d.home = "ctx" /\ d.error # "overflow" /\ HasControl(d)
  BY DEF Owned, SameControl
<1>3. d.pending = IF Asked(b)' THEN 1 ELSE 0
  BY DEF Owned, SameControl
<1> QED BY <1>1, <1>2, <1>3 DEF Owned

\* free_recv_ctx: a block that nothing refers to is idle.
LEMMA RFreedIdle ==
  ASSUME NEW b \in RecvBlock, DOMAIN rctx = RecvBlock, Owned(b), ~Asked(b), NEW c, SameControl(c, rctx[b]),
         rctx' = [rctx EXCEPT ![b] = RFreed(c)], UNCHANGED fcq, b \notin rwork', rrun'.blk # b
  PROVE  Idle(b)'
<1>1. HasControl(c) /\ c.list = "ctx" /\ c.home = "ctx" /\ c.pending = 0
  BY DEF Owned, SameControl
<1>2. PICK d : d = RFreed(c)
  OBVIOUS
<1>3. HasControl(d) /\ d.list = "none" /\ d.pending = 0 /\ d.timer = FALSE
  BY <1>1, <1>2 DEF RFreed, HasControl
<1>4. rctx'[b] = d
  BY <1>2
<1>5. ~Asked(b)'
  BY DEF Asked
<1> QED BY <1>3, <1>4, <1>5 DEF Idle

\* process_cf: the context goes on waiting with its timer running, or there is work to do.
LEMMA CfControl ==
  ASSUME NEW c, HasControl(c), c.state = "WAIT_CF", c.timer = TRUE, NEW f, RBs > 0
  PROVE  LET d == ProcessCf(c, f) IN
         /\ SameControl(d, c)
         /\ d.state \in {"ERR", "RECYCLE", "TRY_ALLOC"} \/ (d.state = "WAIT_CF" /\ d.timer = TRUE)
<1>0. RBs # 0 /\ SameControl(c, c)
  BY ReceiveAssumption DEF ReceiveAssumption, SameControl
<1>1. CASE f.kind # "CF"
  <2>1. ProcessCf(c, f) = [c EXCEPT !.state = "ERR", !.error = "other"]
    BY <1>1 DEF ProcessCf
  <2> QED BY <1>0, <2>1 DEF SameControl, HasControl
<1>2. CASE f.kind = "CF"
  <2> DEFINE nx == [c EXCEPT !.timer = TRUE, !.sn = (@ + 1) % SnMod]
             er == [nx EXCEPT !.state = "ERR", !.error = "other"]
             got == [nx EXCEPT !.rem = IF @ > 0 THEN @ - 1 ELSE 0, !.data = Append(@, <<f.msg, f.idx>>)]
             g1 == [got EXCEPT !.state = "RECYCLE"]
             g2 == [got EXCEPT !.bs = RBs, !.state = "TRY_ALLOC"]
             g3 == [got EXCEPT !.bs = Byte(@ - 1)]
  <2>1. SameControl(nx, c) /\ nx.state = "WAIT_CF" /\ nx.timer = TRUE
    BY <1>0 DEF SameControl, HasControl
  <2> HIDE DEF nx
  <2>2. SameControl(er, c) /\ er.state = "ERR"
    BY <2>1 DEF SameControl, HasControl
  <2>3. SameControl(got, c) /\ got.state = "WAIT_CF" /\ got.timer = TRUE
    BY <2>1 DEF SameControl, HasControl
  <2> HIDE DEF got
  <2>4. SameControl(g1, c) /\ g1.state = "RECYCLE" /\ SameControl(g2, c) /\ g2.state = "TRY_ALLOC"
    BY <2>3 DEF SameControl, HasControl
  <2>5. SameControl(g3, c) /\ g3.state = "WAIT_CF" /\ g3.timer = TRUE
    BY <2>3 DEF SameControl, HasControl
  <2>6. ProcessCf(c, f) \in {er, g1, g2, g3}
    BY <1>0, <1>2 DEF ProcessCf, nx, got
  <2> HIDE DEF er, g1, g2, g3
  <2> QED BY <2>2, <2>4, <2>5, <2>6
<1> QED BY <1>1, <1>2

\* get_recv_ctx and process_ff_sf: a context that is new, with work to do.
LEMMA NewControl ==
  ASSUME NEW b, HasControl(rctx[b]), NEW s \in Src, NEW f
  PROVE  LET d == ProcessFfSf(NewRecvCtx(b, s), f) IN
         /\ HasControl(d) /\ d.pending = 0 /\ d.list = "ctx" /\ d.home = "ctx" /\ d.error # "overflow"
         /\ d.state \in {"PROCESS_SF", "PROCESS_FF"}
<1>1. PICK c : c = NewRecvCtx(b, s)
  OBVIOUS
<1>2. HasControl(c) /\ c.pending = 0 /\ c.list = "ctx" /\ c.home = "ctx" /\ c.error # "overflow"
  BY <1>1 DEF NewRecvCtx, HasControl
<1>3. PICK d : d = ProcessFfSf(c, f)
  OBVIOUS
<1>4. HasControl(d) /\ d.pending = 0 /\ d.list = "ctx" /\ d.home = "ctx" /\ d.error # "overflow"
  BY <1>2, <1>3 DEF ProcessFfSf, HasControl
<1>5. d.state \in {"PROCESS_SF", "PROCESS_FF"}
  BY <1>2, <1>3 DEF ProcessFfSf, HasControl
<1> QED BY <1>1, <1>3, <1>4, <1>5

\* A frame for a context in use, that is not asked for flow control and has a buffer left or
\* a thread that nothing interrupts.
LEMMA ExistingSound ==
  ASSUME ContextsInv, Polite, ~RecvPreempted \/ pool > 0,
         NEW s, NEW f, NEW b \in RFound(s), RxExisting(b, f), RTouch(b), ~SenderWaits(s),
         UNCHANGED <<rrun, fcq, runb>>
  PROVE  ContextsInv' /\ (RFreesOnlyIdle /\ ~corrupt')
<1>1. b \in RecvBlock /\ DOMAIN rctx = RecvBlock /\ rctx[b].list = "ctx" /\ ContextSound(b)
  BY DEF RFound, ContextsInv
<1>2. b \notin rslab /\ Owned(b) /\ Lives(b) /\ ~corrupt'
  BY <1>1 DEF ContextSound, Idle, InUse, RTouch, Safe, ContextsInv
<1>3. rctx[b].state = "WAIT_CF" /\ ~Asked(b)
  BY DEF SenderWaits, RFramesOf, Asked, HasFc
<1>4. rctx[b].timer = TRUE /\ rrun.blk # b /\ (b \in rwork => RecvPreempted)
  BY <1>2, <1>3 DEF Lives
<1>5. ~Asked(b)' /\ rrun'.blk # b /\ ThreadPlace' /\ fcq' \in Seq(FcFrame) /\ OneEach(fcq')
  BY <1>3, <1>4 DEF Asked, ThreadPlace, ContextsInv
<1>6. SameControl(rctx[b], rctx[b])
  BY <1>2 DEF Owned, SameControl
<1>7. CASE pool = 0
  <2>1. pool = 0 /\ ~(pool > 0) /\ RFree(b, rctx[b]) /\ UNCHANGED rwork
    BY <1>7 DEF RxExisting
  <2>2. rctx' = [rctx EXCEPT ![b] = RFreed(rctx[b])] /\ rslab' = rslab \cup {b} /\ b \notin rwork'
    BY <1>4, <2>1 DEF RFree
  <2>3. Idle(b)'
    BY <1>1, <1>2, <1>3, <1>5, <1>6, <2>2, RFreedIdle
  <2>4. ContextSound(b)'
    BY <2>2, <2>3 DEF ContextSound
  <2>5. ContextsInv'
    BY <1>1, <1>2, <1>5, <2>1, <2>2, <2>4, OneContextSound DEF ContextsInv
  <2>6. RFreesOnlyIdle
    BY <2>2, <2>3 DEF RFreesOnlyIdle, Idle
  <2> QED BY <1>2, <2>5, <2>6
<1>8. CASE pool # 0
  <2>1. PICK c : c = [rctx[b] EXCEPT !.bufs = @ + 1]
    OBVIOUS
  <2>2. SameControl(c, rctx[b]) /\ HasControl(c) /\ c.state = "WAIT_CF" /\ c.timer = TRUE
    BY <1>3, <1>4, <1>6, <2>1 DEF SameControl, HasControl
  <2>3. PICK d : d = ProcessCf(c, f)
    OBVIOUS
  <2>4. /\ SameControl(d, c)
        /\ d.state \in {"ERR", "RECYCLE", "TRY_ALLOC"} \/ (d.state = "WAIT_CF" /\ d.timer = TRUE)
    BY <2>2, <2>3, CfControl DEF Polite
  <2>5. SameControl(d, rctx[b])
    BY <2>2, <2>4 DEF SameControl
  <2>6. /\ rctx' = [rctx EXCEPT ![b] = d] /\ UNCHANGED rslab
        /\ rwork' = IF d.state = "WAIT_CF" THEN rwork ELSE rwork \cup {b}
    BY <1>8, <2>1, <2>2, <2>3 DEF RxExisting
  <2>7. rctx'[b] = d /\ Owned(b)'
    BY <1>1, <1>2, <1>3, <1>5, <2>5, <2>6, OwnedStays
  <2>8. Lives(b)'
    BY ONLY <1>4, <1>5, <2>4, <2>6, <2>7 DEF Lives
  <2>9. ContextSound(b)'
    BY <1>2, <2>6, <2>7, <2>8 DEF ContextSound, InUse
  <2>10. ContextsInv'
    BY <1>1, <1>2, <1>5, <2>6, <2>9, OneContextSound DEF ContextsInv
  <2> QED BY <1>2, <2>6, <2>10 DEF RFreesOnlyIdle
<1> QED BY <1>7, <1>8

\* A frame that finds no context, and one that may create one.
LEMMA NewSound ==
  ASSUME ContextsInv, NEW s \in Src, NEW f, RxNew(s, f), UNCHANGED <<rrun, fcq, runb>>
  PROVE  ContextsInv' /\ (RFreesOnlyIdle /\ ~corrupt')
<1>1. PICK b \in rslab : /\ rctx' = [rctx EXCEPT ![b] = ProcessFfSf(NewRecvCtx(b, s), f)]
                         /\ rslab' = rslab \ {b} /\ rwork' = rwork \cup {b}
                         /\ IF b \in rwork THEN Corrupt ELSE Safe
  BY DEF RxNew
<1>2. b \in RecvBlock /\ DOMAIN rctx = RecvBlock /\ Idle(b)
  BY DEF ContextsInv, ContextSound
<1>3. ~corrupt' /\ ~Asked(b)' /\ rrun'.blk # b /\ ThreadPlace' /\ fcq' \in Seq(FcFrame) /\ OneEach(fcq')
  BY <1>1, <1>2 DEF Idle, Asked, ContextsInv, Safe, ThreadPlace
<1>4. PICK d : d = ProcessFfSf(NewRecvCtx(b, s), f)
  OBVIOUS
<1>5. /\ HasControl(d) /\ d.pending = 0 /\ d.list = "ctx" /\ d.home = "ctx" /\ d.error # "overflow"
      /\ d.state \in {"PROCESS_SF", "PROCESS_FF"}
  BY <1>2, <1>4, NewControl DEF Idle
<1>6. rctx' = [rctx EXCEPT ![b] = d] /\ rctx'[b] = d
  BY <1>1, <1>2, <1>4
<1>7. Owned(b)'
  BY <1>3, <1>5, <1>6 DEF Owned
<1>8. Lives(b)'
  BY ONLY <1>1, <1>3, <1>5, <1>6 DEF Lives
<1>9. ContextSound(b)'
  BY <1>1, <1>7, <1>8 DEF ContextSound, InUse
<1>10. ContextsInv'
  BY <1>1, <1>2, <1>3, <1>6, <1>9, OneContextSound DEF ContextsInv
<1> QED BY <1>1, <1>3, <1>10 DEF RFreesOnlyIdle

\* Steps that leave the contexts alone.
LEMMA NothingChanges ==
  ASSUME ContextsInv, UNCHANGED <<rctx, rslab, rwork, rrun, fcq, runb, corrupt>>
  PROVE  ContextsInv' /\ (RFreesOnlyIdle /\ ~corrupt')
<1>1. ContextsInv'
  <2>1. ASSUME NEW u \in RecvBlock PROVE ContextSound(u)'
    BY DEF ContextsInv, ContextSound, Idle, InUse, Owned, Lives, Asked
  <2>2. ThreadPlace'
    BY DEF ContextsInv, ThreadPlace
  <2> QED BY <2>1, <2>2 DEF ContextsInv
<1> QED BY <1>1 DEF RFreesOnlyIdle, ContextsInv

\* can_rx_callback.
LEMMA ArrivesSound ==
  ASSUME ContextsInv, Polite, ~RecvPreempted \/ pool > 0,
         NEW s \in Src, NEW f, FrameArrives(s, f), ~SenderWaits(s)
  PROVE  ContextsInv' /\ (RFreesOnlyIdle /\ ~corrupt')
<1>2. UNCHANGED <<rrun, fcq, runb>>
  BY DEF FrameArrives
<1>3. CASE \E b \in RFound(s) : RxExisting(b, f) /\ RTouch(b)
  BY <1>2, <1>3, ExistingSound
<1>4. CASE RxNew(s, f)
  BY <1>2, <1>4, NewSound
<1>5. CASE RxIgnored /\ Safe
  BY <1>2, <1>5, NothingChanges DEF RxIgnored, Safe
<1> QED BY <1>3, <1>4, <1>5 DEF FrameArrives

\* receive_can_tx.
LEMMA FcDoneSound ==
  ASSUME ContextsInv, NEW ok \in BOOLEAN, FcDone(ok)
  PROVE  ContextsInv' /\ (RFreesOnlyIdle /\ ~corrupt')
<1>1. PICK b : b = Head(fcq).blk
  OBVIOUS
<1>2. fcq # <<>> /\ fcq \in Seq(FcFrame) /\ OneEach(fcq) /\ fcq' = Tail(fcq)
  BY DEF FcDone, ContextsInv
<1>3. /\ b \in RecvBlock /\ Asked(b) /\ fcq' \in Seq(FcFrame) /\ OneEach(fcq')
      /\ \A u : HasFc(fcq', u) <=> (u # b /\ HasFc(fcq, u))
  BY <1>1, <1>2, HeadFc DEF Asked
<1>4. ~Asked(b)' /\ \A u \in RecvBlock \ {b} : HasFc(fcq', u) <=> HasFc(fcq, u)
  BY <1>3 DEF Asked
<1>5. DOMAIN rctx = RecvBlock /\ b \notin rslab /\ Owned(b) /\ Lives(b)
  BY <1>3 DEF ContextsInv, ContextSound, Idle, InUse
<1>6. /\ (RecvPreempted \/ rrun.blk # b) /\ UNCHANGED <<rslab, rrun, runb>>
      /\ rctx' = [rctx EXCEPT ![b] = FcAnswered(rctx[b], ok)] /\ rwork' = IF ok THEN rwork ELSE rwork \cup {b}
      /\ RTouch(b)
  BY <1>1 DEF FcDone
<1>7. ~corrupt' /\ ThreadPlace'
  BY <1>5, <1>6 DEF RTouch, Safe, ContextsInv, ThreadPlace
<1>8. PICK d : d = FcAnswered(rctx[b], ok)
  OBVIOUS
<1>9. rctx'[b] = d /\ HasControl(rctx[b]) /\ rctx[b].pending = 1
  BY <1>3, <1>5, <1>6, <1>8 DEF Owned
<1>10. /\ HasControl(d) /\ d.list = rctx[b].list /\ d.home = rctx[b].home /\ d.timer = rctx[b].timer
       /\ d.error \in {rctx[b].error, "other"} /\ d.state = IF ok THEN rctx[b].state ELSE "ERR"
  BY <1>8, <1>9 DEF FcAnswered, HasControl
<1>11. d.pending = 0
  <2>1. d.pending = rctx[b].pending - 1
    BY <1>8, <1>9 DEF FcAnswered, HasControl
  <2> QED BY ONLY <2>1, <1>9
<1>12. Owned(b)'
  BY <1>4, <1>5, <1>9, <1>10, <1>11 DEF Owned
<1>13. Lives(b)'
  <2>1. b \notin rwork
    BY <1>3, <1>5 DEF Lives
  <2>2. \/ rctx[b].state = "WAIT_CF" /\ rctx[b].timer = TRUE /\ rrun.blk # b
        \/ rctx[b].state = "SEND_FC" /\ rrun = RRunning("ctsSent", b)
    BY <1>3, <1>5 DEF Lives
  <2>3. CASE ok
    BY ONLY <1>6, <1>9, <1>10, <2>1, <2>2, <2>3 DEF Lives
  <2>4. CASE ~ok
    <3>1. rrun = RRunning("ctsSent", b) => RecvPreempted
      BY <1>6 DEF RRunning
    <3> QED BY ONLY <1>4, <1>6, <1>9, <1>10, <2>2, <2>4, <3>1 DEF Lives
  <2> QED BY <2>3, <2>4
<1>14. ContextSound(b)'
  BY <1>5, <1>6, <1>12, <1>13 DEF ContextSound, InUse
<1>15. ContextsInv'
  BY <1>3, <1>4, <1>6, <1>7, <1>14, OneContextSound DEF ContextsInv
<1> QED BY <1>6, <1>7, <1>15 DEF RFreesOnlyIdle

\* receive_timeout_handler.
LEMMA TimeoutSound ==
  ASSUME ContextsInv, Polite, NEW b \in RecvBlock, RecvTimeout(b)
  PROVE  ContextsInv' /\ (RFreesOnlyIdle /\ ~corrupt')
<1>1. rctx[b].timer /\ RFramesOf(b) = {} /\ b \notin rwork /\ rrun.blk # b
  BY DEF RecvTimeout, RecvQuiet, Polite
<1>2. ~Asked(b) /\ DOMAIN rctx = RecvBlock /\ b \notin rslab /\ Owned(b) /\ Lives(b)
  BY <1>1 DEF RFramesOf, Asked, HasFc, ContextsInv, ContextSound, Idle, InUse
<1>3. rctx[b].state = "WAIT_CF" /\ rctx[b].timer = TRUE
  BY <1>1, <1>2 DEF Lives, RRunning
<1>4. PICK d : d = [[rctx[b] EXCEPT !.state = "ERR", !.error = "other"] EXCEPT !.timer = FALSE]
  OBVIOUS
<1>5. /\ rctx' = [rctx EXCEPT ![b] = d] /\ rwork' = rwork \cup {b} /\ UNCHANGED <<rslab, rrun, fcq, runb>>
      /\ RTouch(b)
  BY <1>3, <1>4 DEF RecvTimeout
<1>6. HasControl(rctx[b])
  BY <1>2 DEF Owned
<1>7. SameControl(d, rctx[b]) /\ d.state = "ERR"
  BY <1>4, <1>6 DEF SameControl, HasControl
<1>8. ~Asked(b)' /\ ~corrupt' /\ ThreadPlace' /\ fcq' \in Seq(FcFrame) /\ OneEach(fcq')
  BY <1>2, <1>5 DEF Asked, RTouch, Safe, ContextsInv, ThreadPlace
<1>9. rctx'[b] = d /\ Owned(b)'
  BY <1>2, <1>5, <1>7, <1>8, OwnedStays
<1>10. Lives(b)'
  BY ONLY <1>1, <1>5, <1>7, <1>8, <1>9 DEF Lives
<1>11. ContextSound(b)'
  BY <1>2, <1>5, <1>9, <1>10 DEF ContextSound, InUse
<1>12. ContextsInv'
  BY <1>5, <1>8, <1>11, OneContextSound DEF ContextsInv
<1> QED BY <1>5, <1>8, <1>12 DEF RFreesOnlyIdle

\* receive_send_fc: the frame is queued, and the thread is about to arm the timer.
LEMMA SendCtsSound ==
  ASSUME ContextsInv, Polite, NEW b \in RecvBlock, b \notin rslab, Owned(b), ~Asked(b),
         NEW c, SameControl(c, rctx[b]), SendCts(b, c), rwork' = rwork \ {b}, rrun = NoRRun, UNCHANGED runb
  PROVE  ContextsInv' /\ (RFreesOnlyIdle /\ ~corrupt')
<1>1. PICK e : e = [c EXCEPT !.timer = FALSE, !.state = "SEND_FC"]
  OBVIOUS
<1>2. HasControl(c) /\ c.pending = 0 /\ c.list = "ctx" /\ c.home = "ctx" /\ c.error # "overflow"
  BY DEF SameControl, Owned
<1>3. /\ HasControl(e) /\ e.pending = 0 /\ e.list = "ctx" /\ e.home = "ctx" /\ e.error # "overflow"
      /\ e.state = "SEND_FC"
  BY <1>1, <1>2 DEF HasControl
<1>4. PICK x : x = [fs |-> "CTS", dst |-> e.src, blk |-> b]
  OBVIOUS
<1>5. x \in FcFrame /\ x.blk = b
  BY <1>3, <1>4 DEF FcFrame, HasControl
<1>6. PICK d : d = [e EXCEPT !.pending = @ + 1]
  OBVIOUS
<1>7. /\ HasControl(d) /\ d.pending = 1 /\ d.list = "ctx" /\ d.home = "ctx" /\ d.error # "overflow"
      /\ d.state = "SEND_FC"
  <2>1. d.pending = e.pending + 1
    BY <1>3, <1>6 DEF HasControl
  <2>2. d.pending = 1
    BY ONLY <1>3, <2>1
  <2> QED BY <1>3, <1>6, <2>2 DEF HasControl
<1>8. /\ fcq' = Append(fcq, x) /\ rctx' = [rctx EXCEPT ![b] = d] /\ rrun' = RRunning("ctsSent", b)
      /\ RTouch(b) /\ UNCHANGED rslab
  <2>1. SendFc(b, e, "CTS", "ctsSent") /\ ~Fault("sendFails")
    BY <1>1 DEF SendCts, Fault, Polite
  <2> QED BY <1>4, <1>6, <2>1 DEF SendFc
<1>9. fcq \in Seq(FcFrame) /\ OneEach(fcq) /\ DOMAIN rctx = RecvBlock /\ ~HasFc(fcq, x.blk)
  BY <1>5 DEF ContextsInv, Asked
<1>10. /\ fcq' \in Seq(FcFrame) /\ OneEach(fcq')
       /\ \A u : HasFc(fcq', u) <=> (u = b \/ HasFc(fcq, u))
  BY <1>5, <1>8, <1>9, AddFc
<1>11. Asked(b)' /\ rctx'[b] = d /\ ~corrupt' /\ ThreadPlace' /\ {rrun.blk, rrun'.blk} \subseteq {b, NoBlock}
  BY <1>8, <1>9, <1>10 DEF Asked, RTouch, Safe, ContextsInv, ThreadPlace, NoRRun, RRunning
<1>12. Owned(b)' /\ Lives(b)'
  BY <1>7, <1>8, <1>11 DEF Owned, Lives
<1>13. ContextSound(b)'
  BY <1>8, <1>12 DEF ContextSound, InUse
<1>14. \A u \in RecvBlock \ {b} : /\ (u \in rslab' <=> u \in rslab)
                                  /\ (u \in rwork' <=> u \in rwork)
                                  /\ (HasFc(fcq', u) <=> HasFc(fcq, u))
  BY <1>8, <1>10
<1>15. ContextsInv'
  BY <1>8, <1>10, <1>11, <1>13, <1>14, OneContextSound DEF ContextsInv
<1> QED BY <1>8, <1>11, <1>15 DEF RFreesOnlyIdle

\* free_recv_ctx at the end of the state machine.
LEMMA FreesSound ==
  ASSUME ContextsInv, NEW b \in RecvBlock, b \notin rslab, Owned(b), ~Asked(b), NEW c,
         SameControl(c, rctx[b]), RFree(b, c), RTouch(b), rwork' = rwork \ {b}, rrun' = NoRRun,
         rrun.blk \in {b, NoBlock}, UNCHANGED <<fcq, runb>>
  PROVE  ContextsInv' /\ (RFreesOnlyIdle /\ ~corrupt')
<1>1. rctx' = [rctx EXCEPT ![b] = RFreed(c)] /\ rslab' = rslab \cup {b} /\ DOMAIN rctx = RecvBlock
  BY DEF RFree, ContextsInv
<1>2. rrun'.blk = NoBlock /\ rrun'.blk # b
  BY ReceiveAssumption DEF NoRRun, ReceiveAssumption
<1>3. Idle(b)'
  BY <1>1, <1>2, RFreedIdle
<1>4. ContextSound(b)' /\ ~corrupt' /\ ThreadPlace' /\ fcq' \in Seq(FcFrame) /\ OneEach(fcq')
  BY <1>1, <1>3 DEF ContextSound, RTouch, Safe, ContextsInv, ThreadPlace
<1>5. ContextsInv'
  BY <1>1, <1>2, <1>4, OneContextSound DEF ContextsInv
<1>6. RFreesOnlyIdle
  BY <1>1, <1>3 DEF RFreesOnlyIdle, Idle
<1> QED BY <1>4, <1>5, <1>6

\* receive_work_handler.
LEMMA WorkSound ==
  ASSUME ContextsInv, Polite, NEW b \in RecvBlock, RecvWork(b)
  PROVE  ContextsInv' /\ (RFreesOnlyIdle /\ ~corrupt')
<1>1. rrun = NoRRun /\ b \in rwork /\ rwork' = rwork \ {b} /\ UNCHANGED runb
  BY DEF RecvWork
<1>2. rrun.blk = NoBlock /\ rrun.blk # b /\ \A pc \in {"ctsSent", "dispatch"} : rrun # RRunning(pc, b)
  BY <1>1, ReceiveAssumption DEF NoRRun, RRunning, ReceiveAssumption
<1>3. DOMAIN rctx = RecvBlock /\ b \notin rslab /\ Owned(b) /\ Lives(b)
  BY <1>1 DEF ContextsInv, ContextSound, Idle, InUse
<1>4. /\ ~Asked(b)
      /\ \/ rctx[b].state \in {"PROCESS_SF", "PROCESS_FF", "TRY_ALLOC", "RECYCLE", "ERR"}
         \/ rctx[b].state = "WAIT_CF" /\ rctx[b].timer = TRUE
  BY <1>1, <1>2, <1>3 DEF Lives
<1>5. HasControl(rctx[b]) /\ rctx[b].error # "overflow" /\ SameControl(rctx[b], rctx[b])
  BY <1>3 DEF Owned, SameControl
<1>6. CASE rctx[b].state \in {"PROCESS_SF", "RECYCLE"}
  <2>1. Dispatch(b)
    BY <1>6 DEF RecvWork
  <2>2. PICK d : d = [[rctx[b] EXCEPT !.state = "RECYCLE"] EXCEPT !.rem = 0]
    OBVIOUS
  <2>3. SameControl(d, rctx[b]) /\ d.state = "RECYCLE"
    BY <1>5, <2>2 DEF SameControl, HasControl
  <2>4. /\ rctx' = [rctx EXCEPT ![b] = d] /\ rrun' = RRunning("dispatch", b) /\ RTouch(b)
        /\ UNCHANGED <<rslab, fcq>>
    BY <1>3, <2>1, <2>2 DEF Dispatch
  <2>5. /\ ~Asked(b)' /\ ~corrupt' /\ ThreadPlace' /\ fcq' \in Seq(FcFrame) /\ OneEach(fcq')
        /\ {rrun.blk, rrun'.blk} \subseteq {b, NoBlock}
    BY <1>2, <1>3, <1>4, <2>4 DEF Asked, RTouch, Safe, ContextsInv, ThreadPlace, RRunning
  <2>6. rctx'[b] = d /\ Owned(b)'
    BY <1>3, <1>4, <2>3, <2>4, <2>5, OwnedStays
  <2>7. Lives(b)'
    BY <1>1, <2>3, <2>4, <2>5, <2>6 DEF Lives
  <2>8. ContextSound(b)'
    BY <1>3, <2>4, <2>6, <2>7 DEF ContextSound, InUse
  <2>9. ContextsInv'
    BY <1>1, <2>4, <2>5, <2>8, OneContextSound DEF ContextsInv
  <2> QED BY <2>4, <2>5, <2>9 DEF RFreesOnlyIdle
<1>7. CASE rctx[b].state = "PROCESS_FF"
  <2>1. PICK c : c = [rctx[b] EXCEPT !.bs = IF RBs > 0 THEN RBs ELSE @, !.wft = 255]
    OBVIOUS
  <2>2. SameControl(c, rctx[b])
    BY <1>5, <2>1 DEF SameControl, HasControl
  <2>3. RBs # 0
    BY ReceiveAssumption DEF Polite, ReceiveAssumption
  <2>4. SendCts(b, c)
    BY <1>7, <2>1, <2>3 DEF RecvWork
  <2> QED BY <1>1, <1>3, <1>4, <2>2, <2>4, SendCtsSound
<1>8. CASE rctx[b].state = "TRY_ALLOC"
  <2>1. SendCts(b, rctx[b])
    BY <1>8 DEF RecvWork
  <2> QED BY <1>1, <1>3, <1>4, <1>5, <2>1, SendCtsSound
<1>9. CASE rctx[b].state = "ERR"
  <2>1. RecvError(b, rctx[b])
    BY <1>9 DEF RecvWork
  <2>2. PICK c : c = [rctx[b] EXCEPT !.state = "UNBOUND"]
    OBVIOUS
  <2>3. RFree(b, c) /\ rrun' = NoRRun /\ RTouch(b) /\ UNCHANGED fcq
    BY <1>5, <2>1, <2>2 DEF RecvError
  <2>4. SameControl(c, rctx[b])
    BY <1>5, <2>2 DEF SameControl, HasControl
  <2> QED BY <1>1, <1>2, <1>3, <1>4, <2>3, <2>4, FreesSound
<1>10. CASE rctx[b].state = "WAIT_CF"
  <2>1. rrun' = NoRRun /\ RTouch(b) /\ UNCHANGED <<rctx, rslab, fcq>>
    BY <1>10 DEF RecvWork
  <2>2. PICK d : d = rctx[b]
    OBVIOUS
  <2>3. rctx' = rctx /\ rctx'[b] = d /\ UNCHANGED rrun
    BY <1>1, <2>1, <2>2
  <2>4. ~corrupt' /\ ThreadPlace' /\ fcq' \in Seq(FcFrame) /\ OneEach(fcq') /\ ~Asked(b)'
    BY <1>3, <1>4, <2>1 DEF RTouch, Safe, ContextsInv, ThreadPlace, Asked
  <2>5. Owned(b)'
    BY <1>3, <1>4, <2>2, <2>3, <2>4 DEF Owned
  <2>6. Lives(b)'
    BY <1>1, <1>2, <1>4, <1>10, <2>2, <2>3 DEF Lives
  <2>7. ContextSound(b)'
    BY <1>3, <2>1, <2>5, <2>6 DEF ContextSound, InUse
  <2>8. ContextsInv'
    BY <1>1, <2>1, <2>3, <2>4, <2>7, OneContextSound DEF ContextsInv
  <2> QED BY <2>1, <2>4, <2>8 DEF RFreesOnlyIdle
<1> QED BY <1>4, <1>6, <1>7, <1>8, <1>9, <1>10

\* The rest of receive_state_machine, after receive_send_fc and after recv_callback.
LEMMA RecvThreadSound ==
  ASSUME ContextsInv, Polite, FcQueued \/ RecvEnd
  PROVE  ContextsInv' /\ (RFreesOnlyIdle /\ ~corrupt')
<1>1. PICK b \in RecvBlock : b = rrun.blk /\ (rrun = RRunning("ctsSent", b) \/ rrun = RRunning("dispatch", b))
  <2>1. rrun # NoRRun
    BY DEF FcQueued, RecvEnd, NoRRun
  <2> QED BY <2>1 DEF ContextsInv, ThreadPlace, RRunning
<1>2. b \notin rslab /\ Owned(b) /\ Lives(b) /\ DOMAIN rctx = RecvBlock
  BY <1>1 DEF ContextsInv, ContextSound, Idle, InUse
<1>3. HasControl(rctx[b])
  BY <1>2 DEF Owned
<1>4. CASE FcQueued
  <2>1. rrun = RRunning("ctsSent", b)
    BY <1>1, <1>4 DEF FcQueued, RRunning
  <2>2. b \in rwork => RecvPreempted /\ ~Asked(b)
    BY <1>1, <1>2, <2>1 DEF Lives
  <2>3. PICK d : d = AwaitCf(rctx[b], "ctsSent")
    OBVIOUS
  <2>4. SameControl(d, rctx[b]) /\ d.state = "WAIT_CF" /\ d.timer = TRUE
    BY <1>3, <2>3 DEF AwaitCf, SameControl, HasControl
  <2>5. /\ rctx' = [rctx EXCEPT ![b] = d] /\ rrun' = NoRRun /\ RTouch(b)
        /\ UNCHANGED <<rslab, rwork, fcq, runb>>
    BY <1>1, <1>4, <2>1, <2>3 DEF FcQueued, RRunning
  <2>6. /\ (Asked(b)' <=> Asked(b)) /\ ~corrupt' /\ ThreadPlace' /\ fcq' \in Seq(FcFrame) /\ OneEach(fcq')
        /\ {rrun.blk, rrun'.blk} \subseteq {b, NoBlock}
    BY <1>1, <1>2, <2>5 DEF Asked, RTouch, Safe, ContextsInv, ThreadPlace, NoRRun
  <2>7. rrun'.blk # b
    BY <2>5, ReceiveAssumption DEF NoRRun, ReceiveAssumption
  <2>8. rctx'[b] = d /\ Owned(b)'
    BY <1>2, <2>4, <2>5, <2>6, OwnedStays
  <2>9. Lives(b)'
    BY <2>2, <2>4, <2>5, <2>6, <2>7, <2>8 DEF Lives
  <2>10. ContextSound(b)'
    BY <1>2, <2>5, <2>8, <2>9 DEF ContextSound, InUse
  <2>11. ContextsInv'
    BY <2>5, <2>6, <2>10, OneContextSound DEF ContextsInv
  <2> QED BY <2>5, <2>6, <2>11 DEF RFreesOnlyIdle
<1>5. CASE RecvEnd
  <2>1. rrun = RRunning("dispatch", b)
    BY <1>1, <1>5 DEF RecvEnd, RRunning
  <2>2. b \notin rwork /\ ~Asked(b)
    BY <1>1, <1>2, <2>1 DEF Lives, RRunning
  <2>3. PICK c : c = [rctx[b] EXCEPT !.state = "UNBOUND"]
    OBVIOUS
  <2>4. SameControl(c, rctx[b])
    BY <1>3, <2>3 DEF SameControl, HasControl
  <2>5. RFree(b, c) /\ RTouch(b) /\ rwork' = rwork \ {b} /\ rrun' = NoRRun /\ UNCHANGED <<fcq, runb>>
    BY <1>1, <1>5, <2>2, <2>3 DEF RecvEnd
  <2> QED BY <1>1, <1>2, <2>2, <2>4, <2>5, FreesSound
<1> QED BY <1>4, <1>5

\* Before the first frame nothing points to a context.
LEMMA SoundInit == RecvStart => ContextsInv
<1> SUFFICES ASSUME RecvStart PROVE ContextsInv
  OBVIOUS
<1>1. PICK s \in Src :
        rctx = [b \in RecvBlock |->
                  [state |-> "UNBOUND", src |-> s, rem |-> 0, sn |-> 0, bs |-> 0,
                   wft |-> 0, error |-> "none", pending |-> 0, timer |-> FALSE,
                   total |-> 0, data |-> <<>>, bufs |-> 0,
                   home |-> "ctx", list |-> "none"]]
  BY DEF RecvStart, RecvInit
<1>2. /\ rslab = RecvBlock /\ rwork = {} /\ rrun = NoRRun /\ fcq = <<>> /\ ~corrupt
      /\ runb.pc = "off" /\ runb.blk = NoBlock
  BY DEF RecvStart, RecvInit, CommonInit
<1>3. fcq \in Seq(FcFrame) /\ DOMAIN fcq = {}
  BY <1>2
<1>4. OneEach(fcq) /\ \A b \in RecvBlock : ~HasFc(fcq, b)
  <2>1. OneEach(fcq)
    BY ONLY <1>3 DEF OneEach
  <2>2. ASSUME NEW b \in RecvBlock PROVE ~HasFc(fcq, b)
    BY ONLY <1>3 DEF HasFc
  <2> QED BY <2>1, <2>2
<1>5. ASSUME NEW b \in RecvBlock PROVE ContextSound(b)
  <2>1. HasControl(rctx[b]) /\ rctx[b].list = "none" /\ rctx[b].pending = 0 /\ rctx[b].timer = FALSE
    BY <1>1 DEF HasControl
  <2>2. rrun.blk # b
    BY <1>2, ReceiveAssumption DEF NoRRun, ReceiveAssumption
  <2> QED BY <1>2, <1>4, <2>1, <2>2 DEF ContextSound, Idle, Asked
<1>6. DOMAIN rctx = RecvBlock /\ ThreadPlace
  BY <1>1, <1>2 DEF ThreadPlace
<1> QED BY <1>2, <1>3, <1>4, <1>5, <1>6 DEF ContextsInv

\* Every step.
LEMMA SoundNext ==
  ASSUME ContextsInv, Polite, ~RecvPreempted \/ pool > 0, [RecvNext]_allRecvVars
  PROVE  ContextsInv' /\ (RFreesOnlyIdle /\ ~corrupt')
<1>1. ~RUnbind
  BY DEF RUnbind, RUnbindStart, RUnbindNext, RUnbindCancel, RUnbindCheck, RUnbindCancelAgain, RUnbindFree, RUnbindOrphan,
         ContextsInv, Polite
<1>2. CASE UNCHANGED allRecvVars
  BY <1>2, NothingChanges DEF allRecvVars, recvVars
<1>3. CASE \E b \in RecvBlock : RecvWork(b)
  BY <1>3, WorkSound
<1>4. CASE FcQueued \/ RecvEnd
  BY <1>4, RecvThreadSound
<1>5. CASE RecvDriver
  BY <1>5, FcDoneSound DEF RecvDriver
<1>6. CASE Senders
  BY <1>6, ArrivesSound DEF Senders, Polite
<1>7. CASE \E b \in RecvBlock : RecvTimeout(b)
  BY <1>7, TimeoutSound
<1> QED BY <1>1, <1>2, <1>3, <1>4, <1>5, <1>6, <1>7 DEF RecvNext, RecvWorkQueue

\* What the invariant says of pointers: nothing points to a free block, and a block in use is
\* not forgotten.
LEMMA SoundContexts ==
  ASSUME ContextsInv
  PROVE  MemorySafe /\ NothingPointsToFreed /\ RNeverForgotten
<1>1. MemorySafe
  BY DEF MemorySafe, ContextsInv
<1>2. NothingPointsToFreed
  BY DEF NothingPointsToFreed, ContextsInv, ContextSound, Idle
<1>3. ASSUME NEW b \in RecvBlock, RForgotten(b) PROVE FALSE
  <2>1. b \notin rslab
    BY <1>3 DEF RForgotten, ContextsInv, ContextSound, Idle
  <2>2. Lives(b)
    BY <2>1 DEF ContextsInv, ContextSound, InUse
  <2>3. b \notin rwork /\ rrun.blk # b /\ ~rctx[b].timer
    BY <1>3 DEF RForgotten, RecvQuiet
  <2> QED BY <2>2, <2>3 DEF Lives, RRunning
<1> QED BY <1>1, <1>2, <1>3 DEF RNeverForgotten

\* Under the same conditions and a work queue that frames of a context do not interrupt, every
\* message given to recv_callback has the announced length and no gap (process_cf), and
\* nothing is assumed of memory.
THEOREM DeliveredWhole ==
  Polite /\ ~RecvPreempted => (RecvSpec => []DeliveredInSequence)
<1> SUFFICES ASSUME Polite, ~RecvPreempted PROVE RecvSpec => []DeliveredInSequence
  OBVIOUS
<1>1. RecvSpec => [](MemorySafe => DeliveredInSequence)
  BY DeliveredInSequenceAlways
<1>2. RecvStart => ContextsInv
  BY SoundInit
<1>3. ContextsInv /\ [RecvNext]_allRecvVars => ContextsInv'
  BY SoundNext
<1>4. ContextsInv => MemorySafe
  BY SoundContexts
<1> QED BY <1>1, <1>2, <1>3, <1>4, PTL DEF RecvSpec

-----------------------------------------------------------------------------
(* The network buffers, in any use: every one is free or in the chain of    *)
(* one context.                                                            *)

\* The buffers in the chains of the contexts x of blocks s, each by its block and its place.
Chains(s, x) == {p \in s \X (Nat \ {0}) : p[2] <= x[p[1]].bufs}
Held == Chains(RecvBlock, rctx)

\* A set of natural numbers has a least element.
LEMMA Least ==
  ASSUME NEW T, T \subseteq Nat, T # {} PROVE \E d \in T : \A e \in T : d <= e
<1> DEFINE R == {ss \in Nat \X Nat : ss[1] < ss[2]}
<1>1. IsWellFoundedOn(R, Nat)
  BY NatLessThanWellFounded DEF OpToRel
<1>2. \E x \in T : \A y \in T : <<y, x>> \notin R
  BY <1>1, WFMin, Zenon
<1>3. \A x, y \in T : <<y, x>> \notin R => x <= y
  OBVIOUS
<1> QED BY <1>2, <1>3

\* The buffers of one block are as many as its context counts.
LEMMA OneChain ==
  ASSUME NEW b, NEW n \in Nat
  PROVE  LET C == {p \in {b} \X (Nat \ {0}) : p[2] <= n}
         IN IsFiniteSet(C) /\ Cardinality(C) = n
<1> DEFINE C == {p \in {b} \X (Nat \ {0}) : p[2] <= n}
           g == [i \in 1..n |-> <<b, i>>]
<1>1. ASSUME NEW p \in C PROVE \E i \in 1..n : g[i] = p
  <2>1. p = <<p[1], p[2]>> /\ p[1] = b /\ p[2] \in Nat \ {0} /\ p[2] <= n
    OBVIOUS
  <2>2. p[2] \in 1..n
    BY ONLY <2>1, n \in Nat
  <2>3. g[p[2]] = <<b, p[2]>>
    BY <2>2
  <2> QED BY <2>1, <2>2, <2>3
<1>2. g \in [1..n -> C]
  OBVIOUS
<1>3. \A i, j \in 1..n : g[i] = g[j] => i = j
  OBVIOUS
<1>4. g \in Bijection(1..n, C)
  BY <1>1, <1>2, <1>3 DEF Bijection, Injection, Surjection, IsInjective
<1>5. ExistsBijection(1..n, C)
  BY <1>4, Zenon DEF ExistsBijection
<1>6. IsFiniteSet(1..n) /\ Cardinality(1..n) = n
  BY FS_Interval
<1> QED BY <1>5, <1>6, FS_Bijection

\* The buffers of a set of blocks are those of one of them and those of the others.
LEMMA ChainsAdd ==
  ASSUME NEW x, NEW s, NEW b \in s, x[b].bufs \in Nat, IsFiniteSet(Chains(s \ {b}, x))
  PROVE  /\ IsFiniteSet(Chains(s, x))
         /\ Cardinality(Chains(s, x)) = x[b].bufs + Cardinality(Chains(s \ {b}, x))
<1> DEFINE n == x[b].bufs
           C == {p \in {b} \X (Nat \ {0}) : p[2] <= n}
           O == Chains(s \ {b}, x)
<1>1. IsFiniteSet(C) /\ Cardinality(C) = n
  BY OneChain
<1>2. C \cap O = {} /\ C \cup O = Chains(s, x)
  <2>1. ASSUME NEW p \in C PROVE p[1] = b
    OBVIOUS
  <2>2. ASSUME NEW p \in O PROVE p[1] # b
    BY DEF Chains
  <2>3. C \cup O = Chains(s, x)
    BY DEF Chains
  <2> QED BY <2>1, <2>2, <2>3
<1> HIDE DEF C, O
<1>3. /\ IsFiniteSet(C \cup O)
      /\ Cardinality(C \cup O) = Cardinality(C) + Cardinality(O) - Cardinality(C \cap O)
  BY <1>1, FS_Union DEF O
<1>4. Cardinality(C \cap O) = 0 /\ Cardinality(O) \in Nat
  BY <1>2, FS_EmptySet, FS_CardinalityType DEF O
<1>5. Cardinality(C \cup O) = n + Cardinality(O)
  BY <1>1, <1>3, <1>4
<1> QED BY <1>2, <1>3, <1>5 DEF O

\* The sum over the contexts is the number of buffers they hold.
LEMMA SumIs ==
  ASSUME IsFiniteSet(Held), \A b \in RecvBlock : rctx[b].bufs \in Nat
  PROVE  MapThenSumSet(LAMBDA b : rctx[b].bufs, RecvBlock) = Cardinality(Held)
<1> DEFINE pick(s) == CHOOSE x \in s : TRUE
           Is(f) == f = [s \in SUBSET RecvBlock |->
                           IF s = {} THEN 0 ELSE rctx[pick(s)].bufs + f[s \ {pick(s)}]]
           h == CHOOSE f : Is(f)
           g == [s \in SUBSET RecvBlock |-> Cardinality(Chains(s, rctx))]
<1>1. MapThenSumSet(LAMBDA b : rctx[b].bufs, RecvBlock) = h[RecvBlock]
  BY DEF MapThenSumSet, MapThenFoldSet
<1>2. ASSUME NEW s \in SUBSET RecvBlock PROVE IsFiniteSet(Chains(s, rctx))
  <2>1. Chains(s, rctx) \subseteq Held
    BY DEF Chains, Held
  <2> QED BY <2>1, FS_Subset
<1>3. ASSUME NEW s \in SUBSET RecvBlock, s # {} PROVE pick(s) \in s /\ s \ {pick(s)} \in SUBSET RecvBlock
  BY <1>3
<1> HIDE DEF pick
<1>4. ASSUME NEW s \in SUBSET RecvBlock
      PROVE  g[s] = IF s = {} THEN 0 ELSE rctx[pick(s)].bufs + g[s \ {pick(s)}]
  <2>1. CASE s = {}
    <3>1. Chains(s, rctx) = {}
      BY <2>1 DEF Chains
    <3> QED BY <2>1, <3>1, FS_EmptySet
  <2>2. CASE s # {}
    <3>1. Cardinality(Chains(s, rctx)) = rctx[pick(s)].bufs + Cardinality(Chains(s \ {pick(s)}, rctx))
      <4>1. s \ {pick(s)} \in SUBSET RecvBlock /\ pick(s) \in s /\ pick(s) \in RecvBlock
        BY <1>3, <2>2
      <4> QED BY <1>2, <4>1, ChainsAdd
    <3>2. g[s \ {pick(s)}] = Cardinality(Chains(s \ {pick(s)}, rctx))
      BY <1>3, <2>2
    <3> QED BY <2>2, <3>1, <3>2
  <2> QED BY <2>1, <2>2
<1>5. Is(g)
  BY <1>4
<1>6. Is(h)
  BY <1>5
<1> HIDE DEF h, g
<1>7. ASSUME NEW s \in SUBSET RecvBlock PROVE IsFiniteSet(s) /\ Cardinality(s) \in Nat
  BY FS_Subset, FS_CardinalityType, ReceiveAssumption
<1>8. ASSUME NEW s \in SUBSET RecvBlock, g[s] # h[s] PROVE FALSE
  <2> DEFINE Not == {t \in SUBSET RecvBlock : g[t] # h[t]}
             Sizes == {Cardinality(t) : t \in Not}
  <2>1. Sizes \subseteq Nat /\ Sizes # {}
    BY <1>7, <1>8
  <2>2. PICK c \in Sizes : \A d \in Sizes : c <= d
    BY <2>1, Least
  <2>3. PICK t \in Not : c = Cardinality(t)
    OBVIOUS
  <2>4. /\ g[t] = IF t = {} THEN 0 ELSE rctx[pick(t)].bufs + g[t \ {pick(t)}]
        /\ h[t] = IF t = {} THEN 0 ELSE rctx[pick(t)].bufs + h[t \ {pick(t)}]
    BY <1>5, <1>6
  <2>5. t # {} /\ g[t \ {pick(t)}] # h[t \ {pick(t)}]
    BY <2>4
  <2>6. t \ {pick(t)} \in Not
    BY <1>3, <2>5
  <2>7. c <= Cardinality(t \ {pick(t)})
    BY <2>2, <2>6
  <2>8. Cardinality(t \ {pick(t)}) = Cardinality(t) - 1
    BY <1>3, <1>7, <2>5, FS_RemoveElement
  <2> QED BY <1>7, <2>3, <2>7, <2>8
<1>9. g[RecvBlock] = Cardinality(Held)
  BY DEF g, Held
<1> QED BY <1>1, <1>8, <1>9

\* A context with its count of buffers; where the threads are.
Chained(c) == "bufs" \in DOMAIN c /\ c.bufs \in Nat
HandsOn ==
  /\ rrun.pc # "idle" => rrun.blk \in RecvBlock
  /\ runb \in UnbindPlace
  /\ runb.pc \in {"cancel", "check", "again", "free", "orphan"} => runb.blk \in RecvBlock

\* The free buffers and those in chains add up; a free context has none.
PoolInv ==
  /\ DOMAIN rctx = RecvBlock /\ rslab \subseteq RecvBlock
  /\ \A b \in RecvBlock : Chained(rctx[b]) /\ (b \in rslab => rctx[b].bufs = 0)
  /\ IsFiniteSet(Held) /\ pool \in Nat /\ pool + Cardinality(Held) = PoolSize
  /\ HandsOn

\* Buffers move between the pool and the chain of one context.
LEMMA BuffersMove ==
  ASSUME PoolInv, NEW b \in RecvBlock, DOMAIN rctx' = RecvBlock,
         \A u \in RecvBlock \ {b} : rctx'[u] = rctx[u] /\ (u \in rslab' => u \in rslab),
         Chained(rctx'[b]), b \in rslab' => rctx'[b].bufs = 0, rslab' \subseteq RecvBlock,
         pool' \in Nat, pool' + rctx'[b].bufs = pool + rctx[b].bufs, HandsOn'
  PROVE  PoolInv'
<1> DEFINE O == Chains(RecvBlock \ {b}, rctx)
<1>1. IsFiniteSet(O) /\ Cardinality(O) \in Nat
  <2>1. O \subseteq Held
    BY DEF Chains, Held
  <2> QED BY <2>1, FS_Subset, FS_CardinalityType DEF PoolInv
<1>2. O = Chains(RecvBlock \ {b}, rctx')
  BY DEF Chains
<1>3. Cardinality(Held) = rctx[b].bufs + Cardinality(O) /\ rctx[b].bufs \in Nat
  BY <1>1, ChainsAdd DEF Held, PoolInv, Chained
<1>4. /\ IsFiniteSet(Chains(RecvBlock, rctx'))
      /\ Cardinality(Chains(RecvBlock, rctx')) = rctx'[b].bufs + Cardinality(O) /\ rctx'[b].bufs \in Nat
  BY <1>1, <1>2, ChainsAdd DEF Chained
<1> HIDE DEF O
<1>5. pool' + Cardinality(Chains(RecvBlock, rctx')) = PoolSize
  <2>1. pool \in Nat /\ pool + Cardinality(Held) = PoolSize
    BY DEF PoolInv
  <2> QED BY ONLY <1>1, <1>3, <1>4, <2>1, pool' \in Nat, pool' + rctx'[b].bufs = pool + rctx[b].bufs
<1>6. \A u \in RecvBlock : Chained(rctx'[u]) /\ (u \in rslab' => rctx'[u].bufs = 0)
  BY DEF PoolInv
<1> QED BY <1>4, <1>5, <1>6 DEF PoolInv, Held

\* A step that changes no chain.
LEMMA BuffersStay ==
  ASSUME PoolInv, DOMAIN rctx' = DOMAIN rctx,
         \A u \in RecvBlock : rctx'[u] = rctx[u] \/ (Chained(rctx'[u]) /\ rctx'[u].bufs = rctx[u].bufs),
         UNCHANGED <<rslab, pool>>, HandsOn'
  PROVE  PoolInv'
<1>1. \A u \in RecvBlock : Chained(rctx'[u]) /\ rctx'[u].bufs = rctx[u].bufs
  BY DEF PoolInv
<1>2. Chains(RecvBlock, rctx') = Chains(RecvBlock, rctx)
  BY <1>1 DEF Chains
<1> QED BY <1>1, <1>2 DEF PoolInv, Held

\* A context is changed but for its chain.
LEMMA ChainKept ==
  ASSUME PoolInv, NEW b \in RecvBlock, NEW d, Chained(d), d.bufs = rctx[b].bufs,
         rctx' = [rctx EXCEPT ![b] = d], UNCHANGED <<rslab, pool>>, HandsOn'
  PROVE  PoolInv'
BY BuffersStay DEF PoolInv

\* A context is freed, and its buffers with it (free_recv_ctx).
LEMMA ChainFreed ==
  ASSUME PoolInv, NEW b \in RecvBlock, NEW c, Chained(c), c.bufs = rctx[b].bufs,
         RFree(b, c), HandsOn'
  PROVE  PoolInv'
<1>1. rctx' = [rctx EXCEPT ![b] = RFreed(c)] /\ pool' = pool + c.bufs /\ rslab' = rslab \cup {b}
  BY DEF RFree
<1>2. Chained(RFreed(c)) /\ RFreed(c).bufs = 0
  BY DEF RFreed, Chained
<1>3. DOMAIN rctx' = RecvBlock /\ rctx'[b] = RFreed(c) /\ \A u \in RecvBlock \ {b} : rctx'[u] = rctx[u]
  BY <1>1 DEF PoolInv
<1>4. pool' \in Nat /\ pool' + 0 = pool + rctx[b].bufs /\ rslab' \subseteq RecvBlock
  BY <1>1 DEF PoolInv, Chained
<1> HIDE DEF RFreed
<1> QED BY <1>1, <1>2, <1>3, <1>4, BuffersMove

\* receive_send_fc keeps the chain, unless it cannot queue the frame.
LEMMA ChainAsking ==
  ASSUME PoolInv, ~corrupt', NEW b \in RecvBlock, NEW c, Chained(c), c.bufs = rctx[b].bufs,
         NEW fs, NEW pc, SendFc(b, c, fs, pc), UNCHANGED runb
  PROVE  PoolInv'
<1> DEFINE d == [c EXCEPT !.pending = @ + 1]
<1>1. rctx' = [rctx EXCEPT ![b] = d] /\ rrun' = RRunning(pc, b) /\ UNCHANGED <<rslab, pool>>
  BY DEF SendFc, Corrupt
<1>2. Chained(d) /\ d.bufs = rctx[b].bufs
  BY DEF Chained
<1> HIDE DEF d
<1>3. HandsOn'
  BY <1>1 DEF HandsOn, PoolInv, RRunning
<1> QED BY <1>1, <1>2, <1>3, ChainKept

\* The error state frees the chain, or keeps it until the overflow frame is queued.
LEMMA ChainInError ==
  ASSUME PoolInv, ~corrupt', NEW b \in RecvBlock, NEW c, Chained(c), c.bufs = rctx[b].bufs,
         RecvError(b, c), UNCHANGED runb
  PROVE  PoolInv'
<1>1. CASE c.error = "overflow"
  <2> DEFINE d == [c EXCEPT !.timer = FALSE]
  <2>1. Chained(d) /\ d.bufs = rctx[b].bufs
    BY DEF Chained
  <2>2. SendFc(b, d, "OVFLW", "overflowSent")
    BY <1>1 DEF RecvError
  <2> QED BY <2>1, <2>2, ChainAsking
<1>2. CASE c.error # "overflow"
  <2> DEFINE d == [c EXCEPT !.state = "UNBOUND"]
  <2>1. Chained(d) /\ d.bufs = rctx[b].bufs
    BY DEF Chained
  <2>2. RFree(b, d) /\ rrun' = NoRRun
    BY <1>2 DEF RecvError
  <2>3. HandsOn'
    BY <2>2 DEF HandsOn, PoolInv, NoRRun
  <2> QED BY <2>1, <2>2, <2>3, ChainFreed
<1> QED BY <1>1, <1>2

\* The work queue thread takes a work item (receive_work_handler).
LEMMA PoolWork ==
  ASSUME PoolInv, ~corrupt', NEW b \in RecvBlock, RecvWork(b)
  PROVE  PoolInv'
<1> DEFINE c == rctx[b]  waits == Byte(c.wft + 1)
<1>1. UNCHANGED runb /\ Chained(c)
  BY DEF RecvWork, PoolInv
<1>2. CASE Dispatch(b)
  <2>1. rctx' = [rctx EXCEPT ![b].state = "RECYCLE", ![b].rem = 0] /\ rrun' = RRunning("dispatch", b)
        /\ UNCHANGED <<rslab, pool>>
    BY <1>2 DEF Dispatch
  <2>2. DOMAIN rctx' = DOMAIN rctx
        /\ \A u \in RecvBlock : rctx'[u] = rctx[u] \/ (Chained(rctx'[u]) /\ rctx'[u].bufs = rctx[u].bufs)
    BY <1>1, <2>1 DEF PoolInv, Chained
  <2>3. HandsOn'
    BY <1>1, <2>1 DEF HandsOn, PoolInv, RRunning
  <2> QED BY <2>1, <2>2, <2>3, BuffersStay
<1>3. ASSUME NEW d, NEW fs, NEW pc, Chained(d), d.bufs = c.bufs, SendFc(b, d, fs, pc) PROVE PoolInv'
  BY <1>1, <1>3, ChainAsking
<1>4. ASSUME NEW d, Chained(d), d.bufs = c.bufs, RecvError(b, d) PROVE PoolInv'
  BY <1>1, <1>4, ChainInError
<1>5. CASE UNCHANGED <<rctx, rslab, pool>> /\ rrun' = NoRRun
  <2>1. HandsOn'
    BY <1>1, <1>5 DEF HandsOn, PoolInv, NoRRun
  <2> QED BY <1>5, <2>1, BuffersStay
<1>6. ASSUME NEW d, Chained(d), d.bufs = c.bufs, SendCts(b, d) PROVE PoolInv'
  <2> DEFINE e == [d EXCEPT !.timer = FALSE, !.state = "SEND_FC"]
  <2>1. SendFc(b, e, "CTS", "ctsSent")
    BY <1>6 DEF SendCts
  <2>2. Chained(e) /\ e.bufs = c.bufs
    BY <1>6 DEF Chained
  <2> HIDE DEF e
  <2> QED BY <1>3, <2>1, <2>2
<1>7. CASE SendCts(b, [c EXCEPT !.bs = IF RBs > 0 THEN RBs ELSE @, !.wft = 255])
  <2> DEFINE d == [c EXCEPT !.bs = IF RBs > 0 THEN RBs ELSE @, !.wft = 255]
  <2>1. Chained(d) /\ d.bufs = c.bufs
    BY <1>1 DEF Chained
  <2> QED BY <1>6, <1>7, <2>1
<1>8. CASE RecvError(b, [c EXCEPT !.state = "ERR", !.error = "overflow"])
  <2> DEFINE d == [c EXCEPT !.state = "ERR", !.error = "overflow"]
  <2>1. Chained(d) /\ d.bufs = c.bufs
    BY <1>1 DEF Chained
  <2> QED BY <1>4, <1>8, <2>1
<1>9. CASE SendFc(b, [c EXCEPT !.wft = waits], "WAIT", "waitSent")
  <2> DEFINE d == [c EXCEPT !.wft = waits]
  <2>1. Chained(d) /\ d.bufs = c.bufs
    BY <1>1 DEF Chained
  <2> QED BY <1>3, <1>9, <2>1
<1>10. CASE RecvError(b, [c EXCEPT !.wft = waits, !.state = "ERR", !.error = "overflow"])
  <2> DEFINE d == [c EXCEPT !.wft = waits, !.state = "ERR", !.error = "overflow"]
  <2>1. Chained(d) /\ d.bufs = c.bufs
    BY <1>1 DEF Chained
  <2> QED BY <1>4, <1>10, <2>1
<1>11. CASE SendCts(b, c)
  BY <1>1, <1>6, <1>11
<1>12. CASE RecvError(b, c)
  BY <1>1, <1>4, <1>12
<1> QED BY <1>2, <1>5, <1>7, <1>8, <1>9, <1>10, <1>11, <1>12 DEF RecvWork

\* The thread goes on after receive_send_fc, after the overflow frame, or after recv_callback.
LEMMA PoolThread ==
  ASSUME PoolInv, ~corrupt', FcQueued \/ RecvEnd
  PROVE  PoolInv'
<1> DEFINE b == rrun.blk
<1>1. b \in RecvBlock /\ Chained(rctx[b])
  BY DEF FcQueued, RecvEnd, PoolInv, HandsOn
<1>2. HandsOn'
  BY DEF FcQueued, RecvEnd, PoolInv, HandsOn, NoRRun
<1>3. CASE FcQueued
  <2> DEFINE d == AwaitCf(rctx[b], rrun.pc)
  <2>1. rctx' = [rctx EXCEPT ![b] = d] /\ UNCHANGED <<rslab, pool>>
    BY <1>3 DEF FcQueued
  <2>2. Chained(d) /\ d.bufs = rctx[b].bufs
    BY <1>1 DEF Chained, AwaitCf
  <2> HIDE DEF d
  <2> QED BY <1>1, <1>2, <2>1, <2>2, ChainKept
<1>4. CASE RecvEnd
  <2> DEFINE d == [rctx[b] EXCEPT !.state = "UNBOUND"]
  <2>1. RFree(b, d)
    BY <1>4 DEF RecvEnd
  <2>2. Chained(d) /\ d.bufs = rctx[b].bufs
    BY <1>1 DEF Chained
  <2> HIDE DEF d
  <2> QED BY <1>1, <1>2, <2>1, <2>2, ChainFreed
<1> QED BY <1>3, <1>4

\* A flow control frame is finished (receive_can_tx).
LEMMA PoolFc ==
  ASSUME PoolInv, NEW ok \in BOOLEAN, FcDone(ok)
  PROVE  PoolInv'
<1> DEFINE b == Head(fcq).blk
<1>1. rctx' = [rctx EXCEPT ![b] = FcAnswered(@, ok)] /\ UNCHANGED <<rslab, pool, rrun, runb>>
  BY DEF FcDone
<1>2. ASSUME NEW c, Chained(c) PROVE Chained(FcAnswered(c, ok)) /\ FcAnswered(c, ok).bufs = c.bufs
  BY <1>2 DEF Chained, FcAnswered
<1>3. DOMAIN rctx' = DOMAIN rctx
      /\ \A u \in RecvBlock : rctx'[u] = rctx[u] \/ (Chained(rctx'[u]) /\ rctx'[u].bufs = rctx[u].bufs)
  BY <1>1, <1>2 DEF PoolInv
<1>4. HandsOn'
  BY <1>1 DEF HandsOn, PoolInv
<1> QED BY <1>1, <1>3, <1>4, BuffersStay

\* A timer expires (receive_timeout_handler).
LEMMA PoolTimeout ==
  ASSUME PoolInv, NEW b \in RecvBlock, RecvTimeout(b)
  PROVE  PoolInv'
<1> DEFINE c == rctx[b]
           e == CASE c.state = "WAIT_CF"   -> [c EXCEPT !.state = "ERR", !.error = "other"]
                  [] c.state = "TRY_ALLOC" -> [c EXCEPT !.state = "SEND_WAIT"]
                  [] OTHER                 -> c
           d == [e EXCEPT !.timer = FALSE]
<1>1. rctx' = [rctx EXCEPT ![b] = d] /\ UNCHANGED <<rslab, pool, rrun, runb>>
  BY DEF RecvTimeout
<1>2. Chained(c)
  BY DEF PoolInv
<1>3. Chained(e) /\ e.bufs = c.bufs
  BY <1>2 DEF Chained
<1> HIDE DEF e
<1>4. Chained(d) /\ d.bufs = c.bufs
  BY <1>3 DEF Chained
<1> HIDE DEF d
<1>5. HandsOn'
  BY <1>1 DEF HandsOn, PoolInv
<1> QED BY <1>1, <1>4, <1>5, ChainKept

\* What a frame makes of a context has nothing to do with its chain.
LEMMA ProcessKeepsChain ==
  ASSUME NEW c, Chained(c), NEW f
  PROVE  /\ Chained(ProcessFfSf(c, f)) /\ ProcessFfSf(c, f).bufs = c.bufs
         /\ Chained(ProcessCf(c, f)) /\ ProcessCf(c, f).bufs = c.bufs
<1> DEFINE next == [c EXCEPT !.timer = TRUE, !.sn = (@ + 1) % SnMod]
           got == [next EXCEPT !.rem = IF @ > 0 THEN @ - 1 ELSE 0, !.data = Append(@, <<f.msg, f.idx>>)]
           Same(d) == Chained(d) /\ d.bufs = c.bufs
<1>1. Same(ProcessFfSf(c, f))
  BY DEF Chained, ProcessFfSf
<1>2. Same([c EXCEPT !.state = "ERR", !.error = "other"])
  BY DEF Chained
<1>3. Same(next)
  BY DEF Chained
<1> HIDE DEF next
<1>4. Same([next EXCEPT !.state = "ERR", !.error = "other"])
  BY <1>3 DEF Chained
<1>5. Same(got)
  BY <1>3 DEF Chained
<1> HIDE DEF got
<1>6. /\ Same([got EXCEPT !.state = "RECYCLE"])
      /\ Same([got EXCEPT !.bs = RBs, !.state = "TRY_ALLOC"])
      /\ Same([got EXCEPT !.bs = Byte(@ - 1)])
  BY <1>5 DEF Chained
<1> HIDE DEF Same
<1>7. RBs = 0 \/ RBs > 0
  BY ReceiveAssumption
<1>8. Same(ProcessCf(c, f))
  BY <1>2, <1>4, <1>5, <1>6, <1>7 DEF ProcessCf, next, got
<1> QED BY <1>1, <1>8 DEF Same

\* A frame arrives: a buffer is taken for it, or the context is freed (receive_can_rx).
LEMMA PoolArrives ==
  ASSUME PoolInv, ~corrupt', NEW s, NEW f, FrameArrives(s, f)
  PROVE  PoolInv'
<1>1. HandsOn'
  BY DEF FrameArrives, HandsOn, PoolInv
<1>2. ASSUME NEW b \in RecvBlock, RxExisting(b, f), RTouch(b) PROVE PoolInv'
  <2> DEFINE c == [rctx[b] EXCEPT !.bufs = @ + 1]
             after == IF c.state = "WAIT_CF" THEN ProcessCf(c, f)
                      ELSE IF c.state = "WAIT_FF_SF" THEN ProcessFfSf(c, f) ELSE c
  <2>1. Chained(rctx[b]) /\ b \notin rslab
    BY <1>2 DEF PoolInv, RTouch, Corrupt
  <2>2. Chained(c) /\ c.bufs = rctx[b].bufs + 1
    BY <2>1 DEF Chained
  <2> HIDE DEF c
  <2>3. Chained(after) /\ after.bufs = c.bufs
    BY <2>2, ProcessKeepsChain
  <2> HIDE DEF after
  <2>4. CASE RFree(b, rctx[b])
    BY <1>1, <2>1, <2>4, ChainFreed
  <2>5. CASE pool > 0 /\ pool' = pool - 1 /\ rctx' = [rctx EXCEPT ![b] = after] /\ UNCHANGED rslab
    <3>1. DOMAIN rctx' = RecvBlock /\ rctx'[b] = after /\ \A u \in RecvBlock \ {b} : rctx'[u] = rctx[u]
      BY <2>5 DEF PoolInv
    <3>2. pool' \in Nat /\ pool' + after.bufs = pool + rctx[b].bufs /\ rslab' \subseteq RecvBlock
      BY <2>1, <2>2, <2>3, <2>5 DEF PoolInv, Chained
    <3> QED BY <1>1, <2>1, <2>3, <2>5, <3>1, <3>2, BuffersMove
  <2> QED BY <1>2, <2>4, <2>5 DEF RxExisting, after, c
<1>3. CASE RxNew(s, f)
  <2>1. PICK b \in rslab : /\ rctx' = [rctx EXCEPT ![b] = ProcessFfSf(NewRecvCtx(b, s), f)]
                           /\ rslab' = rslab \ {b} /\ pool > 0 /\ pool' = pool - 1
    BY <1>3 DEF RxNew
  <2>2. b \in RecvBlock /\ Chained(rctx[b]) /\ rctx[b].bufs = 0
    BY DEF PoolInv
  <2>3. Chained(NewRecvCtx(b, s)) /\ NewRecvCtx(b, s).bufs = 1
    BY <2>2 DEF NewRecvCtx, Chained
  <2>4. PICK d : d = ProcessFfSf(NewRecvCtx(b, s), f)
    OBVIOUS
  <2>5. Chained(d) /\ d.bufs = 1
    BY <2>3, <2>4, ProcessKeepsChain
  <2>6. DOMAIN rctx' = RecvBlock /\ rctx'[b] = d /\ \A u \in RecvBlock \ {b} : rctx'[u] = rctx[u]
    BY <2>1, <2>2, <2>4 DEF PoolInv
  <2>7. pool' \in Nat /\ pool' + d.bufs = pool + rctx[b].bufs /\ rslab' \subseteq RecvBlock
    BY <2>1, <2>2, <2>5 DEF PoolInv
  <2> QED BY <1>1, <2>1, <2>2, <2>5, <2>6, <2>7, BuffersMove
<1>4. CASE RxIgnored
  BY <1>1, <1>4, BuffersStay DEF RxIgnored
<1> QED BY <1>2, <1>3, <1>4 DEF FrameArrives, RFound

\* The application unbinds (isotp_fast_unbind).
LEMMA PoolUnbind ==
  ASSUME PoolInv, ~corrupt', RUnbind
  PROVE  PoolInv'
<1>1. CASE RUnbindStart
  <2>1. HandsOn'
    BY <1>1 DEF RUnbindStart, HandsOn, UnbindPlace, PoolInv
  <2> QED BY <1>1, <2>1, BuffersStay DEF RUnbindStart
<1>2. CASE RUnbindNext
  <2>1. rctx' = rctx \/ \E b \in RecvBlock : rctx' = [rctx EXCEPT ![b].timer = FALSE]
    BY <1>2 DEF RUnbindNext, RListed, PoolInv, HandsOn, UnbindPlace
  <2>2. DOMAIN rctx' = DOMAIN rctx
        /\ \A u \in RecvBlock : rctx'[u] = rctx[u] \/ (Chained(rctx'[u]) /\ rctx'[u].bufs = rctx[u].bufs)
    BY <2>1 DEF PoolInv, Chained
  <2>3. HandsOn'
    BY <1>2 DEF RUnbindNext, RListed, PoolInv, HandsOn, UnbindPlace
  <2> QED BY <1>2, <2>2, <2>3, BuffersStay DEF RUnbindNext
<1>3. CASE RUnbindCancel \/ RUnbindCheck \/ RUnbindCancelAgain
  <2>1. HandsOn' /\ UNCHANGED <<rctx, rslab, pool>>
    BY <1>3 DEF RUnbindCancel, RUnbindCheck, RUnbindCancelAgain, HandsOn, UnbindPlace, PoolInv
  <2> QED BY <2>1, BuffersStay
<1>4. CASE RUnbindFree
  <2>1. runb.blk \in RecvBlock /\ Chained(rctx[runb.blk]) /\ RFree(runb.blk, rctx[runb.blk])
    BY <1>4 DEF RUnbindFree, PoolInv, HandsOn, UnbindPlace
  <2>2. HandsOn'
    BY <1>4 DEF RUnbindFree, PoolInv, HandsOn, UnbindPlace
  <2> QED BY <2>1, <2>2, ChainFreed
<1>5. CASE RUnbindOrphan
  <2>1. HandsOn'
    BY <1>5 DEF RUnbindOrphan, PoolInv, HandsOn, UnbindPlace
  <2>2. DOMAIN rctx' = DOMAIN rctx
        /\ \A u \in RecvBlock : rctx'[u] = rctx[u] \/ (Chained(rctx'[u]) /\ rctx'[u].bufs = rctx[u].bufs)
    BY <1>5 DEF RUnbindOrphan, PoolInv, Chained
  <2> QED BY <1>5, <2>1, <2>2, BuffersStay DEF RUnbindOrphan
<1> QED BY <1>1, <1>2, <1>3, <1>4, <1>5 DEF RUnbind

\* At the start no context has a buffer.
LEMMA PoolInit ==
  ASSUME RecvInit
  PROVE  PoolInv
<1>1. DOMAIN rctx = RecvBlock /\ \A b \in RecvBlock : Chained(rctx[b]) /\ rctx[b].bufs = 0
  BY DEF RecvInit, Chained
<1>2. Held = {}
  BY <1>1 DEF Held, Chains
<1>3. IsFiniteSet(Held) /\ Cardinality(Held) = 0
  BY <1>2, FS_EmptySet
<1>4. pool = PoolSize /\ pool \in Nat /\ rslab = RecvBlock /\ HandsOn
  BY ReceiveAssumption DEF RecvInit, HandsOn, NoRRun, UnbindPlace
<1> QED BY <1>1, <1>3, <1>4 DEF PoolInv

\* Then the pool and the chains make up all buffers.
LEMMA PoolCounted ==
  ASSUME PoolInv
  PROVE  PoolConserved /\ pool \in 0..PoolSize
<1>1. MapThenSumSet(LAMBDA b : rctx[b].bufs, RecvBlock) = Cardinality(Held)
  BY SumIs DEF PoolInv, Chained
<1>2. Cardinality(Held) \in Nat
  BY FS_CardinalityType DEF PoolInv
<1>3. pool \in 0..PoolSize
  BY <1>2, ReceiveAssumption DEF PoolInv
<1>4. PoolConserved
  BY <1>1 DEF PoolConserved, PoolInv
<1> QED BY <1>3, <1>4

\* No buffer of isotp_rx_pool is lost or released twice: each is free, or in the chain of one
\* context (net_buf_alloc, net_buf_frag_add, net_buf_unref), as long as memory is valid.
THEOREM PoolAlwaysConserved == RecvSpec => []PoolConserved
<1> DEFINE I == corrupt \/ PoolInv
<1>1. RecvStart => I
  BY PoolInit DEF RecvStart
<1>2. I /\ [RecvNext]_allRecvVars => I'
  <2> SUFFICES ASSUME I, [RecvNext]_allRecvVars, ~corrupt' PROVE PoolInv'
    OBVIOUS
  <2>1. CASE UNCHANGED allRecvVars
    <3>1. PoolInv
      BY <2>1 DEF allRecvVars
    <3>2. HandsOn' /\ UNCHANGED <<rctx, rslab, pool>>
      BY <2>1, <3>1 DEF allRecvVars, recvVars, PoolInv, HandsOn, UnbindPlace
    <3> QED BY <3>1, <3>2, BuffersStay
  <2>2. CASE RecvNext
    <3>1. PoolInv
      BY <2>2 DEF RecvNext
    <3>2. CASE RUnbind
      BY <3>1, <3>2, PoolUnbind
    <3>3. CASE RecvWorkQueue
      BY <3>1, <3>3, PoolWork, PoolThread DEF RecvWorkQueue
    <3>4. CASE RecvDriver
      BY <3>1, <3>4, PoolFc DEF RecvDriver
    <3>5. CASE Senders
      BY <3>1, <3>5, PoolArrives DEF Senders
    <3>6. CASE \E b \in RecvBlock : RecvTimeout(b)
      BY <3>1, <3>6, PoolTimeout
    <3> QED BY <2>2, <3>2, <3>3, <3>4, <3>5, <3>6 DEF RecvNext
  <2> QED BY <2>1, <2>2
<1>3. I => PoolConserved
  BY PoolCounted DEF PoolConserved
<1> QED BY <1>1, <1>2, <1>3, PTL DEF RecvSpec

-----------------------------------------------------------------------------
(* Types, in any use, as long as memory stays valid.                       *)

\* No context rests in the state get_recv_ctx sets up: the frame that made it is processed at once.
CtxTyped(c) == c \in RecvCtx /\ c.state # "WAIT_FF_SF"
Surroundings ==
  /\ rslab \subseteq RecvBlock /\ rwork \subseteq RecvBlock /\ rrun \in Thread /\ rbound \in BOOLEAN
  /\ rrun.pc # "idle" => rrun.blk \in RecvBlock
  /\ OtherTypes
TypesInv ==
  /\ rctx \in [RecvBlock -> RecvCtx] /\ \A b \in RecvBlock : rctx[b].state # "WAIT_FF_SF"
  /\ Surroundings

\* A field of a context is set.
LEMMA PutTyped ==
  ASSUME NEW c, CtxTyped(c)
  PROVE  /\ \A v \in RxState \ {"WAIT_FF_SF"} : CtxTyped([c EXCEPT !.state = v])
         /\ \A v \in 0..255 : CtxTyped([c EXCEPT !.bs = v]) /\ CtxTyped([c EXCEPT !.wft = v])
         /\ CtxTyped([c EXCEPT !.error = "other"]) /\ CtxTyped([c EXCEPT !.error = "overflow"])
         /\ CtxTyped([c EXCEPT !.timer = TRUE]) /\ CtxTyped([c EXCEPT !.timer = FALSE])
         /\ CtxTyped([c EXCEPT !.pending = c.pending + 1]) /\ CtxTyped([c EXCEPT !.pending = c.pending - 1])
         /\ \A v \in Nat : CtxTyped([c EXCEPT !.bufs = v]) /\ CtxTyped([c EXCEPT !.rem = v])
         /\ \A v \in 0..(SnMod - 1) : CtxTyped([c EXCEPT !.sn = v])
         /\ \A v \in Seq(Chunk) : CtxTyped([c EXCEPT !.data = v])
         /\ CtxTyped([c EXCEPT !.home = "orphanage"]) /\ CtxTyped([c EXCEPT !.list = "orphanage"])
<1>1. c \in RecvCtx /\ c.state # "WAIT_FF_SF"
  BY DEF CtxTyped
<1>2. \A d : Unseen(c, d) => CtxTyped(d)
  BY <1>1 DEF Unseen, CtxTyped
<1>3. c.pending + 1 \in Int /\ c.pending - 1 \in Int
  BY <1>1 DEF RecvCtx
<1>4. \A v \in RxState \ {"WAIT_FF_SF"} : CtxTyped([c EXCEPT !.state = v])
  BY <1>1, PutPhase DEF CtxTyped
<1>5. \A v \in Nat : CtxTyped([c EXCEPT !.rem = v])
  BY <1>1, PutRest DEF CtxTyped
<1>6. \A v \in 0..(SnMod - 1) : CtxTyped([c EXCEPT !.sn = v])
  BY <1>1, PutExpected DEF CtxTyped
<1>7. \A v \in Seq(Chunk) : CtxTyped([c EXCEPT !.data = v])
  BY <1>1, PutChunks DEF CtxTyped
<1>8. /\ \A v \in 0..255 : CtxTyped([c EXCEPT !.bs = v])
      /\ \A v \in 0..255 : CtxTyped([c EXCEPT !.wft = v])
      /\ \A v \in Nat : CtxTyped([c EXCEPT !.bufs = v])
  BY <1>1, <1>2, PutUnseen
<1>9. CtxTyped([c EXCEPT !.error = "other"]) /\ CtxTyped([c EXCEPT !.error = "overflow"])
  BY <1>1, <1>2, PutUnseen
<1>10. CtxTyped([c EXCEPT !.timer = TRUE]) /\ CtxTyped([c EXCEPT !.timer = FALSE])
  BY <1>1, <1>2, PutUnseen
<1>11. CtxTyped([c EXCEPT !.pending = c.pending + 1]) /\ CtxTyped([c EXCEPT !.pending = c.pending - 1])
  BY <1>1, <1>2, <1>3, PutUnseen
<1>12. CtxTyped([c EXCEPT !.home = "orphanage"]) /\ CtxTyped([c EXCEPT !.list = "orphanage"])
  BY <1>1, <1>2, PutUnseen
<1> QED BY <1>4, <1>5, <1>6, <1>7, <1>8, <1>9, <1>10, <1>11, <1>12

\* One context changes.
LEMMA OneTyped ==
  ASSUME TypesInv, NEW b, NEW d, b \in RecvBlock => CtxTyped(d), rctx' = [rctx EXCEPT ![b] = d], Surroundings'
  PROVE  TypesInv'
<1>1. CASE b \in RecvBlock
  BY <1>1 DEF TypesInv, CtxTyped
<1>2. CASE b \notin RecvBlock
  <2>1. rctx' = rctx
    BY <1>2 DEF TypesInv
  <2> QED BY <2>1 DEF TypesInv
<1> QED BY <1>1, <1>2

\* A context is freed.
LEMMA FreeingTyped ==
  ASSUME TypesInv, NEW b \in RecvBlock, NEW c, CtxTyped(c), RFree(b, c),
         rwork' \subseteq RecvBlock, rrun' \in {rrun, NoRRun}, UNCHANGED rbound, OtherTypes'
  PROVE  TypesInv'
<1>1. RFreed(c) \in RecvCtx
  BY RFreedTyped DEF CtxTyped
<1>2. RFreed(c).state = c.state
  BY DEF RFreed, CtxTyped, RecvCtx
<1>3. CtxTyped(RFreed(c))
  BY <1>1, <1>2 DEF CtxTyped
<1> HIDE DEF RFreed
<1>4. Surroundings'
  BY ReceiveAssumption DEF TypesInv, Surroundings, RFree, NoRRun, Thread
<1>5. rctx' = [rctx EXCEPT ![b] = RFreed(c)]
  BY DEF RFree
<1> QED BY <1>3, <1>4, <1>5, OneTyped

\* A fresh context takes a first or single frame.
LEMMA FirstTyped ==
  ASSUME NEW c \in RecvCtx, c.data = <<>>, NEW f, DataFrame(f), f.kind \in {"FF", "SF"}
  PROVE  CtxTyped(ProcessFfSf(c, f))
<1>1. ProcessFfSf(c, f) \in RecvCtx
  BY FirstFrame
<1>2. ProcessFfSf(c, f).state \in {"PROCESS_SF", "PROCESS_FF"}
  BY FirstFrame
<1> QED BY <1>1, <1>2 DEF CtxTyped

\* A context that waits for a consecutive frame takes some frame.
LEMMA NextCfTyped ==
  ASSUME NEW c, CtxTyped(c), NEW f, DataFrame(f)
  PROVE  CtxTyped(ProcessCf(c, f))
<1> DEFINE next == [c EXCEPT !.timer = TRUE, !.sn = (@ + 1) % SnMod]
           got == [next EXCEPT !.rem = IF @ > 0 THEN @ - 1 ELSE 0, !.data = Append(@, <<f.msg, f.idx>>)]
<1>1. \A x : CtxTyped(x) => CtxTyped([x EXCEPT !.state = "ERR", !.error = "other"])
  <2> SUFFICES ASSUME NEW x, CtxTyped(x) PROVE CtxTyped([x EXCEPT !.state = "ERR", !.error = "other"])
    OBVIOUS
  <2> DEFINE y == [x EXCEPT !.state = "ERR"]
  <2>1. [x EXCEPT !.state = "ERR", !.error = "other"] = [y EXCEPT !.error = "other"]
    BY DEF CtxTyped, RecvCtx
  <2>2. CtxTyped(y)
    BY PutTyped DEF RxState
  <2> HIDE DEF y
  <2> QED BY <2>1, <2>2, PutTyped
<1>2. CtxTyped(next)
  <2> DEFINE t == [c EXCEPT !.timer = TRUE]
             sn == (c.sn + 1) % SnMod
  <2>1. next = [t EXCEPT !.sn = sn]
    BY DEF CtxTyped, RecvCtx
  <2>2. CtxTyped(t)
    BY PutTyped
  <2>3. sn \in 0..(SnMod - 1)
    BY CommonAssumption DEF CtxTyped, RecvCtx
  <2> HIDE DEF t, sn, next
  <2> QED BY <2>1, <2>2, <2>3, PutTyped
<1> HIDE DEF next
<1>3. CtxTyped(got)
  <2> DEFINE less == IF next.rem > 0 THEN next.rem - 1 ELSE 0
             data == Append(next.data, <<f.msg, f.idx>>)
             r == [next EXCEPT !.rem = less]
  <2>1. less \in Nat
    BY <1>2 DEF CtxTyped, RecvCtx
  <2>2. data \in Seq(Chunk)
    BY <1>2 DEF CtxTyped, RecvCtx, DataFrame, Chunk
  <2>3. got = [r EXCEPT !.data = data]
    BY <1>2 DEF CtxTyped, RecvCtx
  <2> HIDE DEF less, data, got
  <2>4. CtxTyped(r)
    BY <1>2, <2>1, PutTyped
  <2> HIDE DEF r
  <2> QED BY <2>2, <2>3, <2>4, PutTyped
<1> HIDE DEF got
<1>4. RBs \in 0..255 /\ (RBs = 0 \/ RBs > 0)
  BY ReceiveAssumption
<1>5. Byte(got.bs - 1) \in 0..255
  <2>1. got.bs \in 0..255
    BY <1>3 DEF CtxTyped, RecvCtx
  <2> QED BY <2>1 DEF Byte
<1>6. CtxTyped([got EXCEPT !.state = "RECYCLE"]) /\ CtxTyped([got EXCEPT !.bs = Byte(@ - 1)])
  BY <1>3, <1>5, PutTyped DEF RxState
<1>7. CtxTyped([got EXCEPT !.bs = RBs, !.state = "TRY_ALLOC"])
  <2> DEFINE y == [got EXCEPT !.bs = RBs]
  <2>1. [got EXCEPT !.bs = RBs, !.state = "TRY_ALLOC"] = [y EXCEPT !.state = "TRY_ALLOC"]
    BY <1>3 DEF CtxTyped, RecvCtx
  <2>2. CtxTyped(y)
    BY <1>3, <1>4, PutTyped
  <2> HIDE DEF y
  <2> QED BY <2>1, <2>2, PutTyped DEF RxState
<1> HIDE DEF CtxTyped
<1> QED BY <1>1, <1>2, <1>3, <1>4, <1>6, <1>7 DEF ProcessCf, next, got

\* Flow control for a context is queued (receive_send_fc).
LEMMA SendFcTyped ==
  ASSUME TypesInv, NEW b \in RecvBlock, NEW c, CtxTyped(c), NEW fs \in {"CTS", "WAIT", "OVFLW"},
         NEW pc \in {"ctsSent", "waitSent", "overflowSent"}, SendFc(b, c, fs, pc), ~corrupt',
         rwork' \subseteq RecvBlock, UNCHANGED <<delivered, rbound, runb>>
  PROVE  TypesInv'
<1> DEFINE d == [c EXCEPT !.pending = c.pending + 1] frame == [fs |-> fs, dst |-> c.src, blk |-> b]
<1>1. /\ fcq' = Append(fcq, frame) /\ rctx' = [rctx EXCEPT ![b] = d]
      /\ rrun' = RRunning(pc, b) /\ UNCHANGED <<rslab, pool>>
  BY DEF SendFc, Corrupt
<1>2. CtxTyped(d)
  BY PutTyped
<1> HIDE DEF d
<1>3. frame \in FcFrame
  <2>1. c.src \in Src
    BY DEF CtxTyped, RecvCtx
  <2> QED BY <2>1 DEF FcFrame
<1> HIDE DEF frame
<1>4. fcq' \in Seq(FcFrame)
  <2>1. fcq \in Seq(FcFrame)
    BY DEF TypesInv, Surroundings, OtherTypes
  <2> QED BY <1>1, <1>3, <2>1
<1>5. OtherTypes'
  BY <1>4 DEF TypesInv, Surroundings, OtherTypes
<1>6. rrun' \in Thread /\ rrun'.blk \in RecvBlock
  BY <1>1 DEF RRunning, Thread
<1>7. Surroundings'
  BY <1>1, <1>5, <1>6 DEF TypesInv, Surroundings
<1> QED BY <1>1, <1>2, <1>7, OneTyped

\* The next block is asked for.
LEMMA SendCtsTyped ==
  ASSUME TypesInv, NEW b \in RecvBlock, NEW c, CtxTyped(c), SendCts(b, c), ~corrupt',
         rwork' \subseteq RecvBlock, UNCHANGED <<delivered, rbound, runb>>
  PROVE  TypesInv'
<1> DEFINE x == [c EXCEPT !.timer = FALSE] d == [x EXCEPT !.state = "SEND_FC"]
<1>1. SendFc(b, d, "CTS", "ctsSent")
  BY SMTT(40) DEF SendCts
<1>2. CtxTyped(x)
  BY PutTyped
<1> HIDE DEF x
<1>3. CtxTyped(d)
  BY <1>2, PutTyped DEF RxState
<1> HIDE DEF d
<1> QED BY <1>1, <1>3, SendFcTyped

\* A context in the error state tells the sender or is freed.
LEMMA RecvErrorTyped ==
  ASSUME TypesInv, NEW b \in RecvBlock, NEW c, CtxTyped(c), RecvError(b, c), ~corrupt',
         rwork' \subseteq RecvBlock, UNCHANGED <<delivered, rbound, runb>>
  PROVE  TypesInv'
<1>1. CASE c.error = "overflow"
  <2> DEFINE d == [c EXCEPT !.timer = FALSE]
  <2>1. CtxTyped(d)
    BY PutTyped
  <2>2. SendFc(b, d, "OVFLW", "overflowSent")
    BY <1>1 DEF RecvError
  <2> HIDE DEF d
  <2> QED BY <2>1, <2>2, SendFcTyped
<1>2. CASE c.error # "overflow"
  <2> DEFINE x == [c EXCEPT !.state = "UNBOUND"]
  <2>1. RFree(b, x) /\ rrun' = NoRRun /\ UNCHANGED fcq
    BY <1>2 DEF RecvError
  <2>2. CtxTyped(x)
    BY PutTyped DEF RxState
  <2> HIDE DEF x
  <2>3. OtherTypes'
    BY <2>1 DEF TypesInv, Surroundings, OtherTypes
  <2> QED BY <2>1, <2>2, <2>3, FreeingTyped
<1> QED BY <1>1, <1>2

\* A complete message is passed to recv_callback.
LEMMA DispatchTyped ==
  ASSUME TypesInv, NEW b \in RecvBlock, Dispatch(b), rwork' \subseteq RecvBlock, UNCHANGED <<rbound, runb>>
  PROVE  TypesInv'
<1> DEFINE c == rctx[b] x == [c EXCEPT !.state = "RECYCLE"] d == [x EXCEPT !.rem = 0]
           m == [src |-> c.src, total |-> c.total, data |-> c.data]
           Messages == Seq([src : Src, total : Nat, data : Seq(Chunk)])
<1>1. /\ rctx' = [rctx EXCEPT ![b] = d] /\ rrun' = RRunning("dispatch", b)
      /\ UNCHANGED <<rslab, fcq>>
      /\ delivered' = Append(delivered, m) \/ delivered' = delivered
  <2>1. rctx' = [rctx EXCEPT ![b] = d]
    <3>1. rctx' = [rctx EXCEPT ![b].state = "RECYCLE", ![b].rem = 0]
      BY DEF Dispatch
    <3>2. rctx \in [RecvBlock -> RecvCtx]
      BY DEF TypesInv
    <3> QED BY <3>1, <3>2
  <2> QED BY <2>1 DEF Dispatch
<1>2. CtxTyped(c)
  BY DEF TypesInv, CtxTyped
<1>3. CtxTyped(x)
  BY <1>2, PutTyped DEF RxState
<1> HIDE DEF x
<1>4. CtxTyped(d)
  BY <1>3, PutTyped
<1> HIDE DEF d
<1>5. rrun' \in Thread /\ rrun'.blk \in RecvBlock
  BY <1>1 DEF RRunning, Thread
<1>6. m \in [src : Src, total : Nat, data : Seq(Chunk)]
  BY <1>2 DEF CtxTyped, RecvCtx
<1>7. delivered' \in Messages
  <2>1. delivered \in Messages
    BY DEF TypesInv, Surroundings, OtherTypes
  <2>2. Append(delivered, m) \in Messages
    BY <1>6, <2>1
  <2> HIDE DEF m
  <2> QED BY <1>1, <2>1, <2>2
<1>8. OtherTypes'
  BY <1>1, <1>7 DEF TypesInv, Surroundings, OtherTypes
<1>9. Surroundings'
  BY <1>1, <1>5, <1>8 DEF TypesInv, Surroundings
<1> QED BY <1>1, <1>4, <1>9, OneTyped

\* The work queue thread starts on a context.
LEMMA RecvWorkTyped ==
  ASSUME TypesInv, NEW b \in RecvBlock, RecvWork(b), ~corrupt'
  PROVE  TypesInv'
<1> DEFINE c == rctx[b] waits == Byte(c.wft + 1)
<1>1. /\ CtxTyped(c) /\ rwork' \subseteq RecvBlock /\ UNCHANGED <<rbound, runb>>
  BY DEF TypesInv, Surroundings, CtxTyped, RecvWork
<1>2. waits \in 0..255
  <2>1. c.wft \in 0..255
    BY <1>1 DEF CtxTyped, RecvCtx
  <2> QED BY <2>1 DEF Byte
<1>3. CASE c.state \in {"PROCESS_SF", "RECYCLE"} /\ Dispatch(b)
  BY <1>1, <1>3, DispatchTyped
<1>4. CASE /\ c.state = "PROCESS_FF" /\ UNCHANGED delivered
           /\ SendCts(b, [c EXCEPT !.bs = IF RBs > 0 THEN RBs ELSE c.bs, !.wft = 255])
  <2> DEFINE v == IF RBs > 0 THEN RBs ELSE c.bs x == [c EXCEPT !.bs = v]
             w == 255 d == [x EXCEPT !.wft = w]
  <2>1. v \in 0..255 /\ w \in 0..255
    <3>1. c.bs \in 0..255 /\ RBs \in 0..255
      BY <1>1, ReceiveAssumption, SMTT(40) DEF CtxTyped, RecvCtx
    <3> HIDE DEF c
    <3> QED BY <3>1
  <2>2. SendCts(b, d)
    BY <1>4
  <2> HIDE DEF v, w
  <2>3. CtxTyped(x)
    BY <1>1, <2>1, PutTyped
  <2> HIDE DEF x
  <2>4. CtxTyped(d)
    BY <2>1, <2>3, PutTyped
  <2> HIDE DEF d
  <2> QED BY <1>1, <1>4, <2>2, <2>4, SendCtsTyped
<1>5. CASE /\ c.state = "PROCESS_FF" /\ UNCHANGED delivered
           /\ RecvError(b, [c EXCEPT !.state = "ERR", !.error = "overflow"])
  <2> DEFINE x == [c EXCEPT !.state = "ERR"] d == [x EXCEPT !.error = "overflow"]
  <2>1. RecvError(b, d)
    BY <1>5
  <2>2. CtxTyped(x)
    BY <1>1, PutTyped DEF RxState
  <2> HIDE DEF x
  <2>3. CtxTyped(d)
    BY <2>2, PutTyped
  <2> HIDE DEF d
  <2> QED BY <1>1, <1>5, <2>1, <2>3, RecvErrorTyped
<1>6. CASE c.state \in {"TRY_ALLOC", "SEND_FC"} /\ SendCts(b, c) /\ UNCHANGED delivered
  BY <1>1, <1>6, SendCtsTyped
<1>7. CASE c.state = "SEND_WAIT" /\ SendFc(b, [c EXCEPT !.wft = waits], "WAIT", "waitSent") /\ UNCHANGED delivered
  <2> DEFINE d == [c EXCEPT !.wft = waits]
  <2> HIDE DEF waits
  <2>1. CtxTyped(d)
    BY <1>1, <1>2, PutTyped
  <2>2. SendFc(b, d, "WAIT", "waitSent")
    BY <1>7
  <2> HIDE DEF d
  <2> QED BY <1>1, <1>7, <2>1, <2>2, SendFcTyped
<1>8. CASE /\ c.state = "SEND_WAIT" /\ UNCHANGED delivered
           /\ RecvError(b, [c EXCEPT !.wft = waits, !.state = "ERR", !.error = "overflow"])
  <2> DEFINE y == [c EXCEPT !.wft = waits] x == [y EXCEPT !.state = "ERR"] d == [x EXCEPT !.error = "overflow"]
  <2>1. RecvError(b, d)
    BY <1>8
  <2> HIDE DEF waits
  <2>2. CtxTyped(y)
    BY <1>1, <1>2, PutTyped
  <2> HIDE DEF y
  <2>3. CtxTyped(x)
    BY <2>2, PutTyped DEF RxState
  <2> HIDE DEF x
  <2>4. CtxTyped(d)
    BY <2>3, PutTyped
  <2> HIDE DEF d
  <2> QED BY <1>1, <1>8, <2>1, <2>4, RecvErrorTyped
<1>9. CASE c.state = "ERR" /\ RecvError(b, c) /\ UNCHANGED delivered
  BY <1>1, <1>9, RecvErrorTyped
<1>10. CASE UNCHANGED <<rctx, rslab, fcq, delivered>> /\ rrun' = NoRRun
  <2>1. OtherTypes'
    BY <1>1, <1>10 DEF TypesInv, Surroundings, OtherTypes
  <2> QED BY <1>1, <1>10, <2>1, ReceiveAssumption DEF TypesInv, Surroundings, NoRRun, Thread
<1> QED BY <1>3, <1>4, <1>5, <1>6, <1>7, <1>8, <1>9, <1>10 DEF RecvWork

\* The work queue thread leaves the state machine.
LEMMA LeavesTyped ==
  ASSUME TypesInv, FcQueued \/ RecvEnd
  PROVE  TypesInv'
<1> DEFINE b == rrun.blk
<1>1. /\ b \in RecvBlock /\ CtxTyped(rctx[b]) /\ rrun' = NoRRun
      /\ UNCHANGED <<rwork, fcq, delivered, rbound, runb>> /\ rwork \subseteq RecvBlock
  BY DEF FcQueued, RecvEnd, TypesInv, Surroundings, CtxTyped
<1>2. OtherTypes'
  BY <1>1 DEF TypesInv, Surroundings, OtherTypes
<1>3. CASE FcQueued
  <2> DEFINE st == IF rrun.pc = "ctsSent" THEN "WAIT_CF" ELSE "TRY_ALLOC"
             x == [rctx[b] EXCEPT !.timer = TRUE] d == [x EXCEPT !.state = st]
  <2>1. rctx' = [rctx EXCEPT ![b] = d] /\ UNCHANGED rslab
    BY <1>3 DEF FcQueued, AwaitCf
  <2>2. CtxTyped(x)
    BY <1>1, PutTyped
  <2> HIDE DEF x
  <2>3. st \in RxState \ {"WAIT_FF_SF"}
    BY DEF RxState
  <2> HIDE DEF st
  <2>4. CtxTyped(d)
    BY <2>2, <2>3, PutTyped
  <2> HIDE DEF d
  <2>5. Surroundings'
    BY <1>1, <1>2, <2>1, ReceiveAssumption DEF TypesInv, Surroundings, NoRRun, Thread
  <2> QED BY <1>1, <2>1, <2>4, <2>5, OneTyped
<1>4. CASE RecvEnd
  <2> DEFINE x == [rctx[b] EXCEPT !.state = "UNBOUND"]
  <2>1. RFree(b, x)
    BY <1>4 DEF RecvEnd
  <2>2. CtxTyped(x)
    BY <1>1, PutTyped DEF RxState
  <2> HIDE DEF x, b
  <2> QED BY <1>1, <1>2, <2>1, <2>2, FreeingTyped
<1> QED BY <1>3, <1>4

\* A flow control frame is finished (receive_can_tx).
LEMMA FcDoneTyped ==
  ASSUME TypesInv, NEW ok \in BOOLEAN, FcDone(ok)
  PROVE  TypesInv'
<1> DEFINE b == Head(fcq).blk c == rctx[b]
           c1 == [c EXCEPT !.pending = c.pending - 1] c2 == [c1 EXCEPT !.state = "ERR"]
           c3 == [c2 EXCEPT !.error = "other"]
           d == FcAnswered(c, ok)
<1>1. /\ fcq # <<>> /\ rctx' = [rctx EXCEPT ![b] = d] /\ fcq' = Tail(fcq)
      /\ rwork' = IF ok THEN rwork ELSE rwork \cup {b}
      /\ UNCHANGED <<rslab, rrun, delivered, rbound, runb>>
  BY DEF FcDone
<1>2. b \in RecvBlock /\ fcq' \in Seq(FcFrame)
  <2>1. fcq \in Seq(FcFrame)
    BY DEF TypesInv, Surroundings, OtherTypes
  <2>2. Head(fcq) \in FcFrame /\ Tail(fcq) \in Seq(FcFrame)
    BY <1>1, <2>1
  <2> QED BY <1>1, <2>2 DEF FcFrame
<1>3. OtherTypes'
  BY <1>1, <1>2 DEF TypesInv, Surroundings, OtherTypes
<1>4. Surroundings'
  <2>1. rwork' \subseteq RecvBlock
    BY <1>1, <1>2 DEF TypesInv, Surroundings
  <2> QED BY <1>1, <1>3, <2>1 DEF TypesInv, Surroundings
<1> HIDE DEF b
<1>5. CtxTyped(c)
  BY <1>2 DEF TypesInv, CtxTyped
<1>6. d = IF ok THEN c1 ELSE c3
  BY SMTT(40) DEF FcAnswered
<1>7. CtxTyped(c1)
  BY <1>5, PutTyped
<1> HIDE DEF c1
<1>8. CtxTyped(c2)
  BY <1>7, PutTyped DEF RxState
<1> HIDE DEF c2
<1>9. CtxTyped(c3)
  BY <1>8, PutTyped
<1> HIDE DEF c3, d
<1>10. CtxTyped(d)
  BY <1>6, <1>7, <1>9
<1> QED BY <1>1, <1>4, <1>10, OneTyped

\* A timer expires.
LEMMA RecvTimeoutTyped ==
  ASSUME TypesInv, NEW b \in RecvBlock, RecvTimeout(b)
  PROVE  TypesInv'
<1> DEFINE c == rctx[b]
           e == CASE c.state = "WAIT_CF"   -> [c EXCEPT !.state = "ERR", !.error = "other"]
                  [] c.state = "TRY_ALLOC" -> [c EXCEPT !.state = "SEND_WAIT"]
                  [] OTHER                 -> c
           d == [e EXCEPT !.timer = FALSE]
<1>1. /\ rctx' = [rctx EXCEPT ![b] = d] /\ rwork' = rwork \cup {b}
      /\ UNCHANGED <<rslab, rrun, fcq, delivered, rbound, runb>>
  BY DEF RecvTimeout
<1>2. CtxTyped(c) /\ OtherTypes'
  BY <1>1 DEF TypesInv, Surroundings, OtherTypes, CtxTyped
<1>3. CtxTyped(e)
  <2>1. CASE c.state = "WAIT_CF"
    <3> DEFINE x == [c EXCEPT !.state = "ERR"] y == [x EXCEPT !.error = "other"]
    <3>1. CtxTyped(x)
      BY <1>2, PutTyped DEF RxState
    <3>2. e = y
      BY <2>1
    <3> HIDE DEF x, e
    <3> QED BY <3>1, <3>2, PutTyped
  <2>2. CASE c.state = "TRY_ALLOC"
    <3> DEFINE x == [c EXCEPT !.state = "SEND_WAIT"]
    <3>1. CtxTyped(x)
      BY <1>2, PutTyped DEF RxState
    <3>2. e = x
      BY <2>2
    <3> HIDE DEF x, e
    <3> QED BY <3>1, <3>2
  <2>3. CASE c.state \notin {"WAIT_CF", "TRY_ALLOC"}
    BY <1>2, <2>3
  <2> QED BY <2>1, <2>2, <2>3
<1> HIDE DEF e
<1>4. CtxTyped(d)
  BY <1>3, PutTyped
<1> HIDE DEF d
<1>5. Surroundings'
  <2>1. rwork' \subseteq RecvBlock
    BY <1>1 DEF TypesInv, Surroundings
  <2> QED BY <1>1, <1>2, <2>1 DEF TypesInv, Surroundings
<1> QED BY <1>1, <1>4, <1>5, OneTyped

\* A frame arrives (receive_can_rx).
LEMMA ArrivesTyped ==
  ASSUME TypesInv, NEW s \in Src, NEW f, DataFrame(f), FrameArrives(s, f), ~corrupt'
  PROVE  TypesInv'
<1>1. UNCHANGED <<rrun, fcq, delivered, rbound, runb>>
  BY DEF FrameArrives
<1>2. OtherTypes'
  BY <1>1 DEF TypesInv, Surroundings, OtherTypes
<1>3. ASSUME NEW b \in RecvBlock, RxExisting(b, f) PROVE TypesInv'
  <2> DEFINE n == rctx[b].bufs + 1 c == [rctx[b] EXCEPT !.bufs = n]
             after == IF c.state = "WAIT_CF" THEN ProcessCf(c, f)
                      ELSE IF c.state = "WAIT_FF_SF" THEN ProcessFfSf(c, f) ELSE c
  <2>1. CtxTyped(rctx[b]) /\ rwork \subseteq RecvBlock
    BY DEF TypesInv, CtxTyped, Surroundings
  <2>2. CASE RFree(b, rctx[b]) /\ UNCHANGED rwork
    BY <1>1, <1>2, <2>1, <2>2, FreeingTyped
  <2>3. CASE rctx' = [rctx EXCEPT ![b] = after] /\ UNCHANGED rslab /\ rwork' \subseteq RecvBlock
    <3>1. n \in Nat
      BY <2>1 DEF CtxTyped, RecvCtx
    <3> HIDE DEF n
    <3>2. CtxTyped(c)
      BY <2>1, <3>1, PutTyped
    <3> HIDE DEF c
    <3>3. CtxTyped(after)
      <4>1. c.state # "WAIT_FF_SF"
        BY <3>2 DEF CtxTyped
      <4>2. after \in {ProcessCf(c, f), c}
        BY <4>1
      <4>3. CtxTyped(ProcessCf(c, f))
        BY <3>2, NextCfTyped
      <4> HIDE DEF after
      <4> QED BY <3>2, <4>2, <4>3
    <3> HIDE DEF after
    <3>4. Surroundings'
      BY <1>1, <1>2, <2>3 DEF TypesInv, Surroundings
    <3> QED BY <2>3, <3>3, <3>4, OneTyped
  <2>4. \/ RFree(b, rctx[b]) /\ UNCHANGED rwork
        \/ /\ rctx' = [rctx EXCEPT ![b] = after] /\ UNCHANGED rslab
           /\ rwork' = rwork \cup {b} \/ UNCHANGED rwork
    BY <1>3, SMTT(40) DEF RxExisting
  <2> HIDE DEF after
  <2>5. \/ RFree(b, rctx[b]) /\ UNCHANGED rwork
        \/ rctx' = [rctx EXCEPT ![b] = after] /\ UNCHANGED rslab /\ rwork' \subseteq RecvBlock
    BY <2>1, <2>4
  <2> QED BY <2>2, <2>3, <2>5
<1>4. CASE RxNew(s, f)
  <2>1. PICK b \in rslab : /\ rctx' = [rctx EXCEPT ![b] = ProcessFfSf(NewRecvCtx(b, s), f)]
                           /\ rslab' = rslab \ {b} /\ rwork' = rwork \cup {b} /\ f.kind \in {"FF", "SF"}
    BY <1>4 DEF RxNew
  <2>2. b \in RecvBlock /\ rctx[b] \in RecvCtx
    BY DEF TypesInv, Surroundings
  <2> DEFINE d == ProcessFfSf(NewRecvCtx(b, s), f)
  <2>3. NewRecvCtx(b, s) \in RecvCtx /\ NewRecvCtx(b, s).data = <<>>
    BY <2>2, NewTyped
  <2>4. CtxTyped(d)
    BY <2>1, <2>3, FirstTyped
  <2>5. rctx' = [rctx EXCEPT ![b] = d]
    BY <2>1
  <2> HIDE DEF d
  <2>6. Surroundings'
    BY <1>1, <1>2, <2>1, <2>2 DEF TypesInv, Surroundings
  <2> QED BY <2>4, <2>5, <2>6, OneTyped
<1>5. CASE RxIgnored
  BY <1>1, <1>2, <1>5 DEF RxIgnored, TypesInv, Surroundings
<1> QED BY <1>3, <1>4, <1>5 DEF FrameArrives, RFound

\* isotp_fast_unbind, step by step.
LEMMA RUnbindTyped ==
  ASSUME TypesInv, RUnbind
  PROVE  TypesInv'
<1> DEFINE Pcs == {"off", "head", "next", "cancel", "check", "again", "free", "orphan", "done"}
           Blocks == RecvBlock \cup {NoBlock}
<1>1. /\ runb \in [pc : Pcs, blk : Blocks, nxt : Blocks] /\ rwork \subseteq RecvBlock
      /\ \A b \in RecvBlock : CtxTyped(rctx[b])
      /\ rctx \in [RecvBlock -> RecvCtx]
  BY DEF TypesInv, Surroundings, OtherTypes, CtxTyped
<1>2. CASE RUnbindStart \/ RUnbindCancel \/ RUnbindCheck \/ RUnbindCancelAgain
  <2>1. /\ UNCHANGED <<rctx, rslab, rrun, fcq, delivered>> /\ rbound' \in {rbound, FALSE}
        /\ rwork' \subseteq rwork
    BY <1>2 DEF RUnbindStart, RUnbindCancel, RUnbindCheck, RUnbindCancelAgain
  <2>2. PICK q \in Pcs : /\ runb' = [runb EXCEPT !.pc = q]
                         /\ q = "head" \/ runb.pc \in {"cancel", "check", "again"}
    BY <1>2 DEF RUnbindStart, RUnbindCancel, RUnbindCheck, RUnbindCancelAgain
  <2>3. OtherTypes'
    BY <1>1, <2>1, <2>2 DEF TypesInv, Surroundings, OtherTypes
  <2> QED BY <2>1, <2>3 DEF TypesInv, Surroundings
<1>3. CASE RUnbindNext
  <2>1. UNCHANGED <<rslab, rwork, rrun, fcq, delivered, rbound>>
    BY <1>3 DEF RUnbindNext
  <2>2. \/ runb' = [pc |-> "done", blk |-> NoBlock, nxt |-> NoBlock] /\ UNCHANGED rctx
        \/ \E b \in RecvBlock, n \in Blocks :
               /\ rctx' = [rctx EXCEPT ![b].timer = FALSE]
               /\ runb' = [pc |-> "cancel", blk |-> b, nxt |-> n]
    <3> DEFINE left == IF runb.pc = "head" THEN RListed ELSE {runb.nxt} \ {NoBlock}
    <3>1. left \subseteq RecvBlock
      BY <1>1 DEF RListed
    <3>2. RListed \subseteq RecvBlock
      BY DEF RListed
    <3>3. \/ \E b \in left : \E n \in (RListed \ {b}) \cup {NoBlock} :
               /\ rctx' = [rctx EXCEPT ![b].timer = FALSE]
               /\ runb' = [pc |-> "cancel", blk |-> b, nxt |-> n]
          \/ runb' = [pc |-> "done", blk |-> NoBlock, nxt |-> NoBlock] /\ UNCHANGED rctx
      BY <1>3 DEF RUnbindNext
    <3> HIDE DEF left
    <3> QED BY <3>1, <3>2, <3>3
  <2>3. CASE runb' = [pc |-> "done", blk |-> NoBlock, nxt |-> NoBlock] /\ UNCHANGED rctx
    <3>1. OtherTypes'
      BY <2>1, <2>3 DEF TypesInv, Surroundings, OtherTypes
    <3> QED BY <2>1, <2>3, <3>1 DEF TypesInv, Surroundings
  <2>4. ASSUME NEW b \in RecvBlock, NEW n \in Blocks, rctx' = [rctx EXCEPT ![b].timer = FALSE],
               runb' = [pc |-> "cancel", blk |-> b, nxt |-> n]
        PROVE  TypesInv'
    <3> DEFINE d == [rctx[b] EXCEPT !.timer = FALSE]
    <3>1. CtxTyped(d)
      BY <1>1, PutTyped
    <3>2. rctx' = [rctx EXCEPT ![b] = d]
      BY <2>4
    <3> HIDE DEF d
    <3>3. OtherTypes'
      BY <2>1, <2>4 DEF TypesInv, Surroundings, OtherTypes
    <3>4. Surroundings'
      BY <2>1, <3>3 DEF TypesInv, Surroundings
    <3> QED BY <3>1, <3>2, <3>4, OneTyped
  <2> QED BY <2>2, <2>3, <2>4
<1>4. CASE RUnbindFree
  <2> DEFINE b == runb.blk
  <2>1. /\ RFree(b, rctx[b]) /\ UNCHANGED <<rwork, rrun, fcq, delivered, rbound>>
        /\ runb' = [runb EXCEPT !.pc = "next", !.blk = NoBlock]
    BY <1>4 DEF RUnbindFree
  <2>2. b \in RecvBlock
    BY <1>4 DEF RUnbindFree, TypesInv, Surroundings, OtherTypes
  <2>3. OtherTypes'
    BY <1>1, <2>1 DEF TypesInv, Surroundings, OtherTypes
  <2> HIDE DEF b
  <2> QED BY <1>1, <2>1, <2>2, <2>3, FreeingTyped
<1>5. CASE RUnbindOrphan
  <2> DEFINE b == runb.blk
             x == [rctx[b] EXCEPT !.state = "UNBOUND"]
             y == [x EXCEPT !.home = "orphanage"] d == [y EXCEPT !.list = "orphanage"]
  <2>1. b \in RecvBlock
    BY <1>5 DEF RUnbindOrphan, TypesInv, Surroundings, OtherTypes
  <2>2. /\ runb' = [runb EXCEPT !.pc = "next", !.blk = NoBlock]
        /\ UNCHANGED <<rslab, rwork, rrun, fcq, delivered, rbound>>
    BY <1>5 DEF RUnbindOrphan
  <2>3. rctx' = [rctx EXCEPT ![b] = d]
    <3>1. rctx' = [rctx EXCEPT ![b].state = "UNBOUND", ![b].home = "orphanage", ![b].list = "orphanage"]
      BY <1>5 DEF RUnbindOrphan
    <3> HIDE DEF b
    <3> QED BY <1>1, <2>1, <3>1
  <2>4. OtherTypes'
    BY <1>1, <2>2 DEF TypesInv, Surroundings, OtherTypes
  <2>5. Surroundings'
    BY <2>2, <2>4 DEF TypesInv, Surroundings
  <2> HIDE DEF b
  <2>6. CtxTyped(x)
    BY <1>1, <2>1, PutTyped DEF RxState
  <2> HIDE DEF x
  <2>7. CtxTyped(y)
    BY <2>6, PutTyped
  <2> HIDE DEF y
  <2>8. CtxTyped(d)
    BY <2>7, PutTyped
  <2>9. rctx' = [rctx EXCEPT ![b] = d]
    BY <2>3 DEF x, y
  <2> HIDE DEF d
  <2> QED BY <2>5, <2>8, <2>9, OneTyped
<1> QED BY <1>2, <1>3, <1>4, <1>5 DEF RUnbind

\* At the start.
LEMMA TypesInit ==
  ASSUME RecvStart
  PROVE  TypesInv
<1>1. rctx \in [RecvBlock -> RecvCtx] /\ OtherTypes /\ rrun \in Thread
  BY InvInit DEF Inv, Types
<1>2. /\ rslab = RecvBlock /\ rwork = {} /\ rrun = NoRRun /\ rbound = TRUE
      /\ \A b \in RecvBlock : rctx[b].state = "UNBOUND"
  BY DEF RecvStart, RecvInit
<1> QED BY <1>1, <1>2 DEF TypesInv, Surroundings, NoRRun

\* The receiver's state has its types in any use, frames of any message from any sender and
\* isotp_fast_unbind at any time, as long as memory stays valid; so does the pool's count.
THEOREM RecvTypesHold == RecvSpec => [](MemorySafe => RecvTypeOK)
<1> DEFINE I == corrupt \/ (TypesInv /\ PoolInv)
<1>1. RecvStart => I
  BY PoolInit, TypesInit DEF RecvStart
<1>2. I /\ [RecvNext]_allRecvVars => I'
  <2> SUFFICES ASSUME I, [RecvNext]_allRecvVars, ~corrupt' PROVE TypesInv' /\ PoolInv'
    OBVIOUS
  <2>1. CASE UNCHANGED allRecvVars
    <3>1. TypesInv /\ PoolInv
      BY <2>1 DEF allRecvVars
    <3>2. HandsOn' /\ UNCHANGED <<rctx, rslab, pool>>
      BY <2>1, <3>1 DEF allRecvVars, recvVars, PoolInv, HandsOn, UnbindPlace
    <3>3. TypesInv'
      BY <2>1, <3>1 DEF allRecvVars, recvVars, TypesInv, Surroundings, OtherTypes
    <3> QED BY <3>1, <3>2, <3>3, BuffersStay
  <2>2. CASE RecvNext
    <3>1. TypesInv /\ PoolInv
      BY <2>2 DEF RecvNext
    <3>2. CASE RUnbind
      BY <3>1, <3>2, PoolUnbind, RUnbindTyped
    <3>3. CASE RecvWorkQueue
      <4>1. PoolInv'
        BY <3>1, <3>3, PoolWork, PoolThread DEF RecvWorkQueue
      <4>2. TypesInv'
        BY <3>1, <3>3, RecvWorkTyped, LeavesTyped DEF RecvWorkQueue
      <4> QED BY <4>1, <4>2
    <3>4. CASE RecvDriver
      <4>1. PoolInv'
        BY <3>1, <3>4, PoolFc DEF RecvDriver
      <4>2. TypesInv'
        BY <3>1, <3>4, FcDoneTyped DEF RecvDriver
      <4> QED BY <4>1, <4>2
    <3>5. CASE Senders
      <4>1. PoolInv'
        BY <3>1, <3>5, PoolArrives DEF Senders
      <4>2. TypesInv'
        BY <3>1, <3>5, FrameIs, ArrivesTyped DEF Senders
      <4> QED BY <4>1, <4>2
    <3>6. CASE \E b \in RecvBlock : RecvTimeout(b)
      BY <3>1, <3>6, PoolTimeout, RecvTimeoutTyped
    <3> QED BY <2>2, <3>2, <3>3, <3>4, <3>5, <3>6 DEF RecvNext
  <2> QED BY <2>1, <2>2
<1>3. I => (MemorySafe => RecvTypeOK)
  BY PoolCounted DEF MemorySafe, RecvTypeOK, TypesInv, Surroundings, OtherTypes, Thread
<1> QED BY <1>1, <1>2, <1>3, PTL DEF RecvSpec

\* With block sizes, senders that wait for flow control, timers that are long, and as long as
\* there is a buffer for every frame that interrupts the work queue, whatever fails on the
\* bus: no callback, timer or work item follows a pointer to a freed context, a context is
\* freed only while pending_cb is zero (free_recv_ctx), freeing leaves no running timer and
\* no queued work item behind, a listed context always has something that will run its
\* state machine again, no buffer is lost, and all state has its types.
THEOREM ContextsAlwaysSound ==
  Polite => (RecvSpec /\ [](~RecvPreempted \/ pool > 0)
               => [](MemorySafe /\ RecvTypeOK /\ PoolConserved /\ NothingPointsToFreed /\ RNeverForgotten)
                  /\ [][RFreesOnlyIdle]_allRecvVars)
<1> SUFFICES ASSUME Polite
             PROVE  RecvSpec /\ [](~RecvPreempted \/ pool > 0)
                      => [](MemorySafe /\ RecvTypeOK /\ PoolConserved /\ NothingPointsToFreed /\ RNeverForgotten)
                         /\ [][RFreesOnlyIdle]_allRecvVars
  OBVIOUS
<1>1. RecvStart => ContextsInv
  BY SoundInit
<1>2. ContextsInv /\ (~RecvPreempted \/ pool > 0) /\ [RecvNext]_allRecvVars
        => ContextsInv' /\ [RFreesOnlyIdle]_allRecvVars
  BY SoundNext
<1>3. ContextsInv => MemorySafe /\ NothingPointsToFreed /\ RNeverForgotten
  BY SoundContexts
<1> QED BY <1>1, <1>2, <1>3, PoolAlwaysConserved, RecvTypesHold, PTL DEF RecvSpec

=============================================================================
