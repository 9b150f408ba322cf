------------------------ MODULE ReportStreamProofs ------------------------
(***************************************************************************)
(* Proofs about reports and the frames a publisher makes of them, for any  *)
(* size of frames and headers, any widths of items, and any losses and     *)
(* failed sends: how far the encoder stays within its buffer and frames    *)
(* within their size, and that a frame can be told from one of the next    *)
(* report by its number (FramesAlwaysSound); a report without wide items   *)
(* all of whose frames arrive is read as it was published                  *)
(* (ReportsAlwaysRead); and on CAN without losses reports are read once    *)
(* and in order (ReportsOnceInOrder).                                      *)
(***************************************************************************)
EXTENDS ReportStream, WellFoundedInduction, TLAPS

Types ==
  /\ setup \in Setups
  /\ started \in [Sender -> Seq(Reports)] /\ published \in [Sender -> Seq(Nat)]
  /\ number \in [Sender -> 0..3] /\ enc \in [Sender -> Encoder \cup {None}]
  /\ wire \in [Sender -> Seq(Frames)]
  /\ losses \in 0..setup.losses /\ fails \in 0..setup.fails
  /\ \A s \in Sender : Len(started[s]) <= setup.count

\* The encoder of a report that is being published: it has sent what did not fit into one
\* frame, and what is left ends where zcbor was told to end, within two frames if no item
\* is wide.
EncodingFor(s) ==
  enc[s] # None =>
    /\ Len(started[s]) > 0
    /\ setup.header + Len(enc[s].pend) <= enc[s].end
    /\ enc[s].end <= Limit + setup.header
    /\ enc[s].exported = 0 => enc[s].end = Limit
    /\ enc[s].item >= 1
    /\ ~Wide(s, Len(started[s])) => Len(enc[s].pend) <= 2 * DataSize
Encoding == \A s \in Sender : EncodingFor(s)

\* The frames of a sender on their way, and the numbers of the reports it has published.
OnWire(s) == {wire[s][i] : i \in DOMAIN wire[s]}
Done(s) == {published[s][k] : k \in DOMAIN published[s]}
ShortFrom(s) == \A f \in OnWire(s) : FrameFits(s, f)
Short == \A s \in Sender : ShortFrom(s)

\* Numbers count the reports that were published.  The frames of the latest report have the
\* current number while it is published, and the one before afterwards.
Latest(s) == Len(started[s])
Before(s) == IF enc[s] = None THEN Latest(s) ELSE Latest(s) - 1
NumberedFrom(s) ==
  /\ \A f \in OnWire(s) : f.rep \in 1..Latest(s)
  /\ Done(s) \subseteq 1..Before(s)
  /\ enc[s] # None => \A f \in OnWire(s) : f.rep = Latest(s) => f.number = number[s]
  /\ \A f \in OnWire(s) : f.rep = Before(s) /\ f.rep \in Done(s) => number[s] = NextNumber(f.number)
  /\ \A f, g \in OnWire(s) : g.rep = f.rep + 1 /\ f.rep \in Done(s) => f.number # g.number
Numbered == \A s \in Sender : NumberedFrom(s)

Inv == Types /\ Encoding /\ Short /\ Numbered

-----------------------------------------------------------------------------
(* Numbers and sequences.                                                  *)

\* The sizes of the network looked at.
LEMMA Sizes ==
  Types => /\ setup.size \in Nat /\ setup.header \in Nat /\ DataSize \in Nat \ {0}
           /\ Limit = 2 * DataSize + 2 * setup.header
<1> SUFFICES ASSUME Types PROVE /\ setup.size \in Nat /\ setup.header \in Nat /\ DataSize \in Nat \ {0}
                                /\ Limit = 2 * DataSize + 2 * setup.header
  OBVIOUS
<1>1. setup \in Setups
  BY DEF Types
<1>2. setup.size \in Nat /\ setup.header \in Nat
  BY <1>1, StreamAssumption
<1>3. setup.header < setup.size
  BY <1>1, StreamAssumption
<1> QED BY <1>2, <1>3 DEF DataSize, Limit, Size

\* How much too far the encoder may go with a report: by a header, if it has a wide item.
LEMMA BeyondIs ==
  ASSUME Types, NEW s, NEW r
  PROVE  /\ Beyond(s, r) \in Nat
         /\ Wide(s, r) => Beyond(s, r) = setup.header
         /\ ~Wide(s, r) => Beyond(s, r) = 0
         /\ setup.header = 0 => ~Wide(s, r)
<1>1. setup.header \in Nat
  BY Sizes
<1>2. setup.header = 0 => ~Wide(s, r)
  BY <1>1 DEF Wide
<1> QED BY <1>1, <1>2 DEF Beyond

\* Report numbers have two bits: that of the next report is another one.
LEMMA NextNumberIs ==
  ASSUME NEW n \in 0..3 PROVE NextNumber(n) \in 0..3 /\ NextNumber(n) # n
<1>1. n = 0 \/ n = 1 \/ n = 2 \/ n = 3
  OBVIOUS
<1> QED BY <1>1 DEF NextNumber

\* What is appended to a queue of frames is one more of them.
LEMMA Appended ==
  ASSUME NEW S, NEW s \in Seq(S), NEW t \in Seq(S)
  PROVE  /\ s \o t \in Seq(S)
         /\ \A e \in {(s \o t)[i] : i \in DOMAIN (s \o t)} :
              (\E i \in DOMAIN s : e = s[i]) \/ (\E i \in DOMAIN t : e = t[i])
<1> DEFINE u == s \o t
<1>1. /\ u \in Seq(S) /\ DOMAIN u = 1..Len(s) + Len(t) /\ DOMAIN s = 1..Len(s) /\ DOMAIN t = 1..Len(t)
      /\ Len(s) \in Nat /\ Len(t) \in Nat
      /\ \A i \in DOMAIN u : u[i] = IF i <= Len(s) THEN s[i] ELSE t[i - Len(s)]
  OBVIOUS
<1> HIDE DEF u
<1>2. ASSUME NEW i \in DOMAIN u
      PROVE  (\E j \in DOMAIN s : u[i] = s[j]) \/ (\E j \in DOMAIN t : u[i] = t[j])
  <2>1. CASE i <= Len(s)
    BY <1>1, <2>1
  <2>2. CASE i > Len(s)
    <3>1. i - Len(s) \in DOMAIN t /\ u[i] = t[i - Len(s)]
      BY <1>1, <2>2
    <3> QED BY <3>1
  <2> QED BY <1>1, <2>1, <2>2
<1> QED BY <1>1, <1>2 DEF u

\* A queue that loses its first frame, or whose first two change places, has no other ones.
LEMMA Fewer ==
  ASSUME NEW S, NEW s \in Seq(S), s # <<>>,
         NEW t, t = Tail(s) \/ (Len(s) > 1 /\ t = <<s[2], s[1]>> \o SubSeq(s, 3, Len(s)))
  PROVE  t \in Seq(S) /\ {t[i] : i \in DOMAIN t} \subseteq {s[i] : i \in DOMAIN s}
<1>1. CASE t = Tail(s)
  <2>1. t \in Seq(S) /\ DOMAIN t = 1..Len(s) - 1 /\ \A i \in 1..Len(s) - 1 : t[i] = s[i + 1]
    BY <1>1
  <2>2. \A i \in 1..Len(s) - 1 : i + 1 \in DOMAIN s
    OBVIOUS
  <2> QED BY <2>1, <2>2
<1>2. CASE Len(s) > 1 /\ t = <<s[2], s[1]>> \o SubSeq(s, 3, Len(s))
  <2> DEFINE a == <<s[2], s[1]>> b == SubSeq(s, 3, Len(s))
  <2>1. 1 \in DOMAIN s /\ 2 \in DOMAIN s /\ Len(s) \in Nat
    BY <1>2
  <2>2. a \in Seq(S)
    BY <2>1
  <2>3. b \in Seq(S) /\ DOMAIN b = 1..Len(b) /\ \A i \in DOMAIN b : b[i] = s[i + 2] /\ i + 2 \in DOMAIN s
    BY <1>2
  <2>4. DOMAIN a = 1..2 /\ a[1] = s[2] /\ a[2] = s[1]
    OBVIOUS
  <2>5. \A i \in DOMAIN a : i = 1 \/ i = 2
    BY <2>4
  <2> HIDE DEF a, b
  <2>6. t = a \o b
    BY <1>2 DEF a, b
  <2>7. /\ t \in Seq(S)
        /\ \A e \in {t[i] : i \in DOMAIN t} :
             (\E i \in DOMAIN a : e = a[i]) \/ (\E i \in DOMAIN b : e = b[i])
    BY <2>2, <2>3, <2>6, Appended
  <2>8. \A i \in DOMAIN a : a[i] \in {s[j] : j \in DOMAIN s}
    BY <2>1, <2>4, <2>5
  <2>9. \A i \in DOMAIN b : b[i] \in {s[j] : j \in DOMAIN s}
    BY <2>3
  <2> QED BY <2>7, <2>8, <2>9
<1> QED BY <1>1, <1>2

-----------------------------------------------------------------------------
(* The initial states, and the steps that leave the publishers alone.      *)

\* Nothing is begun or under way at first.
LEMMA InvInit == Init => Inv
<1> SUFFICES ASSUME Init PROVE Inv
  OBVIOUS
<1> USE DEF Init
<1>1. \A s \in Sender : enc[s] = None /\ wire[s] = <<>> /\ published[s] = <<>> /\ Len(started[s]) = 0
  OBVIOUS
<1>2. Types
  <2>1. setup.losses \in Nat /\ setup.fails \in Nat /\ setup.count \in Nat
    BY StreamAssumption
  <2> QED BY <1>1, <2>1 DEF Types
<1>3. Encoding
  BY <1>1 DEF Encoding, EncodingFor
<1>4. \A s \in Sender : OnWire(s) = {} /\ Done(s) = {}
  BY <1>1 DEF OnWire, Done
<1>5. Short /\ Numbered
  BY <1>1, <1>4 DEF Short, ShortFrom, Numbered, NumberedFrom
<1> QED BY <1>2, <1>3, <1>5 DEF Inv

\* A step that only takes frames off the queues, or changes their order, keeps the invariant.
LEMMA OnlyTakes ==
  ASSUME Inv, UNCHANGED <<setup, started, published, enc, number>>,
         wire' \in [Sender -> Seq(Frames)], \A s \in Sender : OnWire(s)' \subseteq OnWire(s),
         losses' \in 0..setup.losses, fails' \in 0..setup.fails
  PROVE  Inv'
<1>1. Types'
  BY DEF Inv, Types
<1>2. Encoding'
  BY DEF Inv, Encoding, EncodingFor, DataSize, Limit, Size, Wide
<1>3. Short'
  <2>1. ASSUME NEW s \in Sender, NEW f \in OnWire(s)' PROVE FrameFits(s, f)'
    <3>1. FrameFits(s, f)
      BY DEF Inv, Short, ShortFrom
    <3> QED BY <3>1 DEF FrameFits, Beyond, Wide, DataSize
  <2> QED BY <2>1 DEF Short, ShortFrom
<1>4. ASSUME NEW s \in Sender PROVE NumberedFrom(s)'
  <2>1. NumberedFrom(s)
    BY DEF Inv, Numbered
  <2>2. Done(s)' = Done(s) /\ Latest(s)' = Latest(s) /\ Before(s)' = Before(s)
    BY DEF Done, Latest, Before
  <2> QED BY <2>1, <2>2 DEF NumberedFrom
<1> QED BY <1>1, <1>2, <1>3, <1>4 DEF Inv, Numbered

\* A frame is lost, or overtaken by the next.
LEMMA NetworkKeeps ==
  ASSUME Inv, UNCHANGED setup, NEW s \in Sender, Lose(s) \/ Overtake(s)
  PROVE  Inv'
<1>1. wire \in [Sender -> Seq(Frames)] /\ wire[s] # <<>> /\ setup.losses \in Nat /\ losses \in Nat
      /\ fails \in 0..setup.fails
  BY StreamAssumption DEF Inv, Types, Lose, Overtake
<1>2. PICK t : /\ wire' = [wire EXCEPT ![s] = t]
               /\ t = Tail(wire[s]) \/ (Len(wire[s]) > 1 /\ t = <<wire[s][2], wire[s][1]>> \o SubSeq(wire[s], 3, Len(wire[s])))
  BY DEF Lose, Overtake
<1>3. t \in Seq(Frames) /\ {t[i] : i \in DOMAIN t} \subseteq OnWire(s)
  <2> DEFINE q == wire[s]
  <2>1. q \in Seq(Frames) /\ q # <<>>
    BY <1>1
  <2>2. t = Tail(q) \/ (Len(q) > 1 /\ t = <<q[2], q[1]>> \o SubSeq(q, 3, Len(q)))
    BY <1>2
  <2> HIDE DEF q
  <2>3. t \in Seq(Frames) /\ {t[i] : i \in DOMAIN t} \subseteq {q[i] : i \in DOMAIN q}
    BY ONLY <2>1, <2>2, Fewer
  <2> QED BY <2>3 DEF q, OnWire
<1>4. wire' \in [Sender -> Seq(Frames)] /\ \A u \in Sender : OnWire(u)' \subseteq OnWire(u)
  <2>1. wire' \in [Sender -> Seq(Frames)]
    BY <1>1, <1>2, <1>3
  <2>2. ASSUME NEW u \in Sender PROVE OnWire(u)' \subseteq OnWire(u)
    <3>1. CASE u = s
      <4>1. wire'[u] = t
        BY <1>1, <1>2, <3>1
      <4> QED BY <1>3, <3>1, <4>1 DEF OnWire
    <3>2. CASE u # s
      <4>1. wire'[u] = wire[u]
        BY <1>1, <1>2, <3>2
      <4> QED BY <4>1 DEF OnWire
    <3> QED BY <3>1, <3>2
  <2> QED BY <2>1, <2>2
<1>5. losses' \in 0..setup.losses /\ fails' \in 0..setup.fails
  BY <1>1 DEF Lose, Overtake
<1> QED BY <1>4, <1>5, OnlyTakes DEF Lose, Overtake

\* A subscriber takes a frame, or reads what it has.
LEMMA SubscriberKeeps ==
  ASSUME Inv, UNCHANGED setup, NEW s \in Sender, Handle(s) \/ ReadItem(s) \/ StopsReading(s)
  PROVE  Inv'
<1>1. /\ wire \in [Sender -> Seq(Frames)] /\ losses \in 0..setup.losses /\ fails \in 0..setup.fails
      /\ UNCHANGED <<started, published, enc, number, losses, fails>>
  BY DEF Inv, Types, Handle, ReadItem, StopsReading
<1>2. wire' \in [Sender -> Seq(Frames)] /\ \A u \in Sender : OnWire(u)' \subseteq OnWire(u)
  <2>1. CASE Handle(s)
    <3>1. wire[s] # <<>> /\ wire' = [wire EXCEPT ![s] = Tail(wire[s])]
      BY <2>1 DEF Handle
    <3>2. Tail(wire[s]) \in Seq(Frames)
          /\ {Tail(wire[s])[i] : i \in DOMAIN Tail(wire[s])} \subseteq OnWire(s)
      BY <1>1, <3>1, Fewer DEF OnWire
    <3> QED BY <1>1, <3>1, <3>2 DEF OnWire
  <2>2. CASE ReadItem(s) \/ StopsReading(s)
    BY <1>1, <2>2 DEF ReadItem, StopsReading, OnWire
  <2> QED BY <2>1, <2>2
<1> QED BY <1>1, <1>2, OnlyTakes
-----------------------------------------------------------------------------
(* What the encoder sends and keeps.                                       *)

\* The encoder after writeIfNecessary.
Sent(e) == IF Overfull(e) THEN Shifted(e) ELSE e

\* After writeIfNecessary no more than a frame is left in the buffer, or a header more when
\* there was more than two frames in it.
LEMMA SentFits ==
  ASSUME Types, NEW e \in Encoder, setup.header + Len(e.pend) <= Limit, e.end <= Limit + setup.header,
         e.exported = 0 => e.end = Limit
  PROVE  /\ Sent(e) \in Encoder /\ Sent(e).item = e.item
         /\ Len(Sent(e).pend) <= DataSize + setup.header /\ Sent(e).end <= Limit + setup.header
         /\ Sent(e).exported = 0 => Sent(e).end = Limit /\ Len(Sent(e).pend) <= DataSize
         /\ Len(e.pend) <= 2 * DataSize => Len(Sent(e).pend) <= DataSize
<1>0. DataSize \in Nat \ {0} /\ setup.header \in Nat /\ Limit = 2 * DataSize + 2 * setup.header
  BY Sizes
<1>1. DataSize \in Nat \ {0} /\ Limit \in Nat /\ setup.header \in Nat /\ Limit + setup.header \in Nat
  BY <1>0
<1>2. /\ e.pend \in Seq(Bytes) /\ e.exported \in Nat /\ e.end \in Nat /\ e.item \in Nat /\ e.seq \in 0..15
      /\ Len(e.pend) \in Nat
  BY DEF Encoder
<1>3. CASE ~Overfull(e)
  <2>1. Sent(e) = e /\ Len(e.pend) <= DataSize
    BY <1>1, <1>2, <1>3 DEF Sent, Overfull
  <2>2. Len(e.pend) <= DataSize + setup.header
    BY <1>1, <1>2, <2>1
  <2> QED BY <2>1, <2>2
<1>4. CASE Overfull(e)
  <2> DEFINE p == SubSeq(e.pend, DataSize + 1, Len(e.pend))
  <2>1. p \in Seq(Bytes) /\ Len(p) = Len(e.pend) - DataSize
    BY <1>1, <1>2, <1>4 DEF Overfull
  <2>2. e.exported + DataSize \in Nat \ {0} /\ (e.seq + 1) % 16 \in 0..15
    <3>1. e.exported + DataSize \in Nat \ {0}
      BY <1>1, <1>2
    <3>2. e.seq + 1 \in Nat
      BY <1>2, SMTT(40)
    <3>3. \A n \in Nat : n % 16 \in 0..15
      OBVIOUS
    <3> QED BY <3>1, <3>2, <3>3
  <2>3. Sent(e) = [pend |-> p, exported |-> e.exported + DataSize, end |-> Limit + setup.header,
                   item |-> e.item, seq |-> (e.seq + 1) % 16]
    BY <1>4 DEF Sent, Shifted, Encoder
  <2> HIDE DEF p
  <2>4. Sent(e) \in Encoder
    BY <1>1, <1>2, <2>1, <2>2, <2>3 DEF Encoder
  <2>5. /\ Sent(e).item = e.item /\ Sent(e).end = Limit + setup.header /\ Sent(e).pend = p
        /\ Sent(e).exported # 0
    BY <2>2, <2>3
  <2>6. Len(p) <= DataSize + setup.header /\ (Len(e.pend) <= 2 * DataSize => Len(p) <= DataSize)
    <3> DEFINE l == Len(e.pend) m == Len(p)
    <3>1. l \in Nat /\ m = l - DataSize /\ setup.header + l <= Limit
      BY <1>2, <2>1
    <3> HIDE DEF l, m
    <3>2. m <= DataSize + setup.header /\ (l <= 2 * DataSize => m <= DataSize)
      BY ONLY <1>0, <3>1
    <3> QED BY <3>2 DEF l, m
  <2> QED BY <1>1, <2>4, <2>5, <2>6
<1> QED BY <1>3, <1>4

\* A frame carries so many bytes, with the number of the report.
LEMMA FrameIs ==
  ASSUME Types, NEW s \in Sender, NEW e \in Encoder, NEW len \in 0..Len(e.pend), NEW flushing \in BOOLEAN
  PROVE  LET f == Frame(s, e, len, flushing) IN
         /\ f \in Frames /\ f.rep = Latest(s) /\ f.number = number[s] /\ Len(f.data) = len
         /\ f.type = FrameType(e, flushing)
<1>1. e.pend \in Seq(Bytes) /\ e.seq \in 0..15
  BY DEF Encoder
<1>2. SubSeq(e.pend, 1, len) \in Seq(Bytes) /\ Len(SubSeq(e.pend, 1, len)) = len
  BY <1>1
<1>3. number[s] \in 0..3 /\ Len(started[s]) \in Nat /\ e.exported \in Nat
  BY DEF Types, Encoder
<1>4. FrameType(e, flushing) \in {"single", "first", "consecutive", "last"}
  BY DEF FrameType
<1> QED BY <1>1, <1>2, <1>3, <1>4 DEF Frame, Frames, Latest

\* Putting an item into the buffer adds its bytes.
LEMMA PutIs ==
  ASSUME Types, NEW s \in Sender, NEW e \in Encoder, NEW w \in Nat
  PROVE  /\ Put(s, e, w) \in Encoder /\ Put(s, e, w).end = e.end /\ Put(s, e, w).item = e.item + 1
         /\ Put(s, e, w).exported = e.exported
         /\ Len(Put(s, e, w).pend) = Len(e.pend) + w
<1> DEFINE b == ItemBytes(s, Len(started[s]), e.item, w)
<1>1. /\ e.pend \in Seq(Bytes) /\ e.exported \in Nat /\ e.end \in Nat /\ e.item \in Nat /\ e.seq \in 0..15
      /\ Len(started[s]) \in Nat
  BY DEF Encoder, Types
<1>2. \A k \in 1..w : k - 1 \in Nat /\ Byte(s, Len(started[s]), e.item, k - 1) \in Bytes
  BY <1>1 DEF Byte, Bytes
<1>3. b \in [1..w -> Bytes]
  BY <1>2 DEF ItemBytes
<1> HIDE DEF b
<1>4. b \in Seq(Bytes) /\ Len(b) = w
  BY <1>3
<1>5. e.pend \o b \in Seq(Bytes) /\ Len(e.pend \o b) = Len(e.pend) + w
  BY <1>1, <1>4, SMTT(40)
<1>6. Put(s, e, w) = [pend |-> e.pend \o b, exported |-> e.exported, end |-> e.end,
                      item |-> e.item + 1, seq |-> e.seq]
  <2>1. e = [pend |-> e.pend, exported |-> e.exported, end |-> e.end, item |-> e.item, seq |-> e.seq]
    BY DEF Encoder
  <2>2. Put(s, e, w) = [e EXCEPT !.pend = e.pend \o b, !.item = e.item + 1]
    BY <2>1 DEF Put, b
  <2> QED BY <2>1, <2>2
<1>7. Put(s, e, w) \in Encoder
  BY <1>1, <1>5, <1>6 DEF Encoder
<1> QED BY <1>1, <1>5, <1>6, <1>7

\* While a report is published, its frames have the current number, and those of the report
\* before have the one before it.
LEMMA NumbersWhileSent ==
  ASSUME Inv, NEW s \in Sender, enc[s] # None,
         NEW W, \A f \in W : f \in OnWire(s) \/ (f.rep = Latest(s) /\ f.number = number[s])
  PROVE  /\ \A f \in W : f.rep \in 1..Latest(s)
         /\ \A f \in W : f.rep = Latest(s) => f.number = number[s]
         /\ \A f \in W : f.rep = Latest(s) - 1 /\ f.rep \in Done(s) => number[s] = NextNumber(f.number)
         /\ \A f, g \in W : g.rep = f.rep + 1 /\ f.rep \in Done(s) => f.number # g.number
<1>1. Latest(s) \in Nat \ {0} /\ Before(s) = Latest(s) - 1
  BY DEF Inv, Types, Encoding, EncodingFor, Latest, Before
<1>2. NumberedFrom(s) /\ Done(s) \subseteq 1..Latest(s) - 1
  BY <1>1 DEF Inv, Numbered, NumberedFrom
<1>3. \A f \in OnWire(s) : f.number \in 0..3
  <2>1. wire[s] \in Seq(Frames)
    BY DEF Inv, Types
  <2>2. \A i \in DOMAIN wire[s] : wire[s][i] \in Frames
    BY <2>1
  <2>3. \A f \in Frames : f.number \in 0..3
    BY DEF Frames
  <2> QED BY <2>2, <2>3 DEF OnWire
<1>4. \A f \in W : f.rep \in 1..Latest(s) /\ (f.rep = Latest(s) => f.number = number[s])
  BY <1>1, <1>2 DEF NumberedFrom
<1>5. \A f \in W : f.rep \in Done(s) => f \in OnWire(s)
  BY <1>1, <1>2
<1>6. \A f \in W : f.rep = Latest(s) - 1 /\ f.rep \in Done(s) => number[s] = NextNumber(f.number)
  BY <1>1, <1>2, <1>5 DEF NumberedFrom
<1>7. ASSUME NEW f \in W, NEW g \in W, g.rep = f.rep + 1, f.rep \in Done(s) PROVE f.number # g.number
  <2>1. CASE g \in OnWire(s)
    BY <1>2, <1>5, <1>7, <2>1 DEF NumberedFrom
  <2>2. CASE g \notin OnWire(s)
    <3>1. g.number = number[s] /\ f.rep = Latest(s) - 1
      BY <1>1, <1>4, <1>7, <2>2
    <3>2. number[s] = NextNumber(f.number) /\ f.number \in 0..3
      BY <1>3, <1>5, <1>6, <1>7, <3>1
    <3> QED BY <3>1, <3>2, NextNumberIs
  <2> QED BY <2>1, <2>2
<1> QED BY <1>4, <1>6, <1>7

-----------------------------------------------------------------------------
(* The steps of a publisher.                                               *)

\* What holds of each sender.
Sound(s) == EncodingFor(s) /\ ShortFrom(s) /\ NumberedFrom(s)

\* The frames under way fit as before, when the reports they are of are the same.
LEMMA FitsStill ==
  ASSUME Inv, UNCHANGED setup, NEW s \in Sender, \A r \in 1..Latest(s) : started'[s][r] = started[s][r]
  PROVE  \A f \in OnWire(s) : FrameFits(s, f)'
<1> SUFFICES ASSUME NEW f \in OnWire(s) PROVE FrameFits(s, f)'
  OBVIOUS
<1>1. FrameFits(s, f) /\ f.rep \in 1..Latest(s)
  BY DEF Inv, Short, ShortFrom, Numbered, NumberedFrom
<1>2. started'[s][f.rep] = started[s][f.rep]
  BY <1>1
<1> QED BY <1>1, <1>2 DEF FrameFits, Beyond, Wide, DataSize

\* A step of one publisher keeps the invariant, if it keeps what holds of this sender.
LEMMA OnlyOneMoves ==
  ASSUME Inv, UNCHANGED setup, Types', NEW s \in Sender, Sound(s)',
         \A u \in Sender \ {s} : /\ started'[u] = started[u] /\ published'[u] = published[u]
                                 /\ enc'[u] = enc[u] /\ number'[u] = number[u] /\ wire'[u] = wire[u]
  PROVE  Inv'
<1>1. ASSUME NEW u \in Sender, u # s PROVE Sound(u)'
  <2>1. EncodingFor(u) /\ NumberedFrom(u)
    BY DEF Inv, Encoding, Numbered
  <2>2. /\ started'[u] = started[u] /\ published'[u] = published[u]
        /\ enc'[u] = enc[u] /\ number'[u] = number[u] /\ wire'[u] = wire[u]
    BY <1>1
  <2>3. EncodingFor(u)'
    BY <2>1, <2>2 DEF EncodingFor, DataSize, Limit, Size, Wide
  <2>4. /\ OnWire(u)' = OnWire(u) /\ Done(u)' = Done(u) /\ Latest(u)' = Latest(u)
        /\ Before(u)' = Before(u) /\ DataSize' = DataSize
    BY <2>2 DEF OnWire, Done, Latest, Before, DataSize
  <2>5. NumberedFrom(u)'
    BY <2>1, <2>2, <2>4 DEF NumberedFrom
  <2>6. ShortFrom(u)'
    BY <2>2, <2>4, FitsStill DEF ShortFrom
  <2> QED BY <2>3, <2>5, <2>6 DEF Sound
<1>2. \A u \in Sender : Sound(u)'
  BY <1>1
<1> QED BY <1>2 DEF Inv, Encoding, Short, Numbered, Sound

\* A report is begun: none of its frames is under way yet.
LEMMA BeginKeeps ==
  ASSUME Inv, UNCHANGED setup, NEW s \in Sender, NEW widths \in Reports, Begin(s, widths)
  PROVE  Inv'
<1> DEFINE e == NewEncoder(Byte(s, Len(started'[s]), 0, 0))
<1>1. /\ enc[s] = None /\ Len(started[s]) < setup.count
      /\ started' = [started EXCEPT ![s] = Append(started[s], widths)] /\ enc' = [enc EXCEPT ![s] = e]
      /\ UNCHANGED <<published, number, wire, losses, fails>>
  BY DEF Begin
<1>2. /\ DataSize \in Nat \ {0} /\ Limit \in Nat /\ setup.header \in Nat /\ setup.count \in Nat
      /\ setup.header + 1 <= Limit
  <2>1. setup \in Setups /\ Types
    BY DEF Inv, Types
  <2>2. setup.count \in Nat
    BY <2>1, StreamAssumption
  <2>3. /\ setup.header \in Nat /\ DataSize \in Nat \ {0} /\ Limit = 2 * DataSize + 2 * setup.header
    BY <2>1, Sizes
  <2> QED BY <2>2, <2>3
<1>3. /\ started \in [Sender -> Seq(Reports)] /\ enc \in [Sender -> Encoder \cup {None}]
      /\ \A u \in Sender : Len(started[u]) <= setup.count
  BY DEF Inv, Types
<1>4. /\ started' \in [Sender -> Seq(Reports)] /\ started'[s] = Append(started[s], widths)
      /\ Len(started'[s]) = Len(started[s]) + 1 /\ Len(started[s]) \in Nat
      /\ \A u \in Sender \ {s} : started'[u] = started[u]
  BY <1>1, <1>3
<1>5. /\ e \in Encoder /\ Len(e.pend) = 1 /\ e.end = Limit /\ e.item = 1 /\ e.exported = 0
  <2>1. Byte(s, Len(started'[s]), 0, 0) \in Bytes
    BY <1>4 DEF Byte, Bytes
  <2>2. <<Byte(s, Len(started'[s]), 0, 0)>> \in Seq(Bytes) /\ Len(<<Byte(s, Len(started'[s]), 0, 0)>>) = 1
    BY <2>1
  <2> DEFINE b == <<Byte(s, Len(started'[s]), 0, 0)>>
  <2>3. e = [pend |-> b, exported |-> 0, end |-> Limit, item |-> 1, seq |-> 0]
    BY DEF NewEncoder
  <2>4. b \in Seq(Bytes) /\ Len(b) = 1
    BY <2>2
  <2> HIDE DEF b, e
  <2> QED BY <1>2, <2>3, <2>4 DEF Encoder
<1> HIDE DEF e
<1>6. /\ enc' \in [Sender -> Encoder \cup {None}] /\ enc'[s] = e
      /\ \A u \in Sender \ {s} : enc'[u] = enc[u]
  BY <1>1, <1>3, <1>5
<1>7. Types'
  <2>1. \A u \in Sender : Len(started'[u]) <= setup.count
    BY <1>1, <1>2, <1>3, <1>4
  <2> QED BY <1>1, <1>4, <1>6, <2>1 DEF Inv, Types
<1>8. EncodingFor(s)'
  <2>1. DataSize' = DataSize /\ Limit' = Limit /\ setup' = setup
    BY DEF DataSize, Limit, Size
  <2>2. /\ setup.header + Len(e.pend) <= e.end /\ e.end <= Limit + setup.header /\ e.item >= 1
        /\ Len(e.pend) <= 2 * DataSize
    BY <1>2, <1>5
  <2>3. Len(started'[s]) > 0
    BY <1>4
  <2> QED BY <1>5, <1>6, <2>1, <2>2, <2>3 DEF EncodingFor
<1>9. ShortFrom(s)'
  <2>1. OnWire(s)' = OnWire(s)
    BY <1>1 DEF OnWire
  <2>2. \A r \in 1..Latest(s) : started'[s][r] = started[s][r]
    BY <1>3, <1>4 DEF Latest
  <2> QED BY <2>1, <2>2, FitsStill DEF ShortFrom
<1>10. NumberedFrom(s)'
  <2>1. NumberedFrom(s) /\ Before(s) = Latest(s) /\ Latest(s) \in Nat
    BY <1>1, <1>4 DEF Inv, Numbered, Before, Latest
  <2>2. OnWire(s)' = OnWire(s) /\ Done(s)' = Done(s) /\ Latest(s)' = Latest(s) + 1
    BY <1>1, <1>4 DEF OnWire, Done, Latest
  <2>3. Before(s)' = Latest(s) \/ Before(s)' = Latest(s) + 1
    BY <2>1, <2>2 DEF Before
  <2>4. \A f \in OnWire(s) : f.rep \in 1..Latest(s)
    BY <2>1 DEF NumberedFrom
  <2>5. Done(s) \subseteq 1..Latest(s)
    BY <2>1 DEF NumberedFrom
  <2>6. \A f \in OnWire(s) : f.rep = Before(s)' /\ f.rep \in Done(s) => number[s] = NextNumber(f.number)
    BY <2>1, <2>3, <2>4 DEF NumberedFrom
  <2>7. \A f, g \in OnWire(s) : g.rep = f.rep + 1 /\ f.rep \in Done(s) => f.number # g.number
    BY <2>1 DEF NumberedFrom
  <2>8. \A f \in OnWire(s) : f.rep # Latest(s) + 1 /\ f.rep \in 1..Latest(s) + 1
    BY <2>1, <2>4
  <2>9. Done(s) \subseteq 1..Before(s)'
    BY <2>1, <2>3, <2>5
  <2> QED BY <1>1, <2>2, <2>6, <2>7, <2>8, <2>9 DEF NumberedFrom
<1> QED BY <1>1, <1>4, <1>6, <1>7, <1>8, <1>9, <1>10, OnlyOneMoves DEF Sound

\* A send fails: the report is given up, and is never published.
LEMMA SendFailsKeeps ==
  ASSUME Inv, UNCHANGED setup, NEW s \in Sender, SendFails(s)
  PROVE  Inv'
<1>1. /\ enc[s] # None /\ fails < setup.fails /\ enc' = [enc EXCEPT ![s] = None] /\ fails' = fails + 1
      /\ UNCHANGED <<started, published, wire, losses>>
      /\ number' = [number EXCEPT ![s] = NextNumber(number[s])] \/ number' = number
  BY DEF SendFails
<1>2. /\ number \in [Sender -> 0..3] /\ enc \in [Sender -> Encoder \cup {None}] /\ fails \in 0..setup.fails
      /\ setup.fails \in Nat
  BY StreamAssumption DEF Inv, Types
<1>3. number' \in [Sender -> 0..3] /\ \A u \in Sender \ {s} : number'[u] = number[u]
  BY <1>1, <1>2, NextNumberIs
<1>4. /\ enc' \in [Sender -> Encoder \cup {None}] /\ enc'[s] = None
      /\ \A u \in Sender \ {s} : enc'[u] = enc[u]
  BY <1>1, <1>2
<1>5. Types'
  <2>1. fails' \in 0..setup.fails
    BY <1>1, <1>2
  <2> QED BY <1>1, <1>3, <1>4, <2>1 DEF Inv, Types
<1>6. EncodingFor(s)'
  BY <1>4 DEF EncodingFor
<1>7. ShortFrom(s)'
  BY <1>1, FitsStill DEF ShortFrom, OnWire
<1>8. NumberedFrom(s)'
  <2>1. NumberedFrom(s) /\ Before(s) = Latest(s) - 1 /\ Latest(s) \in Nat \ {0}
    BY <1>1 DEF Inv, Numbered, Before, Latest, Encoding, EncodingFor, Types
  <2>2. OnWire(s)' = OnWire(s) /\ Done(s)' = Done(s) /\ Latest(s)' = Latest(s) /\ Before(s)' = Latest(s)
    BY <1>1, <1>4 DEF OnWire, Done, Latest, Before
  <2>3. Done(s) \subseteq 1..Latest(s) - 1
    BY <2>1 DEF NumberedFrom
  <2>4. Latest(s) \notin Done(s) /\ Done(s) \subseteq 1..Latest(s)
    BY <2>1, <2>3
  <2>5. /\ \A f \in OnWire(s) : f.rep \in 1..Latest(s)
        /\ \A f, g \in OnWire(s) : g.rep = f.rep + 1 /\ f.rep \in Done(s) => f.number # g.number
    BY <2>1 DEF NumberedFrom
  <2> QED BY <1>4, <2>2, <2>4, <2>5 DEF NumberedFrom
<1> QED BY <1>1, <1>3, <1>4, <1>5, <1>6, <1>7, <1>8, OnlyOneMoves DEF Sound

\* The next item: a frame may be sent before, and the item has room in the buffer or ends
\* the report.
LEMMA EncodeItemKeeps ==
  ASSUME Inv, UNCHANGED setup, ~Overrun, NEW s \in Sender, EncodeItem(s)
  PROVE  Inv'
<1> DEFINE e == enc[s] w == Last(started[s])[e.item] sent == Frame(s, e, DataSize, FALSE)
<1>1. /\ e # None /\ e.item <= Len(Last(started[s]))
      /\ wire' = IF Overfull(e) THEN [wire EXCEPT ![s] = Append(wire[s], sent)] ELSE wire
      /\ enc' = [enc EXCEPT ![s] = IF HasRoom(Sent(e), w) THEN Put(s, Sent(e), w) ELSE None]
      /\ UNCHANGED <<started, published, number, losses, fails>>
  BY DEF EncodeItem, Sent
<1>2. /\ DataSize \in Nat \ {0} /\ Limit \in Nat /\ setup.header \in Nat /\ Limit = 2 * DataSize + 2 * setup.header
  BY Sizes DEF Inv
<1>3. /\ started \in [Sender -> Seq(Reports)] /\ enc \in [Sender -> Encoder \cup {None}]
      /\ wire \in [Sender -> Seq(Frames)]
  BY DEF Inv, Types
<1>4. /\ e \in Encoder /\ Len(started[s]) > 0 /\ setup.header + Len(e.pend) <= Limit
      /\ e.end <= Limit + setup.header /\ (e.exported = 0 => e.end = Limit) /\ e.item >= 1
      /\ ~Wide(s, Len(started[s])) => Len(e.pend) <= 2 * DataSize
  BY <1>1, <1>2, <1>3 DEF Inv, Encoding, EncodingFor, Overrun, Encoder
<1>5. /\ Sent(e) \in Encoder /\ Sent(e).item = e.item /\ Sent(e).end <= Limit + setup.header
      /\ Sent(e).exported = 0 => Sent(e).end = Limit
      /\ ~Wide(s, Len(started[s])) => Len(Sent(e).pend) <= DataSize
  BY <1>4, SentFits DEF Inv
<1>6. w \in Nat /\ (~Wide(s, Len(started[s])) => setup.header = 0 \/ w <= DataSize)
  <2>1. Last(started[s]) \in Seq(Nat \ {0})
    <3>1. started[s] \in Seq(Reports) /\ Len(started[s]) \in DOMAIN started[s]
      BY <1>3, <1>4
    <3> QED BY <3>1, StreamAssumption DEF Last
  <2>2. e.item \in Nat
    BY <1>4 DEF Encoder
  <2>3. e.item \in DOMAIN Last(started[s])
    BY <1>1, <1>4, <2>1, <2>2
  <2>4. Last(started[s]) = started[s][Len(started[s])]
    BY DEF Last
  <2>5. PICK i : i = e.item
    OBVIOUS
  <2>6. w = started[s][Len(started[s])][i] /\ i \in DOMAIN started[s][Len(started[s])] /\ w \in Nat
    BY <2>1, <2>3, <2>4, <2>5
  <2> HIDE DEF w
  <2>7. ~Wide(s, Len(started[s])) => setup.header = 0 \/ w <= DataSize
    BY <1>2, <2>6 DEF Wide
  <2> QED BY <2>6, <2>7
<1> DEFINE n == IF HasRoom(Sent(e), w) THEN Put(s, Sent(e), w) ELSE None
<1>7. n # None => /\ n \in Encoder /\ n.item = e.item + 1 /\ n.end = Sent(e).end
                  /\ n.exported = Sent(e).exported
                  /\ Len(n.pend) = Len(Sent(e).pend) + w /\ setup.header + Len(Sent(e).pend) + w <= Sent(e).end
  <2>1. CASE HasRoom(Sent(e), w)
    <3>1. Types
      BY DEF Inv
    <3> DEFINE h == Sent(e) q == Put(s, h, w)
    <3>2. h \in Encoder /\ w \in Nat
      BY <1>5, <1>6
    <3>3. n = q
      BY <2>1
    <3>4. h = Sent(e)
      OBVIOUS
    <3> HIDE DEF n, e, w, h
    <3>5. /\ q \in Encoder /\ q.end = h.end /\ q.item = h.item + 1 /\ Len(q.pend) = Len(h.pend) + w
          /\ q.exported = h.exported
      BY <3>1, <3>2, PutIs
    <3>6. setup.header + Len(Sent(e).pend) + w <= Sent(e).end
      BY <2>1 DEF HasRoom
    <3> HIDE DEF q
    <3> QED BY <1>5, <3>3, <3>4, <3>5, <3>6
  <2>2. CASE ~HasRoom(Sent(e), w)
    BY <2>2
  <2> QED BY <2>1, <2>2
<1>8. Overfull(e) => sent \in Frames /\ sent.rep = Latest(s) /\ sent.number = number[s] /\ Len(sent.data) = DataSize
  <2>1. CASE Overfull(e)
    <3>1. DataSize \in 0..Len(e.pend)
      BY <1>2, <1>4, <2>1 DEF Overfull, Encoder
    <3> QED BY <1>4, <3>1, FrameIs DEF Inv
  <2> QED BY <2>1
<1> HIDE DEF e, w, sent, n
<1>9. /\ enc' \in [Sender -> Encoder \cup {None}] /\ enc'[s] = n
      /\ \A u \in Sender \ {s} : enc'[u] = enc[u]
  <2>1. n \in Encoder \cup {None}
    BY <1>7
  <2>2. enc' = [enc EXCEPT ![s] = n]
    BY <1>1 DEF n
  <2> QED BY <1>3, <2>1, <2>2
<1>10. /\ wire' \in [Sender -> Seq(Frames)] /\ \A u \in Sender \ {s} : wire'[u] = wire[u]
       /\ \A f \in OnWire(s)' : f \in OnWire(s) \/ (f = sent /\ Overfull(e))
  <2>1. CASE Overfull(e)
    <3>1. wire' = [wire EXCEPT ![s] = Append(wire[s], sent)]
      BY <1>1, <2>1
    <3>2. /\ Append(wire[s], sent) \in Seq(Frames) /\ wire[s] \in Seq(Frames)
      BY <1>3, <1>8, <2>1
    <3>3. \A i \in DOMAIN Append(wire[s], sent) :
            (i \in DOMAIN wire[s] /\ Append(wire[s], sent)[i] = wire[s][i]) \/ Append(wire[s], sent)[i] = sent
      BY <3>2
    <3>4. wire' \in [Sender -> Seq(Frames)] /\ wire'[s] = Append(wire[s], sent)
          /\ \A u \in Sender \ {s} : wire'[u] = wire[u]
      BY <1>3, <3>1, <3>2
    <3> QED BY <2>1, <3>3, <3>4 DEF OnWire
  <2>2. CASE ~Overfull(e)
    BY <1>1, <1>3, <2>2 DEF OnWire
  <2> QED BY <2>1, <2>2
<1>11. Types'
  BY <1>1, <1>9, <1>10 DEF Inv, Types
<1>12. EncodingFor(s)'
  <2>1. DataSize' = DataSize /\ Limit' = Limit /\ setup' = setup /\ started' = started
    BY <1>1 DEF DataSize, Limit, Size
  <2>2. ASSUME n # None
        PROVE  /\ setup.header + Len(n.pend) <= n.end /\ n.end <= Limit + setup.header /\ n.item >= 1
               /\ n.exported = 0 => n.end = Limit
               /\ ~Wide(s, Len(started[s])) => Len(n.pend) <= 2 * DataSize
    <3> DEFINE a == Len(Sent(e).pend) end == Sent(e).end
    <3>1. a \in Nat /\ end \in Nat /\ e.item \in Nat
      BY <1>4, <1>5 DEF Encoder
    <3>2. /\ Len(n.pend) = a + w /\ n.end = end /\ setup.header + a + w <= end /\ end <= Limit + setup.header
      BY <1>5, <1>7, <2>2
    <3> HIDE DEF a, end
    <3>3. setup.header + Len(n.pend) <= n.end
      BY <1>2, <1>6, <3>1, <3>2, SMTT(40)
    <3>4. ASSUME ~Wide(s, Len(started[s])) PROVE Len(n.pend) <= 2 * DataSize
      <4>1. CASE setup.header = 0
        BY <1>2, <1>6, <3>1, <3>2, <4>1
      <4>2. CASE w <= DataSize
        <5>1. a <= DataSize
          BY <1>5, <3>4 DEF a
        <5> QED BY <1>2, <1>6, <3>1, <3>2, <4>2, <5>1
      <4> QED BY <1>6, <3>4, <4>1, <4>2
    <3>5. n.item >= 1
      BY <1>4, <1>7, <2>2, <3>1
    <3>6. n.end <= Limit + setup.header /\ (n.exported = 0 => n.end = Limit)
      BY <1>5, <1>7, <2>2
    <3> QED BY <3>3, <3>4, <3>5, <3>6
  <2>3. Wide(s, Len(started[s]))' <=> Wide(s, Len(started[s]))
    BY <2>1 DEF Wide
  <2> QED BY <1>4, <1>9, <2>1, <2>2, <2>3 DEF EncodingFor
<1>13. ShortFrom(s)'
  <2>1. \A f \in OnWire(s) : FrameFits(s, f)'
    BY <1>1, FitsStill
  <2>2. Beyond(s, Latest(s)) \in Nat
    BY BeyondIs DEF Inv
  <2>3. Overfull(e) => FrameFits(s, sent)
    BY <1>2, <1>8, <2>2 DEF FrameFits
  <2>4. \A f : FrameFits(s, f)' <=> FrameFits(s, f)
    BY <1>1 DEF FrameFits, Beyond, Wide, DataSize
  <2> QED BY <1>10, <2>1, <2>3, <2>4 DEF ShortFrom
<1>14. NumberedFrom(s)'
  <2> DEFINE W == OnWire(s)'
  <2>1. \A f \in W : f \in OnWire(s) \/ (f.rep = Latest(s) /\ f.number = number[s])
    BY <1>8, <1>10
  <2> HIDE DEF W
  <2>2. enc[s] # None
    BY <1>1 DEF e
  <2>3. /\ \A f \in W : f.rep \in 1..Latest(s)
        /\ \A f \in W : f.rep = Latest(s) => f.number = number[s]
        /\ \A f \in W : f.rep = Latest(s) - 1 /\ f.rep \in Done(s) => number[s] = NextNumber(f.number)
        /\ \A f, g \in W : g.rep = f.rep + 1 /\ f.rep \in Done(s) => f.number # g.number
    BY <2>1, <2>2, NumbersWhileSent
  <2>4. Latest(s) \in Nat \ {0} /\ Done(s) \subseteq 1..Latest(s) - 1
    BY <1>3, <1>4, <2>2 DEF Inv, Numbered, NumberedFrom, Before, Latest
  <2>5. Done(s)' = Done(s) /\ Latest(s)' = Latest(s)
    BY <1>1 DEF Done, Latest
  <2>6. Before(s)' = Latest(s) \/ Before(s)' = Latest(s) - 1
    BY <2>5 DEF Before
  <2>7. Latest(s) \notin Done(s) /\ Done(s) \subseteq 1..Before(s)'
    BY <2>4, <2>6
  <2>8. \A f \in W : f.rep = Before(s)' /\ f.rep \in Done(s) => number[s] = NextNumber(f.number)
    BY <2>3, <2>6, <2>7
  <2> QED BY <1>1, <2>3, <2>5, <2>7, <2>8 DEF NumberedFrom, W
<1> QED BY <1>1, <1>9, <1>10, <1>11, <1>12, <1>13, <1>14, OnlyOneMoves DEF Sound

\* What is left of a report is sent in one or two frames; then it is published, and the
\* number moves on.
LEMMA FlushKeeps ==
  ASSUME Inv, UNCHANGED setup, ~Overrun, NEW s \in Sender, Flush(s)
  PROVE  Inv'
<1> DEFINE e == enc[s]
           full == IF Overfull(e) THEN <<Frame(s, e, DataSize, FALSE)>> ELSE <<>>
           last == Frame(s, Sent(e), Len(Sent(e).pend), TRUE)
<1>1. /\ e # None /\ wire' = [wire EXCEPT ![s] = wire[s] \o full \o <<last>>]
      /\ published' = [published EXCEPT ![s] = Append(published[s], Len(started[s]))]
      /\ number' = [number EXCEPT ![s] = NextNumber(number[s])] /\ enc' = [enc EXCEPT ![s] = None]
      /\ UNCHANGED <<started, losses, fails>>
  BY DEF Flush, Sent
<1>2. DataSize \in Nat \ {0} /\ setup.header \in Nat /\ Limit = 2 * DataSize + 2 * setup.header
  BY Sizes DEF Inv
<1>3. /\ started \in [Sender -> Seq(Reports)] /\ enc \in [Sender -> Encoder \cup {None}]
      /\ published \in [Sender -> Seq(Nat)] /\ number \in [Sender -> 0..3]
      /\ wire \in [Sender -> Seq(Frames)] /\ Types
  BY DEF Inv, Types
<1>4. /\ e \in Encoder /\ setup.header + Len(e.pend) <= Limit /\ e.end <= Limit + setup.header
      /\ e.exported = 0 => e.end = Limit
      /\ ~Wide(s, Latest(s)) => Len(e.pend) <= 2 * DataSize
  BY <1>1, <1>2, <1>3 DEF Inv, Encoding, EncodingFor, Latest, Overrun, Encoder
<1>5. /\ Sent(e) \in Encoder /\ Len(Sent(e).pend) <= DataSize + setup.header
      /\ Sent(e).exported = 0 => Len(Sent(e).pend) <= DataSize
      /\ ~Wide(s, Latest(s)) => Len(Sent(e).pend) <= DataSize
  BY <1>3, <1>4, SentFits
<1> DEFINE New(f) == f \in Frames /\ f.rep = Latest(s) /\ f.number = number[s] /\ FrameFits(s, f)
<1>0. /\ Beyond(s, Latest(s)) \in Nat
      /\ Wide(s, Latest(s)) => Beyond(s, Latest(s)) = setup.header
  BY <1>3, BeyondIs
<1>6. New(last)
  <2>1. Len(Sent(e).pend) \in 0..Len(Sent(e).pend) /\ Len(Sent(e).pend) \in Nat
    BY <1>5 DEF Encoder
  <2>2. /\ last \in Frames /\ last.rep = Latest(s) /\ last.number = number[s]
        /\ Len(last.data) = Len(Sent(e).pend)
        /\ last.type = FrameType(Sent(e), TRUE)
    <3> DEFINE h == Sent(e) len == Len(h.pend)
    <3>1. h \in Encoder /\ len \in 0..Len(h.pend) /\ TRUE \in BOOLEAN
      BY <1>5, <2>1
    <3> HIDE DEF h, len
    <3> PICK yes : yes = TRUE
      OBVIOUS
    <3>2. LET f == Frame(s, h, len, yes) IN
          /\ f \in Frames /\ f.rep = Latest(s) /\ f.number = number[s] /\ Len(f.data) = len
          /\ f.type = FrameType(h, yes)
      BY <1>3, <3>1, FrameIs
    <3> QED BY <3>2 DEF h, len
  <2>3. FrameFits(s, last)
    <3>1. CASE Wide(s, Latest(s)) /\ Sent(e).exported # 0
      <4>1. last.type = "last"
        BY <2>2, <3>1 DEF FrameType
      <4> HIDE DEF e, last
      <4> QED BY <1>0, <1>2, <1>5, <2>1, <2>2, <3>1, <4>1 DEF FrameFits
    <3>2. CASE ~Wide(s, Latest(s)) \/ Sent(e).exported = 0
      <4>1. Len(last.data) <= DataSize /\ Len(last.data) \in Nat
        BY <1>5, <2>1, <2>2, <3>2
      <4> DEFINE l == Len(last.data) b == IF last.type = "last" THEN Beyond(s, last.rep) ELSE 0
      <4>2. b \in Nat /\ l \in Nat /\ l <= DataSize
        <5> HIDE DEF e, last
        <5> QED BY <1>0, <2>2, <4>1
      <4> HIDE DEF l, b
      <4>3. l <= DataSize + b
        BY ONLY <1>2, <4>2
      <4> QED BY <4>3 DEF FrameFits, l, b
    <3> QED BY <3>1, <3>2
  <2> QED BY <2>2, <2>3
<1>7. full \in Seq(Frames) /\ \A i \in DOMAIN full : New(full[i])
  <2>1. CASE Overfull(e)
    <3> DEFINE f == Frame(s, e, DataSize, FALSE)
    <3>1. DataSize \in 0..Len(e.pend)
      BY <1>2, <1>4, <2>1 DEF Overfull, Encoder
    <3>2. New(f)
      <4>1. f \in Frames /\ f.rep = Latest(s) /\ f.number = number[s] /\ Len(f.data) = DataSize
        BY <1>3, <1>4, <3>1, FrameIs
      <4> HIDE DEF f
      <4> QED BY <1>0, <1>2, <4>1 DEF FrameFits
    <3>3. full = <<f>>
      BY <2>1
    <3> HIDE DEF f, full
    <3>4. f \in Frames
      BY <3>2
    <3>5. full \in Seq(Frames) /\ \A i \in DOMAIN full : full[i] = f
      BY <3>3, <3>4
    <3> QED BY <3>2, <3>5
  <2>2. CASE ~Overfull(e)
    BY <2>2
  <2> QED BY <2>1, <2>2
<1> HIDE DEF e, full, last
<1> DEFINE old == wire[s] q == old \o full r == q \o <<last>>
<1>8. /\ r \in Seq(Frames) /\ \A i \in DOMAIN r : r[i] \in OnWire(s) \/ New(r[i])
  <2>1. old \in Seq(Frames) /\ OnWire(s) = {old[i] : i \in DOMAIN old}
    BY <1>3 DEF OnWire
  <2>2. <<last>> \in Seq(Frames) /\ \A i \in DOMAIN <<last>> : <<last>>[i] = last
    BY <1>6
  <2> DEFINE l == <<last>> u == q \o l
  <2> HIDE DEF old, q, l, New
  <2>3. /\ q \in Seq(Frames)
        /\ \A f \in {q[i] : i \in DOMAIN q} :
             (\E i \in DOMAIN old : f = old[i]) \/ (\E i \in DOMAIN full : f = full[i])
    BY <1>7, <2>1, Appended DEF q
  <2>4. /\ u \in Seq(Frames)
        /\ \A f \in {u[i] : i \in DOMAIN u} :
             (\E i \in DOMAIN q : f = q[i]) \/ (\E i \in DOMAIN l : f = l[i])
    <3>1. l \in Seq(Frames)
      BY <2>2 DEF l
    <3> QED BY <2>3, <3>1, Appended
  <2>5. \A i \in DOMAIN q : q[i] \in OnWire(s) \/ New(q[i])
    BY <1>7, <2>1, <2>3
  <2>6. \A i \in DOMAIN l : New(l[i])
    BY <1>6, <2>2 DEF l
  <2>7. r = u
    BY DEF l
  <2> HIDE DEF u, r
  <2> QED BY <2>4, <2>5, <2>6, <2>7
<1> HIDE DEF r, New
<1>9. /\ wire' \in [Sender -> Seq(Frames)] /\ wire'[s] = r /\ \A u \in Sender \ {s} : wire'[u] = wire[u]
  <2>1. wire' = [wire EXCEPT ![s] = r]
    BY <1>1 DEF r
  <2> QED BY <1>3, <1>8, <2>1
<1>10. /\ enc' \in [Sender -> Encoder \cup {None}] /\ enc'[s] = None
       /\ \A u \in Sender \ {s} : enc'[u] = enc[u]
  BY <1>1, <1>3
<1>11. /\ number' \in [Sender -> 0..3] /\ number'[s] = NextNumber(number[s])
       /\ \A u \in Sender \ {s} : number'[u] = number[u]
  BY <1>1, <1>3, NextNumberIs
<1>12. /\ published' \in [Sender -> Seq(Nat)] /\ Done(s)' = Done(s) \cup {Latest(s)}
       /\ \A u \in Sender \ {s} : published'[u] = published[u]
  <2> DEFINE p == published[s] n == Len(started[s])
  <2>1. p \in Seq(Nat) /\ n \in Nat
    BY <1>3
  <2>2. published' = [published EXCEPT ![s] = Append(p, n)]
    BY <1>1
  <2> HIDE DEF p, n
  <2>3. /\ Append(p, n) \in Seq(Nat) /\ DOMAIN Append(p, n) = 1..Len(p) + 1 /\ DOMAIN p = 1..Len(p)
        /\ Len(p) \in Nat /\ Append(p, n)[Len(p) + 1] = n /\ \A i \in 1..Len(p) : Append(p, n)[i] = p[i]
    BY <2>1
  <2>4. \A i \in 1..Len(p) + 1 : i \in 1..Len(p) \/ i = Len(p) + 1
    BY <2>3
  <2>5. 1..Len(p) \subseteq 1..Len(p) + 1 /\ Len(p) + 1 \in 1..Len(p) + 1
    BY <2>3
  <2>6. {Append(p, n)[i] : i \in DOMAIN Append(p, n)} = {p[i] : i \in DOMAIN p} \cup {n}
    BY <2>3, <2>4, <2>5
  <2>7. published' \in [Sender -> Seq(Nat)] /\ published'[s] = Append(p, n)
        /\ \A u \in Sender \ {s} : published'[u] = published[u]
    BY <1>3, <2>2, <2>3
  <2> QED BY <2>6, <2>7 DEF Done, Latest, p, n
<1>13. Types'
  BY <1>1, <1>9, <1>10, <1>11, <1>12 DEF Inv, Types
<1>14. EncodingFor(s)'
  BY <1>10 DEF EncodingFor
<1>15. OnWire(s)' = {r[i] : i \in DOMAIN r}
  BY <1>9 DEF OnWire
<1>16. ShortFrom(s)'
  <2>1. \A f \in OnWire(s) : FrameFits(s, f)'
    BY <1>1, FitsStill
  <2>2. \A f : FrameFits(s, f)' <=> FrameFits(s, f)
    BY <1>1 DEF FrameFits, Beyond, Wide, DataSize
  <2> QED BY <1>8, <1>15, <2>1, <2>2 DEF New, ShortFrom
<1>17. NumberedFrom(s)'
  <2> DEFINE W == OnWire(s)'
  <2>1. \A f \in W : f \in OnWire(s) \/ (f.rep = Latest(s) /\ f.number = number[s])
    BY <1>8, <1>15 DEF New
  <2> HIDE DEF W
  <2>2. enc[s] # None
    BY <1>1 DEF e
  <2>3. /\ \A f \in W : f.rep \in 1..Latest(s)
        /\ \A f \in W : f.rep = Latest(s) => f.number = number[s]
        /\ \A f, g \in W : g.rep = f.rep + 1 /\ f.rep \in Done(s) => f.number # g.number
    BY <2>1, <2>2, NumbersWhileSent
  <2>4. Latest(s) \in Nat \ {0} /\ Done(s) \subseteq 1..Latest(s) - 1
    BY <1>3, <2>2 DEF Inv, Numbered, NumberedFrom, Before, Latest, Encoding, EncodingFor
  <2>5. Latest(s)' = Latest(s) /\ Before(s)' = Latest(s)
    BY <1>1, <1>10 DEF Latest, Before
  <2>6. Done(s)' \subseteq 1..Latest(s)
    BY <1>12, <2>4
  <2>7. \A f \in W : f.rep = Latest(s) => number'[s] = NextNumber(f.number)
    BY <1>11, <2>3
  <2>8. ASSUME NEW f \in W, NEW g \in W, g.rep = f.rep + 1, f.rep \in Done(s)' PROVE f.number # g.number
    <3>1. f.rep # Latest(s)
      BY <2>3, <2>4, <2>8
    <3> QED BY <1>12, <2>3, <2>8, <3>1
  <2> QED BY <1>10, <2>3, <2>5, <2>6, <2>7, <2>8 DEF NumberedFrom, W
<1> QED BY <1>1, <1>9, <1>10, <1>11, <1>12, <1>13, <1>14, <1>16, <1>17, OnlyOneMoves DEF Sound

-----------------------------------------------------------------------------
(* The theorem.                                                            *)

\* Every step keeps the invariant.
LEMMA InvNext == Inv /\ [Next]_vars => Inv'
<1> SUFFICES ASSUME Inv, [Next]_vars PROVE Inv'
  OBVIOUS
<1>1. CASE UNCHANGED vars
  <2>1. /\ wire \in [Sender -> Seq(Frames)] /\ losses \in 0..setup.losses /\ fails \in 0..setup.fails
        /\ UNCHANGED <<setup, started, published, enc, number, wire, losses, fails>>
    BY <1>1 DEF vars, Inv, Types
  <2>2. \A s \in Sender : OnWire(s)' \subseteq OnWire(s)
    BY <2>1 DEF OnWire
  <2> QED BY <2>1, <2>2, OnlyTakes
<1>2. CASE Next
  <2>1. UNCHANGED setup /\ ~Overrun
    BY <1>2 DEF Next
  <2>2. PICK s \in Sender :
          \/ \E widths \in Reports : Begin(s, widths)
          \/ EncodeItem(s) \/ Flush(s) \/ SendFails(s)
          \/ Lose(s) \/ Overtake(s) \/ Handle(s) \/ ReadItem(s) \/ StopsReading(s)
    BY <1>2 DEF Next, Step
  <2>3. CASE \E widths \in Reports : Begin(s, widths)
    BY <2>1, <2>3, BeginKeeps
  <2>4. CASE EncodeItem(s)
    BY <2>1, <2>4, EncodeItemKeeps
  <2>5. CASE Flush(s)
    BY <2>1, <2>5, FlushKeeps
  <2>6. CASE SendFails(s)
    BY <2>1, <2>6, SendFailsKeeps
  <2>7. CASE Lose(s) \/ Overtake(s)
    BY <2>1, <2>7, NetworkKeeps
  <2>8. CASE Handle(s) \/ ReadItem(s) \/ StopsReading(s)
    BY <2>1, <2>8, SubscriberKeeps
  <2> QED BY <2>2, <2>3, <2>4, <2>5, <2>6, <2>7, <2>8
<1> QED BY <1>1, <1>2

\* What the invariant says of the frames.
LEMMA InvSound == Inv => FramesSound
<1> SUFFICES ASSUME Inv PROVE FramesSound
  OBVIOUS
<1>1. DataSize \in Nat /\ setup.header \in Nat /\ Limit = 2 * DataSize + 2 * setup.header
  BY Sizes DEF Inv
<1>2. ASSUME NEW s \in Sender
      PROVE  wire[s] \in Seq(Frames) /\ \A i \in DOMAIN wire[s] : wire[s][i] \in Frames /\ wire[s][i] \in OnWire(s)
  BY DEF Inv, Types, OnWire
<1>3. TypeOK
  BY DEF TypeOK, Inv, Types
<1>4. EncoderWithinBuffer
  <2>1. ASSUME NEW s \in Sender PROVE BufferKept(s)
    <3> SUFFICES ASSUME enc[s] # None
                 PROVE  setup.header + Len(enc[s].pend) <=
                          Limit + (IF enc[s].exported > 0 THEN Beyond(s, Len(started[s])) ELSE 0)
      BY DEF BufferKept
    <3>1. enc[s] \in Encoder /\ EncodingFor(s)
      BY DEF Inv, Types, Encoding
    <3>2. Len(enc[s].pend) \in Nat /\ enc[s].exported \in Nat /\ enc[s].end \in Nat
      BY <3>1 DEF Encoder
    <3>3. /\ Beyond(s, Len(started[s])) \in Nat
          /\ Wide(s, Len(started[s])) => Beyond(s, Len(started[s])) = setup.header
      BY BeyondIs DEF Inv
    <3> DEFINE p == Len(enc[s].pend) b == Beyond(s, Len(started[s])) x == enc[s].exported z == enc[s].end
    <3>4. /\ setup.header + p <= z /\ z <= Limit + setup.header /\ (x = 0 => z = Limit)
          /\ ~Wide(s, Len(started[s])) => p <= 2 * DataSize
      BY <3>1 DEF EncodingFor
    <3> HIDE DEF p, b, x, z
    <3>5. p \in Nat /\ b \in Nat /\ x \in Nat /\ z \in Nat /\ (Wide(s, Len(started[s])) => b = setup.header)
      BY <3>2, <3>3 DEF p, b, x, z
    <3>6. setup.header + p <= Limit + (IF x > 0 THEN b ELSE 0)
      <4>0. Limit \in Nat
        BY <1>1
      <4>1. ~Wide(s, Len(started[s])) => setup.header + p <= Limit
        <5>1. p <= 2 * DataSize => setup.header + p <= Limit
          BY ONLY <1>1, <3>5
        <5> QED BY <3>4, <5>1
      <4>2. CASE x > 0
        <5>1. setup.header + p <= Limit + b
          <6>1. CASE Wide(s, Len(started[s]))
            BY <1>1, <3>4, <3>5, <6>1
          <6>2. CASE ~Wide(s, Len(started[s]))
            <7>1. setup.header + p <= Limit
              BY <4>1, <6>2
            <7> QED BY ONLY <1>1, <3>5, <4>0, <7>1
          <6> QED BY <6>1, <6>2
        <5> QED BY <4>2, <5>1
      <4>3. CASE ~(x > 0)
        <5>1. x = 0
          BY <3>5, <4>3
        <5>2. setup.header + p <= Limit
          BY <1>1, <3>4, <3>5, <5>1
        <5>3. setup.header + p <= Limit + 0
          BY ONLY <4>0, <5>2
        <5> QED BY <4>3, <5>3
      <4> QED BY <4>2, <4>3
    <3> QED BY <3>6 DEF p, b, x
  <2>2. \A s \in Sender : \A i \in DOMAIN wire[s] : FrameFits(s, wire[s][i])
    BY <1>2 DEF Inv, Short, ShortFrom
  <2> QED BY <2>1, <2>2 DEF EncoderWithinBuffer
<1>5. NumbersTellApart
  <2>1. ASSUME NEW s \in Sender, NEW i \in DOMAIN wire[s], NEW j \in DOMAIN wire[s],
               wire[s][j].rep = wire[s][i].rep + 1, wire[s][i].rep \in Done(s)
        PROVE  wire[s][i].number # wire[s][j].number
    BY <1>2, <2>1 DEF Inv, Numbered, NumberedFrom
  <2> QED BY <2>1 DEF NumbersTellApart, Done
<1> QED BY <1>3, <1>4, <1>5 DEF FramesSound

\* The encoder writes nothing beyond its buffer and no frame is longer than the transport
\* takes, but for a report with an item wider than a datagram, where either goes too far by
\* no more than a header; and the frames of a published report have another number than
\* those of the next, whatever is lost, overtaken, or fails to be sent
\* (StreamingThingSetBinaryEncoder, publish).
THEOREM FramesAlwaysSound == Spec => []FramesSound
<1>1. Inv /\ [Next]_vars => Inv'
  BY InvNext
<1> QED BY InvInit, <1>1, InvSound, PTL DEF Spec

-----------------------------------------------------------------------------
(* The bytes of a report, and where the encoder and the decoder stand.     *)

\* A set of natural numbers has a least element.
LEMMA Least ==
  ASSUME NEW T, T \subseteq Nat, T # {} PROVE \E d \in T : \A e \in T : d <= e
<1> DEFINE R == {ss \in Nat \X Nat : ss[1] < ss[2]}
<1>1. IsWellFoundedOn(R, Nat)
  BY NatLessThanWellFounded DEF OpToRel
<1>2. \E x \in T : \A y \in T : <<y, x>> \notin R
  BY <1>1, WFMin, Zenon
<1>3. \A x, y \in T : <<y, x>> \notin R => x <= y
  OBVIOUS
<1> QED BY <1>2, <1>3

\* How the first n items of report r of a sender s, of widths w, follow each other: T[p] is
\* byte p of the report, item i starts behind byte O[i], and B[i] bytes have left the buffers
\* of the encoder, and later of the decoder, when item i is put there, or read.
LaidTypes(w, T, O, B, n) ==
  /\ n \in Nat /\ n <= Len(w) /\ w \in Seq(Nat \ {0})
  /\ T \in Seq(Bytes) /\ O \in [1..n + 1 -> Nat] /\ B \in [0..n -> Nat]
LaidItem(D, w, s, r, T, O, B, i) ==
  /\ B[i] = IF O[i] - B[i - 1] > D THEN B[i - 1] + D ELSE B[i - 1]
  /\ B[i] < O[i] /\ O[i] <= B[i] + D
  /\ O[i + 1] = O[i] + w[i] /\ O[i + 1] <= B[i] + 2 * D
  /\ \A k \in 1..w[i] : T[O[i] + k] = Byte(s, r, i, k - 1)
Laid(D, w, s, r, T, O, B, n) ==
  /\ LaidTypes(w, T, O, B, n)
  /\ T[1] = Byte(s, r, 0, 0) /\ O[1] = 1 /\ B[0] = 0 /\ Len(T) = O[n + 1]
  /\ \A p \in 1..Len(T) : T[p][1] = s /\ T[p][2] = r
  /\ \A i \in 1..n : LaidItem(D, w, s, r, T, O, B, i)

\* The encoder has put n items into its buffer, and b bytes have left it.
Encodes(T, b, n, e) ==
  /\ e.item = n + 1 /\ e.exported = b /\ Len(e.pend) = Len(T) - b
  /\ \A j \in 1..Len(e.pend) : e.pend[j] = T[b + j]

\* A frame carries what the report has at its place; the last one, the rest of the report.
Carries(D, w, T, n, f) ==
  /\ f.at \in Nat /\ Len(f.data) \in 1..D /\ f.at + Len(f.data) <= Len(T)
  /\ \A j \in 1..Len(f.data) : f.data[j] = T[f.at + j]
  /\ IF Ends(f.type) THEN n = Len(w) /\ f.at + Len(f.data) = Len(T) ELSE Len(f.data) = D

\* Nothing but the type is laid out at first.
LEMMA LaidFirst ==
  ASSUME NEW D \in Nat \ {0}, NEW w \in Seq(Nat \ {0}), NEW s \in Sender, NEW r \in Nat
  PROVE  \E T, O, B : Laid(D, w, s, r, T, O, B, 0) /\ B[0] = 0 /\ T = <<Byte(s, r, 0, 0)>>
<1> DEFINE T == <<Byte(s, r, 0, 0)>>
           O == [i \in 1..1 |-> 1]
           B == [i \in 0..0 |-> 0]
<1>1. Byte(s, r, 0, 0) \in Bytes /\ Byte(s, r, 0, 0)[1] = s /\ Byte(s, r, 0, 0)[2] = r
  BY DEF Byte, Bytes
<1>2. T \in Seq(Bytes) /\ Len(T) = 1 /\ T[1] = Byte(s, r, 0, 0)
  BY <1>1
<1>3. O \in [1..0 + 1 -> Nat] /\ O[1] = 1 /\ O[0 + 1] = 1
  OBVIOUS
<1>4. B \in [0..0 -> Nat] /\ B[0] = 0
  OBVIOUS
<1>5. 0 <= Len(w) /\ 1..0 = {}
  OBVIOUS
<1>6. \A p \in 1..Len(T) : T[p][1] = s /\ T[p][2] = r
  <2>1. \A p \in 1..1 : p = 1
    OBVIOUS
  <2> QED BY <1>1, <1>2, <2>1
<1> HIDE DEF T, O, B
<1>7. LaidTypes(w, T, O, B, 0)
  BY <1>2, <1>3, <1>4, <1>5 DEF LaidTypes
<1>8. Laid(D, w, s, r, T, O, B, 0)
  BY <1>2, <1>3, <1>4, <1>5, <1>6, <1>7 DEF Laid
<1> QED BY <1>4, <1>8 DEF T

\* The items lie one behind the other, all of them within the text.
LEMMA LaidGrows ==
  ASSUME NEW D, NEW w, NEW s, NEW r, NEW T, NEW O, NEW B, NEW n, Laid(D, w, s, r, T, O, B, n), NEW i \in 1..n + 1
  PROVE  O[i] <= Len(T) /\ Len(T) \in Nat
<1> DEFINE t == Len(T) Late == {d \in Nat : \E j \in 1..n + 1 : d = n + 1 - j /\ t < O[j]}
<1>1. n \in Nat /\ n <= Len(w) /\ O \in [1..n + 1 -> Nat] /\ t = O[n + 1] /\ w \in Seq(Nat \ {0}) /\ t \in Nat
  BY DEF Laid, LaidTypes
<1>2. \A j \in 1..n : O[j + 1] = O[j] + w[j]
  BY DEF Laid, LaidItem
<1> HIDE DEF t
<1>3. \A j \in 1..n : w[j] \in Nat /\ O[j] \in Nat /\ O[j + 1] \in Nat
  BY <1>1
<1>4. ASSUME Late # {} PROVE FALSE
  <2>1. PICK d \in Late : \A e \in Late : d <= e
    BY <1>4, Least
  <2>2. PICK j \in 1..n + 1 : d = n + 1 - j /\ t < O[j]
    BY <2>1
  <2>3. j # n + 1
    BY <1>1, <2>2
  <2>4. j \in 1..n /\ j + 1 \in 1..n + 1
    BY <1>1, <2>3
  <2>5. t < O[j + 1]
    <3>1. O[j + 1] = O[j] + w[j] /\ w[j] \in Nat /\ O[j] \in Nat
      BY <1>2, <1>3, <2>4
    <3>2. t < O[j] /\ t \in Nat
      BY <1>1, <2>2
    <3> QED BY ONLY <3>1, <3>2
  <2>6. d - 1 \in Nat /\ d - 1 = n + 1 - (j + 1)
    BY ONLY <1>1, <2>2, <2>4
  <2>7. d - 1 \in Late
    BY <2>4, <2>5, <2>6
  <2> QED BY <2>1, <2>6, <2>7
<1>5. n + 1 - i \in Nat /\ O[i] \in Nat
  BY <1>1
<1>6. ~(t < O[i])
  BY <1>4, <1>5
<1> QED BY <1>1, <1>5, <1>6 DEF t

\* The widths, the offsets and the bases of a layout are numbers.
LEMMA LaidNumbers ==
  ASSUME NEW w, NEW T, NEW O, NEW B, NEW n, LaidTypes(w, T, O, B, n)
  PROVE  /\ n \in Nat /\ Len(T) \in Nat /\ Len(w) \in Nat /\ B[n] \in Nat /\ O[n + 1] \in Nat
         /\ \A i \in 1..n : /\ i + 1 \in 1..n + 1 /\ i - 1 \in 0..n /\ i \in 1..Len(w)
                            /\ w[i] \in Nat \ {0} /\ O[i] \in Nat /\ O[i + 1] \in Nat
                            /\ B[i] \in Nat /\ B[i - 1] \in Nat
<1>1. /\ n \in Nat /\ n <= Len(w) /\ w \in Seq(Nat \ {0}) /\ T \in Seq(Bytes)
      /\ O \in [1..n + 1 -> Nat] /\ B \in [0..n -> Nat]
  BY DEF LaidTypes
<1>2. Len(T) \in Nat /\ Len(w) \in Nat
  BY <1>1
<1>3. n \in 0..n /\ n + 1 \in 1..n + 1
  BY <1>1
<1>4. \A i \in 1..n : i + 1 \in 1..n + 1 /\ i \in 1..n + 1 /\ i - 1 \in 0..n /\ i \in 0..n /\ i \in 1..Len(w)
  BY <1>1, <1>2
<1>5. (\A i \in 1..Len(w) : w[i] \in Nat \ {0}) /\ (\A i \in 1..n + 1 : O[i] \in Nat) /\ (\A i \in 0..n : B[i] \in Nat)
  BY <1>1
<1> QED BY <1>1, <1>2, <1>3, <1>4, <1>5

\* What is left in a buffer before the next item: part of the report, and room for it.
LEMMA LaidNear ==
  ASSUME NEW D \in Nat \ {0}, NEW w, NEW s, NEW r, NEW T, NEW O, NEW B, NEW n, Laid(D, w, s, r, T, O, B, n)
  PROVE  B[n] \in Nat /\ Len(T) \in Nat /\ B[n] < Len(T) /\ Len(T) <= B[n] + 2 * D
<1>1. LaidTypes(w, T, O, B, n) /\ Len(T) = O[n + 1] /\ O[1] = 1 /\ B[0] = 0
  BY DEF Laid
<1>2. n \in Nat /\ B[n] \in Nat /\ Len(T) \in Nat /\ O[n + 1] \in Nat
  BY <1>1, LaidNumbers
<1>3. CASE n = 0
  <2>1. B[n] = 0 /\ Len(T) = 1
    BY <1>1, <1>3
  <2> QED BY <1>2, <2>1
<1>4. CASE n # 0
  <2>1. n \in 1..n
    BY <1>2, <1>4
  <2>2. B[n] < O[n] /\ O[n + 1] = O[n] + w[n] /\ O[n + 1] <= B[n] + 2 * D
    BY <2>1 DEF Laid, LaidItem
  <2>3. O[n] \in Nat /\ w[n] \in Nat
    BY <1>1, <2>1, LaidNumbers
  <2> DEFINE a == B[n] c == O[n] e == O[n + 1] l == Len(T) x == w[n]
  <2>4. a \in Nat /\ c \in Nat /\ l \in Nat /\ x \in Nat /\ a < c /\ l = c + x /\ l <= a + 2 * D
    BY <1>1, <1>2, <2>2, <2>3
  <2> HIDE DEF a, c, e, l, x
  <2>5. a \in Nat /\ l \in Nat /\ a < l /\ l <= a + 2 * D
    BY ONLY <2>4
  <2> QED BY <2>5 DEF a, l
<1> QED BY <1>3, <1>4

\* One sequence behind another.
LEMMA Joined ==
  ASSUME NEW S, NEW a \in Seq(S), NEW b \in Seq(S)
  PROVE  /\ a \o b \in Seq(S) /\ Len(a \o b) = Len(a) + Len(b) /\ Len(a) \in Nat /\ Len(b) \in Nat
         /\ \A p \in 1..Len(a) : (a \o b)[p] = a[p]
         /\ \A k \in 1..Len(b) : (a \o b)[Len(a) + k] = b[k]
         /\ \A p \in 1..Len(a \o b) : p \in 1..Len(a) \/ \E k \in 1..Len(b) : p = Len(a) + k
<1>1. /\ a \o b \in Seq(S) /\ Len(a \o b) = Len(a) + Len(b) /\ Len(a) \in Nat /\ Len(b) \in Nat
      /\ \A p \in 1..Len(a) : (a \o b)[p] = a[p]
      /\ \A k \in 1..Len(b) : (a \o b)[Len(a) + k] = b[k]
  OBVIOUS
<1>2. ASSUME NEW p \in 1..Len(a \o b), p \notin 1..Len(a) PROVE \E k \in 1..Len(b) : p = Len(a) + k
  <2> DEFINE m == Len(a) l == Len(b)
  <2>1. p \in 1..m + l /\ p \notin 1..m /\ m \in Nat /\ l \in Nat
    BY <1>1, <1>2
  <2> HIDE DEF m, l
  <2>2. p - m \in 1..l /\ p = m + (p - m)
    BY ONLY <2>1
  <2> QED BY <2>2 DEF m, l
<1> QED BY <1>1, <1>2

\* The bytes of an item are as many as it has.
LEMMA ItemTyped ==
  ASSUME NEW s \in Sender, NEW r \in Nat, NEW i \in Nat, NEW x \in Nat
  PROVE  ItemBytes(s, r, i, x) \in Seq(Bytes) /\ Len(ItemBytes(s, r, i, x)) = x
<1>1. \A k \in 1..x : k - 1 \in Nat
  OBVIOUS
<1>2. \A k \in 1..x : Byte(s, r, i, k - 1) \in Bytes
  BY <1>1 DEF Byte, Bytes
<1>3. [k \in 1..x |-> Byte(s, r, i, k - 1)] \in [1..x -> Bytes]
  BY ONLY <1>2
<1>4. ItemBytes(s, r, i, x) \in [1..x -> Bytes]
  BY ONLY <1>3 DEF ItemBytes
<1> QED BY ONLY <1>4, x \in Nat

\* The bytes of an item.
LEMMA ItemIs ==
  ASSUME NEW s \in Sender, NEW r \in Nat, NEW i \in Nat, NEW x \in Nat
  PROVE  /\ ItemBytes(s, r, i, x) \in Seq(Bytes) /\ Len(ItemBytes(s, r, i, x)) = x
         /\ \A k \in 1..x : /\ ItemBytes(s, r, i, x)[k] = Byte(s, r, i, k - 1)
                            /\ ItemBytes(s, r, i, x)[k][1] = s /\ ItemBytes(s, r, i, x)[k][2] = r
<1> DEFINE b == ItemBytes(s, r, i, x)
<1>1. \A k \in 1..x : k - 1 \in Nat
  OBVIOUS
<1>2. \A k \in 1..x : Byte(s, r, i, k - 1)[1] = s /\ Byte(s, r, i, k - 1)[2] = r
  BY <1>1 DEF Byte
<1>3. b = [k \in 1..x |-> Byte(s, r, i, k - 1)]
  BY DEF ItemBytes
<1>4. b \in Seq(Bytes) /\ Len(b) = x
  BY ItemTyped
<1> HIDE DEF b
<1>5. \A k \in 1..x : b[k] = Byte(s, r, i, k - 1)
  BY ONLY <1>3
<1>6. \A k \in 1..x : b[k][1] = s /\ b[k][2] = r
  BY ONLY <1>2, <1>5
<1> QED BY <1>4, <1>5, <1>6 DEF b

\* The same, for every item.
LEMMA ItemsAre ==
  \A s \in Sender : \A r, i, x \in Nat :
    ItemBytes(s, r, i, x) \in Seq(Bytes) /\ Len(ItemBytes(s, r, i, x)) = x
<1> SUFFICES ASSUME NEW s \in Sender, NEW r \in Nat, NEW i \in Nat, NEW x \in Nat
             PROVE  ItemBytes(s, r, i, x) \in Seq(Bytes) /\ Len(ItemBytes(s, r, i, x)) = x
  OBVIOUS
<1> QED BY ONLY ItemTyped, s \in Sender, r \in Nat, i \in Nat, x \in Nat

\* How far the buffers have moved when the next item comes.
NextBase(D, end, base) == IF end - base > D THEN base + D ELSE base

\* The next item is laid out behind the others.
LEMMA LaidNext ==
  ASSUME NEW D \in Nat \ {0}, NEW s \in Sender, NEW r \in Nat, NEW w, NEW T, NEW O, NEW B, NEW n,
         Laid(D, w, s, r, T, O, B, n), n < Len(w),
         NEW b, b = NextBase(D, Len(T), B[n]), Len(T) + w[n + 1] <= b + 2 * D
  PROVE  \E U, P, C : /\ Laid(D, w, s, r, U, P, C, n + 1) /\ C[n + 1] = b
                      /\ U = T \o ItemBytes(s, r, n + 1, w[n + 1])
<1> DEFINE x == w[n + 1] l == Len(T) m == n + 1
           add == ItemBytes(s, r, m, x)
           U == T \o add
           P == [i \in 1..m + 1 |-> IF i = m + 1 THEN l + x ELSE O[i]]
           C == [i \in 0..m |-> IF i = m THEN b ELSE B[i]]
<1>1. /\ LaidTypes(w, T, O, B, n) /\ T \in Seq(Bytes) /\ O \in [1..m -> Nat] /\ B \in [0..n -> Nat]
      /\ T[1] = Byte(s, r, 0, 0) /\ O[1] = 1 /\ B[0] = 0 /\ l = O[m] /\ n \in Nat /\ w \in Seq(Nat \ {0})
      /\ \A p \in 1..l : T[p][1] = s /\ T[p][2] = r
  BY DEF Laid, LaidTypes
<1>2. B[n] \in Nat /\ l \in Nat /\ B[n] < l /\ l <= B[n] + 2 * D
  BY LaidNear
<1>3. m \in Nat /\ m \in 1..Len(w) /\ Len(w) \in Nat
  BY <1>1
<1>4. x \in Nat \ {0}
  BY <1>1, <1>3
<1>5. b \in Nat /\ b < l /\ l <= b + D
  <2> DEFINE c == B[n]
  <2>1. c \in Nat /\ l \in Nat /\ c < l /\ l <= c + 2 * D /\ b = IF l - c > D THEN c + D ELSE c
    BY <1>2 DEF NextBase
  <2> HIDE DEF c, l
  <2> QED BY ONLY <2>1, D \in Nat \ {0}
<1>6. add \in Seq(Bytes) /\ Len(add) = x
      /\ \A k \in 1..x : add[k] = Byte(s, r, m, k - 1) /\ add[k][1] = s /\ add[k][2] = r
  <2>1. s \in Sender /\ r \in Nat /\ m \in Nat /\ x \in Nat
    BY <1>3, <1>4
  <2> HIDE DEF m, x
  <2> QED BY ONLY <2>1, ItemIs DEF add
<1> HIDE DEF add, x
<1>7. /\ U \in Seq(Bytes) /\ Len(U) = l + x
      /\ \A p \in 1..l : U[p] = T[p]
      /\ \A k \in 1..x : U[l + k] = add[k]
      /\ \A p \in 1..Len(U) : p \in 1..l \/ \E k \in 1..x : p = l + k
  <2> HIDE DEF U
  <2>1. /\ U \in Seq(Bytes) /\ Len(U) = Len(T) + Len(add)
        /\ \A p \in 1..Len(T) : U[p] = T[p]
        /\ \A k \in 1..Len(add) : U[Len(T) + k] = add[k]
        /\ \A p \in 1..Len(U) : p \in 1..Len(T) \/ \E k \in 1..Len(add) : p = Len(T) + k
    <3>1. T \in Seq(Bytes) /\ add \in Seq(Bytes)
      BY <1>1, <1>6
    <3>2. U = T \o add
      BY DEF U
    <3>3. /\ T \o add \in Seq(Bytes) /\ Len(T \o add) = Len(T) + Len(add)
          /\ \A p \in 1..Len(T) : (T \o add)[p] = T[p]
          /\ \A k \in 1..Len(add) : (T \o add)[Len(T) + k] = add[k]
          /\ \A p \in 1..Len(T \o add) : p \in 1..Len(T) \/ \E k \in 1..Len(add) : p = Len(T) + k
      BY ONLY <3>1, Joined
    <3> QED BY ONLY <3>2, <3>3
  <2> QED BY <1>6, <2>1
<1> HIDE DEF l, m
<1>8. /\ P \in [1..m + 1 -> Nat] /\ P[m + 1] = l + x /\ \A i \in 1..m : P[i] = O[i]
  <2>1. \A i \in 1..m + 1 : i # m + 1 => i \in 1..m
    BY <1>3
  <2>2. l + x \in Nat /\ m + 1 \in 1..m + 1 /\ \A i \in 1..m : i # m + 1 /\ i \in 1..m + 1
    BY <1>2, <1>3, <1>4
  <2> QED BY <1>1, <2>1, <2>2
<1>9. /\ C \in [0..m -> Nat] /\ C[m] = b /\ \A i \in 0..n : C[i] = B[i]
  <2>1. (\A i \in 0..m : i # m => i \in 0..n) /\ m \in 0..m /\ \A i \in 0..n : i # m /\ i \in 0..m
    BY <1>1, <1>3 DEF m
  <2> QED BY <1>1, <1>5, <2>1
<1> HIDE DEF U, P, C
<1>10. \A p \in 1..Len(U) : U[p][1] = s /\ U[p][2] = r
  <2> SUFFICES ASSUME NEW p \in 1..Len(U) PROVE U[p][1] = s /\ U[p][2] = r
    OBVIOUS
  <2>1. CASE p \in 1..l
    BY <1>1, <1>7, <2>1
  <2>2. CASE p \notin 1..l
    <3>1. PICK k \in 1..x : p = l + k
      BY <1>7, <2>2
    <3>2. U[p] = add[k]
      BY <1>7, <3>1
    <3> QED BY <1>6, <3>2
  <2> QED BY <2>1, <2>2
<1>11. ASSUME NEW i \in 1..m PROVE LaidItem(D, w, s, r, U, P, C, i)
  <2>1. CASE i = m
    <3>1. i - 1 = n /\ n \in 0..n /\ m \in 1..m
      BY <1>1, <1>3, <2>1 DEF m
    <3>2. P[i] = l /\ C[i - 1] = B[n] /\ C[i] = b /\ P[i + 1] = l + x /\ w[i] = x
      BY <1>1, <1>8, <1>9, <2>1, <3>1 DEF m, x
    <3>3. \A k \in 1..w[i] : U[P[i] + k] = Byte(s, r, i, k - 1)
      BY <1>6, <1>7, <2>1, <3>2
    <3>4. C[i] = IF P[i] - C[i - 1] > D THEN C[i - 1] + D ELSE C[i - 1]
      BY <3>2 DEF NextBase, l
    <3>5. C[i] < P[i] /\ P[i] <= C[i] + D /\ P[i + 1] = P[i] + w[i] /\ P[i + 1] <= C[i] + 2 * D
      BY <1>5, <3>2 DEF l, x, m
    <3> QED BY <3>3, <3>4, <3>5 DEF LaidItem
  <2>2. CASE i # m
    <3>1. i \in 1..n /\ i \in 1..m /\ i + 1 \in 1..m /\ i - 1 \in 0..n /\ i \in 0..n
      <4>1. n \in Nat /\ i \in 1..n + 1 /\ i # n + 1
        BY <1>1, <2>2 DEF m
      <4> QED BY ONLY <4>1 DEF m
    <3>2. /\ C[i] = B[i] /\ C[i - 1] = B[i - 1] /\ P[i] = O[i] /\ P[i + 1] = O[i + 1]
      BY <1>8, <1>9, <3>1
    <3>3. LaidItem(D, w, s, r, T, O, B, i)
      BY <3>1 DEF Laid
    <3>4. \A k \in 1..w[i] : U[O[i] + k] = T[O[i] + k]
      <4>1. O[i + 1] <= l
        BY LaidGrows, <3>1 DEF m, l
      <4>2. O[i] \in Nat /\ O[i + 1] \in Nat /\ w[i] \in Nat /\ O[i + 1] = O[i] + w[i]
        BY <1>1, <3>1, <3>3, LaidNumbers DEF LaidItem
      <4> DEFINE a == O[i] e == w[i]
      <4>3. a \in Nat /\ e \in Nat /\ a + e <= l /\ l \in Nat
        BY <1>2, <4>1, <4>2 DEF l
      <4> HIDE DEF a, e
      <4>4. \A k \in 1..e : a + k \in 1..l
        BY ONLY <4>3
      <4> QED BY <1>7, <4>4 DEF a, e
    <3> QED BY <3>2, <3>3, <3>4 DEF LaidItem
  <2> QED BY <2>1, <2>2
<1>12. U[1] = Byte(s, r, 0, 0) /\ P[1] = 1 /\ C[0] = 0 /\ Len(U) = P[m + 1]
  <2>1. 1 \in 1..l /\ 1 \in 1..m /\ 0 \in 0..n
    BY <1>1, <1>2, <1>3 DEF l
  <2> QED BY <1>1, <1>7, <1>8, <1>9, <2>1
<1>13. LaidTypes(w, U, P, C, m)
  <2>1. m <= Len(w)
    BY <1>3
  <2>2. w \in Seq(Nat \ {0})
    BY <1>1
  <2> QED BY ONLY <1>3, <1>7, <1>8, <1>9, <2>1, <2>2 DEF LaidTypes
<1>14. Laid(D, w, s, r, U, P, C, m)
  BY <1>10, <1>11, <1>12, <1>13 DEF Laid
<1> QED BY <1>9, <1>14 DEF U, add, m, x

-----------------------------------------------------------------------------
(* What the encoder sends, and what it keeps, is the report.               *)

\* What is written into a frame is what the report has at its place.
LEMMA FrameCarries ==
  ASSUME NEW D \in Nat \ {0}, NEW w, NEW T, Len(T) \in Nat, NEW b \in Nat, NEW n, NEW s, NEW e \in Encoder,
         Encodes(T, b, n, e), NEW len \in 1..Len(e.pend), len <= D, NEW flushing \in BOOLEAN,
         IF flushing THEN n = Len(w) /\ len = Len(e.pend) ELSE len = D
  PROVE  Carries(D, w, T, n, Frame(s, e, len, flushing))
<1> DEFINE f == Frame(s, e, len, flushing)
<1>1. f.at = b /\ f.data = SubSeq(e.pend, 1, len) /\ f.type = FrameType(e, flushing)
  BY DEF Frame, Encodes
<1>2. Ends(f.type) <=> flushing
  BY <1>1 DEF FrameType, Ends
<1> HIDE DEF f
<1>3. e.pend \in Seq(Bytes) /\ Len(e.pend) \in Nat /\ Len(e.pend) = Len(T) - b
  BY DEF Encoder, Encodes
<1>4. len \in Nat /\ len >= 1 /\ len <= Len(e.pend)
  BY <1>3
<1>5. Len(f.data) = len /\ \A j \in 1..len : f.data[j] = e.pend[j] /\ j \in 1..Len(e.pend)
  <2> DEFINE p == e.pend
  <2> HIDE DEF p
  <2>1. p \in Seq(Bytes) /\ len \in Nat /\ len >= 1 /\ len <= Len(p)
    BY <1>3, <1>4 DEF p
  <2>2. Len(SubSeq(p, 1, len)) = len /\ \A j \in 1..len : SubSeq(p, 1, len)[j] = p[j] /\ j \in 1..Len(p)
    BY ONLY <2>1
  <2> QED BY <1>1, <2>2 DEF p
<1>6. \A j \in 1..len : f.data[j] = T[b + j]
  BY <1>5 DEF Encodes
<1>7. b + len <= Len(T) /\ (flushing => b + len = Len(T)) /\ len \in 1..D
  <2> DEFINE l == Len(e.pend) t == Len(T)
  <2>1. l = t - b /\ t \in Nat /\ len <= l /\ len \in Nat /\ len >= 1 /\ (flushing => len = l)
    BY <1>3, <1>4
  <2> HIDE DEF l, t
  <2>2. b + len <= t
    BY <2>1
  <2>3. flushing => b + len = t
    BY <2>1
  <2> QED BY <1>4, <2>2, <2>3 DEF t
<1>8. flushing => n = Len(w)
  OBVIOUS
<1>9. ~flushing => len = D
  OBVIOUS
<1>10. f.at \in Nat /\ Len(f.data) \in 1..D /\ f.at + Len(f.data) <= Len(T)
  BY <1>1, <1>5, <1>7
<1>11. \A j \in 1..Len(f.data) : f.data[j] = T[f.at + j]
  BY <1>1, <1>5, <1>6
<1>12. IF Ends(f.type) THEN n = Len(w) /\ f.at + Len(f.data) = Len(T) ELSE Len(f.data) = D
  <2>1. CASE flushing
    BY <1>1, <1>2, <1>5, <1>7, <1>8, <2>1
  <2>2. CASE ~flushing
    BY <1>2, <1>5, <1>9, <2>2
  <2> QED BY <2>1, <2>2
<1> QED BY <1>10, <1>11, <1>12 DEF Carries, f

\* writeIfNecessary moves the encoder to where the next item is put.
LEMMA SentEncodes ==
  ASSUME Types, NEW T, Len(T) \in Nat, NEW b \in Nat, NEW n, NEW e \in Encoder, Encodes(T, b, n, e)
  PROVE  Encodes(T, NextBase(DataSize, Len(T), b), n, Sent(e))
<1>1. DataSize \in Nat \ {0} /\ e.pend \in Seq(Bytes) /\ Len(e.pend) \in Nat
  BY Sizes DEF Encoder
<1>2. Len(e.pend) = Len(T) - b /\ e.exported = b /\ e.item = n + 1
      /\ \A j \in 1..Len(e.pend) : e.pend[j] = T[b + j]
  BY DEF Encodes
<1>3. CASE ~Overfull(e)
  BY <1>2, <1>3 DEF Sent, Overfull, NextBase
<1>4. CASE Overfull(e)
  <2> DEFINE p == SubSeq(e.pend, DataSize + 1, Len(e.pend)) c == b + DataSize
  <2>1. Sent(e).pend = p /\ Sent(e).exported = c /\ Sent(e).item = n + 1
    BY <1>2, <1>4 DEF Sent, Shifted, Encoder
  <2>2. Len(e.pend) > DataSize
    BY <1>4 DEF Overfull
  <2>3. Len(p) = Len(e.pend) - DataSize /\ \A j \in 1..Len(p) : p[j] = e.pend[DataSize + j] /\ DataSize + j \in 1..Len(e.pend)
    <3> DEFINE q == e.pend D == DataSize
    <3>1. q \in Seq(Bytes) /\ D \in Nat \ {0} /\ Len(q) \in Nat /\ Len(q) > D
      BY <1>1, <2>2
    <3> HIDE DEF q, D
    <3>2. Len(SubSeq(q, D + 1, Len(q))) = Len(q) - D
      BY ONLY <3>1
    <3>3. \A j \in 1..Len(q) - D : SubSeq(q, D + 1, Len(q))[j] = q[D + j] /\ D + j \in 1..Len(q)
      BY ONLY <3>1
    <3> QED BY <3>2, <3>3 DEF q, D
  <2> HIDE DEF p
  <2>4. NextBase(DataSize, Len(T), b) = c
    BY <1>2, <2>2 DEF NextBase
  <2>5. Len(p) = Len(T) - c
    BY <1>1, <1>2, <2>3
  <2>6. \A j \in 1..Len(p) : p[j] = T[c + j]
    <3>1. \A j \in 1..Len(p) : b + (DataSize + j) = c + j
      BY <1>1, <2>5
    <3> QED BY <1>2, <2>3, <3>1, ZenonT(60)
  <2> QED BY <2>1, <2>4, <2>5, <2>6 DEF Encodes
<1> QED BY <1>3, <1>4

\* The next item is put behind what is in the buffer.
LEMMA PutEncodes ==
  ASSUME Types, NEW s \in Sender, NEW T \in Seq(Bytes), NEW b \in Nat, b <= Len(T), NEW n \in Nat, NEW e \in Encoder,
         Encodes(T, b, n, e), NEW x \in Nat, NEW z \in Nat, z = Latest(s)
  PROVE  Encodes(T \o ItemBytes(s, z, n + 1, x), b, n + 1, Put(s, e, x))
<1> DEFINE add == ItemBytes(s, z, n + 1, x) U == T \o add q == Put(s, e, x)
<1>1. n + 1 \in Nat
  OBVIOUS
<1>2. add \in Seq(Bytes) /\ Len(add) = x
  BY <1>1, ItemsAre, ZenonT(60)
<1>3. e.item = n + 1 /\ e.exported = b /\ Len(e.pend) = Len(T) - b /\ e.pend \in Seq(Bytes)
      /\ \A j \in 1..Len(e.pend) : e.pend[j] = T[b + j]
  BY DEF Encodes, Encoder
<1>4. q.item = n + 1 + 1 /\ q.exported = b /\ q.pend = e.pend \o add
  <2>1. e = [pend |-> e.pend, exported |-> e.exported, end |-> e.end, item |-> e.item, seq |-> e.seq]
    BY DEF Encoder
  <2>2. q = [e EXCEPT !.pend = e.pend \o add, !.item = e.item + 1]
    BY <1>3, <2>1 DEF Put, Latest
  <2> QED BY <1>3, <2>1, <2>2
<1> HIDE DEF add, q
<1> DEFINE p == e.pend r == p \o add
<1>5. /\ Len(r) = Len(p) + x /\ Len(p) \in Nat
      /\ \A j \in 1..Len(p) : r[j] = p[j]
      /\ \A k \in 1..x : r[Len(p) + k] = add[k]
      /\ \A j \in 1..Len(r) : j \in 1..Len(p) \/ \E k \in 1..x : j = Len(p) + k
  <2> HIDE DEF p
  <2>1. p \in Seq(Bytes)
    BY <1>3 DEF p
  <2>2. /\ Len(r) = Len(p) + Len(add) /\ Len(p) \in Nat
        /\ \A j \in 1..Len(p) : r[j] = p[j]
        /\ \A k \in 1..Len(add) : r[Len(p) + k] = add[k]
        /\ \A j \in 1..Len(r) : j \in 1..Len(p) \/ \E k \in 1..Len(add) : j = Len(p) + k
    <3>1. p \in Seq(Bytes) /\ add \in Seq(Bytes)
      BY <1>2, <2>1
    <3> QED BY ONLY <3>1, Joined
  <2> HIDE DEF r
  <2> QED BY <1>2, <2>2
<1>6. /\ Len(U) = Len(T) + x /\ Len(T) \in Nat
      /\ \A j \in 1..Len(T) : U[j] = T[j]
      /\ \A k \in 1..x : U[Len(T) + k] = add[k]
  <2>1. /\ Len(U) = Len(T) + Len(add) /\ Len(T) \in Nat
        /\ \A j \in 1..Len(T) : U[j] = T[j]
        /\ \A k \in 1..Len(add) : U[Len(T) + k] = add[k]
    <3>1. T \in Seq(Bytes) /\ add \in Seq(Bytes)
      BY <1>2
    <3> QED BY ONLY <3>1, Joined
  <2> HIDE DEF U
  <2> QED BY <1>2, <2>1
<1> HIDE DEF U, r, p
<1>7. Len(p) = Len(T) - b
  BY <1>3 DEF p
<1>8. Len(r) = Len(U) - b
  BY ONLY <1>5, <1>6, <1>7, b \in Nat, x \in Nat
<1>9. ASSUME NEW j \in 1..Len(r) PROVE r[j] = U[b + j]
  <2>1. CASE j \in 1..Len(p)
    <3>1. b + j \in 1..Len(T)
      BY ONLY <1>5, <1>6, <1>7, <2>1, b \in Nat
    <3> QED BY <1>3, <1>5, <1>6, <2>1, <3>1 DEF p
  <2>2. CASE j \notin 1..Len(p)
    <3>1. PICK k \in 1..x : j = Len(p) + k
      BY <1>5, <2>2
    <3>2. b + j = Len(T) + k
      BY ONLY <1>5, <1>6, <1>7, <3>1, b \in Nat, x \in Nat, k \in 1..x
    <3>3. r[Len(p) + k] = add[k] /\ U[Len(T) + k] = add[k]
      BY <1>5, <1>6
    <3> QED BY <3>1, <3>2, <3>3
  <2> QED BY <2>1, <2>2
<1> QED BY <1>4, <1>8, <1>9 DEF Encodes, p, r, U, add, q

-----------------------------------------------------------------------------
(* Every report has its layout, whoever carries a part of it.              *)

\* The frames on their way, and those a decoder has been given since a first one (a decoder
\* that is being read is one, whatever has become of it).
HasDecoder(k) == decoders[k] # None \/ (reading # None /\ k = Key(reading))
Gathered(k) == IF HasDecoder(k) THEN {decoders[k].run[i] : i \in DOMAIN decoders[k].run} ELSE {}
Carried == UNION {OnWire(k) \cup Gathered(k) : k \in Sender}

\* What the decoder of a report that is read has done, after m items: O[m + 1] bytes are
\* decoded, B[m] of them have left the buffer, and the buffer and the queue hold the rest.
Decodable(run) == Whole(run) /\ ~Crowded(run)
DecodesAt(D, s, r, T, b, o, m, d) ==
  /\ d.items \in Seq(Items) /\ Len(d.items) = m /\ \A i \in 1..m : d.items[i] = <<s, r, i>>
  /\ d.pos = o - b
  /\ \E q \in 0..Len(d.run) :
       /\ d.queue = SubSeq(d.run, q + 1, Len(d.run))
       /\ IF q < Len(d.run) THEN q >= 2 /\ d.run[q + 1].at = b + 2 * D ELSE Len(T) <= b + 2 * D
  /\ \A j \in 1..2 * D : b + j <= Len(T) => d.buf[j] = T[b + j]
  /\ d.end \in Nat /\ (d.end >= 2 * D \/ b + d.end >= Len(T))
Decodes(D, w, s, r, T, O, B, d) ==
  \E m \in 0..Len(w) - 1 : DecodesAt(D, s, r, T, B[m], O[m + 1], m, d)

\* A callback reads a report of which all frames are there.
ReadBy(k, s, r) ==
  /\ reading # None /\ k = Key(reading) /\ Decodable(decoders[k].run)
  /\ decoders[k].run[1].from = s /\ decoders[k].run[1].rep = r

\* The encoder, the frames and the decoder agree on the bytes of report r of sender s.
Placed(s, r, T, O, B, n) ==
  /\ Laid(DataSize, started[s][r], s, r, T, O, B, n)
  /\ enc[s] # None /\ r = Latest(s) => Encodes(T, B[n], n, enc[s])
  /\ \A f \in Carried : f.from = s /\ f.rep = r => Carries(DataSize, started[s][r], T, n, f)
ReadOn(s, r, T, O, B) ==
  \A k \in Sender : ReadBy(k, s, r) => Decodes(DataSize, started[s][r], s, r, T, O, B, decoders[k])
Told(s, r) == \E T, O, B, n : Placed(s, r, T, O, B, n) /\ ReadOn(s, r, T, O, B)
Story(s, r) == ~Wide(s, r) => Told(s, r)

Stories == \A s \in Sender : \A r \in 1..Latest(s) : Story(s, r)
Known ==
  /\ \A f \in Carried : f \in Frames /\ f.from \in Sender /\ f.rep \in 1..Latest(f.from)
  /\ \A s \in Sender : \A f \in OnWire(s) : f.from = s

\* A decoder, whatever it has been given: the buffer has its size, and until the last frame
\* of a report is there it only queues.
IsRecord(d) ==
  d = [queue |-> d.queue, buf |-> d.buf, run |-> d.run, pos |-> d.pos, end |-> d.end, items |-> d.items]
Keeping(d) ==
  /\ IsRecord(d) /\ d.queue \in Seq(Frames) /\ d.run \in Seq(Frames) /\ d.run # <<>>
  /\ d.buf \in Seq(Bytes \cup {None}) /\ Len(d.buf) = Limit
  /\ (\A i \in DOMAIN d.run : ~Ends(d.run[i].type)) => d.queue = d.run
Kept ==
  /\ DOMAIN decoders = Sender
  /\ \A k \in Sender : HasDecoder(k) => Keeping(decoders[k])
  /\ reading # None =>
       /\ reading \in Sender
       /\ \E i \in DOMAIN decoders[Key(reading)].run : Ends(decoders[Key(reading)].run[i].type)

\* A report keeps its widths.
LEMMA WideStays ==
  ASSUME UNCHANGED setup, NEW s, NEW r, started'[s][r] = started[s][r]
  PROVE  Wide(s, r)' <=> Wide(s, r)
BY DEF Wide, DataSize

\* A step that adds no frame to a report, and leaves its encoder and its decoder alone.
LEMMA StoryStays ==
  ASSUME UNCHANGED setup, NEW s, NEW r, Story(s, r), started'[s][r] = started[s][r],
         \A f \in Carried' : f.from = s /\ f.rep = r => f \in Carried,
         enc'[s] # None /\ r = Latest(s)' => enc'[s] = enc[s] /\ r = Latest(s),
         \A k \in Sender : ReadBy(k, s, r)' => ReadBy(k, s, r) /\ decoders'[k] = decoders[k]
  PROVE  Story(s, r)'
<1>1. Wide(s, r)' <=> Wide(s, r)
  BY WideStays
<1>2. ASSUME ~Wide(s, r) PROVE Told(s, r)'
  <2>1. PICK T, O, B, n : Placed(s, r, T, O, B, n) /\ ReadOn(s, r, T, O, B)
    BY <1>2 DEF Story, Told
  <2>2. DataSize' = DataSize
    BY DEF DataSize
  <2>3. Placed(s, r, T, O, B, n)'
    BY <2>1, <2>2 DEF Placed
  <2>4. ReadOn(s, r, T, O, B)'
    BY <2>1, <2>2 DEF ReadOn
  <2> QED BY <2>3, <2>4 DEF Told
<1> QED BY <1>1, <1>2 DEF Story

\* The first frame of a run is one of those a decoder has.
LEMMA ReadIsCarried ==
  ASSUME Known, Kept, NEW k \in Sender, NEW s, NEW r, ReadBy(k, s, r)
  PROVE  s \in Sender /\ r \in 1..Latest(s)
<1>1. HasDecoder(k) /\ decoders[k].run # <<>> /\ decoders[k].run[1].from = s /\ decoders[k].run[1].rep = r
  BY DEF ReadBy, HasDecoder, Decodable, Whole, Kept
<1>2. 1 \in DOMAIN decoders[k].run => decoders[k].run[1] \in Carried
  BY <1>1 DEF Gathered, Carried
<1>3. decoders[k].run \in Seq(Frames)
  BY <1>1 DEF Kept, Keeping
<1>4. 1 \in DOMAIN decoders[k].run
  BY <1>1, <1>3
<1> QED BY <1>1, <1>2, <1>4 DEF Known

\* A step that sends frames F of the latest report of s, or loses some.
LEMMA PublisherReads ==
  ASSUME Known, Stories, Kept, UNCHANGED <<setup, decoders, reading, started>>, NEW s \in Sender,
         NEW F, \A f \in F : f \in Frames /\ f.from = s /\ f.rep = Latest(s) /\ f.rep \in 1..Latest(s),
         \A u \in Sender \ {s} : enc'[u] = enc[u] /\ wire'[u] = wire[u],
         OnWire(s)' \subseteq OnWire(s) \cup F,
         Latest(s) \in 1..Latest(s) => Story(s, Latest(s))'
  PROVE  Known' /\ Stories' /\ Kept'
<1>1. \A u \in Sender : Latest(u)' = Latest(u) /\ Gathered(u)' = Gathered(u)
  BY DEF Latest, Gathered, HasDecoder, Key
<1>2. \A u \in Sender \ {s} : OnWire(u)' = OnWire(u)
  BY DEF OnWire
<1>3. Carried' \subseteq Carried \cup F
  BY <1>1, <1>2 DEF Carried
<1>4. Known'
  <2>1. \A u \in Sender : \A f \in OnWire(u)' : f.from = u
    BY <1>2 DEF Known
  <2>2. ASSUME NEW f \in Carried' PROVE f \in Frames /\ f.from \in Sender /\ f.rep \in 1..Latest(f.from)
    BY <1>3 DEF Known
  <2> QED BY <1>1, <2>1, <2>2 DEF Known
<1>5. Kept'
  BY DEF Kept, HasDecoder, Keeping, IsRecord, Limit, Size, Key
<1>6. \A k, u, r : ReadBy(k, u, r)' <=> ReadBy(k, u, r)
  BY DEF ReadBy, Key, Decodable, Crowded, Whole
<1>7. ASSUME NEW u \in Sender, NEW r \in 1..Latest(u), ~(u = s /\ r = Latest(s)) PROVE Story(u, r)'
  <2>1. Story(u, r)
    BY DEF Stories
  <2>2. \A f \in Carried' : f.from = u /\ f.rep = r => f \in Carried
    BY <1>3, <1>7
  <2>3. enc'[u] # None /\ r = Latest(u)' => enc'[u] = enc[u] /\ r = Latest(u)
    BY <1>1, <1>7
  <2> QED BY <1>6, <2>1, <2>2, <2>3, StoryStays
<1>8. Stories'
  BY <1>1, <1>7 DEF Stories
<1> QED BY <1>4, <1>5, <1>8

\* publish(): nothing of the report is anywhere yet.
LEMMA BeginReads ==
  ASSUME Inv, Known, Stories, Kept, UNCHANGED setup, NEW s \in Sender, NEW widths \in Reports, Begin(s, widths)
  PROVE  Known' /\ Stories' /\ Kept'
<1>0. PICK r : r = Len(started[s]) + 1
  OBVIOUS
<1>1. /\ started' = [started EXCEPT ![s] = Append(started[s], widths)]
      /\ enc' = [enc EXCEPT ![s] = NewEncoder(Byte(s, Len(started'[s]), 0, 0))]
      /\ UNCHANGED <<wire, decoders, reading>>
  BY DEF Begin
<1>2. started \in [Sender -> Seq(Reports)] /\ enc \in [Sender -> Encoder \cup {None}]
  BY DEF Inv, Types
<1>3. /\ started'[s] = Append(started[s], widths) /\ Len(started[s]) \in Nat
      /\ \A u \in Sender \ {s} : started'[u] = started[u] /\ enc'[u] = enc[u]
      /\ enc'[s] = NewEncoder(Byte(s, Len(started'[s]), 0, 0))
  BY <1>1, <1>2
<1>4. Len(started'[s]) = r /\ started'[s][r] = widths /\ \A i \in 1..Len(started[s]) : started'[s][i] = started[s][i]
  BY <1>0, <1>2, <1>3
<1>5. /\ Latest(s) = r - 1 /\ Latest(s)' = r /\ r \in Nat \ {0}
      /\ \A u \in Sender \ {s} : Latest(u)' = Latest(u)
  BY <1>0, <1>3, <1>4 DEF Latest
<1>6. Carried' = Carried /\ \A u \in Sender : OnWire(u)' = OnWire(u)
  BY <1>1 DEF Carried, OnWire, Gathered, HasDecoder, Key
<1>7. Known'
  <2>1. \A u \in Sender : 1..Latest(u) \subseteq 1..Latest(u)'
    BY <1>5
  <2> QED BY <1>6, <2>1 DEF Known
<1>8. Kept'
  BY <1>1 DEF Kept, HasDecoder, Keeping, IsRecord, Limit, Size, Key
<1>9. \A k, u, i : ReadBy(k, u, i)' <=> ReadBy(k, u, i)
  BY <1>1 DEF ReadBy, Key, Decodable, Crowded, Whole
<1>10. ASSUME NEW u \in Sender, NEW i \in 1..Latest(u) PROVE Story(u, i)'
  <2>1. Story(u, i)
    BY DEF Stories
  <2>2. started'[u][i] = started[u][i]
    BY <1>3, <1>4 DEF Latest
  <2>3. enc'[u] # None /\ i = Latest(u)' => enc'[u] = enc[u] /\ i = Latest(u)
    BY <1>3, <1>5
  <2> QED BY <1>1, <1>6, <1>9, <2>1, <2>2, <2>3, StoryStays
<1>11. \A f \in Carried : ~(f.from = s /\ f.rep = r)
  BY <1>5 DEF Known
<1>12. \A k \in Sender : ~ReadBy(k, s, r)
  BY <1>5, ReadIsCarried
<1>13. Story(s, r)'
  <2>1. DataSize \in Nat \ {0} /\ DataSize' = DataSize
    BY Sizes DEF Inv, DataSize
  <2>2. widths \in Seq(Nat \ {0})
    BY StreamAssumption
  <2>3. PICK T, O, B : Laid(DataSize, widths, s, r, T, O, B, 0) /\ B[0] = 0 /\ T = <<Byte(s, r, 0, 0)>>
    <3>1. DataSize \in Nat \ {0} /\ widths \in Seq(Nat \ {0}) /\ s \in Sender /\ r \in Nat
      BY <1>5, <2>1, <2>2
    <3> QED BY ONLY <3>1, LaidFirst
  <2>4. Encodes(T, 0, 0, enc'[s])
    <3>1. enc'[s].item = 1 /\ enc'[s].exported = 0 /\ enc'[s].pend = T
      BY <1>3, <1>4, <2>3 DEF NewEncoder
    <3>2. Len(T) = 1 /\ \A j \in 1..Len(T) : 0 + j = j
      BY <2>3
    <3> QED BY <3>1, <3>2 DEF Encodes
  <2>5. Placed(s, r, T, O, B, 0)'
    BY <1>4, <1>6, <1>11, <2>1, <2>3, <2>4 DEF Placed
  <2>6. ReadOn(s, r, T, O, B)'
    BY <1>9, <1>12 DEF ReadOn
  <2> QED BY <2>5, <2>6 DEF Story, Told
<1>14. Stories'
  <2>1. \A u \in Sender : \A i \in 1..Latest(u)' : i \in 1..Latest(u) \/ (u = s /\ i = r)
    BY <1>5
  <2> QED BY <1>10, <1>13, <2>1 DEF Stories
<1> QED BY <1>7, <1>8, <1>14

\* The frames of a whole report are those of one report, and only the last one ends it.
LEMMA OfOneReport ==
  ASSUME NEW run \in Seq(Frames), Whole(run)
  PROVE  /\ Len(run) \in Nat \ {0}
         /\ \A i \in 1..Len(run) : /\ run[i].from = run[1].from /\ run[i].rep = run[1].rep
                                   /\ Ends(run[i].type) <=> i = Len(run)
<1>1. Len(run) \in Nat \ {0} /\ run # <<>>
  BY DEF Whole
<1>2. \A i \in 1..Len(run) - 1 : /\ run[i + 1].from = run[i].from /\ run[i + 1].rep = run[i].rep
                                 /\ ~Ends(run[i].type)
  BY DEF Whole, Continues
<1>3. Ends(run[Len(run)].type)
  BY DEF Whole, Last
<1> DEFINE Other == {i \in 1..Len(run) : ~(run[i].from = run[1].from /\ run[i].rep = run[1].rep)}
<1>4. ASSUME Other # {} PROVE FALSE
  <2>1. Other \subseteq Nat
    BY <1>1
  <2>2. PICK i \in Other : \A j \in Other : i <= j
    BY <1>4, <2>1, Least
  <2>3. i \in 1..Len(run) /\ i # 1
    OBVIOUS
  <2>4. i - 1 \in 1..Len(run) - 1 /\ i - 1 \in 1..Len(run) /\ (i - 1) + 1 = i /\ ~(i <= i - 1)
    BY ONLY <1>1, <2>3
  <2>5. i - 1 \notin Other
    BY <2>2, <2>4
  <2>6. run[i - 1].from = run[1].from /\ run[i - 1].rep = run[1].rep
    BY <2>4, <2>5
  <2> QED BY <1>2, <2>2, <2>4, <2>6
<1>5. \A i \in 1..Len(run) : i = Len(run) \/ i \in 1..Len(run) - 1
  BY <1>1
<1>6. Len(run) \notin 1..Len(run) - 1
  BY <1>1
<1> QED BY <1>1, <1>2, <1>3, <1>4, <1>5

\* All the frames of a report that is read carry it, so that it was encoded to its end.
LEMMA ReadCarries ==
  ASSUME Kept, NEW k \in Sender, NEW s, NEW r, ReadBy(k, s, r),
         NEW T, NEW O, NEW B, NEW n, Placed(s, r, T, O, B, n)
  PROVE  /\ decoders[k].run \in Seq(Frames) /\ Whole(decoders[k].run)
         /\ \A i \in 1..Len(decoders[k].run) : Carries(DataSize, started[s][r], T, n, decoders[k].run[i])
         /\ n = Len(started[s][r])
<1> DEFINE run == decoders[k].run
<1>1. HasDecoder(k) /\ Whole(run) /\ run[1].from = s /\ run[1].rep = r
  BY DEF ReadBy, HasDecoder, Decodable, Kept
<1>2. run \in Seq(Frames)
  BY <1>1 DEF Kept, Keeping
<1>3. /\ Len(run) \in Nat \ {0}
      /\ \A i \in 1..Len(run) : run[i].from = s /\ run[i].rep = r /\ (Ends(run[i].type) <=> i = Len(run))
  <2> HIDE DEF run
  <2> QED BY <1>1, <1>2, OfOneReport
<1>4. DOMAIN run = 1..Len(run)
  BY <1>2
<1>5. \A i \in 1..Len(run) : run[i] \in Carried
  BY <1>1, <1>4 DEF Gathered, Carried
<1> HIDE DEF run
<1>6. \A i \in 1..Len(run) : Carries(DataSize, started[s][r], T, n, run[i])
  BY <1>3, <1>5 DEF Placed
<1>7. Len(run) \in 1..Len(run)
  BY <1>3
<1>8. n = Len(started[s][r])
  BY <1>3, <1>6, <1>7 DEF Carries
<1> QED BY <1>1, <1>2, <1>6, <1>8 DEF run

\* What a frame carries stays when the report grows.
LEMMA CarriesGrows ==
  ASSUME NEW D, NEW w, NEW T, NEW U, NEW n \in Nat, NEW f, Carries(D, w, T, n, f), n # Len(w),
         Len(T) \in Nat, Len(U) \in Nat, Len(T) <= Len(U), \A p \in 1..Len(T) : U[p] = T[p], D \in Nat
  PROVE  Carries(D, w, U, n + 1, f)
<1> DEFINE l == Len(f.data) a == f.at t == Len(T) u == Len(U)
<1>1. /\ a \in Nat /\ l \in 1..D /\ a + l <= t /\ ~Ends(f.type) /\ l = D /\ t \in Nat /\ u \in Nat /\ t <= u
      /\ \A j \in 1..l : f.data[j] = T[a + j]
  BY DEF Carries
<1>2. a + l <= u /\ \A j \in 1..l : a + j \in 1..t
  <2> HIDE DEF a, l, t, u
  <2>1. a \in Nat /\ l \in 1..D /\ a + l <= t /\ t \in Nat /\ u \in Nat /\ t <= u /\ D \in Nat
    BY <1>1
  <2> QED BY ONLY <2>1
<1>3. \A j \in 1..l : f.data[j] = U[a + j]
  BY <1>1, <1>2
<1> QED BY <1>1, <1>2, <1>3 DEF Carries

\* The layout of the latest report after a step of its publisher.
LEMMA LatestStory ==
  ASSUME UNCHANGED <<setup, decoders, reading, started>>, NEW s \in Sender, NEW r, NEW F,
         \A u \in Sender \ {s} : wire'[u] = wire[u], OnWire(s)' \subseteq OnWire(s) \cup F,
         NEW T, NEW O, NEW B, NEW n, Laid(DataSize, started[s][r], s, r, T, O, B, n),
         \A f \in Carried : f.from = s /\ f.rep = r => Carries(DataSize, started[s][r], T, n, f),
         \A f \in F : Carries(DataSize, started[s][r], T, n, f),
         enc'[s] # None => Encodes(T, B[n], n, enc'[s]),
         ReadOn(s, r, T, O, B)
  PROVE  Story(s, r)'
<1>1. DataSize' = DataSize
  BY DEF DataSize
<1>2. Carried' \subseteq Carried \cup F
  BY DEF Carried, Gathered, HasDecoder, Key, OnWire
<1>3. Placed(s, r, T, O, B, n)'
  BY <1>1, <1>2 DEF Placed
<1>4. \A k, u, i : ReadBy(k, u, i)' <=> ReadBy(k, u, i)
  BY DEF ReadBy, Key, Decodable, Crowded, Whole
<1>5. ReadOn(s, r, T, O, B)'
  BY <1>1, <1>4 DEF ReadOn
<1> QED BY <1>3, <1>5 DEF Story, Told

\* The frame that goes out when there is more in the buffer than one takes.
SentFrames(s, e) == IF Overfull(e) THEN {Frame(s, e, DataSize, FALSE)} ELSE {}

\* writeIfNecessary sends a piece of the report.
LEMMA SentCarries ==
  ASSUME Types, NEW s \in Sender, NEW e \in Encoder, NEW w, NEW T, Len(T) \in Nat, NEW b \in Nat, NEW n, Encodes(T, b, n, e)
  PROVE  \A f \in SentFrames(s, e) : /\ Carries(DataSize, w, T, n, f)
                                     /\ f \in Frames /\ f.from = s /\ f.rep = Latest(s)
<1> SUFFICES ASSUME Overfull(e)
             PROVE  /\ Carries(DataSize, w, T, n, Frame(s, e, DataSize, FALSE))
                    /\ Frame(s, e, DataSize, FALSE) \in Frames
                    /\ Frame(s, e, DataSize, FALSE).from = s /\ Frame(s, e, DataSize, FALSE).rep = Latest(s)
  BY DEF SentFrames
<1>1. DataSize \in Nat \ {0} /\ Len(e.pend) \in Nat /\ DataSize \in 1..Len(e.pend) /\ DataSize \in 0..Len(e.pend)
  BY Sizes DEF Encoder, Overfull
<1>2. Carries(DataSize, w, T, n, Frame(s, e, DataSize, FALSE))
  <2> DEFINE d == DataSize
  <2>1. d \in Nat \ {0} /\ d \in 1..Len(e.pend) /\ d <= d /\ FALSE \in BOOLEAN
    BY <1>1
  <2> HIDE DEF d
  <2>2. Carries(d, w, T, n, Frame(s, e, d, FALSE))
    BY <2>1, FrameCarries
  <2> QED BY <2>2 DEF d
<1>3. Frame(s, e, DataSize, FALSE) \in Frames /\ Frame(s, e, DataSize, FALSE).rep = Latest(s)
  BY <1>1, FrameIs
<1>4. Frame(s, e, DataSize, FALSE).from = s
  BY DEF Frame
<1> QED BY <1>2, <1>3, <1>4

\* What writeIfNecessary leaves is an encoder.
LEMMA SentTyped ==
  ASSUME Types, NEW e \in Encoder PROVE Sent(e) \in Encoder
<1>1. /\ DataSize \in Nat /\ Limit + setup.header \in Nat /\ e.pend \in Seq(Bytes)
      /\ e.exported \in Nat /\ e.seq \in 0..15
  BY Sizes DEF Encoder
<1>2. SubSeq(e.pend, DataSize + 1, Len(e.pend)) \in Seq(Bytes)
  <2> DEFINE q == e.pend d == DataSize
  <2>1. q \in Seq(Bytes) /\ d \in Nat
    BY <1>1
  <2> HIDE DEF q, d
  <2>2. SubSeq(q, d + 1, Len(q)) \in Seq(Bytes)
    BY ONLY <2>1
  <2> QED BY <2>2 DEF q, d
<1>3. (e.seq + 1) % 16 \in 0..15 /\ e.exported + DataSize \in Nat
  <2>1. e.seq + 1 \in Nat /\ e.exported + DataSize \in Nat
    <3> DEFINE d == DataSize q == e.seq x == e.exported
    <3>1. q \in 0..15 /\ x \in Nat /\ d \in Nat
      BY <1>1
    <3> HIDE DEF d, q, x
    <3>2. q + 1 \in Nat /\ x + d \in Nat
      BY <3>1
    <3> QED BY <3>2 DEF d, q, x
  <2>2. \A n \in Nat : n % 16 \in 0..15
    OBVIOUS
  <2> QED BY <2>1, <2>2
<1>4. CASE Overfull(e)
  <2>1. PICK p, x, z, q : /\ p = SubSeq(e.pend, DataSize + 1, Len(e.pend)) /\ x = e.exported + DataSize
                          /\ z = Limit + setup.header /\ q = (e.seq + 1) % 16
    OBVIOUS
  <2>2. Sent(e) = [e EXCEPT !.pend = p, !.exported = x, !.end = z, !.seq = q]
    BY <1>4, <2>1 DEF Sent, Shifted
  <2>3. p \in Seq(Bytes) /\ x \in Nat /\ z \in Nat /\ q \in 0..15
    BY <1>1, <1>2, <1>3, <2>1
  <2> QED BY <2>2, <2>3 DEF Encoder
<1>5. CASE ~Overfull(e)
  BY <1>5 DEF Sent
<1> QED BY <1>4, <1>5

\* Such a frame is one of the latest report.
LEMMA SentIs ==
  ASSUME Types, NEW s \in Sender, NEW e \in Encoder
  PROVE  \A f \in SentFrames(s, e) : f \in Frames /\ f.from = s /\ f.rep = Latest(s)
<1> SUFFICES ASSUME Overfull(e)
             PROVE  /\ Frame(s, e, DataSize, FALSE) \in Frames
                    /\ Frame(s, e, DataSize, FALSE).from = s /\ Frame(s, e, DataSize, FALSE).rep = Latest(s)
  BY DEF SentFrames
<1>1. DataSize \in Nat \ {0} /\ Len(e.pend) \in Nat /\ DataSize \in 0..Len(e.pend)
  BY Sizes DEF Encoder, Overfull
<1>2. Frame(s, e, DataSize, FALSE) \in Frames /\ Frame(s, e, DataSize, FALSE).rep = Latest(s)
  BY <1>1, FrameIs
<1>3. Frame(s, e, DataSize, FALSE).from = s
  BY DEF Frame
<1> QED BY <1>2, <1>3

\* The report that is being published.
LEMMA LatestIs ==
  ASSUME Inv, NEW s \in Sender, enc[s] # None
  PROVE  /\ enc[s] \in Encoder /\ Latest(s) \in Nat \ {0} /\ Latest(s) \in 1..Latest(s)
         /\ Last(started[s]) = started[s][Latest(s)]
         /\ started[s][Latest(s)] \in Seq(Nat \ {0})
<1>1. started[s] \in Seq(Reports) /\ enc[s] \in Encoder /\ Len(started[s]) > 0
  BY DEF Inv, Types, Encoding, EncodingFor
<1>2. Latest(s) \in Nat \ {0} /\ Latest(s) \in 1..Latest(s)
  BY <1>1 DEF Latest
<1>3. Last(started[s]) = started[s][Latest(s)]
  BY DEF Last, Latest
<1>4. started[s][Latest(s)] \in Reports
  BY <1>1, <1>2 DEF Latest
<1>5. started[s][Latest(s)] \in Seq(Nat \ {0})
  BY <1>4, StreamAssumption
<1> QED BY <1>1, <1>2, <1>3, <1>5

\* Its layout, and what writeIfNecessary leaves in the buffer, when no item is too wide.
LEMMA LatestTold ==
  ASSUME Inv, Stories, NEW s \in Sender, enc[s] # None, ~Wide(s, Latest(s))
  PROVE  /\ \E T, O, B, n :
              /\ Placed(s, Latest(s), T, O, B, n) /\ ReadOn(s, Latest(s), T, O, B)
              /\ Laid(DataSize, started[s][Latest(s)], s, Latest(s), T, O, B, n)
              /\ Encodes(T, B[n], n, enc[s])
         /\ Sent(enc[s]) \in Encoder /\ Len(Sent(enc[s]).pend) <= DataSize
         /\ Sent(enc[s]).end <= Limit + setup.header
<1>1. Told(s, Latest(s))
  BY LatestIs DEF Stories, Story
<1>2. \A T, O, B, n : Placed(s, Latest(s), T, O, B, n) =>
        Laid(DataSize, started[s][Latest(s)], s, Latest(s), T, O, B, n) /\ Encodes(T, B[n], n, enc[s])
  BY DEF Placed
<1>3. /\ Types /\ enc[s] \in Encoder /\ enc[s].end <= Limit + setup.header
      /\ enc[s].exported = 0 => enc[s].end = Limit
      /\ Len(enc[s].pend) <= 2 * DataSize
  BY LatestIs DEF Inv, Encoding, EncodingFor, Latest
<1>4. setup.header + Len(enc[s].pend) <= Limit
  <2> DEFINE l == Len(enc[s].pend) y == setup.header d == DataSize
  <2>1. l \in Nat /\ y \in Nat /\ d \in Nat /\ Limit = 2 * d + 2 * y /\ l <= 2 * d
    BY <1>3, Sizes DEF Encoder
  <2> HIDE DEF l, y, d
  <2>2. y + l <= Limit
    BY ONLY <2>1
  <2> QED BY <2>2 DEF y, l
<1>5. /\ Sent(enc[s]) \in Encoder /\ Len(Sent(enc[s]).pend) <= DataSize
      /\ Sent(enc[s]).end <= Limit + setup.header
  BY <1>3, <1>4, SentFits
<1> QED BY <1>1, <1>2, <1>5 DEF Told

\* The frames of a step of the encoder.
LEMMA EncodeItemSends ==
  ASSUME Inv, NEW s \in Sender, EncodeItem(s)
  PROVE  /\ enc[s] # None /\ UNCHANGED <<started, decoders, reading>>
         /\ \A u \in Sender \ {s} : enc'[u] = enc[u] /\ wire'[u] = wire[u]
         /\ \A f \in SentFrames(s, enc[s]) : f \in Frames /\ f.from = s /\ f.rep = Latest(s)
         /\ OnWire(s)' \subseteq OnWire(s) \cup SentFrames(s, enc[s])
<1>1. PICK e : e = enc[s]
  OBVIOUS
<1>2. PICK F : F = SentFrames(s, e)
  OBVIOUS
<1>3. /\ enc[s] # None /\ UNCHANGED <<started, decoders, reading>>
      /\ \E x : enc' = [enc EXCEPT ![s] = x]
      /\ wire' = IF Overfull(e) THEN [wire EXCEPT ![s] = Append(wire[s], Frame(s, e, DataSize, FALSE))] ELSE wire
  BY <1>1 DEF EncodeItem
<1>4. Types /\ enc \in [Sender -> Encoder \cup {None}] /\ wire \in [Sender -> Seq(Frames)] /\ e \in Encoder
  BY <1>1, <1>3 DEF Inv, Types
<1>5. /\ \A u \in Sender \ {s} : enc'[u] = enc[u] /\ wire'[u] = wire[u]
      /\ wire'[s] = IF Overfull(e) THEN Append(wire[s], Frame(s, e, DataSize, FALSE)) ELSE wire[s]
  BY <1>3, <1>4
<1>6. \A f \in F : f \in Frames /\ f.from = s /\ f.rep = Latest(s)
  BY <1>2, <1>4, SentIs
<1>7. OnWire(s)' \subseteq OnWire(s) \cup F
  <2>1. CASE ~Overfull(e)
    BY <1>5, <2>1 DEF OnWire
  <2>2. CASE Overfull(e)
    <3> DEFINE f == Frame(s, e, DataSize, FALSE)
    <3>1. F = {f}
      BY <1>2, <2>2 DEF SentFrames
    <3> HIDE DEF f
    <3>2. \A q \in Seq(Frames) : \A i \in DOMAIN Append(q, f) : (\E j \in DOMAIN q : Append(q, f)[i] = q[j]) \/ Append(q, f)[i] = f
      OBVIOUS
    <3>3. wire'[s] = Append(wire[s], f) /\ wire[s] \in Seq(Frames)
      BY <1>4, <1>5, <2>2 DEF f
    <3> QED BY <3>1, <3>2, <3>3 DEF OnWire
  <2> QED BY <2>1, <2>2
<1> QED BY <1>1, <1>2, <1>3, <1>5, <1>6, <1>7

\* Whether the latest report has an item that is too wide.
LEMMA WideLatest ==
  ASSUME UNCHANGED <<setup, started>>, NEW s
  PROVE  Wide(s, Latest(s))' <=> Wide(s, Latest(s))
BY DEF Wide, DataSize, Latest

\* The next item goes behind the others, or the report is given up.
LEMMA EncodeItemTold ==
  ASSUME Inv, Stories, Kept, UNCHANGED setup, NEW s \in Sender, EncodeItem(s), ~Wide(s, Latest(s))
  PROVE  Story(s, Latest(s))'
<1>1. PICK e : e = enc[s]
  OBVIOUS
<1>2. PICK r : r = Latest(s)
  OBVIOUS
<1>3. PICK w : w = started[s][r]
  OBVIOUS
<1>4. PICK h : h = Sent(e)
  OBVIOUS
<1>5. PICK x : x = w[e.item]
  OBVIOUS
<1>6. PICK F : F = SentFrames(s, e)
  OBVIOUS
<1>7. enc[s] # None
  BY DEF EncodeItem
<1>8. e \in Encoder /\ r \in Nat \ {0} /\ r \in 1..Latest(s) /\ Last(started[s]) = w /\ w \in Seq(Nat \ {0})
  BY <1>1, <1>2, <1>3, <1>7, LatestIs
<1>9. PICK T, O, B, n : /\ Placed(s, r, T, O, B, n) /\ ReadOn(s, r, T, O, B)
                        /\ Laid(DataSize, w, s, r, T, O, B, n) /\ Encodes(T, B[n], n, e)
  BY <1>1, <1>2, <1>3, <1>7, LatestTold
<1>10. /\ e.item <= Len(w)
       /\ wire' = IF Overfull(e) THEN [wire EXCEPT ![s] = Append(wire[s], Frame(s, e, DataSize, FALSE))] ELSE wire
       /\ enc' = [enc EXCEPT ![s] = IF HasRoom(h, x) THEN Put(s, h, x) ELSE None]
       /\ UNCHANGED <<started, decoders, reading>>
  BY <1>1, <1>4, <1>5, <1>8 DEF EncodeItem, Sent
<1>11. /\ Types /\ enc \in [Sender -> Encoder \cup {None}] /\ wire \in [Sender -> Seq(Frames)]
       /\ DataSize \in Nat \ {0} /\ DataSize' = DataSize
  BY Sizes DEF Inv, Types, DataSize
<1>12. T \in Seq(Bytes) /\ Len(T) \in Nat /\ B[n] \in Nat /\ B[n] <= Len(T) /\ n \in Nat /\ n < Len(w) /\ e.item = n + 1
  <2>1. LaidTypes(w, T, O, B, n)
    BY <1>9 DEF Laid
  <2>2. T \in Seq(Bytes) /\ n \in Nat /\ Len(T) \in Nat /\ B[n] \in Nat /\ Len(w) \in Nat
    BY <2>1, LaidNumbers DEF LaidTypes
  <2>3. e.item = n + 1
    BY <1>9 DEF Encodes
  <2>4. B[n] <= Len(T)
    BY <1>9, <1>11, LaidNear
  <2> QED BY <1>10, <2>2, <2>3, <2>4
<1>13. \A f \in F : Carries(DataSize, w, T, n, f) /\ f \in Frames /\ f.from = s /\ f.rep = r
  BY <1>2, <1>6, <1>8, <1>9, <1>11, <1>12, SentCarries
<1>14. /\ \A u \in Sender \ {s} : enc'[u] = enc[u] /\ wire'[u] = wire[u]
       /\ enc'[s] = IF HasRoom(h, x) THEN Put(s, h, x) ELSE None
       /\ wire'[s] = IF Overfull(e) THEN Append(wire[s], Frame(s, e, DataSize, FALSE)) ELSE wire[s]
  BY <1>10, <1>11
<1>15. OnWire(s)' \subseteq OnWire(s) \cup F
  BY <1>1, <1>6, EncodeItemSends
<1>16. PICK c : c = NextBase(DataSize, Len(T), B[n])
  OBVIOUS
<1>17. Encodes(T, c, n, h)
  BY <1>4, <1>8, <1>9, <1>11, <1>12, <1>16, SentEncodes
<1>18. \A f \in Carried : f.from = s /\ f.rep = r => Carries(DataSize, w, T, n, f)
  BY <1>3, <1>9 DEF Placed
<1>19. Story(s, r)'
  <2>1. CASE ~HasRoom(h, x)
    <3>1. enc'[s] = None
      BY <1>14, <2>1
    <3>2. /\ Laid(DataSize, started[s][r], s, r, T, O, B, n)
          /\ \A f \in Carried : f.from = s /\ f.rep = r => Carries(DataSize, started[s][r], T, n, f)
          /\ \A f \in F : Carries(DataSize, started[s][r], T, n, f)
      BY <1>3, <1>9, <1>13, <1>18
    <3>3. UNCHANGED <<setup, decoders, reading, started>> /\ \A u \in Sender \ {s} : wire'[u] = wire[u]
      BY <1>10, <1>14
    <3> QED BY <1>9, <1>15, <3>1, <3>2, <3>3, LatestStory
  <2>2. CASE HasRoom(h, x)
    <3>1. x \in Nat \ {0} /\ x = w[n + 1]
      BY <1>5, <1>8, <1>12
    <3>2. h \in Encoder /\ Len(h.pend) <= DataSize /\ h.end <= Limit + setup.header
      BY <1>1, <1>4, <1>7, LatestTold
    <3>3. c \in Nat /\ c <= Len(T) /\ Len(T) + x <= c + 2 * DataSize
      <4> DEFINE l == Len(h.pend) t == Len(T) d == DataSize y == setup.header z == h.end m == B[n]
      <4>1. /\ l \in Nat /\ t \in Nat /\ d \in Nat \ {0} /\ y \in Nat /\ z \in Nat /\ m \in Nat /\ m <= t
            /\ Limit = 2 * d + 2 * y /\ Limit \in Nat
        <5>1. h.pend \in Seq(Bytes) /\ h.end \in Nat
          BY <3>2 DEF Encoder
        <5>2. Len(h.pend) \in Nat
          BY <5>1
        <5>3. setup.header \in Nat /\ Limit = 2 * DataSize + 2 * setup.header
          BY <1>11, Sizes
        <5>4. Limit \in Nat
          BY <1>11, <5>3
        <5> QED BY <1>11, <1>12, <5>1, <5>2, <5>3, <5>4
      <4>2. l = t - c /\ l <= d /\ z <= Limit + y /\ y + l + x <= z /\ (c = m \/ (c = m + d /\ t - m > d))
        BY <1>16, <1>17, <2>2, <3>2 DEF Encodes, HasRoom, NextBase
      <4>3. y = 0 \/ x <= d
        <5>1. e.item \in DOMAIN w
          BY <1>8, <1>12
        <5>2. setup.header = 0 \/ \A i \in DOMAIN w : ~(w[i] > DataSize)
          BY <1>2, <1>3, <1>11, Sizes DEF Wide
        <5>3. e.item \in DOMAIN w => x \in Nat
          BY <3>1
        <5> QED BY <1>5, <1>11, <5>1, <5>2, <5>3
      <4> HIDE DEF l, t, d, y, z, m
      <4>4. x \in Nat
        BY <3>1
      <4>5. c \in Nat /\ c <= t
        BY ONLY <4>1, <4>2
      <4>6. t + x <= c + 2 * d
        <5>1. CASE y = 0
          BY ONLY <4>1, <4>2, <4>4, <4>5, <5>1
        <5>2. CASE x <= d
          BY ONLY <4>1, <4>2, <4>4, <4>5, <5>2
        <5> QED BY <4>3, <5>1, <5>2
      <4> QED BY <4>5, <4>6 DEF t, d
    <3>4. PICK U, P, C : Laid(DataSize, w, s, r, U, P, C, n + 1) /\ C[n + 1] = c /\ U = T \o ItemBytes(s, r, n + 1, x)
      <4> DEFINE d == DataSize
      <4>1. d \in Nat \ {0} /\ Laid(d, w, s, r, T, O, B, n) /\ c = NextBase(d, Len(T), B[n]) /\ Len(T) + w[n + 1] <= c + 2 * d
        BY <1>9, <1>11, <1>16, <3>1, <3>3
      <4> HIDE DEF d
      <4>2. r \in Nat
        BY <1>8
      <4>3. \E U, P, C : Laid(d, w, s, r, U, P, C, n + 1) /\ C[n + 1] = c /\ U = T \o ItemBytes(s, r, n + 1, w[n + 1])
        <5>1. s \in Sender /\ n < Len(w)
          BY <1>12
        <5> QED BY ONLY <4>1, <4>2, <5>1, LaidNext, SMTT(40)
      <4> QED BY <3>1, <4>3 DEF d
    <3>5. Encodes(U, c, n + 1, Put(s, h, x))
      BY <1>2, <1>8, <1>11, <1>12, <1>17, <3>1, <3>2, <3>3, <3>4, PutEncodes
    <3>6. Len(U) \in Nat /\ Len(T) <= Len(U) /\ \A p \in 1..Len(T) : U[p] = T[p]
      <4>1. ItemBytes(s, r, n + 1, x) \in Seq(Bytes)
        <5>1. r \in Nat /\ n + 1 \in Nat /\ x \in Nat
          BY <1>8, <1>12, <3>1
        <5> QED BY <5>1, ItemsAre
      <4> DEFINE a == ItemBytes(s, r, n + 1, x)
      <4> HIDE DEF a
      <4>2. U = T \o a /\ a \in Seq(Bytes) /\ T \in Seq(Bytes)
        BY <1>12, <3>4, <4>1 DEF a
      <4> QED BY ONLY <4>2
    <3>7. \A f : Carries(DataSize, w, T, n, f) => Carries(DataSize, w, U, n + 1, f)
      <4>1. n # Len(w) /\ DataSize \in Nat
        BY <1>11, <1>12
      <4> QED BY <1>12, <3>6, <4>1, CarriesGrows
    <3>8. ReadOn(s, r, U, P, C)
      <4>1. n # Len(started[s][r])
        BY <1>3, <1>12
      <4>2. \A k \in Sender : ~ReadBy(k, s, r)
        BY <1>9, <4>1, ReadCarries
      <4> QED BY <4>2 DEF ReadOn
    <3>9. enc'[s] = Put(s, h, x)
      BY <1>14, <2>2
    <3> DEFINE m == n + 1
    <3>10. /\ Laid(DataSize, started[s][r], s, r, U, P, C, m) /\ Encodes(U, C[m], m, enc'[s])
           /\ \A f \in Carried : f.from = s /\ f.rep = r => Carries(DataSize, started[s][r], U, m, f)
           /\ \A f \in F : Carries(DataSize, started[s][r], U, m, f)
      BY <1>3, <1>13, <1>18, <3>4, <3>5, <3>7, <3>9
    <3> HIDE DEF m
    <3> QED BY <1>10, <1>14, <1>15, <3>8, <3>10, LatestStory, ZenonT(60)
  <2> QED BY <2>1, <2>2
<1>20. Latest(s)' = r
  BY <1>2, <1>10 DEF Latest
<1> QED BY <1>19, <1>20

\* Whatever is in the report, it disturbs no other.
LEMMA EncodeItemReads ==
  ASSUME Inv, Known, Stories, Kept, UNCHANGED setup, NEW s \in Sender, EncodeItem(s)
  PROVE  Known' /\ Stories' /\ Kept'
<1>1. PICK F : F = SentFrames(s, enc[s])
  OBVIOUS
<1>2. /\ enc[s] # None /\ UNCHANGED <<started, decoders, reading>>
      /\ \A u \in Sender \ {s} : enc'[u] = enc[u] /\ wire'[u] = wire[u]
      /\ \A f \in F : f \in Frames /\ f.from = s /\ f.rep = Latest(s)
      /\ OnWire(s)' \subseteq OnWire(s) \cup F
  BY <1>1, EncodeItemSends
<1>3. Latest(s) \in 1..Latest(s)
  BY <1>2, LatestIs
<1>4. Story(s, Latest(s))'
  BY <1>2, EncodeItemTold, WideLatest DEF Story
<1>5. /\ \A f \in F : f \in Frames /\ f.from = s /\ f.rep = Latest(s) /\ f.rep \in 1..Latest(s)
      /\ UNCHANGED <<setup, decoders, reading, started>>
  BY <1>2, <1>3
<1> QED BY <1>2, <1>4, <1>5, PublisherReads

\* A step that leaves the report to be published as it is, or gives it up.
LEMMA QuietReads ==
  ASSUME Inv, Known, Stories, Kept, UNCHANGED <<setup, decoders, reading, started>>, NEW s \in Sender,
         \A u \in Sender \ {s} : enc'[u] = enc[u] /\ wire'[u] = wire[u],
         OnWire(s)' \subseteq OnWire(s), enc'[s] = None \/ enc'[s] = enc[s]
  PROVE  Known' /\ Stories' /\ Kept'
<1>1. ASSUME Latest(s) \in 1..Latest(s) PROVE Story(s, Latest(s))'
  <2>1. PICK r : r = Latest(s)
    OBVIOUS
  <2>2. Story(s, r) /\ r = Latest(s)'
    BY <1>1, <2>1 DEF Stories, Latest
  <2>3. Carried' \subseteq Carried
    BY DEF Carried, Gathered, HasDecoder, Key, OnWire
  <2>4. \A k, u, i : ReadBy(k, u, i)' <=> ReadBy(k, u, i)
    BY DEF ReadBy, Key, Decodable, Crowded, Whole
  <2>5. Story(s, r)'
    BY <2>1, <2>2, <2>3, <2>4, StoryStays
  <2> QED BY <2>2, <2>5
<1>2. PICK F : F = {}
  OBVIOUS
<1>3. /\ OnWire(s)' \subseteq OnWire(s) \cup F
      /\ \A f \in F : f \in Frames /\ f.from = s /\ f.rep = Latest(s) /\ f.rep \in 1..Latest(s)
  BY <1>2
<1> QED BY <1>1, <1>3, PublisherReads

\* A send fails, a frame is lost, or overtaken by the next.
LEMMA FailuresRead ==
  ASSUME Inv, Known, Stories, Kept, UNCHANGED setup, NEW s \in Sender, SendFails(s) \/ Lose(s) \/ Overtake(s)
  PROVE  Known' /\ Stories' /\ Kept'
<1>1. wire \in [Sender -> Seq(Frames)] /\ enc \in [Sender -> Encoder \cup {None}]
  BY DEF Inv, Types
<1>2. CASE SendFails(s)
  <2>1. enc' = [enc EXCEPT ![s] = None] /\ UNCHANGED <<started, wire, decoders, reading>>
    BY <1>2 DEF SendFails
  <2>2. OnWire(s)' = OnWire(s)
    BY <2>1 DEF OnWire
  <2> QED BY <1>1, <2>1, <2>2, QuietReads
<1>3. CASE Lose(s) \/ Overtake(s)
  <2>1. wire[s] # <<>> /\ UNCHANGED <<started, enc, decoders, reading>>
    BY <1>1, <1>3 DEF Lose, Overtake
  <2>2. PICK t : /\ wire' = [wire EXCEPT ![s] = t]
                 /\ t = Tail(wire[s]) \/ (Len(wire[s]) > 1 /\ t = <<wire[s][2], wire[s][1]>> \o SubSeq(wire[s], 3, Len(wire[s])))
    BY <1>3 DEF Lose, Overtake
  <2>3. {t[i] : i \in DOMAIN t} \subseteq OnWire(s)
    <3> DEFINE q == wire[s]
    <3>1. q \in Seq(Frames) /\ q # <<>>
      BY <1>1, <2>1
    <3>2. t = Tail(q) \/ (Len(q) > 1 /\ t = <<q[2], q[1]>> \o SubSeq(q, 3, Len(q)))
      BY <2>2
    <3> HIDE DEF q
    <3>3. t \in Seq(Frames) /\ {t[i] : i \in DOMAIN t} \subseteq {q[i] : i \in DOMAIN q}
      BY ONLY <3>1, <3>2, Fewer
    <3> QED BY <3>3 DEF q, OnWire
  <2>4. wire'[s] = t /\ \A u \in Sender \ {s} : wire'[u] = wire[u]
    BY <1>1, <2>2
  <2>5. OnWire(s)' \subseteq OnWire(s)
    BY <2>3, <2>4 DEF OnWire
  <2> QED BY <2>1, <2>4, <2>5, QuietReads
<1> QED BY <1>2, <1>3

\* The frames flush sends: what is left goes out in one or two.
FlushFrames(s, e) == SentFrames(s, e) \cup {Frame(s, Sent(e), Len(Sent(e).pend), TRUE)}

\* They are frames of the latest report, however long.
LEMMA FlushSends ==
  ASSUME Inv, NEW s \in Sender, Flush(s)
  PROVE  /\ enc[s] # None /\ UNCHANGED <<started, decoders, reading>> /\ enc'[s] = None
         /\ \A u \in Sender \ {s} : enc'[u] = enc[u] /\ wire'[u] = wire[u]
         /\ \A f \in FlushFrames(s, enc[s]) : f \in Frames /\ f.from = s /\ f.rep = Latest(s)
         /\ OnWire(s)' \subseteq OnWire(s) \cup FlushFrames(s, enc[s])
<1>1. PICK e : e = enc[s]
  OBVIOUS
<1>2. PICK h : h = Sent(e)
  OBVIOUS
<1>3. PICK g : g = Frame(s, h, Len(h.pend), TRUE)
  OBVIOUS
<1>4. PICK F : F = FlushFrames(s, e)
  OBVIOUS
<1>5. F = SentFrames(s, e) \cup {g}
  BY <1>2, <1>3, <1>4 DEF FlushFrames
<1>6. /\ enc[s] # None /\ UNCHANGED <<started, decoders, reading>>
      /\ wire' = [wire EXCEPT ![s] = wire[s] \o (IF Overfull(e) THEN <<Frame(s, e, DataSize, FALSE)>> ELSE <<>>) \o <<g>>]
      /\ enc' = [enc EXCEPT ![s] = None]
  BY <1>1, <1>2, <1>3 DEF Flush, Sent
<1>7. Types /\ enc \in [Sender -> Encoder \cup {None}] /\ wire \in [Sender -> Seq(Frames)] /\ e \in Encoder
  BY <1>1, <1>6 DEF Inv, Types
<1>8. /\ \A u \in Sender \ {s} : enc'[u] = enc[u] /\ wire'[u] = wire[u]
      /\ enc'[s] = None
      /\ wire'[s] = wire[s] \o (IF Overfull(e) THEN <<Frame(s, e, DataSize, FALSE)>> ELSE <<>>) \o <<g>>
  BY <1>6, <1>7
<1>9. g \in Frames /\ g.from = s /\ g.rep = Latest(s)
  <2>1. h \in Encoder
    BY <1>2, <1>7, SentTyped
  <2>2. Len(h.pend) \in 0..Len(h.pend) /\ TRUE \in BOOLEAN
    BY <2>1 DEF Encoder
  <2>3. g \in Frames /\ g.rep = Latest(s)
    BY <1>3, <1>7, <2>1, <2>2, FrameIs
  <2>4. g.from = s
    BY <1>3 DEF Frame
  <2> QED BY <2>3, <2>4
<1>10. \A f \in SentFrames(s, e) : f \in Frames /\ f.from = s /\ f.rep = Latest(s)
  BY <1>7, SentIs
<1>11. \A f \in F : f \in Frames /\ f.from = s /\ f.rep = Latest(s)
  BY <1>5, <1>9, <1>10
<1>12. OnWire(s)' \subseteq OnWire(s) \cup F
  <2>1. PICK a : a = IF Overfull(e) THEN <<Frame(s, e, DataSize, FALSE)>> ELSE <<>>
    OBVIOUS
  <2>2. a \in Seq(Frames) /\ {a[i] : i \in DOMAIN a} \subseteq F
    <3>1. CASE Overfull(e)
      <4> DEFINE f == Frame(s, e, DataSize, FALSE)
      <4>1. f \in F
        BY <1>5, <3>1 DEF SentFrames
      <4>2. a = <<f>>
        BY <2>1, <3>1
      <4> HIDE DEF f
      <4>3. f \in Frames
        BY <1>11, <4>1
      <4> QED BY <4>1, <4>2, <4>3
    <3>2. CASE ~Overfull(e)
      BY <2>1, <3>2
    <3> QED BY <3>1, <3>2
  <2>3. PICK q : q = wire[s]
    OBVIOUS
  <2>4. q \in Seq(Frames) /\ <<g>> \in Seq(Frames) /\ \A i \in DOMAIN <<g>> : <<g>>[i] = g
    BY <1>7, <1>9, <2>3
  <2>5. /\ q \o a \in Seq(Frames)
        /\ \A f \in {(q \o a)[i] : i \in DOMAIN (q \o a)} : (\E i \in DOMAIN q : f = q[i]) \/ (\E i \in DOMAIN a : f = a[i])
    BY ONLY <2>2, <2>4, Appended
  <2>6. PICK p : p = q \o a
    OBVIOUS
  <2>7. \A f \in {(p \o <<g>>)[i] : i \in DOMAIN (p \o <<g>>)} : (\E i \in DOMAIN p : f = p[i]) \/ (\E i \in DOMAIN <<g>> : f = <<g>>[i])
    BY ONLY <2>4, <2>5, <2>6, Appended
  <2>8. wire'[s] = p \o <<g>>
    BY <1>8, <2>1, <2>3, <2>6
  <2>9. \A f \in OnWire(s)' : (\E i \in DOMAIN p : f = p[i]) \/ f = g
    BY <2>4, <2>7, <2>8 DEF OnWire
  <2>10. \A i \in DOMAIN p : (\E j \in DOMAIN q : p[i] = q[j]) \/ p[i] \in F
    BY <2>2, <2>5, <2>6
  <2> QED BY <1>5, <2>3, <2>9, <2>10 DEF OnWire
<1> QED BY <1>1, <1>4, <1>6, <1>8, <1>11, <1>12

\* They carry what is left, and that is the whole report.
LEMMA FlushTold ==
  ASSUME Inv, Stories, Kept, UNCHANGED setup, NEW s \in Sender, Flush(s), ~Wide(s, Latest(s))
  PROVE  Story(s, Latest(s))'
<1>1. PICK e : e = enc[s]
  OBVIOUS
<1>2. PICK r : r = Latest(s)
  OBVIOUS
<1>3. PICK w : w = started[s][r]
  OBVIOUS
<1>4. PICK h : h = Sent(e)
  OBVIOUS
<1>5. PICK g : g = Frame(s, h, Len(h.pend), TRUE)
  OBVIOUS
<1>6. PICK F : F = FlushFrames(s, e)
  OBVIOUS
<1>7. enc[s] # None
  BY DEF Flush
<1>8. e \in Encoder /\ r \in Nat \ {0} /\ r \in 1..Latest(s) /\ Last(started[s]) = w /\ w \in Seq(Nat \ {0})
  BY <1>1, <1>2, <1>3, <1>7, LatestIs
<1>9. PICK T, O, B, n : /\ Placed(s, r, T, O, B, n) /\ ReadOn(s, r, T, O, B)
                        /\ Laid(DataSize, w, s, r, T, O, B, n) /\ Encodes(T, B[n], n, e)
  BY <1>1, <1>2, <1>3, <1>7, LatestTold
<1>10. /\ e.item > Len(w)
       /\ wire' = [wire EXCEPT ![s] = wire[s] \o (IF Overfull(e) THEN <<Frame(s, e, DataSize, FALSE)>> ELSE <<>>) \o <<g>>]
       /\ enc' = [enc EXCEPT ![s] = None]
       /\ UNCHANGED <<started, decoders, reading>>
  BY <1>1, <1>4, <1>5, <1>8 DEF Flush, Sent
<1>11. /\ Types /\ enc \in [Sender -> Encoder \cup {None}] /\ wire \in [Sender -> Seq(Frames)]
       /\ DataSize \in Nat \ {0} /\ DataSize' = DataSize
  BY Sizes DEF Inv, Types, DataSize
<1>12. T \in Seq(Bytes) /\ Len(T) \in Nat /\ B[n] \in Nat /\ B[n] < Len(T) /\ n \in Nat /\ n = Len(w)
  <2>1. LaidTypes(w, T, O, B, n)
    BY <1>9 DEF Laid
  <2>2. T \in Seq(Bytes) /\ n \in Nat /\ Len(T) \in Nat /\ B[n] \in Nat /\ Len(w) \in Nat /\ n <= Len(w)
    BY <2>1, LaidNumbers DEF LaidTypes
  <2>3. e.item = n + 1
    BY <1>9 DEF Encodes
  <2>4. B[n] < Len(T)
    BY <1>9, <1>11, LaidNear
  <2> QED BY <1>10, <2>2, <2>3, <2>4
<1>13. PICK c : c = NextBase(DataSize, Len(T), B[n])
  OBVIOUS
<1>14. Encodes(T, c, n, h)
  BY <1>4, <1>8, <1>9, <1>11, <1>12, <1>13, SentEncodes
<1>15. h \in Encoder /\ Len(h.pend) <= DataSize /\ Len(h.pend) \in 1..Len(h.pend) /\ Len(h.pend) \in 0..Len(h.pend) /\ c \in Nat
  <2>2. h \in Encoder /\ Len(h.pend) <= DataSize
    BY <1>1, <1>2, <1>4, <1>7, LatestTold
  <2>3. Len(h.pend) \in Nat /\ Len(h.pend) = Len(T) - c
    BY <1>14, <2>2 DEF Encoder, Encodes
  <2>4. c \in Nat /\ c < Len(T)
    <3> DEFINE m == B[n] d == DataSize t == Len(T)
    <3>1. m \in Nat /\ d \in Nat \ {0} /\ t \in Nat /\ m < t /\ c = IF t - m > d THEN m + d ELSE m
      BY <1>11, <1>12, <1>13 DEF NextBase
    <3> HIDE DEF m, d, t
    <3>2. c \in Nat /\ c < t
      BY ONLY <3>1
    <3> QED BY <3>2 DEF t
  <2>5. Len(h.pend) >= 1
    BY <1>12, <2>3, <2>4
  <2> QED BY <2>2, <2>3, <2>4, <2>5
<1>16. Carries(DataSize, w, T, n, g) /\ g \in Frames /\ g.from = s /\ g.rep = r
  <2>1. g \in Frames /\ g.rep = r
    BY <1>2, <1>5, <1>11, <1>15, FrameIs
  <2>2. g.from = s
    BY <1>5 DEF Frame
  <2>3. Carries(DataSize, w, T, n, g)
    <3> DEFINE d == DataSize len == Len(h.pend)
    <3>1. d \in Nat \ {0} /\ len \in 1..Len(h.pend) /\ len <= d /\ TRUE \in BOOLEAN /\ n = Len(w) /\ len = Len(h.pend)
      BY <1>11, <1>12, <1>15
    <3>2. h \in Encoder /\ Encodes(T, c, n, h) /\ Len(T) \in Nat /\ c \in Nat
      BY <1>12, <1>14, <1>15
    <3> HIDE DEF d, len
    <3>3. Carries(d, w, T, n, Frame(s, h, len, TRUE))
      BY ONLY <3>1, <3>2, FrameCarries
    <3> QED BY <1>5, <3>3 DEF d, len
  <2> QED BY <2>1, <2>2, <2>3
<1>17. \A f \in F : Carries(DataSize, w, T, n, f) /\ f \in Frames /\ f.from = s /\ f.rep = r
  <2>1. \A f \in SentFrames(s, e) : Carries(DataSize, w, T, n, f) /\ f \in Frames /\ f.from = s /\ f.rep = r
    BY <1>2, <1>8, <1>9, <1>11, <1>12, SentCarries
  <2> QED BY <1>4, <1>5, <1>6, <1>16, <2>1 DEF FlushFrames
<1>18. /\ \A u \in Sender \ {s} : enc'[u] = enc[u] /\ wire'[u] = wire[u]
       /\ enc'[s] = None
       /\ wire'[s] = wire[s] \o (IF Overfull(e) THEN <<Frame(s, e, DataSize, FALSE)>> ELSE <<>>) \o <<g>>
  BY <1>10, <1>11
<1>19. OnWire(s)' \subseteq OnWire(s) \cup F
  BY <1>1, <1>6, FlushSends
<1>20. \A f \in Carried : f.from = s /\ f.rep = r => Carries(DataSize, w, T, n, f)
  BY <1>3, <1>9 DEF Placed
<1>21. Story(s, Latest(s))'
  <2>1. /\ Laid(DataSize, started[s][r], s, r, T, O, B, n)
        /\ \A f \in Carried : f.from = s /\ f.rep = r => Carries(DataSize, started[s][r], T, n, f)
        /\ \A f \in F : Carries(DataSize, started[s][r], T, n, f)
    BY <1>3, <1>9, <1>17, <1>20
  <2>2. UNCHANGED <<setup, decoders, reading, started>> /\ \A u \in Sender \ {s} : wire'[u] = wire[u]
    BY <1>10, <1>18
  <2>3. Story(s, r)'
    BY <1>9, <1>18, <1>19, <2>1, <2>2, LatestStory
  <2>4. Latest(s)' = r
    BY <1>2, <1>10 DEF Latest
  <2> QED BY <2>3, <2>4
<1> QED BY <1>21

\* The last frames of a report, whatever is in it, disturb no other.
LEMMA FlushReads ==
  ASSUME Inv, Known, Stories, Kept, UNCHANGED setup, NEW s \in Sender, Flush(s)
  PROVE  Known' /\ Stories' /\ Kept'
<1>1. PICK F : F = FlushFrames(s, enc[s])
  OBVIOUS
<1>2. /\ enc[s] # None /\ UNCHANGED <<started, decoders, reading>>
      /\ \A u \in Sender \ {s} : enc'[u] = enc[u] /\ wire'[u] = wire[u]
      /\ \A f \in F : f \in Frames /\ f.from = s /\ f.rep = Latest(s)
      /\ OnWire(s)' \subseteq OnWire(s) \cup F
  BY <1>1, FlushSends
<1>3. Latest(s) \in 1..Latest(s)
  BY <1>2, LatestIs
<1>4. Story(s, Latest(s))'
  BY <1>2, FlushTold, WideLatest DEF Story
<1>5. /\ \A f \in F : f \in Frames /\ f.from = s /\ f.rep = Latest(s) /\ f.rep \in 1..Latest(s)
      /\ UNCHANGED <<setup, decoders, reading, started>>
  BY <1>2, <1>3
<1> QED BY <1>2, <1>4, <1>5, PublisherReads

-----------------------------------------------------------------------------
(* What the subscriber copies into its buffer.                             *)

\* The first pieces of a list, one behind the other, for every number of them.
LEMMA Concatenated ==
  ASSUME NEW S, NEW q \in Seq(Seq(S))
  PROVE  \E g \in [0..Len(q) -> Seq(S)] : g[0] = <<>> /\ \A i \in 1..Len(q) : g[i] = g[i - 1] \o q[i]
<1> DEFINE Ok(m) == \E g \in [0..m -> Seq(S)] : g[0] = <<>> /\ \A i \in 1..m : g[i] = g[i - 1] \o q[i]
           Not == {m \in 0..Len(q) : ~Ok(m)}
<1>1. Len(q) \in Nat /\ \A i \in 1..Len(q) : q[i] \in Seq(S)
  OBVIOUS
<1>2. Ok(0)
  <2>1. [i \in 0..0 |-> <<>>] \in [0..0 -> Seq(S)] /\ [i \in 0..0 |-> <<>>][0] = <<>> /\ 1..0 = {}
    OBVIOUS
  <2> QED BY <2>1
<1>3. ASSUME NEW m \in 0..Len(q), m # 0, Ok(m - 1) PROVE Ok(m)
  <2>1. PICK g \in [0..m - 1 -> Seq(S)] : g[0] = <<>> /\ \A i \in 1..m - 1 : g[i] = g[i - 1] \o q[i]
    BY <1>3
  <2>2. m \in Nat \ {0} /\ m - 1 \in 0..m - 1 /\ m \in 1..Len(q)
    BY <1>1, <1>3
  <2>3. g[m - 1] \in Seq(S) /\ q[m] \in Seq(S)
    BY <1>1, <2>2
  <2>4. g[m - 1] \o q[m] \in Seq(S)
    BY <2>3
  <2> DEFINE h == [i \in 0..m |-> IF i = m THEN g[m - 1] \o q[m] ELSE g[i]]
  <2>5. \A i \in 0..m : i = m \/ i \in 0..m - 1
    BY <2>2
  <2>6. h \in [0..m -> Seq(S)]
    BY <2>4, <2>5
  <2>7. h[0] = <<>>
    BY <2>1, <2>2
  <2>8. \A i \in 1..m : /\ i \in 0..m /\ i - 1 \in 0..m /\ i - 1 # m
                        /\ (i # m => i \in 1..m - 1)
    BY <2>2, SMTT(40)
  <2>9. ASSUME NEW i \in 1..m PROVE h[i] = h[i - 1] \o q[i]
    <3>1. h[i - 1] = g[i - 1]
      BY <2>8
    <3>2. CASE i = m
      BY <2>8, <3>1, <3>2
    <3>3. CASE i # m
      BY <2>1, <2>8, <3>1, <3>3
    <3> QED BY <3>2, <3>3
  <2> HIDE DEF h
  <2> QED BY <2>6, <2>7, <2>9
<1> HIDE DEF Ok
<1>4. ASSUME Not # {} PROVE FALSE
  <2>1. Not \subseteq Nat
    OBVIOUS
  <2>2. PICK m \in Not : \A j \in Not : m <= j
    BY <1>4, <2>1, Least
  <2>3. m \in 0..Len(q) /\ m # 0
    BY <1>2
  <2>4. m - 1 \in 0..Len(q) /\ ~(m <= m - 1)
    BY ONLY <1>1, <2>3
  <2>5. Ok(m - 1)
    BY <2>2, <2>4
  <2> QED BY <1>3, <2>2, <2>3, <2>5
<1>5. Len(q) \in 0..Len(q)
  BY <1>1
<1> QED BY <1>4, <1>5 DEF Ok

\* FlattenSeq is the last of them.
LEMMA Flattened ==
  ASSUME NEW S, NEW p \in Seq(Seq(S)), p # <<>>, NEW g,
         g = [i \in 1..Len(p) |-> IF i = 1 THEN p[i] ELSE g[i - 1] \o p[i]]
  PROVE  FlattenSeq(p) = g[Len(p)]
<1> DEFINE Is(f) == f = [i \in 1..Len(p) |-> IF i = 1 THEN p[i] ELSE f[i - 1] \o p[i]]
<1>1. Len(p) \in Nat \ {0}
  OBVIOUS
<1>2. Is(g)
  OBVIOUS
<1>3. Is(CHOOSE f : Is(f))
  BY <1>2
<1>4. FlattenSeq(p) = (CHOOSE f : Is(f))[Len(p)]
  BY <1>1, SMTT(40) DEF FlattenSeq
<1> DEFINE h == CHOOSE f : Is(f)
<1> HIDE DEF h
<1>5. Is(h)
  BY <1>3 DEF h
<1> DEFINE Not == {i \in 1..Len(p) : g[i] # h[i]}
<1>6. ASSUME Not # {} PROVE FALSE
  <2>1. Not \subseteq Nat
    OBVIOUS
  <2>2. PICK i \in Not : \A j \in Not : i <= j
    BY <1>6, <2>1, Least
  <2>3. i \in 1..Len(p) /\ g[i] # h[i]
    OBVIOUS
  <2>4. g[i] = (IF i = 1 THEN p[i] ELSE g[i - 1] \o p[i]) /\ h[i] = IF i = 1 THEN p[i] ELSE h[i - 1] \o p[i]
    BY <1>2, <1>5, <2>3
  <2>5. i # 1 /\ g[i - 1] # h[i - 1]
    BY <2>3, <2>4
  <2>6. i - 1 \in 1..Len(p) /\ ~(i <= i - 1)
    BY ONLY <1>1, <2>3, <2>5
  <2> QED BY <2>2, <2>5, <2>6
<1>7. Len(p) \in 1..Len(p)
  BY <1>1
<1>8. g[Len(p)] = h[Len(p)]
  BY <1>6, <1>7
<1> QED BY <1>4, <1>8 DEF h

\* The data of the first frames of a queue, for every number of them.
LEMMA DataIs ==
  ASSUME NEW Q \in Seq(Frames)
  PROVE  \E g \in [0..Len(Q) -> Seq(Bytes)] :
           /\ g[0] = <<>> /\ \A i \in 1..Len(Q) : g[i] = g[i - 1] \o Q[i].data
           /\ \A n \in 0..Len(Q) : Data(SubSeq(Q, 1, n)) = g[n]
<1> DEFINE q == [i \in 1..Len(Q) |-> Q[i].data]
<1>1. Len(Q) \in Nat /\ \A i \in 1..Len(Q) : Q[i].data \in Seq(Bytes)
  <2>1. ASSUME NEW i \in 1..Len(Q) PROVE Q[i].data \in Seq(Bytes)
    <3>1. Q[i] \in Frames
      OBVIOUS
    <3> QED BY ONLY <3>1 DEF Frames
  <2> QED BY <2>1
<1>2. q \in Seq(Seq(Bytes)) /\ Len(q) = Len(Q) /\ \A i \in 1..Len(Q) : q[i] = Q[i].data
  <2>1. q \in [1..Len(Q) -> Seq(Bytes)]
    BY <1>1
  <2> QED BY <1>1, <2>1
<1> HIDE DEF q
<1>3. PICK g \in [0..Len(q) -> Seq(Bytes)] : g[0] = <<>> /\ \A i \in 1..Len(q) : g[i] = g[i - 1] \o q[i]
  BY <1>2, Concatenated
<1>4. ASSUME NEW n \in 0..Len(Q) PROVE Data(SubSeq(Q, 1, n)) = g[n]
  <2> DEFINE P == SubSeq(Q, 1, n)
             p == [i \in 1..n |-> P[i].data]
  <2>1. P \in Seq(Frames) /\ Len(P) = n /\ DOMAIN P = 1..n /\ \A i \in 1..n : P[i] = Q[i]
    BY <1>1
  <2> HIDE DEF P
  <2>2. Data(P) = FlattenSeq(p)
    BY <2>1 DEF Data
  <2>3. n \in Nat /\ \A i \in 1..n : i \in 1..Len(Q) /\ P[i].data = q[i] /\ q[i] \in Seq(Bytes)
    BY <1>1, <1>2, <2>1
  <2>4. p \in Seq(Seq(Bytes)) /\ Len(p) = n /\ \A i \in 1..n : p[i] = q[i]
    <3>1. p \in [1..n -> Seq(Bytes)]
      BY <2>3
    <3> QED BY <2>3, <3>1
  <2> HIDE DEF p
  <2>5. CASE n = 0
    <3>1. p = <<>> /\ Len(p) = 0
      BY <2>4, <2>5
    <3>2. FlattenSeq(p) = <<>>
      BY <3>1 DEF FlattenSeq
    <3> QED BY <1>3, <2>2, <2>5, <3>2 DEF P
  <2>6. CASE n # 0
    <3> DEFINE h == [i \in 1..n |-> g[i]]
    <3>1. 1 \in 1..n /\ n \in 1..n /\ p # <<>>
      BY <2>3, <2>4, <2>6
    <3>2. g[1] = q[1]
      <4>1. g[1] = g[0] \o q[1] /\ q[1] \in Seq(Bytes)
        <5>1. 1 \in 1..Len(q) /\ 1 - 1 = 0
          BY <1>2, <2>3, <3>1
        <5> QED BY <1>3, <2>3, <3>1, <5>1
      <4>2. \A a \in Seq(Bytes) : <<>> \o a = a
        OBVIOUS
      <4> QED BY <1>3, <4>1, <4>2
    <3>3. \A i \in 1..n : g[i] = IF i = 1 THEN p[i] ELSE h[i - 1] \o p[i]
      <4> SUFFICES ASSUME NEW i \in 1..n PROVE g[i] = IF i = 1 THEN p[i] ELSE h[i - 1] \o p[i]
        OBVIOUS
      <4>1. CASE i = 1
        BY <2>4, <3>1, <3>2, <4>1
      <4>2. CASE i # 1
        <5>1. i - 1 \in 1..n /\ i \in 1..Len(q)
          BY <1>2, <2>3, <4>2
        <5>2. h[i - 1] = g[i - 1]
          BY <5>1
        <5>3. g[i] = g[i - 1] \o q[i]
          BY <1>3, <5>1
        <5> QED BY <2>4, <4>2, <5>2, <5>3
      <4> QED BY <4>1, <4>2
    <3>4. h = [i \in 1..Len(p) |-> IF i = 1 THEN p[i] ELSE h[i - 1] \o p[i]]
      BY <2>4, <3>3
    <3>5. h[n] = g[n]
      BY <3>1
    <3> HIDE DEF h
    <3>6. FlattenSeq(p) = h[Len(p)]
      BY <2>4, <3>1, <3>4, Flattened
    <3> QED BY <2>2, <2>4, <3>5, <3>6 DEF P
  <2> QED BY <2>5, <2>6
<1> QED BY <1>2, <1>3, <1>4

\* read() stops at the first frame that does not fit, or at the end of the queue.
LEMMA FittingIs ==
  ASSUME NEW Q \in Seq(Frames), NEW pos
  PROVE  /\ Fitting(Q, pos) \in 0..Len(Q)
         /\ \A m \in 1..Fitting(Q, pos) : Fits(Q, pos, m)
         /\ Fitting(Q, pos) = Len(Q) \/ ~Fits(Q, pos, Fitting(Q, pos) + 1)
<1> DEFINE Stop == {n \in 0..Len(Q) : n = Len(Q) \/ ~Fits(Q, pos, n + 1)}
           Is(n) == (\A m \in 1..n : Fits(Q, pos, m)) /\ (n = Len(Q) \/ ~Fits(Q, pos, n + 1))
<1>1. Len(Q) \in Nat
  OBVIOUS
<1>2. Stop \subseteq Nat /\ Len(Q) \in Stop
  BY <1>1
<1>3. PICK n \in Stop : \A j \in Stop : n <= j
  BY <1>2, Least
<1>4. n \in 0..Len(Q) /\ (n = Len(Q) \/ ~Fits(Q, pos, n + 1))
  OBVIOUS
<1>5. ASSUME NEW m \in 1..n PROVE Fits(Q, pos, m)
  <2>1. m - 1 \in 0..Len(Q) /\ m - 1 # Len(Q) /\ ~(n <= m - 1) /\ (m - 1) + 1 = m
    BY ONLY <1>1, <1>4, m \in 1..n
  <2>2. m - 1 \notin Stop
    BY <1>3, <2>1
  <2> QED BY <2>1, <2>2
<1>6. Is(n)
  BY <1>4, <1>5
<1>7. Fitting(Q, pos) = CHOOSE j \in 0..Len(Q) : Is(j)
  BY DEF Fitting
<1> HIDE DEF Is
<1>8. Fitting(Q, pos) \in 0..Len(Q) /\ Is(Fitting(Q, pos))
  BY <1>4, <1>6, <1>7
<1> QED BY <1>8 DEF Is

\* A part of a sequence replaced by another of the same length.
PatchedWith(a, c, p, l) == SubSeq(a, 1, p) \o c \o SubSeq(a, p + Len(c) + 1, l)

\* It keeps the length, what is outside the part, and has the new bytes in it.
LEMMA Patched ==
  ASSUME NEW S, NEW a \in Seq(S), NEW c \in Seq(S), NEW p \in Nat, NEW l \in Nat, l = Len(a), p + Len(c) <= l
  PROVE  /\ PatchedWith(a, c, p, l) \in Seq(S) /\ Len(PatchedWith(a, c, p, l)) = l
         /\ \A j \in 1..p : PatchedWith(a, c, p, l)[j] = a[j]
         /\ \A j \in 1..Len(c) : PatchedWith(a, c, p, l)[p + j] = c[j]
<1>1. PICK x, z : x = SubSeq(a, 1, p) /\ z = SubSeq(a, p + Len(c) + 1, l)
  OBVIOUS
<1>2. PICK y, b : y = x \o c /\ b = y \o z
  OBVIOUS
<1>3. Len(c) \in Nat /\ p <= l
  OBVIOUS
<1>4. x \in Seq(S) /\ Len(x) = p /\ \A j \in 1..p : x[j] = a[j]
  <2>1. a \in Seq(S) /\ p \in Nat /\ p <= Len(a)
    BY <1>3
  <2> QED BY ONLY <1>1, <2>1
<1>5. z \in Seq(S) /\ Len(z) = l - (p + Len(c))
  <2> DEFINE m == p + Len(c)
  <2>1. a \in Seq(S) /\ m \in Nat /\ m <= l /\ l = Len(a) /\ l \in Nat
    BY <1>3
  <2> HIDE DEF m
  <2>2. SubSeq(a, m + 1, l) \in Seq(S) /\ Len(SubSeq(a, m + 1, l)) = l - m
    BY ONLY <2>1
  <2> QED BY <1>1, <2>2 DEF m
<1>6. y \in Seq(S) /\ Len(y) = p + Len(c) /\ (\A j \in 1..p : y[j] = x[j]) /\ (\A j \in 1..Len(c) : y[p + j] = c[j])
  <2>1. x \in Seq(S) /\ c \in Seq(S)
    BY <1>4
  <2>2. /\ x \o c \in Seq(S) /\ Len(x \o c) = Len(x) + Len(c)
        /\ \A j \in 1..Len(x) : (x \o c)[j] = x[j]
        /\ \A k \in 1..Len(c) : (x \o c)[Len(x) + k] = c[k]
    BY ONLY <2>1, Joined
  <2> QED BY ONLY <1>2, <1>4, <2>2
<1>7. b \in Seq(S) /\ Len(b) = Len(y) + Len(z) /\ \A j \in 1..Len(y) : b[j] = y[j]
  <2>1. y \in Seq(S) /\ z \in Seq(S)
    BY <1>5, <1>6
  <2>2. y \o z \in Seq(S) /\ Len(y \o z) = Len(y) + Len(z) /\ \A j \in 1..Len(y) : (y \o z)[j] = y[j]
    BY ONLY <2>1, Joined
  <2> QED BY ONLY <1>2, <2>2
<1>8. Len(b) = l
  <2> DEFINE q == Len(c)
  <2>1. Len(y) = p + q /\ Len(z) = l - (p + q) /\ q \in Nat /\ p \in Nat /\ l \in Nat /\ Len(b) = Len(y) + Len(z)
    BY <1>3, <1>5, <1>6, <1>7
  <2> HIDE DEF q
  <2> QED BY ONLY <2>1
<1>9. (\A j \in 1..p : j \in 1..Len(y)) /\ (\A j \in 1..Len(c) : p + j \in 1..Len(y))
  BY <1>3, <1>6
<1>10. /\ b \in Seq(S) /\ Len(b) = l
       /\ (\A j \in 1..p : b[j] = a[j]) /\ (\A j \in 1..Len(c) : b[p + j] = c[j])
  BY ONLY <1>4, <1>6, <1>7, <1>8, <1>9
<1>11. PatchedWith(a, c, p, l) = b
  BY <1>1, <1>2 DEF PatchedWith
<1> QED BY ONLY <1>10, <1>11

\* read() copies the frames that fit behind what is in the buffer.
Copied(d, Q, a, pos, n, c, b) ==
  /\ n = Fitting(Q, pos) /\ c = Data(SubSeq(Q, 1, n)) /\ pos + Len(c) <= Limit
  /\ Len(b) = Limit /\ (\A j \in 1..pos : b[j] = a[j]) /\ (\A j \in 1..Len(c) : b[pos + j] = c[j])
  /\ Read(d, pos) = [queue |-> SubSeq(Q, n + 1, Len(Q)), buf |-> b, run |-> d.run, pos |-> d.pos,
                     end |-> IF Q = <<>> THEN 0 ELSE pos + Len(c), items |-> d.items]

\* Every call of read() is a copy of that form.
LEMMA ReadIs ==
  ASSUME Types, NEW d, IsRecord(d), NEW Q \in Seq(Frames), d.queue = Q,
         NEW a \in Seq(Bytes \cup {None}), d.buf = a, Len(a) = Limit, NEW pos \in Nat, pos <= Limit
  PROVE  \E n \in 0..Len(Q), c \in Seq(Bytes), b \in Seq(Bytes \cup {None}) : Copied(d, Q, a, pos, n, c, b)
<1>1. PICK n : n = Fitting(Q, pos)
  OBVIOUS
<1>2. PICK c : c = Data(SubSeq(Q, 1, n))
  OBVIOUS
<1>3. PICK b : b = PatchedWith(a, c, pos, Limit)
  OBVIOUS
<1>4. n \in 0..Len(Q) /\ \A m \in 1..n : Fits(Q, pos, m)
  BY <1>1, FittingIs
<1>5. PICK g \in [0..Len(Q) -> Seq(Bytes)] : g[0] = <<>> /\ \A m \in 0..Len(Q) : Data(SubSeq(Q, 1, m)) = g[m]
  BY DataIs
<1>6. c \in Seq(Bytes) /\ (n = 0 => c = <<>>)
  BY <1>2, <1>4, <1>5
<1>7. Limit \in Nat
  <2>1. Len(a) \in Nat
    OBVIOUS
  <2> QED BY <2>1
<1>8. pos + Len(c) <= Limit
  <2>1. CASE n = 0
    BY <1>6, <1>7, <2>1
  <2>2. CASE n # 0
    <3>1. n \in 1..n
      BY <1>4, <2>2
    <3> QED BY <1>2, <1>4, <3>1 DEF Fits
  <2> QED BY <2>1, <2>2
<1>9. c \in Seq(Bytes \cup {None})
  BY <1>6
<1>10. /\ b \in Seq(Bytes \cup {None}) /\ Len(b) = Limit
       /\ (\A j \in 1..pos : b[j] = a[j]) /\ (\A j \in 1..Len(c) : b[pos + j] = c[j])
  <2> DEFINE S == Bytes \cup {None} l == Limit
  <2>1. a \in Seq(S) /\ c \in Seq(S) /\ pos \in Nat /\ l \in Nat /\ l = Len(a) /\ pos + Len(c) <= l
        /\ b = PatchedWith(a, c, pos, l)
    BY <1>3, <1>7, <1>8, <1>9
  <2> HIDE DEF S, l
  <2>2. /\ PatchedWith(a, c, pos, l) \in Seq(S) /\ Len(PatchedWith(a, c, pos, l)) = l
        /\ (\A j \in 1..pos : PatchedWith(a, c, pos, l)[j] = a[j])
        /\ (\A j \in 1..Len(c) : PatchedWith(a, c, pos, l)[pos + j] = c[j])
    BY ONLY <2>1, Patched
  <2>3. /\ b \in Seq(S) /\ Len(b) = l
        /\ (\A j \in 1..pos : b[j] = a[j]) /\ (\A j \in 1..Len(c) : b[pos + j] = c[j])
    BY ONLY <2>1, <2>2
  <2> QED BY <2>3 DEF S, l
<1>11. Read(d, pos) = [queue |-> SubSeq(Q, n + 1, Len(Q)), buf |-> b, run |-> d.run, pos |-> d.pos,
                       end |-> IF Q = <<>> THEN 0 ELSE pos + Len(c), items |-> d.items]
  <2>1. d = [queue |-> Q, buf |-> a, run |-> d.run, pos |-> d.pos, end |-> d.end, items |-> d.items]
    BY DEF IsRecord
  <2>2. d.queue = Q /\ d.buf = a /\ n = Fitting(d.queue, pos) /\ c = Data(SubSeq(d.queue, 1, n))
    BY <1>1, <1>2
  <2>3. Read(d, pos) = [d EXCEPT !.queue = SubSeq(Q, n + 1, Len(Q)), !.end = IF Q = <<>> THEN 0 ELSE pos + Len(c), !.buf = b]
    BY ONLY <1>3, <2>1, <2>2 DEF Read, PatchedWith
  <2> QED BY ONLY <2>1, <2>3
<1> QED BY <1>1, <1>2, <1>4, <1>6, <1>8, <1>10, <1>11 DEF Copied

\* ensureLength: the second half of the buffer moves to the front, and what fits is put behind it.
Ensured(d, Q, a, n, c, b) ==
  /\ n = Fitting(Q, DataSize) /\ c = Data(SubSeq(Q, 1, n)) /\ DataSize + Len(c) <= Limit
  /\ Len(b) = Limit /\ (\A j \in 1..DataSize : b[j] = a[DataSize + j])
  /\ (\A j \in 1..Len(c) : b[DataSize + j] = c[j])
  /\ EnsureLength(d) = [queue |-> SubSeq(Q, n + 1, Len(Q)), buf |-> b, run |-> d.run, pos |-> d.pos - DataSize,
                        end |-> (IF Q = <<>> THEN 0 ELSE DataSize + Len(c)) + DataSize, items |-> d.items]

\* Every call of ensureLength past the middle of the buffer is of that form.
LEMMA EnsureLengthIs ==
  ASSUME Types, NEW d, IsRecord(d), NEW Q \in Seq(Frames), d.queue = Q,
         NEW a \in Seq(Bytes \cup {None}), d.buf = a, Len(a) = Limit, ~(d.pos <= DataSize)
  PROVE  \E n \in 0..Len(Q), c \in Seq(Bytes), b \in Seq(Bytes \cup {None}) : Ensured(d, Q, a, n, c, b)
<1>1. PICK D, l : D = DataSize /\ l = Limit
  OBVIOUS
<1>2. D \in Nat \ {0} /\ l \in Nat /\ 2 * D <= l /\ D <= l
  <2>1. setup.header \in Nat /\ Limit = 2 * DataSize + 2 * setup.header /\ DataSize \in Nat \ {0}
    BY Sizes
  <2>2. PICK y : y = setup.header
    OBVIOUS
  <2>3. y \in Nat /\ l = 2 * D + 2 * y /\ D \in Nat \ {0}
    BY <1>1, <2>1, <2>2
  <2> QED BY ONLY <2>3
<1>3. PICK x, z, m : x = SubSeq(a, D + 1, 2 * D) /\ z = SubSeq(a, D + 1, l) /\ m = x \o z
  OBVIOUS
<1>4. PICK S : S = Bytes \cup {None}
  OBVIOUS
<1>5. a \in Seq(S) /\ Len(a) = l
  BY <1>1, <1>4
<1>6. x \in Seq(S) /\ Len(x) = D /\ \A j \in 1..D : x[j] = a[D + j]
  <2>1. SubSeq(a, D + 1, 2 * D) \in Seq(S)
    BY ONLY <1>2, <1>5
  <2>2. Len(SubSeq(a, D + 1, 2 * D)) = D
    BY ONLY <1>2, <1>5
  <2>3. \A j \in 1..D : SubSeq(a, D + 1, 2 * D)[j] = a[D + j]
    BY ONLY <1>2, <1>5
  <2> QED BY ONLY <1>3, <2>1, <2>2, <2>3
<1>7. z \in Seq(S) /\ Len(z) = l - D
  <2>1. SubSeq(a, D + 1, l) \in Seq(S) /\ Len(SubSeq(a, D + 1, l)) = l - D
    BY ONLY <1>2, <1>5
  <2> QED BY ONLY <1>3, <2>1
<1>8. m \in Seq(S) /\ Len(m) = l /\ \A j \in 1..D : m[j] = a[D + j]
  <2>1. /\ x \o z \in Seq(S) /\ Len(x \o z) = Len(x) + Len(z)
        /\ \A j \in 1..Len(x) : (x \o z)[j] = x[j]
    <3>1. x \in Seq(S) /\ z \in Seq(S)
      BY <1>6, <1>7
    <3> QED BY ONLY <3>1, Joined
  <2>2. Len(x) + Len(z) = l
    BY ONLY <1>2, <1>6, <1>7
  <2> QED BY ONLY <1>3, <1>6, <2>1, <2>2
<1>9. PICK moved : moved = [queue |-> Q, buf |-> m, run |-> d.run, pos |-> d.pos, end |-> d.end, items |-> d.items]
  OBVIOUS
<1>10. IsRecord(moved) /\ moved.queue = Q /\ moved.buf = m /\ moved.pos = d.pos /\ moved.run = d.run /\ moved.items = d.items
  BY <1>9 DEF IsRecord
<1>11. moved = [d EXCEPT !.buf = m]
  <2>1. d = [queue |-> Q, buf |-> a, run |-> d.run, pos |-> d.pos, end |-> d.end, items |-> d.items]
    BY DEF IsRecord
  <2> QED BY ONLY <1>9, <2>1
<1>12. EnsureLength(d) = LET e == Read(moved, D) IN [e EXCEPT !.pos = @ - D, !.end = @ + D]
  <2>1. m = SubSeq(d.buf, DataSize + 1, 2 * DataSize) \o SubSeq(d.buf, DataSize + 1, Limit)
    BY <1>1, <1>3
  <2> QED BY ONLY <1>1, <1>11, <2>1, ~(d.pos <= DataSize) DEF EnsureLength
<1>13. \E n \in 0..Len(Q), c \in Seq(Bytes), b \in Seq(Bytes \cup {None}) : Copied(moved, Q, m, D, n, c, b)
  <2>1. m \in Seq(Bytes \cup {None}) /\ Len(m) = Limit /\ D \in Nat /\ D <= Limit
    BY <1>1, <1>2, <1>4, <1>8
  <2> QED BY <1>10, <2>1, ReadIs
<1>14. PICK n \in 0..Len(Q), c \in Seq(Bytes), b \in Seq(Bytes \cup {None}) : Copied(moved, Q, m, D, n, c, b)
  BY <1>13
<1>15. EnsureLength(d) = [queue |-> SubSeq(Q, n + 1, Len(Q)), buf |-> b, run |-> d.run, pos |-> d.pos - D,
                          end |-> (IF Q = <<>> THEN 0 ELSE D + Len(c)) + D, items |-> d.items]
  <2>1. PICK e : e = Read(moved, D)
    OBVIOUS
  <2>2. EnsureLength(d) = [e EXCEPT !.pos = e.pos - D, !.end = e.end + D]
    BY <1>12, <2>1
  <2>3. e = [queue |-> SubSeq(Q, n + 1, Len(Q)), buf |-> b, run |-> d.run, pos |-> d.pos,
             end |-> IF Q = <<>> THEN 0 ELSE D + Len(c), items |-> d.items]
    BY <1>10, <1>14, <2>1 DEF Copied
  <2> QED BY ONLY <2>2, <2>3
<1>16. \A j \in 1..D : b[j] = a[D + j]
  BY <1>8, <1>14 DEF Copied
<1> QED BY <1>1, <1>14, <1>15, <1>16, ZenonT(60) DEF Copied, Ensured

\* Whatever is in the queue, ensureLength keeps the size of the buffer.
LEMMA EnsureLengthKeeps ==
  ASSUME Types, NEW d, Keeping(d)
  PROVE  LET e == EnsureLength(d) IN
         /\ IsRecord(e) /\ e.queue \in Seq(Frames) /\ e.run = d.run /\ e.items = d.items
         /\ e.buf \in Seq(Bytes \cup {None}) /\ Len(e.buf) = Limit
<1>1. PICK Q, a : d.queue = Q /\ d.buf = a
  OBVIOUS
<1>2. IsRecord(d) /\ Q \in Seq(Frames) /\ a \in Seq(Bytes \cup {None}) /\ Len(a) = Limit
  BY <1>1 DEF Keeping
<1>3. CASE d.pos <= DataSize
  BY <1>1, <1>2, <1>3 DEF EnsureLength
<1>4. CASE ~(d.pos <= DataSize)
  <2>1. PICK n \in 0..Len(Q), c \in Seq(Bytes), b \in Seq(Bytes \cup {None}) : Ensured(d, Q, a, n, c, b)
    BY <1>1, <1>2, <1>4, EnsureLengthIs
  <2>2. PICK e : e = EnsureLength(d)
    OBVIOUS
  <2>3. IsRecord(e) /\ e.queue = SubSeq(Q, n + 1, Len(Q)) /\ e.run = d.run /\ e.items = d.items /\ e.buf = b
    BY <2>1, <2>2, SMTT(40) DEF IsRecord, Ensured
  <2>4. SubSeq(Q, n + 1, Len(Q)) \in Seq(Frames)
    <3>1. Q \in Seq(Frames) /\ n + 1 \in 1..Len(Q) + 1 /\ Len(Q) \in Nat
      BY <1>2
    <3> QED BY ONLY <3>1
  <2> QED BY <2>1, <2>2, <2>3, <2>4 DEF Ensured
<1> QED BY <1>3, <1>4

\* Reading an item only moves on.
LEMMA ItemKeeps ==
  ASSUME Types, NEW d, Keeping(d), \E i \in DOMAIN d.run : Ends(d.run[i].type)
  PROVE  Keeping(Item(d)) /\ Item(d).run = d.run
<1>1. PICK e : e = EnsureLength(d)
  OBVIOUS
<1>2. /\ IsRecord(e) /\ e.queue \in Seq(Frames) /\ e.run = d.run /\ e.items = d.items
      /\ e.buf \in Seq(Bytes \cup {None}) /\ Len(e.buf) = Limit
  BY <1>1, EnsureLengthKeeps
<1>3. d.run \in Seq(Frames) /\ d.run # <<>>
  BY DEF Keeping
<1>4. \E p, t : Item(d) = [e EXCEPT !.pos = p, !.items = t]
  <2>1. e = [e EXCEPT !.pos = e.pos]
    BY <1>2 DEF IsRecord
  <2>2. \A t : [e EXCEPT !.items = t] = [e EXCEPT !.pos = e.pos, !.items = t]
    BY <1>2 DEF IsRecord
  <2>3. \/ Item(d) = [e EXCEPT !.items = Append(e.items, None)]
        \/ \E p, t : Item(d) = [e EXCEPT !.pos = p, !.items = t]
    BY <1>1 DEF Item
  <2> QED BY <2>2, <2>3, ZenonT(60)
<1>5. PICK p, t : Item(d) = [e EXCEPT !.pos = p, !.items = t]
  BY <1>4
<1>6. PICK f : f = Item(d)
  OBVIOUS
<1>7. f = [queue |-> e.queue, buf |-> e.buf, run |-> e.run, pos |-> p, end |-> e.end, items |-> t]
  BY <1>2, <1>5, <1>6 DEF IsRecord
<1>8. IsRecord(f) /\ f.queue = e.queue /\ f.buf = e.buf /\ f.run = d.run
  BY <1>2, <1>7 DEF IsRecord
<1>9. Keeping(f)
  BY <1>2, <1>3, <1>8 DEF Keeping
<1> QED BY <1>6, <1>8, <1>9

-----------------------------------------------------------------------------
(* The frames of a whole report in the buffer.                             *)

\* Frames carry bytes.
LEMMA FramesData ==
  ASSUME NEW Q \in Seq(Frames) PROVE Len(Q) \in Nat /\ \A i \in 1..Len(Q) : Q[i].data \in Seq(Bytes)
<1>1. Len(Q) \in Nat /\ \A i \in 1..Len(Q) : Q[i] \in Frames
  OBVIOUS
<1>2. \A f \in Frames : f.data \in Seq(Bytes)
  BY DEF Frames
<1> QED BY <1>1, <1>2

\* The data of the first frame of a queue, and of the first two.
LEMMA DataOfTwo ==
  ASSUME NEW Q \in Seq(Frames), Q # <<>>
  PROVE  /\ Data(SubSeq(Q, 1, 1)) = Q[1].data
         /\ Len(Q) > 1 => Data(SubSeq(Q, 1, 2)) = Q[1].data \o Q[2].data
         /\ Len(Q) > 2 => Data(SubSeq(Q, 1, 3)) = (Q[1].data \o Q[2].data) \o Q[3].data
<1>1. PICK g \in [0..Len(Q) -> Seq(Bytes)] :
        /\ g[0] = <<>> /\ \A i \in 1..Len(Q) : g[i] = g[i - 1] \o Q[i].data
        /\ \A n \in 0..Len(Q) : Data(SubSeq(Q, 1, n)) = g[n]
  BY DataIs
<1>2. Len(Q) \in Nat \ {0} /\ \A i \in 1..Len(Q) : Q[i].data \in Seq(Bytes)
  <2>1. Len(Q) # 0
    OBVIOUS
  <2> QED BY <2>1, FramesData
<1>3. 1 \in 1..Len(Q) /\ 1 \in 0..Len(Q) /\ 1 - 1 = 0
  BY <1>2
<1>4. g[1] = Q[1].data
  <2>1. g[1] = <<>> \o Q[1].data /\ Q[1].data \in Seq(Bytes)
    BY <1>1, <1>2, <1>3
  <2>2. \A a \in Seq(Bytes) : <<>> \o a = a
    OBVIOUS
  <2> QED BY <2>1, <2>2
<1>5. Len(Q) > 1 => g[2] = g[1] \o Q[2].data /\ Data(SubSeq(Q, 1, 2)) = g[2]
  <2>1. Len(Q) > 1 => 2 \in 1..Len(Q) /\ 2 \in 0..Len(Q) /\ 2 - 1 = 1
    BY <1>2
  <2> QED BY <1>1, <2>1
<1>6. Len(Q) > 2 => g[3] = g[2] \o Q[3].data /\ Data(SubSeq(Q, 1, 3)) = g[3]
  <2>1. Len(Q) > 2 => 3 \in 1..Len(Q) /\ 3 \in 0..Len(Q) /\ 3 - 1 = 2
    BY <1>2
  <2> QED BY <1>1, <2>1
<1>7. Data(SubSeq(Q, 1, 1)) = g[1]
  BY <1>1, <1>3
<1>8. Len(Q) > 2 => Len(Q) > 1
  BY <1>2
<1> QED BY <1>4, <1>5, <1>6, <1>7, <1>8

\* One frame fits behind what is left in the buffer, and a second one does not.
LEMMA OneFits ==
  ASSUME NEW Q \in Seq(Frames), Q # <<>>, NEW pos \in Nat, NEW l \in Nat, l = Limit,
         pos + Len(Q[1].data) <= l, Len(Q) > 1 => pos + (Len(Q[1].data) + Len(Q[2].data)) > l
  PROVE  Fitting(Q, pos) = 1
<1>1. PICK n : n = Fitting(Q, pos)
  OBVIOUS
<1>2. Len(Q) \in Nat \ {0} /\ \A i \in 1..Len(Q) : Q[i].data \in Seq(Bytes)
  <2>1. Len(Q) # 0
    OBVIOUS
  <2> QED BY <2>1, FramesData
<1>3. n \in 0..Len(Q) /\ (\A m \in 1..n : Fits(Q, pos, m)) /\ (n = Len(Q) \/ ~Fits(Q, pos, n + 1))
  BY <1>1, FittingIs
<1>4. Fits(Q, pos, 1)
  BY DataOfTwo DEF Fits
<1>5. Len(Q) > 1 => ~Fits(Q, pos, 2)
  <2> SUFFICES ASSUME Len(Q) > 1 PROVE ~Fits(Q, pos, 2)
    OBVIOUS
  <2>1. 1 \in 1..Len(Q) /\ 2 \in 1..Len(Q)
    BY <1>2
  <2>2. Q[1].data \in Seq(Bytes) /\ Q[2].data \in Seq(Bytes)
    BY <1>2, <2>1
  <2>3. Len(Q[1].data \o Q[2].data) = Len(Q[1].data) + Len(Q[2].data) /\ Len(Q[1].data) \in Nat /\ Len(Q[2].data) \in Nat
    BY ONLY <2>2, Joined
  <2>4. Data(SubSeq(Q, 1, 2)) = Q[1].data \o Q[2].data
    BY DataOfTwo
  <2>5. ~(pos + (Len(Q[1].data) + Len(Q[2].data)) <= l)
    <3>1. PICK x, y : x = Len(Q[1].data) /\ y = Len(Q[2].data)
      OBVIOUS
    <3>2. x \in Nat /\ y \in Nat /\ pos \in Nat /\ l \in Nat /\ pos + (x + y) > l
      BY <2>3, <3>1
    <3>3. ~(pos + (x + y) <= l)
      BY ONLY <3>2
    <3> QED BY <3>1, <3>3
  <2> QED BY <2>3, <2>4, <2>5 DEF Fits
<1>6. n # 0
  BY <1>2, <1>3, <1>4
<1>7. ~(n > 1)
  <2> SUFFICES ASSUME n > 1 PROVE FALSE
    OBVIOUS
  <2>1. 2 \in 1..n /\ Len(Q) > 1
    BY <1>2, <1>3
  <2> QED BY <1>3, <1>5, <2>1
<1> QED BY <1>1, <1>3, <1>6, <1>7

\* Two frames fit into an empty buffer, and a third one does not.
LEMMA TwoFit ==
  ASSUME NEW Q \in Seq(Frames), Len(Q) > 1, NEW l \in Nat, l = Limit,
         Len(Q[1].data) + Len(Q[2].data) <= l,
         Len(Q) > 2 => (Len(Q[1].data) + Len(Q[2].data)) + Len(Q[3].data) > l
  PROVE  Fitting(Q, 0) = 2
<1>1. PICK n : n = Fitting(Q, 0)
  OBVIOUS
<1>2. Len(Q) \in Nat \ {0} /\ Q # <<>> /\ 1 \in 1..Len(Q) /\ 2 \in 1..Len(Q) /\ (Len(Q) > 2 => 3 \in 1..Len(Q))
  OBVIOUS
<1>3. \A i \in 1..Len(Q) : Q[i].data \in Seq(Bytes)
  BY FramesData
<1>4. n \in 0..Len(Q) /\ (\A m \in 1..n : Fits(Q, 0, m)) /\ (n = Len(Q) \/ ~Fits(Q, 0, n + 1))
  BY <1>1, FittingIs
<1>5. PICK a, b, c : a = Q[1].data /\ b = Q[2].data /\ c = Q[3].data
  OBVIOUS
<1>6. a \in Seq(Bytes) /\ b \in Seq(Bytes) /\ (Len(Q) > 2 => c \in Seq(Bytes))
  BY <1>2, <1>3, <1>5
<1>7. a \o b \in Seq(Bytes) /\ Len(a \o b) = Len(a) + Len(b) /\ Len(a) \in Nat /\ Len(b) \in Nat
  <2>1. a \in Seq(Bytes) /\ b \in Seq(Bytes)
    BY <1>6
  <2> QED BY ONLY <2>1, Joined
<1> DEFINE x == Len(a) y == Len(b) z == Len(c)
<1>13. x \in Nat /\ y \in Nat /\ l \in Nat /\ x + y <= l /\ (Len(Q) > 2 => (x + y) + z > l)
  BY <1>5, <1>7
<1> HIDE DEF x, y, z
<1>8. Fits(Q, 0, 1)
  <2>1. Data(SubSeq(Q, 1, 1)) = a
    BY <1>2, <1>5, DataOfTwo
  <2>2. 0 + Len(a) <= l
    BY ONLY <1>13 DEF x
  <2> QED BY <2>1, <2>2 DEF Fits
<1>9. Fits(Q, 0, 2)
  <2>1. Data(SubSeq(Q, 1, 2)) = a \o b
    BY <1>2, <1>5, DataOfTwo
  <2>2. 0 + Len(a \o b) <= l
    <3>1. 0 + (x + y) <= l
      BY ONLY <1>13
    <3> QED BY <1>7, <3>1 DEF x, y
  <2> QED BY <2>1, <2>2 DEF Fits
<1>10. Len(Q) > 2 => ~Fits(Q, 0, 3)
  <2> SUFFICES ASSUME Len(Q) > 2 PROVE ~Fits(Q, 0, 3)
    OBVIOUS
  <2>1. a \o b \in Seq(Bytes) /\ c \in Seq(Bytes)
    BY <1>6, <1>7
  <2>2. Len((a \o b) \o c) = Len(a \o b) + Len(c) /\ Len(c) \in Nat
    BY ONLY <2>1, Joined
  <2>3. Data(SubSeq(Q, 1, 3)) = (a \o b) \o c
    BY <1>2, <1>5, DataOfTwo
  <2>4. ~(0 + Len((a \o b) \o c) <= l)
    <3>1. z \in Nat
      BY <2>2 DEF z
    <3>2. ~(0 + ((x + y) + z) <= l)
      BY ONLY <1>13, <3>1, Len(Q) > 2
    <3> QED BY <1>7, <2>2, <3>2 DEF x, y, z
  <2> QED BY <2>3, <2>4 DEF Fits
<1>11. n # 0 /\ n # 1
  BY <1>2, <1>4, <1>8, <1>9
<1>12. ~(n > 2)
  <2> SUFFICES ASSUME n > 2 PROVE FALSE
    OBVIOUS
  <2>1. 3 \in 1..n /\ Len(Q) > 2
    BY <1>2, <1>4
  <2> QED BY <1>4, <1>10, <2>1
<1> QED BY <1>1, <1>4, <1>11, <1>12

\* A frame that ends a report is not short, where others follow its first two.
RunIs(run, D, y, T) ==
  /\ Len(run) \in Nat \ {0} /\ run[1].at = 0
  /\ \A i \in 1..Len(run) :
       /\ run[i].data \in Seq(Bytes) /\ Len(run[i].data) \in 1..D /\ run[i].at \in Nat
       /\ \A j \in 1..Len(run[i].data) : run[i].data[j] = T[run[i].at + j]
       /\ Len(run) > 2 => Len(run[i].data) > 2 * y
       /\ IF i = Len(run) THEN run[i].at + Len(run[i].data) = Len(T)
          ELSE Len(run[i].data) = D /\ run[i + 1].at = run[i].at + D

\* The frames of a report whose first, consecutive and last frames are there are of that form.
LEMMA RunLengths ==
  ASSUME Types, NEW run \in Seq(Frames), Decodable(run), NEW D, D = DataSize, NEW w, NEW T, NEW n,
         Len(T) \in Nat, \A i \in 1..Len(run) : Carries(D, w, T, n, run[i])
  PROVE  RunIs(run, D, setup.header, T)
<1>1. /\ Len(run) \in Nat \ {0} /\ run[1].at = 0
      /\ \A i \in 1..Len(run) : Ends(run[i].type) <=> i = Len(run)
  BY OfOneReport DEF Decodable, Whole
<1>2. D \in Nat \ {0} /\ setup.header \in Nat /\ Len(run) \in 1..Len(run)
  BY <1>1, Sizes
<1>3. \A i \in 1..Len(run) :
        /\ Len(run[i].data) \in 1..D /\ run[i].at \in Nat
        /\ \A j \in 1..Len(run[i].data) : run[i].data[j] = T[run[i].at + j]
        /\ IF i = Len(run) THEN run[i].at + Len(run[i].data) = Len(T) ELSE Len(run[i].data) = D
  BY <1>1 DEF Carries
<1>4. \A i \in 1..Len(run) : run[i].data \in Seq(Bytes)
  BY FramesData
<1>5. Len(run) > 2 => Len(run[Len(run)].data) > 2 * setup.header
  <2>1. Len(run) > 2 => ~(Len(Last(run).data) <= 2 * setup.header)
    BY DEF Decodable, Crowded
  <2>2. PICK a, y : a = Len(run[Len(run)].data) /\ y = setup.header
    OBVIOUS
  <2>3. a \in Nat /\ y \in Nat /\ (Len(run) > 2 => ~(a <= 2 * y))
    BY <1>2, <1>3, <2>1, <2>2 DEF Last
  <2>4. Len(run) > 2 => a > 2 * y
    BY ONLY <2>3
  <2> QED BY <2>2, <2>4
<1>6. ASSUME NEW i \in 1..Len(run), Len(run) > 2 PROVE Len(run[i].data) > 2 * setup.header
  <2>1. PICK a, b, y : a = Len(run[Len(run)].data) /\ y = setup.header /\ b = Len(run[i].data)
    OBVIOUS
  <2>2. a \in 1..D /\ y \in Nat /\ a > 2 * y /\ (i = Len(run) => b = a) /\ (i # Len(run) => b = D)
    BY <1>2, <1>3, <1>5, <1>6, <2>1
  <2>3. b > 2 * y
    BY ONLY <1>2, <2>2
  <2> QED BY <2>1, <2>3
<1>7. ASSUME NEW i \in 1..Len(run), i # Len(run) PROVE run[i + 1].at = run[i].at + D
  <2>1. i \in 1..Len(run) - 1
    BY <1>1, <1>7
  <2>2. run[i + 1].at = run[i].at + Len(run[i].data)
    BY <2>1 DEF Decodable, Whole, Continues
  <2> QED BY <1>3, <1>7, <2>2
<1> QED BY <1>1, <1>3, <1>4, <1>6, <1>7 DEF RunIs

\* When the last frame is there, the first two are in the buffer, or all there are.
LEMMA ReadyDecodes ==
  ASSUME Types, NEW e, IsRecord(e), NEW run \in Seq(Frames), e.queue = run, e.run = run,
         NEW a \in Seq(Bytes \cup {None}), e.buf = a, Len(a) = Limit, Decodable(run),
         NEW D, D = DataSize, NEW w, NEW T \in Seq(Bytes), NEW n, \A i \in 1..Len(run) : Carries(D, w, T, n, run[i]),
         NEW s, NEW r
  PROVE  DecodesAt(D, s, r, T, 0, 1, 0, Ready(e))
<1>1. PICK L, t, y, l : L = Len(run) /\ t = Len(T) /\ y = setup.header /\ l = Limit
  OBVIOUS
<1>2. D \in Nat \ {0} /\ y \in Nat /\ l = 2 * D + 2 * y /\ t \in Nat
  <2>1. DataSize \in Nat \ {0} /\ setup.header \in Nat /\ Limit = 2 * DataSize + 2 * setup.header
    BY Sizes
  <2> QED BY <1>1, <2>1
<1>3. /\ L \in Nat \ {0} /\ run[1].at = 0
      /\ \A i \in 1..L :
           /\ run[i].data \in Seq(Bytes) /\ Len(run[i].data) \in 1..D /\ run[i].at \in Nat
           /\ \A j \in 1..Len(run[i].data) : run[i].data[j] = T[run[i].at + j]
           /\ L > 2 => Len(run[i].data) > 2 * y
           /\ IF i = L THEN run[i].at + Len(run[i].data) = t
              ELSE Len(run[i].data) = D /\ run[i + 1].at = run[i].at + D
  <2>1. RunIs(run, D, y, T)
    BY <1>1, <1>2, RunLengths
  <2> QED BY <1>1, <2>1 DEF RunIs
<1>4. l \in Nat /\ 0 <= l
  BY ONLY <1>2
<1>5. PICK m \in 0..L, c \in Seq(Bytes), b \in Seq(Bytes \cup {None}) : Copied(e, run, a, 0, m, c, b)
  <2>1. 0 \in Nat /\ 0 <= Limit
    BY <1>1, <1>4
  <2> QED BY <1>1, <2>1, ReadIs
<1>13. m = Fitting(run, 0) /\ c = Data(SubSeq(run, 1, m)) /\ \A j \in 1..Len(c) : b[0 + j] = c[j]
  BY <1>5 DEF Copied
<1>6. PICK f : f = Ready(e)
  OBVIOUS
<1>7. /\ f.queue = SubSeq(run, m + 1, L) /\ f.buf = b /\ f.run = run /\ f.pos = 1 /\ f.end = l /\ f.items = <<>>
  BY <1>1, <1>5, <1>6, SMTT(40) DEF Ready, Copied
<1>8. /\ IF m < L THEN m >= 2 /\ run[m + 1].at = 0 + 2 * D ELSE t <= 0 + 2 * D
      /\ \A j \in 1..2 * D : j <= t => b[j] = T[j]
  <2>1. CASE L = 1
    <3>1. PICK x : x = Len(run[1].data)
      OBVIOUS
    <3>2. 1 \in 1..L /\ x \in 1..D /\ run[1].data \in Seq(Bytes) /\ 0 + x = t /\ \A j \in 1..x : run[1].data[j] = T[0 + j]
      BY <1>3, <2>1, <3>1
    <3>3. 0 + x <= l /\ run # <<>>
      <4>1. 0 + x <= l
        BY ONLY <1>2, <3>2
      <4>2. run # <<>>
        <5>1. Len(run) # 0 /\ Len(<<>>) = 0
          BY <1>1, <2>1
        <5> QED BY ONLY <5>1
      <4> QED BY <4>1, <4>2
    <3>4. m = 1
      <4>1. ~(Len(run) > 1)
        BY <1>1, <2>1
      <4>2. Fitting(run, 0) = 1
        BY <1>1, <1>4, <3>1, <3>3, <4>1, OneFits
      <4> QED BY <1>13, <4>2
    <3>5. c = run[1].data
      BY <1>13, <3>3, <3>4, DataOfTwo
    <3>6. \A j \in 1..2 * D : j <= t => j \in 1..x
      BY ONLY <1>2, <3>2
    <3>7. \A j \in 1..x : b[j] = T[j]
      <4>1. \A j \in 1..x : 0 + j = j
        BY <3>2
      <4> QED BY <1>13, <3>1, <3>2, <3>5, <4>1
    <3>8. t <= 0 + 2 * D
      BY ONLY <1>2, <3>2
    <3> QED BY <2>1, <3>4, <3>6, <3>7, <3>8
  <2>2. CASE L # 1
    <3>1. PICK x, z, p, q : x = Len(run[1].data) /\ z = Len(run[2].data) /\ p = run[1].data /\ q = run[2].data
      OBVIOUS
    <3>2. 1 \in 1..L /\ 2 \in 1..L /\ L > 1 /\ (L > 2 => 3 \in 1..L) /\ 1 + 1 = 2 /\ 2 + 1 = 3 /\ 1 # L
      BY <1>3, <2>2
    <3>3. /\ p \in Seq(Bytes) /\ q \in Seq(Bytes) /\ x = D /\ z \in 1..D /\ Len(p) = x /\ Len(q) = z
          /\ run[2].at = 0 + D
          /\ \A j \in 1..x : p[j] = T[0 + j]
          /\ \A j \in 1..z : q[j] = T[D + j]
      <4>1. run[2].at = run[1].at + D
        BY <1>3, <3>2
      <4>2. run[2].at = D /\ run[2].at = 0 + D
        BY <1>2, <1>3, <4>1
      <4> QED BY <1>3, <3>1, <3>2, <4>2
    <3>4. x + z <= l /\ (L > 2 => (x + z) + Len(run[3].data) > l)
      <4>1. PICK u : u = Len(run[3].data)
        OBVIOUS
      <4>2. L > 2 => u \in 1..D /\ u > 2 * y /\ z = D
        BY <1>3, <3>1, <3>2, <4>1
      <4>3. x + z <= l
        BY ONLY <1>2, <3>3
      <4>4. L > 2 => (x + z) + u > l
        <5> SUFFICES ASSUME L > 2 PROVE (x + z) + u > l
          OBVIOUS
        <5>1. u \in 1..D /\ u > 2 * y /\ z = D /\ x = D
          BY <3>3, <4>2
        <5> QED BY ONLY <1>2, <5>1
      <4> QED BY <4>1, <4>3, <4>4
    <3>5. m = 2
      BY <1>1, <1>4, <1>13, <3>1, <3>2, <3>4, TwoFit
    <3>6. c = p \o q /\ run # <<>>
      <4>1. run # <<>>
        BY <1>1, <3>2
      <4> QED BY <1>1, <1>13, <3>1, <3>2, <3>5, <4>1, DataOfTwo
    <3>7. /\ Len(c) = x + z /\ \A j \in 1..x : c[j] = p[j]
          /\ \A j \in 1..z : c[x + j] = q[j]
      <4>1. p \in Seq(Bytes) /\ q \in Seq(Bytes)
        BY <3>3
      <4>2. /\ Len(p \o q) = Len(p) + Len(q) /\ \A j \in 1..Len(p) : (p \o q)[j] = p[j]
            /\ \A j \in 1..Len(q) : (p \o q)[Len(p) + j] = q[j]
        <5>1. Len(p \o q) = Len(p) + Len(q)
          BY ONLY <4>1, Joined
        <5>2. \A j \in 1..Len(p) : (p \o q)[j] = p[j]
          BY ONLY <4>1, Joined
        <5>3. \A j \in 1..Len(q) : (p \o q)[Len(p) + j] = q[j]
          BY ONLY <4>1
        <5> QED BY ONLY <5>1, <5>2, <5>3
      <4> QED BY ONLY <3>3, <3>6, <4>2
    <3>8. \A j \in 1..x : b[j] = T[j]
      <4>1. \A j \in 1..x : 0 + j = j /\ j \in 1..x + z
        <5>1. D \in Nat /\ x = D /\ z \in 1..D
          BY <1>2, <3>3
        <5> QED BY ONLY <5>1
      <4>2. \A j \in 1..x : p[j] = T[j]
        BY <3>3, <4>1
      <4>3. \A j \in 1..x : b[j] = c[j]
        BY <1>13, <3>7, <4>1
      <4> QED BY <3>7, <4>2, <4>3
    <3>9. \A j \in 1..z : b[D + j] = T[D + j]
      <4>1. \A j \in 1..z : 0 + (x + j) = D + j /\ x + j \in 1..x + z /\ x + j = D + j
        <5>1. D \in Nat /\ x = D /\ z \in 1..D
          BY <1>2, <3>3
        <5> QED BY ONLY <5>1
      <4>2. \A j \in 1..z : b[D + j] = c[x + j]
        BY <1>13, <3>7, <4>1
      <4> QED BY <3>3, <3>7, <4>2
    <3>10. IF L = 2 THEN D + z = t ELSE z = D /\ run[3].at = D + D
      <4>1. L # 2 => L > 2
        BY <1>3, <3>2
      <4>2. L = 2 => run[2].at + z = t
        BY <1>3, <3>1, <3>2
      <4>3. L # 2 => z = D /\ run[3].at = run[2].at + D
        BY <1>3, <3>1, <3>2
      <4> QED BY <1>2, <3>3, <4>2, <4>3
    <3>11. \A j \in 1..2 * D : j <= t => b[j] = T[j]
      <4> SUFFICES ASSUME NEW j \in 1..2 * D, j <= t PROVE b[j] = T[j]
        OBVIOUS
      <4>1. CASE j <= D
        <5>1. j \in 1..x
          BY <1>2, <3>3, <4>1
        <5> QED BY <3>8, <5>1
      <4>2. CASE ~(j <= D)
        <5>1. j - D \in 1..z /\ D + (j - D) = j
          <6>1. D + z = t \/ z = D
            BY <3>10
          <6>2. D \in Nat /\ t \in Nat /\ z \in 1..D /\ (D + z = t \/ z = D) /\ ~(j <= D) /\ j \in 1..2 * D /\ j <= t
            BY <1>2, <3>3, <4>2, <6>1
          <6> QED BY ONLY <6>2
        <5> QED BY <3>9, <5>1
      <4> QED BY <4>1, <4>2
    <3>12. IF m < L THEN m >= 2 /\ run[m + 1].at = 0 + 2 * D ELSE t <= 0 + 2 * D
      <4>1. CASE L = 2
        <5>1. t <= 0 + 2 * D
          <6>1. D + z = t
            BY <3>10, <4>1
          <6> QED BY ONLY <1>2, <3>3, <6>1
        <5> QED BY <3>5, <4>1, <5>1
      <4>2. CASE L # 2
        <5>1. run[m + 1].at = 0 + 2 * D
          BY <1>2, <3>5, <3>10, <4>2
        <5>2. m < L
          BY <1>3, <3>2, <3>5, <4>2
        <5> QED BY <3>5, <5>1, <5>2
      <4> QED BY <4>1, <4>2
    <3> QED BY <3>11, <3>12
  <2> QED BY <2>1, <2>2
<1>9. f.items \in Seq(Items) /\ Len(f.items) = 0 /\ \A i \in 1..0 : f.items[i] = <<s, r, i>>
  BY <1>7
<1>10. f.pos = 1 - 0 /\ f.end \in Nat /\ f.end >= 2 * D
  BY <1>2, <1>4, <1>7
<1>11. \A j \in 1..2 * D : 0 + j <= Len(T) => f.buf[j] = T[0 + j]
  <2>1. \A j \in 1..2 * D : 0 + j = j
    BY <1>2
  <2> QED BY <1>1, <1>7, <1>8, <2>1
<1>12. \E q \in 0..Len(f.run) :
         /\ f.queue = SubSeq(f.run, q + 1, Len(f.run))
         /\ IF q < Len(f.run) THEN q >= 2 /\ f.run[q + 1].at = 0 + 2 * D ELSE Len(T) <= 0 + 2 * D
  BY <1>1, <1>7, <1>8
<1> QED BY <1>6, <1>9, <1>10, <1>11, <1>12 DEF DecodesAt

\* The rest of a rest.
LEMMA RestOf ==
  ASSUME NEW S, NEW a \in Seq(S), NEW L \in Nat, L = Len(a), NEW q \in 0..L, q < L, NEW Q, Q = SubSeq(a, q + 1, L)
  PROVE  /\ Q \in Seq(S) /\ Len(Q) = L - q /\ \A i \in 1..L - q : Q[i] = a[q + i]
         /\ SubSeq(Q, 2, Len(Q)) = SubSeq(a, (q + 1) + 1, L)
<1>1. Q \in Seq(S) /\ Len(Q) = L - q
  <2>1. SubSeq(a, q + 1, L) \in Seq(S) /\ Len(SubSeq(a, q + 1, L)) = L - q
    OBVIOUS
  <2> QED BY <2>1
<1>2. \A i \in 1..L - q : Q[i] = a[q + i]
  <2>1. \A i \in 1..L - q : SubSeq(a, q + 1, L)[i] = a[q + i]
    OBVIOUS
  <2> QED BY <2>1
<1>3. PICK x, y : x = SubSeq(Q, 2, Len(Q)) /\ y = SubSeq(a, (q + 1) + 1, L)
  OBVIOUS
<1>4. x \in Seq(S) /\ Len(x) = (L - q) - 1 /\ \A i \in 1..(L - q) - 1 : x[i] = Q[i + 1]
  <2>1. L - q \in Nat \ {0}
    OBVIOUS
  <2>2. PICK l : l = L - q
    OBVIOUS
  <2>3. SubSeq(Q, 2, l) \in Seq(S) /\ Len(SubSeq(Q, 2, l)) = l - 1
    BY ONLY <1>1, <2>1, <2>2
  <2>4. \A i \in 1..l - 1 : SubSeq(Q, 2, l)[i] = Q[i + 1]
    BY ONLY <1>1, <2>1, <2>2
  <2> QED BY <1>1, <1>3, <2>2, <2>3, <2>4
<1>5. y \in Seq(S) /\ Len(y) = (L - q) - 1 /\ \A i \in 1..(L - q) - 1 : y[i] = a[(q + 1) + i]
  <2>1. PICK u : u = q + 1
    OBVIOUS
  <2>2. u \in 0..L /\ L \in Nat /\ a \in Seq(S) /\ L = Len(a) /\ L - u = (L - q) - 1
    BY <2>1
  <2>3. SubSeq(a, u + 1, L) \in Seq(S) /\ Len(SubSeq(a, u + 1, L)) = L - u
    BY ONLY <2>2
  <2>4. \A i \in 1..L - u : SubSeq(a, u + 1, L)[i] = a[u + i]
    BY ONLY <2>2
  <2> QED BY <1>3, <2>1, <2>2, <2>3, <2>4
<1>6. \A i \in 1..(L - q) - 1 : i + 1 \in 1..L - q /\ q + (i + 1) = (q + 1) + i
  BY ONLY L \in Nat, q \in 0..L, q < L
<1>7. ASSUME NEW i \in 1..(L - q) - 1 PROVE x[i] = y[i]
  <2>1. x[i] = Q[i + 1] /\ y[i] = a[(q + 1) + i]
    BY <1>4, <1>5
  <2>2. i + 1 \in 1..L - q /\ q + (i + 1) = (q + 1) + i
    BY ONLY <1>6, i \in 1..(L - q) - 1
  <2>3. Q[i + 1] = a[q + (i + 1)]
    BY ONLY <1>2, <2>2
  <2> QED BY ONLY <2>1, <2>2, <2>3
<1>8. x = y
  BY ONLY <1>4, <1>5, <1>7
<1> QED BY <1>1, <1>2, <1>3, <1>8

\* ensureLength moves the decoder to where the next item is read, and the next frame goes
\* behind what is left in the buffer.
LEMMA EnsureDecodes ==
  ASSUME Types, NEW d, IsRecord(d), NEW run \in Seq(Frames), d.run = run, NEW Q \in Seq(Frames), d.queue = Q,
         NEW a \in Seq(Bytes \cup {None}), d.buf = a, Len(a) = Limit, Decodable(run),
         NEW D, D = DataSize, NEW w, NEW T \in Seq(Bytes), NEW n, \A i \in 1..Len(run) : Carries(D, w, T, n, run[i]),
         NEW s, NEW r, NEW v \in Nat, NEW o \in Nat, NEW m \in Nat, DecodesAt(D, s, r, T, v, o, m, d)
  PROVE  DecodesAt(D, s, r, T, NextBase(D, o, v), o, m, EnsureLength(d))
<1>1. PICK L, t, y, l : L = Len(run) /\ t = Len(T) /\ y = setup.header /\ l = Limit
  OBVIOUS
<1>2. D \in Nat \ {0} /\ y \in Nat /\ l = 2 * D + 2 * y /\ t \in Nat
  <2>1. DataSize \in Nat \ {0} /\ setup.header \in Nat /\ Limit = 2 * DataSize + 2 * setup.header
    BY Sizes
  <2> QED BY <1>1, <2>1
<1>3. /\ L \in Nat \ {0}
      /\ \A i \in 1..L :
           /\ run[i].data \in Seq(Bytes) /\ Len(run[i].data) \in 1..D /\ run[i].at \in Nat
           /\ \A j \in 1..Len(run[i].data) : run[i].data[j] = T[run[i].at + j]
           /\ L > 2 => Len(run[i].data) > 2 * y
           /\ IF i = L THEN run[i].at + Len(run[i].data) = t
              ELSE Len(run[i].data) = D /\ run[i + 1].at = run[i].at + D
  <2>1. RunIs(run, D, y, T)
    BY <1>1, <1>2, RunLengths
  <2> QED BY <1>1, <2>1 DEF RunIs
<1>8. L \in Nat \ {0}
  BY <1>3
<1>4. /\ d.items \in Seq(Items) /\ Len(d.items) = m /\ \A i \in 1..m : d.items[i] = <<s, r, i>>
      /\ d.pos = o - v
      /\ \A j \in 1..2 * D : v + j <= t => a[j] = T[v + j]
  BY <1>1 DEF DecodesAt
<1>5. PICK q \in 0..L : Q = SubSeq(run, q + 1, L) /\ IF q < L THEN q >= 2 /\ run[q + 1].at = v + 2 * D ELSE t <= v + 2 * D
  BY <1>1 DEF DecodesAt
<1>6. CASE d.pos <= DataSize
  <2>1. EnsureLength(d) = d
    BY <1>6 DEF EnsureLength
  <2>2. o - v <= D
    BY <1>4, <1>6
  <2>3. NextBase(D, o, v) = v
    BY <1>2, <2>2 DEF NextBase
  <2> QED BY <2>1, <2>3
<1>7. CASE ~(d.pos <= DataSize)
  <2>1. PICK k \in 0..Len(Q), c \in Seq(Bytes), b \in Seq(Bytes \cup {None}) : Ensured(d, Q, a, k, c, b)
    BY <1>7, EnsureLengthIs
  <2>2. PICK u : u = v + D
    OBVIOUS
  <2>3. NextBase(D, o, v) = u
    <3>1. ~(o - v <= D)
      BY <1>4, <1>7
    <3>2. o - v > D
      BY ONLY <1>2, <3>1, o \in Nat, v \in Nat
    <3>3. NextBase(D, o, v) = v + D
      BY ONLY <3>2 DEF NextBase
    <3> QED BY ONLY <2>2, <3>3
  <2>4. PICK f : f = EnsureLength(d)
    OBVIOUS
  <2>5. /\ k = Fitting(Q, D) /\ c = Data(SubSeq(Q, 1, k))
        /\ (\A j \in 1..D : b[j] = a[D + j]) /\ (\A j \in 1..Len(c) : b[D + j] = c[j])
        /\ f.queue = SubSeq(Q, k + 1, Len(Q)) /\ f.buf = b /\ f.run = run /\ f.pos = d.pos - D
        /\ f.end = (IF Q = <<>> THEN 0 ELSE D + Len(c)) + D /\ f.items = d.items
    <3>1. /\ k = Fitting(Q, D) /\ c = Data(SubSeq(Q, 1, k))
          /\ (\A j \in 1..D : b[j] = a[D + j]) /\ (\A j \in 1..Len(c) : b[D + j] = c[j])
      BY <2>1 DEF Ensured
    <3>2. f = [queue |-> SubSeq(Q, k + 1, Len(Q)), buf |-> b, run |-> d.run, pos |-> d.pos - D,
               end |-> (IF Q = <<>> THEN 0 ELSE D + Len(c)) + D, items |-> d.items]
      <4>1. EnsureLength(d) = [queue |-> SubSeq(Q, k + 1, Len(Q)), buf |-> b, run |-> d.run, pos |-> d.pos - DataSize,
                               end |-> (IF Q = <<>> THEN 0 ELSE DataSize + Len(c)) + DataSize, items |-> d.items]
        BY <2>1 DEF Ensured
      <4> QED BY ONLY <2>4, <4>1, D = DataSize
    <3>3. d.run = run
      OBVIOUS
    <3> QED BY ONLY <3>1, <3>2, <3>3
  <2>6. f.pos = o - u
    <3>1. f.pos = d.pos - D
      BY <2>5
    <3>2. d.pos = o - v
      BY <1>4
    <3>3. (o - v) - D = o - (v + D)
      BY ONLY <1>2, o \in Nat, v \in Nat
    <3> QED BY ONLY <2>2, <3>1, <3>2, <3>3
  <2>7. \A j \in 1..D : u + j <= t => b[j] = T[u + j]
    <3> SUFFICES ASSUME NEW j \in 1..D, u + j <= t PROVE b[j] = T[u + j]
      OBVIOUS
    <3>1. D + j \in 1..2 * D /\ v + (D + j) = u + j
      BY <1>2, <2>2
    <3> QED BY <1>4, <2>5, <3>1
  <2>8. /\ \A j \in 1..2 * D : u + j <= t => b[j] = T[u + j]
        /\ f.end \in Nat /\ (f.end >= 2 * D \/ u + f.end >= t)
        /\ \E p \in 0..L : /\ f.queue = SubSeq(run, p + 1, L)
                           /\ IF p < L THEN p >= 2 /\ run[p + 1].at = u + 2 * D ELSE t <= u + 2 * D
    <3>1. CASE q = L
      <4>1. Q = <<>> /\ Len(Q) = 0 /\ t <= v + 2 * D
        <5>1. SubSeq(run, L + 1, L) = <<>>
          BY <1>1, <1>3
        <5> QED BY <1>3, <1>5, <3>1, <5>1
      <4>2. f.end = 0 + D /\ f.queue = Q
        <5>1. k = 0
          BY <4>1
        <5>2. SubSeq(Q, 0 + 1, 0) = <<>>
          BY <4>1
        <5> QED BY <2>5, <4>1, <5>1, <5>2
      <4>3. \A j \in 1..2 * D : u + j <= t => j \in 1..D
        BY ONLY <1>2, <2>2, <4>1, v \in Nat
      <4>4. f.end \in Nat /\ u + f.end >= t /\ t <= u + 2 * D
        BY ONLY <1>2, <2>2, <4>1, <4>2, v \in Nat
      <4>5. f.queue = SubSeq(run, L + 1, L) /\ L \in 0..L /\ ~(L < L)
        BY <1>3, <1>5, <3>1, <4>2
      <4> QED BY <2>7, <4>3, <4>4, <4>5
    <3>2. CASE q # L
      <4>1. q < L /\ q >= 2 /\ run[q + 1].at = v + 2 * D /\ L > 2 /\ q + 1 \in 1..L
        <5>1. q < L
          BY <1>3, <3>2
        <5> QED BY <1>3, <1>5, <5>1
      <4>2. PICK p, g : p = q + 1 /\ g = run[q + 1].data
        OBVIOUS
      <4>3. PICK x : x = Len(g)
        OBVIOUS
      <4>4. /\ Q \in Seq(Frames) /\ Len(Q) = L - q /\ \A i \in 1..L - q : Q[i] = run[q + i]
            /\ SubSeq(Q, 2, Len(Q)) = SubSeq(run, (q + 1) + 1, L)
        <5>1. run \in Seq(Frames) /\ L \in Nat /\ L = Len(run) /\ q \in 0..L /\ q < L /\ Q = SubSeq(run, q + 1, L)
          BY <1>1, <1>5, <1>8, <4>1
        <5> QED BY ONLY <5>1, RestOf
      <4>5. g \in Seq(Bytes) /\ \A j \in 1..x : g[j] = T[(v + 2 * D) + j]
        <5>1. PICK i \in 1..L : i = q + 1
          BY <4>1
        <5>2. run[i].data \in Seq(Bytes) /\ \A j \in 1..Len(run[i].data) : run[i].data[j] = T[run[i].at + j]
          BY <1>3
        <5>3. g = run[i].data /\ run[i].at = v + 2 * D
          BY ONLY <4>1, <4>2, <5>1
        <5> QED BY ONLY <4>3, <5>2, <5>3
      <4>14. x \in 1..D
        BY <1>3, <4>1, <4>2, <4>3
      <4>15. IF p = L THEN (v + 2 * D) + x = t ELSE x = D /\ run[p + 1].at = (v + 2 * D) + D
        <5>1. IF p = L THEN run[p].at + x = t ELSE x = D /\ run[p + 1].at = run[p].at + D
          BY <1>3, <4>1, <4>2, <4>3
        <5>2. run[p].at = v + 2 * D
          BY <4>1, <4>2
        <5> QED BY ONLY <5>1, <5>2
      <4>6. Q # <<>> /\ Q[1].data = g
        <5>1. L - q \in Nat \ {0} /\ 1 \in 1..L - q
          BY ONLY <1>8, <4>1, q \in 0..L
        <5>2. Len(Q) # 0 /\ Len(<<>>) = 0
          BY <4>4, <5>1
        <5>3. Q # <<>>
          BY ONLY <5>2
        <5> QED BY <4>2, <4>4, <5>1, <5>3
      <4>7. k = 1
        <5>1. D + Len(Q[1].data) <= l
          <6>1. D + x <= l
            BY ONLY <1>2, <4>14
          <6> QED BY <4>3, <4>6, <6>1
        <5>2. Len(Q) > 1 => D + (Len(Q[1].data) + Len(Q[2].data)) > l
          <6> SUFFICES ASSUME Len(Q) > 1 PROVE D + (Len(Q[1].data) + Len(Q[2].data)) > l
            OBVIOUS
          <6>1. 2 \in 1..L - q /\ q + 2 \in 1..L /\ p # L
            <7>1. L - q > 1
              BY <4>4
            <7>2. p = q + 1
              BY <4>2
            <7> QED BY ONLY <1>8, <7>1, <7>2, q \in 0..L
          <6>2. PICK z : z = Len(Q[2].data)
            OBVIOUS
          <6>3. z \in Nat /\ z > 2 * y /\ x = D
            <7>1. Len(run[q + 2].data) \in 1..D /\ Len(run[q + 2].data) > 2 * y
              BY <1>3, <4>1, <6>1
            <7>2. x = D
              BY <4>15, <6>1
            <7>3. Q[2] = run[q + 2]
              BY <4>4, <6>1
            <7>4. z = Len(run[q + 2].data)
              BY <6>2, <7>3
            <7>5. z \in 1..D /\ z > 2 * y
              BY <7>1, <7>4
            <7> QED BY <7>2, <7>5
          <6>4. D + (x + z) > l
            BY ONLY <1>2, <6>3
          <6> QED BY <4>3, <4>6, <6>2, <6>4
        <5>3. l \in Nat /\ D \in Nat
          BY ONLY <1>2
        <5>4. Fitting(Q, D) = 1
          BY <1>1, <4>6, <5>1, <5>2, <5>3, OneFits
        <5> QED BY <2>5, <5>4
      <4>8. c = g
        BY <2>5, <4>6, <4>7, DataOfTwo
      <4>9. f.queue = SubSeq(run, p + 1, L)
        <5>1. f.queue = SubSeq(Q, 1 + 1, Len(Q)) /\ 1 + 1 = 2
          BY <2>5, <4>7
        <5> QED BY ONLY <4>2, <4>4, <5>1
      <4>10. f.end = (D + x) + D
        BY <2>5, <4>3, <4>6, <4>8
      <4>11. f.end \in Nat /\ f.end >= 2 * D
        BY ONLY <1>2, <4>10, <4>14
      <4>12. \A j \in 1..2 * D : u + j <= t => b[j] = T[u + j]
        <5> SUFFICES ASSUME NEW j \in 1..2 * D, u + j <= t PROVE b[j] = T[u + j]
          OBVIOUS
        <5>1. CASE j <= D
          <6>1. j \in 1..D
            BY <1>2, <5>1
          <6> QED BY <2>7, <6>1
        <5>2. CASE ~(j <= D)
          <6>1. j - D \in 1..x
            <7>1. (v + 2 * D) + x = t \/ x = D
              BY <4>15
            <7>2. x \in 1..D
              BY <4>14
            <7> QED BY ONLY <1>2, <2>2, <5>2, <7>1, <7>2, v \in Nat, j \in 1..2 * D, u + j <= t
          <6>2. D + (j - D) = j /\ (v + 2 * D) + (j - D) = u + j
            BY ONLY <1>2, <2>2, v \in Nat, j \in 1..2 * D
          <6>3. b[D + (j - D)] = c[j - D]
            BY <2>5, <4>3, <4>8, <6>1
          <6>4. g[j - D] = T[(v + 2 * D) + (j - D)]
            BY <4>5, <6>1
          <6> QED BY <4>8, <6>2, <6>3, <6>4
        <5> QED BY <5>1, <5>2
      <4>13. p \in 0..L /\ IF p < L THEN p >= 2 /\ run[p + 1].at = u + 2 * D ELSE t <= u + 2 * D
        <5>1. p \in 0..L /\ p >= 2
          BY ONLY <1>8, <4>1, <4>2, q \in 0..L
        <5>2. CASE p = L
          <6>1. (v + 2 * D) + x = t /\ x \in 1..D
            BY <4>14, <4>15, <5>2
          <6>2. t <= u + 2 * D /\ ~(p < L)
            BY ONLY <1>2, <1>8, <2>2, <5>2, <6>1, v \in Nat
          <6> QED BY <5>1, <6>2
        <5>3. CASE p # L
          <6>1. run[p + 1].at = (v + 2 * D) + D
            BY <4>15, <5>3
          <6>2. p < L /\ (v + 2 * D) + D = u + 2 * D
            BY ONLY <1>2, <1>8, <2>2, <5>1, <5>3, v \in Nat
          <6> QED BY <5>1, <6>1, <6>2
        <5> QED BY <5>2, <5>3
      <4> QED BY <4>9, <4>11, <4>12, <4>13
    <3> QED BY <3>1, <3>2
  <2> QED BY <1>1, <1>4, <2>3, <2>4, <2>5, <2>6, <2>8, ZenonT(60) DEF DecodesAt
<1> QED BY <1>6, <1>7

\* What is at the place of the decoder in the buffer is the next item, and the whole of it.
LEMMA ItemIsThere ==
  ASSUME NEW D \in Nat \ {0}, NEW s \in Sender, NEW r \in Nat, NEW w, NEW T, NEW O, NEW B, NEW n,
         Laid(D, w, s, r, T, O, B, n), NEW i \in 1..n, NEW m, m = i - 1
  PROVE  /\ B[i] = NextBase(D, O[i], B[m]) /\ B[m] \in Nat /\ B[i] \in Nat /\ O[i] \in Nat /\ O[i + 1] \in Nat
         /\ w[i] \in Nat \ {0} /\ B[m] <= B[i] /\ B[i] < O[i] /\ O[i] <= B[i] + D
         /\ O[i + 1] = O[i] + w[i] /\ O[i + 1] <= B[i] + 2 * D /\ O[i + 1] <= Len(T) /\ Len(T) \in Nat
         /\ i \in Nat \ {0} /\ \A k \in 1..w[i] : T[O[i] + k] = Byte(s, r, i, k - 1)
<1>1. LaidTypes(w, T, O, B, n) /\ LaidItem(D, w, s, r, T, O, B, i)
  BY DEF Laid
<1>2. /\ n \in Nat /\ Len(T) \in Nat /\ i + 1 \in 1..n + 1 /\ m \in 0..n /\ w[i] \in Nat \ {0}
      /\ O[i] \in Nat /\ O[i + 1] \in Nat /\ B[i] \in Nat /\ B[m] \in Nat
  BY <1>1, LaidNumbers
<1>3. O[i + 1] <= Len(T)
  BY <1>2, LaidGrows
<1>4. B[i] = NextBase(D, O[i], B[m])
  BY <1>1 DEF LaidItem, NextBase
<1>5. B[m] <= B[i]
  <2>1. B[i] = B[m] + D \/ B[i] = B[m]
    BY <1>4 DEF NextBase
  <2> QED BY <1>2, <2>1
<1>6. i \in Nat \ {0}
  BY <1>2
<1> QED BY <1>1, <1>2, <1>3, <1>4, <1>5, <1>6 DEF LaidItem

\* The next item is decoded as it was published.
LEMMA ItemDecodes ==
  ASSUME Types, NEW d, Keeping(d), NEW run \in Seq(Frames), d.run = run, Decodable(run),
         NEW D, D = DataSize, NEW s \in Sender, NEW r \in Nat, NEW w, w = started[s][r],
         NEW T, NEW O, NEW B, NEW n, Laid(D, w, s, r, T, O, B, n), n = Len(w),
         \A i \in 1..Len(run) : Carries(D, w, T, n, run[i]),
         NEW m \in 0..n - 1, DecodesAt(D, s, r, T, B[m], O[m + 1], m, d)
  PROVE  DecodesAt(D, s, r, T, B[m + 1], O[(m + 1) + 1], m + 1, Item(d)) /\ Announced(d) = n
<1>1. PICK i, x : i = m + 1 /\ x = w[m + 1]
  OBVIOUS
<1>2. /\ LaidTypes(w, T, O, B, n) /\ T \in Seq(Bytes) /\ n \in Nat /\ D \in Nat \ {0}
      /\ \A p \in 1..Len(T) : T[p][1] = s /\ T[p][2] = r
  BY Sizes DEF Laid, LaidTypes
<1>3. i \in 1..n /\ m = i - 1 /\ m \in Nat
  BY <1>1, <1>2, SMTT(40)
<1>4. /\ B[i] = NextBase(D, O[i], B[m]) /\ B[m] \in Nat /\ B[i] \in Nat /\ O[i] \in Nat /\ O[i + 1] \in Nat
      /\ w[i] \in Nat \ {0} /\ B[m] <= B[i] /\ B[i] < O[i] /\ O[i] <= B[i] + D
      /\ O[i + 1] = O[i] + w[i] /\ O[i + 1] <= B[i] + 2 * D /\ O[i + 1] <= Len(T) /\ Len(T) \in Nat
      /\ i \in Nat \ {0} /\ \A k \in 1..w[i] : T[O[i] + k] = Byte(s, r, i, k - 1)
  <2>1. D \in Nat \ {0} /\ Laid(D, w, s, r, T, O, B, n)
    BY <1>2
  <2> QED BY ONLY <1>3, <2>1, s \in Sender, r \in Nat, ItemIsThere
<1>5. PICK u, v, o, t, z : u = B[m] /\ v = B[i] /\ o = O[i] /\ t = Len(T) /\ z = O[i + 1]
  OBVIOUS
<1>6. /\ u \in Nat /\ v \in Nat /\ o \in Nat /\ z \in Nat /\ x \in Nat \ {0} /\ u <= v /\ v < o /\ o <= v + D
      /\ z = o + x /\ z <= v + 2 * D /\ z <= t /\ t \in Nat /\ i \in Nat \ {0}
  BY <1>1, <1>4, <1>5
<1>7. \A k \in 1..x : T[o + k] = Byte(s, r, i, k - 1)
  BY <1>1, <1>4, <1>5
<1>8. PICK l : l = Limit
  OBVIOUS
<1>9. l \in Nat /\ 2 * D <= l
  <2>1. setup.header \in Nat /\ l = 2 * D + 2 * setup.header
    BY <1>8, Sizes
  <2>2. PICK y : y = setup.header
    OBVIOUS
  <2>3. y \in Nat /\ l = 2 * D + 2 * y /\ D \in Nat \ {0}
    BY <1>2, <2>1, <2>2
  <2> QED BY ONLY <2>3
<1>10. DecodesAt(D, s, r, T, u, o, m, d)
  BY <1>1, <1>5
<1>11. PICK e : e = EnsureLength(d)
  OBVIOUS
<1>12. IsRecord(e) /\ e.run = run /\ e.buf \in Seq(Bytes \cup {None}) /\ Len(e.buf) = l
  BY <1>8, <1>11, EnsureLengthKeeps
<1>13. DecodesAt(D, s, r, T, v, o, m, e)
  <2>1. PICK Q, a : d.queue = Q /\ d.buf = a
    OBVIOUS
  <2>2. IsRecord(d) /\ Q \in Seq(Frames) /\ a \in Seq(Bytes \cup {None}) /\ Len(a) = Limit
    BY <2>1 DEF Keeping
  <2>3. v = NextBase(D, o, u)
    BY <1>4, <1>5
  <2> QED BY <1>2, <1>3, <1>6, <1>10, <1>11, <2>1, <2>2, <2>3, EnsureDecodes
<1>14. /\ e.items \in Seq(Items) /\ Len(e.items) = m /\ \A j \in 1..m : e.items[j] = <<s, r, j>>
       /\ e.pos = o - v
       /\ \E q \in 0..Len(e.run) :
            /\ e.queue = SubSeq(e.run, q + 1, Len(e.run))
            /\ IF q < Len(e.run) THEN q >= 2 /\ e.run[q + 1].at = v + 2 * D ELSE Len(T) <= v + 2 * D
       /\ \A j \in 1..2 * D : v + j <= t => e.buf[j] = T[v + j]
       /\ e.end \in Nat /\ (e.end >= 2 * D \/ v + e.end >= t)
  BY <1>5, <1>13 DEF DecodesAt
<1>15. \A k \in 1..x : At(e, e.pos + k) = Byte(s, r, i, k - 1)
  <2> SUFFICES ASSUME NEW k \in 1..x PROVE At(e, e.pos + k) = Byte(s, r, i, k - 1)
    OBVIOUS
  <2>1. PICK j : j = (o - v) + k
    OBVIOUS
  <2>2. j \in 1..2 * D /\ v + j = o + k /\ v + j <= t /\ j <= l
    BY ONLY <1>2, <1>6, <1>9, <2>1, k \in 1..x
  <2>3. e.buf[j] = T[o + k]
    BY <1>14, <2>2
  <2>4. At(e, j) = e.buf[j]
    BY <1>8, <2>2 DEF At
  <2>5. e.pos + k = j
    BY <1>14, <2>1
  <2> QED BY <1>7, <2>3, <2>4, <2>5
<1>16. PICK b : b = At(e, e.pos + 1)
  OBVIOUS
<1>17. b = <<s, r, i, 0>> /\ b # None /\ b[1] = s /\ b[2] = r /\ b[3] = i /\ b[4] = 0
  <2>1. 1 \in 1..x /\ 1 - 1 = 0
    BY <1>6
  <2>2. b = <<s, r, i, 0>>
    BY <1>15, <1>16, <2>1 DEF Byte
  <2>3. b \in Bytes
    BY <1>6, <2>2 DEF Bytes
  <2> QED BY <2>2, <2>3, NoneAssumption
<1>18. \A k \in 1..x : At(e, e.pos + k) = [b EXCEPT ![4] = k - 1]
  <2>1. \A k \in 1..x : [<<s, r, i, 0>> EXCEPT ![4] = k - 1] = <<s, r, i, k - 1>>
    OBVIOUS
  <2> QED BY <1>15, <1>17, <2>1 DEF Byte
<1>19. ~(e.pos + x > e.end)
  <2>1. PICK g : g = e.end
    OBVIOUS
  <2>2. g \in Nat /\ (g >= 2 * D \/ v + g >= t)
    BY <1>14, <2>1
  <2>3. ~((o - v) + x > g)
    BY ONLY <1>2, <1>6, <2>2
  <2> QED BY <1>14, <2>1, <2>3
<1>20. Item(d) = [e EXCEPT !.pos = e.pos + x, !.items = Append(e.items, <<s, r, i>>)]
  <2>1. started[b[1]][b[2]][b[3]] = x /\ ~(b = None \/ b[3] = 0 \/ b[4] # 0)
    BY <1>1, <1>6, <1>17
  <2>2. <<b[1], b[2], b[3]>> = <<s, r, i>>
    BY <1>17
  <2> QED BY ONLY <1>11, <1>16, <1>18, <1>19, <2>1, <2>2 DEF Item
<1>21. PICK f : f = Item(d)
  OBVIOUS
<1>22. /\ f.queue = e.queue /\ f.buf = e.buf /\ f.run = e.run /\ f.pos = e.pos + x /\ f.end = e.end
       /\ f.items = Append(e.items, <<s, r, i>>)
  <2>1. f = [queue |-> e.queue, buf |-> e.buf, run |-> e.run, pos |-> e.pos + x, end |-> e.end,
             items |-> Append(e.items, <<s, r, i>>)]
    BY <1>12, <1>20, <1>21 DEF IsRecord
  <2> QED BY ONLY <2>1
<1>23. f.items \in Seq(Items) /\ Len(f.items) = m + 1 /\ \A j \in 1..m + 1 : f.items[j] = <<s, r, j>>
  <2>1. PICK p, c : p = e.items /\ c = <<s, r, i>>
    OBVIOUS
  <2>2. c \in Items
    BY <1>6, <2>1 DEF Items
  <2>3. p \in Seq(Items) /\ Len(p) = m /\ \A j \in 1..m : p[j] = <<s, r, j>>
    BY <1>14, <2>1
  <2>4. Append(p, c) \in Seq(Items) /\ Len(Append(p, c)) = m + 1
    BY ONLY <2>2, <2>3
  <2>5. \A j \in 1..m + 1 : Append(p, c)[j] = IF j = m + 1 THEN c ELSE p[j]
    BY ONLY <2>2, <2>3
  <2>6. \A j \in 1..m + 1 : j = m + 1 \/ j \in 1..m
    BY <1>3
  <2>7. \A j \in 1..m + 1 : Append(p, c)[j] = <<s, r, j>>
    BY <1>1, <2>1, <2>3, <2>5, <2>6
  <2> QED BY <1>22, <2>1, <2>4, <2>7
<1>24. f.pos = z - v
  BY <1>6, <1>14, <1>22
<1>25. DecodesAt(D, s, r, T, v, z, m + 1, f)
  BY <1>5, <1>14, <1>22, <1>23, <1>24 DEF DecodesAt
<1>26. Announced(d) = n
  <2>1. 2 \in 1..2 * D /\ u + 2 \in 1..t /\ u + 2 <= t
    BY ONLY <1>2, <1>6
  <2>2. d.buf[2] = T[u + 2]
    BY <1>5, <1>10, <2>1 DEF DecodesAt
  <2>3. T[u + 2] \in Bytes /\ T[u + 2][1] = s /\ T[u + 2][2] = r
    BY <1>2, <1>5, <2>1
  <2>4. d.buf[2] # None
    BY <2>2, <2>3, NoneAssumption
  <2> QED BY <2>2, <2>3, <2>4 DEF Announced
<1> QED BY <1>1, <1>5, <1>21, <1>25, <1>26

-----------------------------------------------------------------------------
(* The steps of the subscriber.                                            *)

\* A record of a decoder whose buffer has its size.
Buffered(d) ==
  /\ IsRecord(d) /\ d.queue \in Seq(Frames) /\ d.run \in Seq(Frames)
  /\ d.buf \in Seq(Bytes \cup {None}) /\ Len(d.buf) = Limit

\* The first read() keeps the size of the buffer.
LEMMA ReadyKeeps ==
  ASSUME Types, NEW d, Buffered(d)
  PROVE  Buffered(Ready(d)) /\ Ready(d).run = d.run
<1>1. PICK Q, a : d.queue = Q /\ d.buf = a
  OBVIOUS
<1>2. IsRecord(d) /\ Q \in Seq(Frames) /\ a \in Seq(Bytes \cup {None}) /\ Len(a) = Limit
  BY <1>1 DEF Buffered
<1>3. PICK n \in 0..Len(Q), c \in Seq(Bytes), b \in Seq(Bytes \cup {None}) : Copied(d, Q, a, 0, n, c, b)
  <2>1. Len(a) \in Nat
    BY <1>2
  <2>2. 0 \in Nat /\ 0 <= Limit
    BY <1>2, <2>1
  <2> QED BY <1>1, <1>2, <2>2, ReadIs
<1>4. PICK e : e = Ready(d)
  OBVIOUS
<1>5. e = [queue |-> SubSeq(Q, n + 1, Len(Q)), buf |-> b, run |-> d.run, pos |-> 1, end |-> Limit, items |-> <<>>]
  <2>1. Read(d, 0) = [queue |-> SubSeq(Q, n + 1, Len(Q)), buf |-> b, run |-> d.run, pos |-> d.pos,
                      end |-> IF Q = <<>> THEN 0 ELSE 0 + Len(c), items |-> d.items]
    BY <1>3 DEF Copied
  <2>2. PICK z : z = Read(d, 0)
    OBVIOUS
  <2>3. e = [z EXCEPT !.pos = 1, !.end = Limit, !.items = <<>>]
    BY <1>4, <2>2 DEF Ready
  <2>4. z = [queue |-> SubSeq(Q, n + 1, Len(Q)), buf |-> b, run |-> d.run, pos |-> d.pos,
             end |-> IF Q = <<>> THEN 0 ELSE 0 + Len(c), items |-> d.items]
    BY <2>1, <2>2
  <2> QED BY ONLY <2>3, <2>4
<1>6. IsRecord(e) /\ e.queue = SubSeq(Q, n + 1, Len(Q)) /\ e.run = d.run /\ e.buf = b
  BY <1>5 DEF IsRecord
<1>7. SubSeq(Q, n + 1, Len(Q)) \in Seq(Frames)
  <2>1. Q \in Seq(Frames) /\ n + 1 \in 1..Len(Q) + 1 /\ Len(Q) \in Nat
    BY <1>2
  <2> QED BY ONLY <2>1
<1>8. b \in Seq(Bytes \cup {None}) /\ Len(b) = Limit
  BY <1>3 DEF Copied
<1>9. Buffered(e)
  BY <1>6, <1>7, <1>8 DEF Buffered
<1> QED BY <1>4, <1>6, <1>9

\* A buffer of l bytes is a sequence.
LEMMA IsBuffer ==
  ASSUME NEW S, NEW l \in Nat, NEW a \in [1..l -> S] PROVE a \in Seq(S) /\ Len(a) = l
<1>1. a \in Seq(S)
  OBVIOUS
<1>2. Len(a) = l
  BY <1>1
<1> QED BY <1>1, <1>2

\* enqueue: the decoder a frame f goes to, d, and what it is then.
Enqueued(d, f) ==
  [d EXCEPT !.queue = Append(@, f), !.run = IF StartsNew(f.type) THEN <<f>> ELSE Append(@, f)]

\* Until the last frame of a report is there, all of them are in the queue.
LEMMA EnqueuedIs ==
  ASSUME Types, NEW d, NEW f \in Frames,
         IF StartsNew(f.type) THEN d = NewDecoder ELSE Keeping(d)
  PROVE  /\ Buffered(Enqueued(d, f)) /\ Enqueued(d, f).run # <<>>
         /\ Last(Enqueued(d, f).run) = f /\ Len(Enqueued(d, f).run) \in DOMAIN Enqueued(d, f).run
         /\ (\A i \in 1..Len(Enqueued(d, f).run) - 1 : ~Ends(Enqueued(d, f).run[i].type)) =>
              Enqueued(d, f).queue = Enqueued(d, f).run
         /\ \A g \in {Enqueued(d, f).run[i] : i \in DOMAIN Enqueued(d, f).run} :
              g = f \/ (~StartsNew(f.type) /\ g \in {d.run[i] : i \in DOMAIN d.run})
<1>1. PICK e : e = Enqueued(d, f)
  OBVIOUS
<1>2. PICK q, p, R : q = d.queue /\ p = d.run /\ R = IF StartsNew(f.type) THEN <<f>> ELSE Append(p, f)
  OBVIOUS
<1>3. /\ IsRecord(d) /\ q \in Seq(Frames) /\ p \in Seq(Frames)
      /\ d.buf \in Seq(Bytes \cup {None}) /\ Len(d.buf) = Limit
  <2>1. CASE StartsNew(f.type)
    <3>1. d = NewDecoder
      BY <2>1
    <3>2. Limit \in Nat
      <4>1. setup.header \in Nat /\ Limit = 2 * DataSize + 2 * setup.header /\ DataSize \in Nat \ {0}
        BY Sizes
      <4> QED BY <4>1
    <3>3. d.buf = [i \in 1..Limit |-> None] /\ d.queue = <<>> /\ d.run = <<>> /\ IsRecord(d)
      BY <3>1 DEF NewDecoder, IsRecord
    <3>4. d.buf \in [1..Limit -> Bytes \cup {None}]
      BY <3>3
    <3>5. PICK l, a : l = Limit /\ a = d.buf
      OBVIOUS
    <3>6. l \in Nat /\ a \in [1..l -> Bytes \cup {None}]
      BY <3>2, <3>4, <3>5
    <3>7. a \in Seq(Bytes \cup {None}) /\ Len(a) = l
      BY <3>6, IsBuffer
    <3>8. q = <<>> /\ p = <<>>
      BY <1>2, <3>3
    <3>9. <<>> \in Seq(Frames)
      OBVIOUS
    <3> QED BY ONLY <3>3, <3>5, <3>7, <3>8, <3>9
  <2>2. CASE ~StartsNew(f.type)
    BY <1>2, <2>2 DEF Keeping
  <2> QED BY <2>1, <2>2
<1>4. e = [queue |-> Append(q, f), buf |-> d.buf, run |-> R, pos |-> d.pos, end |-> d.end, items |-> d.items]
  <2>1. d = [queue |-> q, buf |-> d.buf, run |-> p, pos |-> d.pos, end |-> d.end, items |-> d.items]
    BY <1>2, <1>3 DEF IsRecord
  <2>2. e = [d EXCEPT !.queue = Append(q, f), !.run = R]
    BY <1>1, <1>2 DEF Enqueued
  <2> QED BY ONLY <2>1, <2>2
<1>5. Append(q, f) \in Seq(Frames) /\ R \in Seq(Frames) /\ R # <<>> /\ Len(R) \in DOMAIN R
  <2>1. \A x \in Seq(Frames) : /\ Append(x, f) \in Seq(Frames) /\ Append(x, f) # <<>>
                               /\ Len(Append(x, f)) \in DOMAIN Append(x, f)
    OBVIOUS
  <2>2. <<f>> \in Seq(Frames) /\ <<f>> # <<>> /\ Len(<<f>>) \in DOMAIN <<f>>
    OBVIOUS
  <2> QED BY <1>2, <1>3, <2>1, <2>2
<1>6. IsRecord(e) /\ e.queue = Append(q, f) /\ e.buf = d.buf /\ e.run = R
  BY <1>4 DEF IsRecord
<1>7. Buffered(e)
  BY <1>3, <1>5, <1>6 DEF Buffered
<1>8. Last(R) = f
  <2>1. \A x \in Seq(Frames) : Append(x, f)[Len(Append(x, f))] = f
    OBVIOUS
  <2>2. <<f>>[Len(<<f>>)] = f
    OBVIOUS
  <2> QED BY <1>2, <1>3, <2>1, <2>2 DEF Last
<1>9. (\A i \in 1..Len(R) - 1 : ~Ends(R[i].type)) => Append(q, f) = R
  <2>1. CASE StartsNew(f.type)
    <3>1. q = <<>>
      BY <1>2, <2>1 DEF NewDecoder
    <3>2. Append(<<>>, f) = <<f>>
      OBVIOUS
    <3> QED BY <1>2, <2>1, <3>1, <3>2
  <2>2. CASE ~StartsNew(f.type)
    <3> SUFFICES ASSUME \A i \in 1..Len(R) - 1 : ~Ends(R[i].type) PROVE Append(q, f) = R
      OBVIOUS
    <3>1. R = Append(p, f)
      BY <1>2, <2>2
    <3>2. DOMAIN p = 1..Len(p) /\ Len(R) - 1 = Len(p) /\ \A i \in 1..Len(p) : R[i] = p[i]
      BY <1>3, <3>1
    <3>3. \A i \in DOMAIN p : ~Ends(p[i].type)
      BY <3>2
    <3>4. q = p
      BY <1>2, <2>2, <3>3 DEF Keeping
    <3> QED BY <3>1, <3>4
  <2> QED BY <2>1, <2>2
<1>10. \A g \in {R[i] : i \in DOMAIN R} : g = f \/ (~StartsNew(f.type) /\ g \in {p[i] : i \in DOMAIN p})
  <2>1. \A x \in Seq(Frames) : \A i \in DOMAIN Append(x, f) : Append(x, f)[i] = f \/ (i \in DOMAIN x /\ Append(x, f)[i] = x[i])
    OBVIOUS
  <2>2. \A i \in DOMAIN <<f>> : <<f>>[i] = f
    OBVIOUS
  <2> QED BY <1>2, <1>3, <2>1, <2>2
<1> QED BY <1>1, <1>2, <1>5, <1>6, <1>7, <1>8, <1>9, <1>10, SMTT(40)

\* A frame of a report with an item wider than a datagram, of which nothing is said.
Unclear(f) == f \in Frames /\ f.from \in Sender /\ f.rep \in 1..Latest(f.from) /\ Wide(f.from, f.rep)

\* A step of the subscriber: no other frame is added, and what a callback reads is decoded as
\* it was published, as far as it is.
LEMMA SubscriberReads ==
  ASSUME Known, Stories, UNCHANGED <<setup, started, enc>>,
         \A f \in Carried' : f \in Carried \/ Unclear(f), \A u \in Sender : OnWire(u)' \subseteq OnWire(u),
         \A k, u \in Sender : \A r \in 1..Latest(u) : \A T, O, B, n :
           ~Wide(u, r) /\ Placed(u, r, T, O, B, n) /\ ReadOn(u, r, T, O, B) /\ ReadBy(k, u, r)' =>
             Decodes(DataSize, started[u][r], u, r, T, O, B, decoders'[k])
  PROVE  Known' /\ Stories'
<1>1. DataSize' = DataSize /\ \A u : Latest(u)' = Latest(u)
  BY DEF DataSize, Latest
<1>2. Known'
  BY <1>1 DEF Known, Unclear
<1>3. ASSUME NEW u \in Sender, NEW r \in 1..Latest(u) PROVE Story(u, r)'
  <2>1. ASSUME ~Wide(u, r) PROVE Told(u, r)'
    <3>1. PICK T, O, B, n : Placed(u, r, T, O, B, n) /\ ReadOn(u, r, T, O, B)
      BY <2>1 DEF Stories, Story, Told
    <3>2. \A f \in Carried' : f.from = u /\ f.rep = r => f \in Carried
      BY <2>1 DEF Unclear
    <3>3. Placed(u, r, T, O, B, n)'
      BY <1>1, <3>1, <3>2 DEF Placed
    <3>4. ReadOn(u, r, T, O, B)'
      BY <1>1, <2>1, <3>1 DEF ReadOn
    <3> QED BY <3>3, <3>4 DEF Told
  <2>2. Wide(u, r)' <=> Wide(u, r)
    BY WideStays
  <2> QED BY <2>1, <2>2 DEF Story
<1>4. Stories'
  BY <1>1, <1>3 DEF Stories
<1> QED BY <1>2, <1>4

\* The decoder of a sender is that of some sender.
LEMMA KeyIs == ASSUME NEW s \in Sender PROVE Key(s) \in Sender
BY DEF Key, Someone

\* What recvfrom hands over is the frame that was sent, if no item of its report is too wide.
LEMMA ReceivedIs ==
  ASSUME Inv, Known, NEW s \in Sender, NEW x \in OnWire(s)
  PROVE  /\ Received(x) \in Frames /\ Received(x).from = s /\ Received(x).rep \in 1..Latest(s)
         /\ Received(x).type = x.type
         /\ Received(x) = x \/ Unclear(Received(x))
         /\ setup.header = 0 => Received(x) = x
<1>1. x \in Frames /\ x \in Carried /\ x.from = s /\ x.rep \in 1..Latest(s)
  BY DEF Known, Carried
<1>2. DataSize \in Nat /\ x.data \in Seq(Bytes) /\ Len(x.data) \in Nat
  BY <1>1, Sizes DEF Frames, Inv
<1>3. CASE Len(x.data) <= DataSize
  <2>1. Received(x) = x
    BY <1>2, <1>3 DEF Received
  <2> QED BY <1>1, <2>1
<1>4. CASE Len(x.data) > DataSize
  <2>1. PICK a : a = SubSeq(x.data, 1, DataSize)
    OBVIOUS
  <2>2. a \in Seq(Bytes)
    <3> DEFINE q == x.data d == DataSize
    <3>1. q \in Seq(Bytes) /\ d \in Nat
      BY <1>2
    <3> HIDE DEF q, d
    <3>2. SubSeq(q, 1, d) \in Seq(Bytes)
      <4>1. d <= Len(q) /\ Len(q) \in Nat
        BY <1>2, <1>4 DEF q, d
      <4>2. \A i \in 1..d : q[i] \in Bytes
        BY ONLY <3>1, <4>1
      <4> QED BY ONLY <3>1, <4>1, <4>2
    <3> QED BY <2>1, <3>2 DEF q, d
  <2>3. Received(x) = [x EXCEPT !.data = a]
    BY <1>4, <2>1 DEF Received
  <2>4. /\ Received(x) \in Frames /\ Received(x).from = x.from /\ Received(x).rep = x.rep
        /\ Received(x).type = x.type
    BY <1>1, <2>2, <2>3 DEF Frames
  <2>5. Types /\ FrameFits(s, x)
    BY DEF Inv, Short, ShortFrom
  <2>6. Wide(s, x.rep)
    BY <1>2, <1>4, <2>5, BeyondIs DEF FrameFits
  <2>7. setup.header # 0
    BY <2>5, <2>6, BeyondIs
  <2> QED BY <1>1, <2>4, <2>6, <2>7 DEF Unclear
<1> QED BY <1>2, <1>3, <1>4

\* handle(): a frame arrives.
LEMMA HandleReads ==
  ASSUME Inv, Known, Stories, Kept, UNCHANGED setup, NEW s \in Sender, Handle(s)
  PROVE  Known' /\ Stories' /\ Kept'
<1>1. PICK k, x, f : k = Key(s) /\ x = Head(wire[s]) /\ f = Received(x)
  OBVIOUS
<1>2. PICK d : d = IF StartsNew(f.type) THEN NewDecoder ELSE decoders[k]
  OBVIOUS
<1>3. PICK e : e = Enqueued(d, f)
  OBVIOUS
<1>4. /\ reading = None /\ wire[s] # <<>> /\ wire' = [wire EXCEPT ![s] = Tail(wire[s])]
      /\ UNCHANGED <<started, enc>> /\ k \in Sender
  BY <1>1, KeyIs DEF Handle
<1>5. \/ d # None /\ ~Ends(f.type) /\ decoders' = [decoders EXCEPT ![k] = e] /\ reading' = reading
      \/ d # None /\ Ends(f.type) /\ decoders' = [decoders EXCEPT ![k] = Ready(e)] /\ reading' = s
      \/ d = None /\ UNCHANGED <<decoders, reading>>
  BY <1>1, <1>2, <1>3 DEF Handle, Enqueued, StartsNew
<1>6. x \in OnWire(s) /\ OnWire(s)' \subseteq OnWire(s) /\ \A u \in Sender \ {s} : wire'[u] = wire[u]
  <2>1. PICK q : q = wire[s]
    OBVIOUS
  <2>2. q \in Seq(Frames) /\ q # <<>> /\ wire'[s] = Tail(q) /\ \A u \in Sender \ {s} : wire'[u] = wire[u]
    BY <1>4, <2>1 DEF Inv, Types
  <2>3. {Tail(q)[i] : i \in DOMAIN Tail(q)} \subseteq {q[i] : i \in DOMAIN q}
    BY ONLY <2>2, Fewer
  <2>4. 1 \in DOMAIN q /\ Head(q) = q[1]
    BY <2>2
  <2> QED BY <1>1, <2>1, <2>2, <2>3, <2>4 DEF OnWire
<1>7. CASE d = None /\ UNCHANGED <<decoders, reading>>
  BY <1>4, <1>6, <1>7, QuietReads
<1>8. CASE d # None /\ decoders' = [decoders EXCEPT ![k] = IF Ends(f.type) THEN Ready(e) ELSE e]
                    /\ reading' = IF Ends(f.type) THEN s ELSE None
  <2>1. f \in Frames /\ (f \in Carried \/ Unclear(f))
    <3>1. x \in Carried
      BY <1>6 DEF Carried
    <3> QED BY <1>1, <1>6, <3>1, ReceivedIs
  <2>2. IF StartsNew(f.type) THEN d = NewDecoder ELSE Keeping(d) /\ HasDecoder(k) /\ d = decoders[k]
    BY <1>2, <1>4, <1>8 DEF Kept, HasDecoder
  <2>3. PICK R : R = e.run
    OBVIOUS
  <2>4. /\ Buffered(e) /\ R # <<>> /\ Last(R) = f /\ Len(R) \in DOMAIN R
        /\ (\A i \in 1..Len(R) - 1 : ~Ends(R[i].type)) => e.queue = R
        /\ \A g \in {R[i] : i \in DOMAIN R} :
             g = f \/ (~StartsNew(f.type) /\ g \in {d.run[i] : i \in DOMAIN d.run})
    BY <1>3, <2>1, <2>2, <2>3, EnqueuedIs, SMTT(40) DEF Inv
  <2>5. PICK g : g = IF Ends(f.type) THEN Ready(e) ELSE e
    OBVIOUS
  <2>6. Buffered(g) /\ g.run = R
    BY <2>3, <2>4, <2>5, ReadyKeeps DEF Inv
  <2>7. \A z \in {R[i] : i \in DOMAIN R} : z \in Carried \/ Unclear(z)
    <3>1. ~StartsNew(f.type) => {d.run[i] : i \in DOMAIN d.run} \subseteq Carried
      BY <1>4, <2>2 DEF Carried, Gathered
    <3> QED BY <2>1, <2>4, <3>1
  <2>8. DOMAIN decoders' = Sender /\ decoders'[k] = g /\ \A u \in Sender \ {k} : decoders'[u] = decoders[u]
    BY <1>4, <1>8, <2>5 DEF Kept
  <2>9. \A u \in Sender \ {k} : HasDecoder(u)' => HasDecoder(u)
    BY <1>1, <1>4, <1>8, <2>8 DEF HasDecoder, Key
  <2>10. \A z \in Carried' : z \in Carried \/ Unclear(z)
    <3>1. \A u \in Sender : OnWire(u)' \subseteq OnWire(u)
      BY <1>6 DEF OnWire
    <3>2. \A u \in Sender \ {k} : Gathered(u)' \subseteq Gathered(u)
      BY <2>8, <2>9 DEF Gathered
    <3>3. \A z \in Gathered(k)' : z \in Carried \/ Unclear(z)
      BY <2>6, <2>7, <2>8 DEF Gathered
    <3> QED BY <3>1, <3>2, <3>3 DEF Carried
  <2>11. R \in Seq(Frames) /\ DOMAIN R = 1..Len(R) /\ R[Len(R)] = f
    BY <2>4, <2>3 DEF Buffered, Last
  <2>12. Keeping(g)
    <3>1. CASE Ends(f.type)
      BY <2>4, <2>6, <2>11, <3>1 DEF Keeping, Buffered
    <3>2. CASE ~Ends(f.type)
      <4>1. (\A i \in DOMAIN R : ~Ends(R[i].type)) => e.queue = R
        BY <2>4, <2>11
      <4> QED BY <2>4, <2>5, <2>6, <3>2, <4>1 DEF Keeping, Buffered
    <3> QED BY <3>1, <3>2
  <2>13. Kept'
    <3>1. \A u \in Sender : HasDecoder(u)' => Keeping(decoders'[u])
      BY <2>8, <2>9, <2>12 DEF Kept
    <3>2. \A y : Keeping(y)' <=> Keeping(y)
      BY DEF Keeping, IsRecord, Limit, Size
    <3>3. Key(s)' = k
      BY <1>1 DEF Key
    <3>4. reading' # None => /\ reading' \in Sender
                             /\ \E i \in DOMAIN decoders'[k].run : Ends(decoders'[k].run[i].type)
      BY <1>8, <2>4, <2>6, <2>8, <2>11
    <3> QED BY <1>8, <2>8, <3>1, <3>2, <3>3, <3>4 DEF Kept
  <2>14. ASSUME NEW j \in Sender, NEW u \in Sender, NEW r \in 1..Latest(u), NEW T, NEW O, NEW B, NEW n,
                ~Wide(u, r), Placed(u, r, T, O, B, n), ReadBy(j, u, r)'
         PROVE  Decodes(DataSize, started[u][r], u, r, T, O, B, decoders'[j])
    <3>1. Ends(f.type) /\ j = k /\ decoders'[j] = Ready(e)
      BY <1>1, <1>8, <2>5, <2>8, <2>14 DEF ReadBy, Key
    <3>2. Decodable(R) /\ R[1].from = u /\ R[1].rep = r
      <4>1. decoders'[j].run = R
        BY <2>5, <2>6, <3>1, SMTT(40)
      <4> QED BY <2>14, <4>1 DEF ReadBy, Decodable, Crowded
    <3>3. /\ Len(R) \in Nat \ {0}
          /\ \A i \in 1..Len(R) : R[i].from = u /\ R[i].rep = r /\ (Ends(R[i].type) <=> i = Len(R))
      BY <2>11, <3>2, OfOneReport DEF Decodable
    <3>4. e.queue = R
      <4>1. \A i \in 1..Len(R) - 1 : i \in 1..Len(R) /\ i # Len(R)
        BY <3>3
      <4> QED BY <2>4, <3>3, <4>1
    <3>5. PICK D, w : D = DataSize /\ w = started[u][r]
      BY SMTT(40)
    <3>6. \A i \in 1..Len(R) : Carries(D, w, T, n, R[i])
      <4>1. \A i \in 1..Len(R) : R[i] \in Carried
        BY <2>7, <2>11, <2>14, <3>3 DEF Unclear
      <4> QED BY <2>14, <3>3, <3>5, <4>1 DEF Placed
    <3>7. Laid(D, w, u, r, T, O, B, n)
      BY <2>14, <3>5 DEF Placed
    <3>8. T \in Seq(Bytes) /\ O[1] = 1 /\ B[0] = 0
      BY <3>7 DEF Laid, LaidTypes
    <3>9. DecodesAt(D, u, r, T, 0, 1, 0, Ready(e))
      <4>1. PICK a : a = e.buf
        OBVIOUS
      <4>2. IsRecord(e) /\ a \in Seq(Bytes \cup {None}) /\ Len(a) = Limit
        BY <2>4, <4>1 DEF Buffered
      <4>3. Types
        BY DEF Inv
      <4> QED BY <2>3, <2>11, <3>2, <3>4, <3>5, <3>6, <3>8, <4>1, <4>2, <4>3, ReadyDecodes
    <3>10. Len(w) \in Nat \ {0}
      <4>1. w \in Reports
        BY <3>5 DEF Inv, Types, Latest
      <4>2. w \in Seq(Nat \ {0}) /\ w # <<>>
        BY <4>1, StreamAssumption
      <4> QED BY ONLY <4>2
    <3>11. 0 \in 0..Len(w) - 1 /\ 0 + 1 = 1
      BY <3>10
    <3> QED BY <3>1, <3>5, <3>8, <3>9, <3>11 DEF Decodes
  <2>15. \A u \in Sender : OnWire(u)' \subseteq OnWire(u)
    BY <1>6 DEF OnWire
  <2>16. Known' /\ Stories'
    BY <1>4, <2>10, <2>14, <2>15, SubscriberReads
  <2> QED BY <2>13, <2>16
<1> QED BY <1>4, <1>5, <1>7, <1>8

\* One more item of the report that is read.
LEMMA OneMore ==
  ASSUME Inv, Known, Kept, NEW k \in Sender, NEW u, NEW r, ReadBy(k, u, r),
         NEW T, NEW O, NEW B, NEW n, Placed(u, r, T, O, B, n), ReadOn(u, r, T, O, B),
         NEW D, D = DataSize, NEW w, w = started[u][r]
  PROVE  /\ Announced(decoders[k]) = Len(w) /\ Len(w) \in Nat
         /\ \E m \in 1..Len(w) : DecodesAt(D, u, r, T, B[m], O[m + 1], m, Item(decoders[k]))
<1>1. PICK d, run : d = decoders[k] /\ run = decoders[k].run
  OBVIOUS
<1>2. u \in Sender /\ r \in 1..Latest(u) /\ r \in Nat
  BY ReadIsCarried
<1>3. run \in Seq(Frames) /\ (\A i \in 1..Len(run) : Carries(D, w, T, n, run[i])) /\ n = Len(w)
  BY <1>1, ReadCarries
<1>4. Laid(D, w, u, r, T, O, B, n) /\ n \in Nat
  BY DEF Placed, Laid, LaidTypes
<1>5. PICK m \in 0..n - 1 : DecodesAt(D, u, r, T, B[m], O[m + 1], m, d)
  BY <1>1, <1>3 DEF ReadOn, Decodes
<1>6. Types /\ Keeping(d) /\ d.run = run /\ Decodable(run)
  BY <1>1 DEF Inv, Kept, HasDecoder, ReadBy
<1>7. DecodesAt(D, u, r, T, B[m + 1], O[(m + 1) + 1], m + 1, Item(d)) /\ Announced(d) = n
  BY ONLY <1>2, <1>3, <1>4, <1>5, <1>6, D = DataSize, w = started[u][r], ItemDecodes
<1>8. m + 1 \in 1..n
  BY <1>4
<1> QED BY <1>1, <1>3, <1>4, <1>7, <1>8

\* After the last item the report is there.
LEMMA LastItem ==
  ASSUME Inv, Known, Stories, Kept, NEW k \in Sender, NEW u, NEW r, ReadBy(k, u, r), ~Wide(u, r),
         Len(Item(decoders[k]).items) = Announced(decoders[k])
  PROVE  u \in Sender /\ r \in 1..Latest(u) /\ Item(decoders[k]).items = Wholes(u, r)
<1>1. u \in Sender /\ r \in 1..Latest(u)
  BY ReadIsCarried
<1>2. PICK T, O, B, n : Placed(u, r, T, O, B, n) /\ ReadOn(u, r, T, O, B)
  BY <1>1 DEF Stories, Story, Told
<1>3. PICK l, items, D, w : l = Len(w) /\ items = Item(decoders[k]).items /\ D = DataSize /\ w = started[u][r]
  OBVIOUS
<1>4. /\ Announced(decoders[k]) = Len(w) /\ Len(w) \in Nat
      /\ \E m \in 1..Len(w) : DecodesAt(D, u, r, T, B[m], O[m + 1], m, Item(decoders[k]))
  BY <1>2, <1>3, OneMore
<1>5. PICK m \in 1..l : DecodesAt(D, u, r, T, B[m], O[m + 1], m, Item(decoders[k]))
  BY <1>3, <1>4
<1>6. l \in Nat /\ items \in Seq(Items) /\ Len(items) = l /\ m = l /\ \A i \in 1..l : items[i] = <<u, r, i>>
  BY <1>3, <1>4, <1>5 DEF DecodesAt
<1>7. items = [i \in 1..l |-> <<u, r, i>>]
  <2>1. DOMAIN items = 1..l /\ items = [i \in DOMAIN items |-> items[i]]
    BY <1>6
  <2> QED BY ONLY <1>6, <2>1
<1> QED BY <1>1, <1>3, <1>7 DEF Wholes

\* What the last callback of a sender has read is the report it was called for, if no item of
\* it is too wide.
Heard(run, items) ==
  Whole(run) /\ ~Crowded(run) =>
    /\ run[1].from \in Sender /\ run[1].rep \in 1..Latest(run[1].from)
    /\ ~Wide(run[1].from, run[1].rep) => items = Wholes(run[1].from, run[1].rep)
GotRead == DOMAIN got = Sender /\ \A k \in Sender : got[k] # None => Heard(got[k].run, got[k].items)

\* Publishing more changes nothing of it.
LEMMA HeardStays ==
  ASSUME Inv, [Next]_vars, NEW run, NEW items, Heard(run, items)
  PROVE  Heard(run, items)'
<1>1. \A s \in Sender : \A r \in 1..Latest(s) : r \in 1..Latest(s)' /\ started'[s][r] = started[s][r]
  <2>1. CASE UNCHANGED started
    BY <2>1 DEF Latest
  <2>2. CASE \E s \in Sender : \E widths \in Reports : Begin(s, widths)
    <3>1. PICK s \in Sender, widths \in Reports : Begin(s, widths)
      BY <2>2
    <3>2. started \in [Sender -> Seq(Reports)] /\ started' = [started EXCEPT ![s] = Append(started[s], widths)]
      BY <3>1 DEF Inv, Types, Begin
    <3>3. \A u \in Sender \ {s} : started'[u] = started[u]
      BY <3>2
    <3>4. PICK q : q = started[s]
      OBVIOUS
    <3>5. q \in Seq(Reports) /\ started'[s] = Append(q, widths)
      BY <3>2, <3>4
    <3>6. \A r \in 1..Len(q) : r \in 1..Len(Append(q, widths)) /\ Append(q, widths)[r] = q[r]
      BY <3>5
    <3> QED BY <3>3, <3>4, <3>5, <3>6 DEF Latest
  <2> QED BY <2>1, <2>2 DEF Next, Step, EncodeItem, Flush, SendFails, Lose, Overtake, Handle, ReadItem, StopsReading, vars
<1>2. Whole(run)' <=> Whole(run)
  BY DEF Whole
<1>3. Crowded(run)' <=> Crowded(run)
  BY DEF Crowded, Next, vars
<1>4. CASE ~(Whole(run) /\ ~Crowded(run))
  BY <1>2, <1>3, <1>4 DEF Heard
<1>5. CASE Whole(run) /\ ~Crowded(run)
  <2>1. PICK u, r : u = run[1].from /\ r = run[1].rep
    OBVIOUS
  <2>2. u \in Sender /\ r \in 1..Latest(u) /\ (~Wide(u, r) => items = Wholes(u, r))
    BY <1>5, <2>1 DEF Heard
  <2>3. r \in 1..Latest(u)' /\ Wholes(u, r)' = Wholes(u, r) /\ (Wide(u, r)' <=> Wide(u, r))
    BY <1>1, <2>2, WideStays DEF Wholes, Next, vars
  <2> QED BY <2>1, <2>2, <2>3 DEF Heard
<1> QED BY <1>4, <1>5, SMTT(40)

\* The callback reads an item, and returns after the last one.
LEMMA ReadItemReads ==
  ASSUME Inv, Known, Stories, Kept, UNCHANGED setup, NEW s \in Sender, ReadItem(s)
  PROVE  /\ Known' /\ Stories' /\ Kept'
         /\ \/ UNCHANGED got
            \/ \E run, items : /\ got' = [got EXCEPT ![Key(s)] = [items |-> items, run |-> run]]
                               /\ Heard(run, items)
<1>1. PICK k, d, g : k = Key(s) /\ d = decoders[k] /\ g = Item(d)
  OBVIOUS
<1>2. /\ reading = s /\ k \in Sender /\ UNCHANGED <<started, enc, wire>>
      /\ decoders' = [decoders EXCEPT ![k] = g]
      /\ \/ Len(g.items) < Announced(d) /\ reading' = reading /\ UNCHANGED got
         \/ /\ Len(g.items) = Announced(d) /\ reading' = None
            /\ got' = [got EXCEPT ![k] = [items |-> g.items, run |-> g.run]]
  BY <1>1, KeyIs DEF ReadItem
<1>3. reading # None /\ HasDecoder(k) /\ Keeping(d) /\ \E i \in DOMAIN d.run : Ends(d.run[i].type)
  BY <1>1, <1>2, NoneAssumption DEF Kept, HasDecoder
<1>4. Keeping(g) /\ g.run = d.run
  BY <1>1, <1>3, ItemKeeps DEF Inv
<1>5. DOMAIN decoders' = Sender /\ decoders'[k] = g /\ \A u \in Sender \ {k} : decoders'[u] = decoders[u]
  BY <1>2 DEF Kept
<1>6. (reading' = reading \/ reading' = None) /\ \A u \in Sender : HasDecoder(u)' => HasDecoder(u)
  BY <1>1, <1>2, <1>3, <1>5 DEF HasDecoder, Key
<1>7. \A u \in Sender : OnWire(u)' = OnWire(u) /\ Gathered(u)' \subseteq Gathered(u)
  <2>1. Gathered(k)' \subseteq Gathered(k)
    BY <1>1, <1>3, <1>4, <1>5 DEF Gathered
  <2>2. \A u \in Sender \ {k} : Gathered(u)' \subseteq Gathered(u)
    BY <1>5, <1>6 DEF Gathered
  <2> QED BY <1>2, <2>1, <2>2 DEF OnWire
<1>8. Carried' \subseteq Carried
  BY <1>7 DEF Carried
<1>9. Kept'
  <2>1. \A u \in Sender : HasDecoder(u)' => Keeping(decoders'[u])
    BY <1>4, <1>5, <1>6 DEF Kept
  <2>2. \A x : Keeping(x)' <=> Keeping(x)
    BY DEF Keeping, IsRecord, Limit, Size
  <2>3. Key(s)' = k
    BY <1>1 DEF Key
  <2>4. reading' # None => /\ reading' = s
                           /\ \E i \in DOMAIN decoders'[k].run : Ends(decoders'[k].run[i].type)
    BY <1>2, <1>3, <1>4, <1>5, <1>6
  <2> QED BY <1>5, <2>1, <2>2, <2>3, <2>4 DEF Kept
<1>10. \A j, u, r : ReadBy(j, u, r)' => j = k /\ ReadBy(k, u, r) /\ reading' # None
  <2>1. ASSUME NEW j, NEW u, NEW r, ReadBy(j, u, r)' PROVE j = k /\ ReadBy(k, u, r) /\ reading' # None
    <3>1. reading' # None /\ j = Key(s)
      BY <1>2, <1>6, <2>1 DEF ReadBy, Key
    <3>2. decoders'[j].run = d.run
      BY <1>1, <1>4, <1>5, <3>1
    <3> QED BY <1>1, <1>2, <1>3, <2>1, <3>1, <3>2 DEF ReadBy, Decodable, Crowded
  <2> QED BY <2>1
<1>11. ASSUME NEW u, NEW r, ReadBy(k, u, r), NEW T, NEW O, NEW B, NEW n, Placed(u, r, T, O, B, n), ReadOn(u, r, T, O, B)
       PROVE  /\ Announced(d) = Len(started[u][r]) /\ Len(started[u][r]) \in Nat
              /\ \E m \in 1..Len(started[u][r]) : DecodesAt(DataSize, u, r, T, B[m], O[m + 1], m, g)
  BY <1>1, <1>2, <1>11, OneMore
<1>12. ASSUME NEW j \in Sender, NEW u \in Sender, NEW r \in 1..Latest(u), NEW T, NEW O, NEW B, NEW n,
              Placed(u, r, T, O, B, n), ReadOn(u, r, T, O, B), ReadBy(j, u, r)'
       PROVE  Decodes(DataSize, started[u][r], u, r, T, O, B, decoders'[j])
  <2>1. j = k /\ ReadBy(k, u, r) /\ reading' # None /\ decoders'[j] = g
    BY <1>5, <1>10, <1>12
  <2>2. PICK l : l = Len(started[u][r])
    OBVIOUS
  <2>3. l \in Nat /\ Announced(d) = l
    BY <1>11, <1>12, <2>1, <2>2
  <2>4. PICK m \in 1..l : DecodesAt(DataSize, u, r, T, B[m], O[m + 1], m, g)
    BY <1>11, <1>12, <2>1, <2>2
  <2>5. Len(g.items) < l /\ Len(g.items) = m
    BY <1>2, <2>1, <2>3, <2>4 DEF DecodesAt
  <2>6. m \in 0..l - 1
    BY ONLY <2>3, <2>5, m \in 1..l
  <2> QED BY <2>1, <2>2, <2>4, <2>6 DEF Decodes
<1>13. Known' /\ Stories'
  BY <1>2, <1>7, <1>8, <1>12, SubscriberReads
<1>14. CASE UNCHANGED got
  BY <1>9, <1>13, <1>14
<1>15. CASE Len(g.items) = Announced(d) /\ got' = [got EXCEPT ![k] = [items |-> g.items, run |-> g.run]]
  <2>1. PICK run, items : run = g.run /\ items = g.items
    OBVIOUS
  <2>2. ASSUME Whole(run), ~Crowded(run)
        PROVE  /\ run[1].from \in Sender /\ run[1].rep \in 1..Latest(run[1].from)
               /\ ~Wide(run[1].from, run[1].rep) => items = Wholes(run[1].from, run[1].rep)
    <3>1. PICK u, r : u = run[1].from /\ r = run[1].rep
      OBVIOUS
    <3>2. ReadBy(k, u, r)
      BY <1>1, <1>2, <1>3, <1>4, <2>1, <2>2, <3>1 DEF ReadBy, Decodable
    <3>3. u \in Sender /\ r \in 1..Latest(u)
      BY <1>2, <3>2, ReadIsCarried
    <3>4. ~Wide(u, r) => items = Wholes(u, r)
      BY <1>1, <1>2, <1>15, <2>1, <3>2, LastItem
    <3> QED BY <3>1, <3>3, <3>4
  <2>3. Heard(run, items)
    BY <2>2 DEF Heard
  <2>4. got' = [got EXCEPT ![Key(s)] = [items |-> items, run |-> run]]
    BY <1>1, <1>15, <2>1
  <2> QED BY <1>9, <1>13, <2>3, <2>4
<1> QED BY <1>2, <1>14, <1>15

\* It returns without having read everything.
LEMMA StopsReadingReads ==
  ASSUME Known, Stories, Kept, UNCHANGED setup, NEW s \in Sender, StopsReading(s)
  PROVE  Known' /\ Stories' /\ Kept'
<1>1. reading' = None /\ UNCHANGED <<started, enc, wire, decoders>>
  BY DEF StopsReading
<1>2. \A u \in Sender : OnWire(u)' = OnWire(u) /\ (HasDecoder(u)' => HasDecoder(u))
  BY <1>1 DEF OnWire, HasDecoder
<1>3. Carried' \subseteq Carried
  BY <1>1, <1>2 DEF Carried, Gathered
<1>4. \A k, u, r : ~ReadBy(k, u, r)'
  BY <1>1 DEF ReadBy
<1>5. Known' /\ Stories'
  BY <1>1, <1>2, <1>3, <1>4, SubscriberReads
<1>6. Kept'
  <2>1. \A x : Keeping(x)' <=> Keeping(x)
    BY DEF Keeping, IsRecord, Limit, Size
  <2> QED BY <1>1, <1>2, <2>1 DEF Kept
<1> QED BY <1>5, <1>6

\* What is known of frames, decoders and reports read in every reachable state.
ReadInv == Inv /\ Known /\ Stories /\ Kept /\ GotRead

\* At first there is nothing.
LEMMA ReadInit == Init => ReadInv
<1> SUFFICES ASSUME Init PROVE ReadInv
  OBVIOUS
<1>1. Inv
  BY InvInit
<1>2. \A s \in Sender : OnWire(s) = {} /\ Gathered(s) = {} /\ ~HasDecoder(s) /\ Latest(s) = 0
  BY DEF Init, OnWire, Gathered, HasDecoder, Latest
<1>3. Known
  BY <1>2 DEF Known, Carried
<1>4. Stories
  BY <1>2 DEF Stories
<1>5. Kept
  BY <1>2 DEF Kept, Init
<1>6. GotRead
  BY DEF Init, GotRead
<1> QED BY <1>1, <1>3, <1>4, <1>5, <1>6 DEF ReadInv

\* Every step keeps it.
LEMMA ReadNext == ReadInv /\ [Next]_vars => ReadInv'
<1> SUFFICES ASSUME ReadInv, [Next]_vars PROVE ReadInv'
  OBVIOUS
<1>1. Inv /\ Known /\ Stories /\ Kept /\ GotRead /\ Inv'
  BY InvNext DEF ReadInv
<1>2. \A run, items : Heard(run, items) => Heard(run, items)'
  BY <1>1, HeardStays
<1>3. ASSUME UNCHANGED got PROVE GotRead'
  BY <1>1, <1>2, <1>3 DEF GotRead
<1>4. CASE UNCHANGED vars
  <2>1. UNCHANGED <<setup, started, enc, wire, decoders, reading, got>>
    BY <1>4 DEF vars
  <2>2. \A k : (HasDecoder(k)' <=> HasDecoder(k)) /\ OnWire(k)' = OnWire(k)
    BY <2>1 DEF HasDecoder, Key, OnWire
  <2>3. Carried' \subseteq Carried
    BY <2>1, <2>2 DEF Carried, Gathered
  <2>4. \A k, u, r : ReadBy(k, u, r)' <=> ReadBy(k, u, r)
    BY <2>1 DEF ReadBy, Key, Decodable, Crowded, Whole
  <2>5. Known' /\ Stories'
    BY <1>1, <2>1, <2>2, <2>3, <2>4, SubscriberReads DEF ReadOn
  <2>6. Kept'
    BY <1>1, <2>1, <2>2 DEF Kept, Keeping, IsRecord, Limit, Size, Key
  <2> QED BY <1>1, <1>3, <2>1, <2>5, <2>6 DEF ReadInv
<1>5. ASSUME NEW s \in Sender, Next, ReadItem(s) PROVE ReadInv'
  <2>1. UNCHANGED setup
    BY <1>5 DEF Next
  <2>2. /\ Known' /\ Stories' /\ Kept'
        /\ \/ UNCHANGED got
           \/ \E run, items : /\ got' = [got EXCEPT ![Key(s)] = [items |-> items, run |-> run]]
                              /\ Heard(run, items)
    BY <1>1, <1>5, <2>1, ReadItemReads
  <2>3. CASE UNCHANGED got
    BY <1>1, <1>3, <2>2, <2>3 DEF ReadInv
  <2>4. CASE \E run, items : /\ got' = [got EXCEPT ![Key(s)] = [items |-> items, run |-> run]]
                             /\ Heard(run, items)
    <3>1. PICK run, items : got' = [got EXCEPT ![Key(s)] = [items |-> items, run |-> run]] /\ Heard(run, items)
      BY <2>4
    <3>2. Heard(run, items)'
      BY <1>2, <3>1
    <3>3. /\ DOMAIN got' = Sender /\ \A k \in Sender \ {Key(s)} : got'[k] = got[k]
          /\ got'[Key(s)].run = run /\ got'[Key(s)].items = items
      BY <1>1, <3>1, KeyIs DEF GotRead
    <3>4. GotRead'
      BY <1>1, <1>2, <3>2, <3>3 DEF GotRead
    <3> QED BY <1>1, <2>2, <3>4 DEF ReadInv
  <2> QED BY <2>2, <2>3, <2>4
<1>6. ASSUME NEW s \in Sender, Next,
             \/ \E widths \in Reports : Begin(s, widths)
             \/ EncodeItem(s) \/ Flush(s) \/ SendFails(s) \/ Lose(s) \/ Overtake(s) \/ Handle(s) \/ StopsReading(s)
      PROVE  ReadInv'
  <2>1. UNCHANGED setup
    BY <1>6 DEF Next
  <2>2. UNCHANGED got
    BY <1>6 DEF Begin, EncodeItem, Flush, SendFails, Lose, Overtake, Handle, StopsReading
  <2>3. Known' /\ Stories' /\ Kept'
    BY <1>1, <1>6, <2>1, BeginReads, EncodeItemReads, FlushReads, FailuresRead, HandleReads, StopsReadingReads
  <2> QED BY <1>1, <1>3, <2>2, <2>3 DEF ReadInv
<1> QED BY <1>4, <1>5, <1>6 DEF Next, Step

\* Whatever is lost, overtaken or left unread, of reports of any widths in frames of any size:
\* read() keeps the buffer of a decoder as long as it is, and a report all of whose frames
\* arrive, one after the other, is read as it was published; of datagrams, unless an item is
\* wider than one, or the last one so short that it fits into the buffer behind two others
\* (StreamingQueuingThingSetBinaryDecoder).
THEOREM ReportsAlwaysRead == Spec => []ReportsRead
<1>1. ReadInv => ReportsRead
  <2> SUFFICES ASSUME ReadInv PROVE ReportsRead
    OBVIOUS
  <2>1. BuffersKept
    BY DEF ReadInv, Kept, HasDecoder, Keeping, BuffersKept
  <2>2. WholeReportsRead
    BY DEF ReadInv, GotRead, Heard, WholeReportsRead, AsPublished
  <2> QED BY <2>1, <2>2 DEF ReportsRead
<1> QED BY ReadInit, ReadNext, <1>1, PTL DEF Spec

-----------------------------------------------------------------------------
(* CAN without losses: every published report is read, once and in order.  *)

\* The frames of a sender follow each other: one that starts a report, behind the reports
\* before; another one, behind the frame of its report whose bytes end where its own begin.
Follows(f, g) == IF g.at = 0 THEN f.rep < g.rep ELSE Continues(f, g)
Goes(f, g) == f.rep <= g.rep /\ (Ends(f.type) => f.rep < g.rep)
InLine(s, q) ==
  /\ q \in Seq(Frames)
  /\ \A i \in DOMAIN q : q[i].from = s /\ (q[i].at = 0 <=> StartsNew(q[i].type))
  /\ \A i \in 1..Len(q) - 1 : Follows(q[i], q[i + 1])
  /\ \A i, j \in DOMAIN q : i < j => Goes(q[i], q[j])
Starts(q) == q # <<>> => q[1].at = 0

\* The encoder of report r goes on behind them, at byte x of the report.
Sends(q, x, r) ==
  IF x = 0 THEN q # <<>> => Last(q).rep < r
  ELSE q # <<>> /\ Last(q).rep = r /\ ~Ends(Last(q).type) /\ x = Last(q).at + Len(Last(q).data)

\* One more frame at the end of the line.
LEMMA LineGrows ==
  ASSUME NEW s, NEW q, InLine(s, q), NEW x \in Nat, NEW r \in Nat, Sends(q, x, r), NEW f \in Frames,
         f.from = s, f.rep = r, f.at = x, x = 0 <=> StartsNew(f.type), Len(f.data) \in Nat \ {0}
  PROVE  /\ InLine(s, Append(q, f)) /\ (Starts(q) => Starts(Append(q, f)))
         /\ ~Ends(f.type) => Sends(Append(q, f), x + Len(f.data), r)
<1>1. PICK p, n : p = Append(q, f) /\ n = Len(q)
  OBVIOUS
<1>2. /\ q \in Seq(Frames) /\ n \in Nat /\ DOMAIN q = 1..n
      /\ p \in Seq(Frames) /\ Len(p) = n + 1 /\ DOMAIN p = 1..n + 1 /\ p # <<>>
      /\ (\A i \in 1..n : p[i] = q[i]) /\ p[n + 1] = f
  BY <1>1 DEF InLine
<1>3. \A i \in 1..n + 1 : i = n + 1 \/ i \in 1..n
  BY <1>2
<1>4. n # 0 => n \in 1..n /\ Last(q) = q[n] /\ q # <<>>
  BY <1>1, <1>2 DEF Last
<1>5. \A i \in 1..n : q[i] \in Frames /\ q[i].rep \in Nat
  <2>1. \A i \in 1..n : q[i] \in Frames
    BY <1>2
  <2> QED BY ONLY <2>1 DEF Frames
<1>6. \A i \in DOMAIN p : p[i].from = s /\ (p[i].at = 0 <=> StartsNew(p[i].type))
  BY <1>2, <1>3 DEF InLine
<1>7. n # 0 => Follows(q[n], f) /\ Goes(q[n], f)
  <2> SUFFICES ASSUME n # 0 PROVE Follows(q[n], f) /\ Goes(q[n], f)
    OBVIOUS
  <2>1. q[n].from = s /\ q[n].rep \in Nat
    BY <1>2, <1>4, <1>5 DEF InLine
  <2>2. CASE x = 0
    <3>1. q[n].rep < r
      BY <1>4, <2>2 DEF Sends
    <3> QED BY <2>1, <2>2, <3>1 DEF Follows, Goes
  <2>3. CASE x # 0
    <3>1. q[n].rep = r /\ ~Ends(q[n].type) /\ x = q[n].at + Len(q[n].data)
      BY <1>4, <2>3 DEF Sends
    <3> QED BY <2>1, <2>3, <3>1 DEF Follows, Continues, Goes
  <2> QED BY <2>2, <2>3
<1>8. \A i \in 1..Len(p) - 1 : Follows(p[i], p[i + 1])
  <2> SUFFICES ASSUME NEW i \in 1..n PROVE Follows(p[i], p[i + 1])
    BY <1>2
  <2>1. CASE i = n
    BY <1>2, <1>7, <2>1
  <2>2. CASE i # n
    <3>1. i \in 1..n - 1 /\ i + 1 \in 1..n
      BY <1>2, <2>2
    <3>2. Follows(q[i], q[i + 1])
      BY <1>1, <3>1 DEF InLine
    <3> QED BY <1>2, <3>1, <3>2
  <2> QED BY <2>1, <2>2
<1>9. ASSUME NEW i \in 1..n PROVE Goes(q[i], f)
  <2>1. n # 0 /\ n \in 1..n
    BY <1>2
  <2>2. CASE i = n
    BY <1>7, <2>1, <2>2
  <2>3. CASE i # n
    <3>1. Goes(q[i], q[n])
      BY <1>2, <2>1, <2>3, SMTT(40) DEF InLine
    <3>2. Goes(q[n], f)
      BY <1>7, <2>1
    <3>3. PICK a, b : a = q[i].rep /\ b = q[n].rep
      OBVIOUS
    <3>4. a \in Nat /\ b \in Nat /\ a <= b /\ b <= r
      BY <1>5, <2>1, <3>1, <3>2, <3>3 DEF Goes
    <3>5. a <= r /\ (a < b => a < r)
      BY ONLY <3>4, r \in Nat
    <3> QED BY <3>1, <3>3, <3>5 DEF Goes
  <2> QED BY <2>2, <2>3
<1>10. ASSUME NEW i \in DOMAIN p, NEW j \in DOMAIN p, i < j PROVE Goes(p[i], p[j])
  <2>1. i \in 1..n
    BY <1>2, <1>10
  <2>2. CASE j = n + 1
    BY <1>2, <1>9, <2>1, <2>2
  <2>3. CASE j # n + 1
    <3>1. j \in 1..n
      BY <1>2, <1>3, <2>3
    <3> QED BY <1>2, <1>10, <2>1, <3>1 DEF InLine
  <2> QED BY <2>2, <2>3
<1>11. InLine(s, p)
  BY <1>2, <1>6, <1>8, <1>10 DEF InLine
<1>12. Starts(q) => Starts(p)
  <2>1. CASE n = 0
    <3>1. q = <<>> /\ p[1] = f
      BY <1>1, <1>2, <2>1
    <3>2. x = 0
      BY <3>1 DEF Sends
    <3> QED BY <3>1, <3>2 DEF Starts
  <2>2. CASE n # 0
    <3>1. 1 \in 1..n
      BY <1>2, <2>2
    <3> QED BY <1>2, <1>4, <2>2, <3>1 DEF Starts
  <2> QED BY <2>1, <2>2
<1>13. ~Ends(f.type) => Sends(p, x + Len(f.data), r)
  <2>1. x + Len(f.data) # 0
    OBVIOUS
  <2>2. Last(p) = f
    BY <1>2 DEF Last
  <2> QED BY <1>2, <2>1, <2>2 DEF Sends
<1> QED BY <1>1, <1>11, <1>12, <1>13

\* The line without its first frame.
LEMMA LineMoves ==
  ASSUME NEW s, NEW l \in Frames, NEW q \in Seq(Frames), InLine(s, <<l>> \o q)
  PROVE  /\ InLine(s, q) /\ l.from = s
         /\ q # <<>> => Follows(l, q[1])
         /\ \A i \in DOMAIN q : Goes(l, q[i])
         /\ \A x, r : Sends(<<l>> \o q, x, r) =>
              IF q = <<>> THEN Sends(<<l>>, x, r) ELSE Sends(q, x, r)
<1>1. PICK p, n : p = <<l>> \o q /\ n = Len(q)
  OBVIOUS
<1>2. /\ n \in Nat /\ DOMAIN q = 1..n
      /\ p \in Seq(Frames) /\ Len(p) = n + 1 /\ DOMAIN p = 1..n + 1
      /\ (\A i \in 1..n : p[i + 1] = q[i]) /\ p[1] = l /\ p # <<>>
  BY <1>1
<1>3. \A i \in 1..n : i + 1 \in 1..n + 1 /\ 1 < i + 1 /\ 1 \in 1..n + 1
  BY <1>2
<1>4. \A i \in 1..n : p[i + 1].from = s /\ (p[i + 1].at = 0 <=> StartsNew(p[i + 1].type))
  BY <1>1, <1>2, <1>3 DEF InLine
<1>5. \A i \in 1..n - 1 : Follows(q[i], q[i + 1])
  <2> SUFFICES ASSUME NEW i \in 1..n - 1 PROVE Follows(q[i], q[i + 1])
    OBVIOUS
  <2>1. i \in 1..n /\ i + 1 \in 1..n /\ i + 1 \in 1..Len(p) - 1
    BY <1>2
  <2>2. Follows(p[i + 1], p[(i + 1) + 1])
    BY <1>1, <2>1 DEF InLine
  <2> QED BY <1>2, <2>1, <2>2
<1>6. ASSUME NEW i \in 1..n, NEW j \in 1..n, i < j PROVE Goes(q[i], q[j])
  <2>1. i + 1 < j + 1 /\ i + 1 \in 1..n + 1 /\ j + 1 \in 1..n + 1
    BY <1>2, <1>6
  <2>2. Goes(p[i + 1], p[j + 1])
    BY <1>1, <1>2, <2>1 DEF InLine
  <2> QED BY <1>2, <2>2
<1>7. InLine(s, q)
  BY <1>1, <1>2, <1>4, <1>5, <1>6 DEF InLine
<1>8. l.from = s
  BY <1>1, <1>2, <1>3 DEF InLine
<1>9. q # <<>> => Follows(l, q[1])
  <2> SUFFICES ASSUME q # <<>> PROVE Follows(l, q[1])
    OBVIOUS
  <2>1. 1 \in 1..n /\ 1 \in 1..Len(p) - 1
    BY <1>1, <1>2
  <2>2. Follows(p[1], p[1 + 1])
    BY <1>1, <2>1 DEF InLine
  <2> QED BY <1>2, <2>1, <2>2
<1>10. ASSUME NEW i \in DOMAIN q PROVE Goes(l, q[i])
  <2>1. Goes(p[1], p[i + 1])
    BY <1>1, <1>2, <1>3, <1>10 DEF InLine
  <2> QED BY <1>2, <1>10, <2>1
<1>11. ASSUME NEW x, NEW r, Sends(p, x, r) PROVE IF q = <<>> THEN Sends(<<l>>, x, r) ELSE Sends(q, x, r)
  <2>1. CASE q = <<>>
    <3>1. p = <<l>>
      BY <1>1, <2>1
    <3> QED BY <1>11, <2>1, <3>1
  <2>2. CASE q # <<>>
    <3>1. n \in 1..n
      BY <1>1, <1>2, <2>2
    <3>2. Last(p) = Last(q)
      BY <1>1, <1>2, <3>1 DEF Last
    <3> QED BY <1>2, <1>11, <2>2, <3>2 DEF Sends
  <2> QED BY <2>1, <2>2
<1> QED BY <1>1, <1>7, <1>8, <1>9, <1>10, <1>11

\* The frames of a sender that a subscriber has not left behind: the last one it has been
\* given, and those on their way.
Passed(s) == IF HasDecoder(s) THEN <<Last(decoders[s].run)>> ELSE <<>>
Line(s) == Passed(s) \o wire[s]

\* The frames a decoder has been given are those of one report, from its first byte on.
Collected(run) == run # <<>> /\ run[1].at = 0 /\ \A i \in 1..Len(run) - 1 : Continues(run[i], run[i + 1])
Decoding(s) ==
  IF HasDecoder(s)
  THEN /\ Collected(decoders[s].run)
       /\ reading = s => Ends(Last(decoders[s].run).type)
       /\ Ends(Last(decoders[s].run).type) \/ decoders[s] \in Decoder
  ELSE Starts(Line(s))

\* What is published and not yet read, is being read or has its last frame on the way.
EndsIn(q) == {q[i].rep : i \in {j \in DOMAIN q : Ends(q[j].type)}}
Ending(s) == EndsIn(wire[s]) \cup (IF reading = s THEN {Last(decoders[s].run).rep} ELSE {})
Unread(s) == {published[s][k] : k \in Len(intact[s]) + 1..Len(published[s])}
Counted(s) ==
  /\ intact[s] \in Seq(Nat) /\ Len(intact[s]) <= Len(published[s])
  /\ \A i \in 1..Len(intact[s]) : intact[s][i] = published[s][i]
  /\ \A i, j \in DOMAIN published[s] : i < j => published[s][i] < published[s][j]
  /\ Unread(s) = Ending(s)

Clean(s) == got[s] # None => None \notin {got[s].items[i] : i \in DOMAIN got[s].items}

Sending(s) == enc[s] # None => Sends(Line(s), enc[s].exported, Latest(s))
Ordered(s) == InLine(s, Line(s)) /\ Sending(s) /\ Decoding(s) /\ Counted(s) /\ Clean(s)
OrderInv == ReadInv /\ DOMAIN intact = Sender /\ (Reliable => \A s \in Sender : Ordered(s))

\* One more report x is published, of which n are read.
CountsOn(p, q, n, x) ==
  /\ n <= Len(q) /\ \A i \in 1..n : q[i] = p[i]
  /\ \A i, j \in DOMAIN q : i < j => q[i] < q[j]
  /\ {q[k] : k \in n + 1..Len(q)} = {p[k] : k \in n + 1..Len(p)} \cup {x}

\* It is the last of them.
LEMMA CountsMore ==
  ASSUME NEW p \in Seq(Nat), NEW n \in Nat, n <= Len(p), NEW x \in Nat,
         \A i, j \in DOMAIN p : i < j => p[i] < p[j], \A i \in DOMAIN p : p[i] < x
  PROVE  CountsOn(p, Append(p, x), n, x)
<1>1. PICK q, l : q = Append(p, x) /\ l = Len(p)
  OBVIOUS
<1>2. /\ l \in Nat /\ DOMAIN p = 1..l /\ Len(q) = l + 1 /\ DOMAIN q = 1..l + 1
      /\ (\A i \in 1..l : q[i] = p[i]) /\ q[l + 1] = x /\ n <= l
  BY <1>1
<1>3. n <= Len(q) /\ \A i \in 1..n : q[i] = p[i]
  BY <1>2
<1>4. ASSUME NEW i \in DOMAIN q, NEW j \in DOMAIN q, i < j PROVE q[i] < q[j]
  <2>1. i \in 1..l /\ (j = l + 1 \/ j \in 1..l)
    BY <1>2, <1>4
  <2> QED BY <1>2, <1>4, <2>1
<1>5. ASSUME NEW k \in n + 1..Len(q) PROVE q[k] \in {p[i] : i \in n + 1..Len(p)} \cup {x}
  <2>1. k = l + 1 \/ (k \in n + 1..l /\ k \in 1..l)
    BY <1>2
  <2> QED BY <1>1, <1>2, <2>1
<1>6. ASSUME NEW k \in n + 1..Len(p) PROVE p[k] \in {q[i] : i \in n + 1..Len(q)}
  <2>1. k \in 1..l /\ k \in n + 1..Len(q)
    BY <1>1, <1>2
  <2> QED BY <1>2, <2>1
<1>7. x \in {q[i] : i \in n + 1..Len(q)}
  <2>1. l + 1 \in n + 1..Len(q)
    BY <1>2
  <2> QED BY <1>2, <2>1
<1>8. {q[k] : k \in n + 1..Len(q)} = {p[k] : k \in n + 1..Len(p)} \cup {x}
  BY ONLY <1>5, <1>6, <1>7
<1>9. CountsOn(p, q, n, x)
  BY ONLY <1>3, <1>4, <1>8 DEF CountsOn
<1> QED BY <1>1, <1>9

\* What is left of the published reports p after n of them.
Rest(p, n) == {p[k] : k \in n + 1..Len(p)}
IsRead(p, b, E) ==
  /\ b \in Seq(Nat) /\ Len(b) <= Len(p) /\ \A i \in 1..Len(b) : b[i] = p[i]
  /\ Rest(p, Len(b)) = E

\* The least of the reports that are not yet read is the next to be read.
LEMMA CountsRead ==
  ASSUME NEW p \in Seq(Nat), NEW a \in Seq(Nat), Len(a) <= Len(p), \A i \in 1..Len(a) : a[i] = p[i],
         \A i, j \in DOMAIN p : i < j => p[i] < p[j],
         NEW x \in Nat, NEW E, Rest(p, Len(a)) = E \cup {x}, \A y \in E : x < y
  PROVE  IsRead(p, Append(a, x), E)
<1>1. PICK b, n, l : b = Append(a, x) /\ n = Len(a) /\ l = Len(p)
  OBVIOUS
<1>2. /\ n \in Nat /\ l \in Nat /\ DOMAIN p = 1..l /\ Len(b) = n + 1 /\ b \in Seq(Nat)
      /\ (\A i \in 1..n : b[i] = a[i]) /\ b[n + 1] = x
  BY <1>1
<1>3. PICK k \in n + 1..l : p[k] = x
  BY <1>1 DEF Rest
<1>4. \A i \in n + 1..l : i \in 1..l /\ p[i] \in E \cup {x} /\ p[i] \in Nat
  BY <1>1, <1>2 DEF Rest
<1>5. k = n + 1
  <2> SUFFICES ASSUME k # n + 1 PROVE FALSE
    OBVIOUS
  <2>1. n + 1 \in n + 1..l /\ n + 1 < k
    BY <1>2
  <2>2. p[n + 1] < p[k]
    BY <1>2, <1>4, <2>1
  <2>3. PICK y : y = p[n + 1]
    OBVIOUS
  <2>4. y \in Nat /\ y < x
    BY <1>3, <1>4, <2>1, <2>2, <2>3
  <2>5. ~(x < y) /\ x # y
    BY ONLY <2>4, x \in Nat
  <2> QED BY <1>4, <2>1, <2>3, <2>5
<1>6. Len(b) <= l /\ \A i \in 1..Len(b) : b[i] = p[i]
  <2>1. \A i \in 1..n + 1 : i \in 1..n \/ i = n + 1
    BY <1>2
  <2>2. n + 1 <= l
    BY <1>2, <1>5
  <2> QED BY <1>1, <1>2, <1>3, <1>5, <2>1, <2>2
<1>7. ASSUME NEW i \in (n + 1) + 1..l PROVE p[i] \in E
  <2>1. i \in n + 1..l /\ n + 1 \in n + 1..l /\ n + 1 < i
    BY <1>2
  <2>2. p[n + 1] < p[i]
    BY <1>2, <1>4, <2>1
  <2>3. PICK y : y = p[i]
    OBVIOUS
  <2>4. y \in Nat /\ x < y
    BY <1>3, <1>4, <1>5, <2>1, <2>2, <2>3
  <2>5. y # x
    BY ONLY <2>4, x \in Nat
  <2> QED BY <1>4, <2>1, <2>3, <2>5
<1>8. ASSUME NEW y \in E PROVE y \in {p[i] : i \in (n + 1) + 1..l}
  <2>1. PICK i \in n + 1..l : p[i] = y
    BY <1>1 DEF Rest
  <2>2. i # n + 1
    BY <1>3, <1>5, <1>8, <2>1
  <2>3. i \in (n + 1) + 1..l
    BY <1>2, <2>2
  <2> QED BY <2>1, <2>3
<1>9. Rest(p, Len(b)) = E
  BY <1>1, <1>2, <1>7, <1>8 DEF Rest
<1> QED BY <1>1, <1>2, <1>6, <1>9 DEF IsRead

\* A sender of whom nothing changes.
LEMMA OrderedStays ==
  ASSUME NEW u, Ordered(u), UNCHANGED setup,
         wire'[u] = wire[u], enc'[u] = enc[u], published'[u] = published[u], intact'[u] = intact[u],
         got'[u] = got[u], started'[u] = started[u], decoders'[u] = decoders[u],
         HasDecoder(u)' <=> HasDecoder(u), reading' = u <=> reading = u
  PROVE  Ordered(u)'
<1>1. Passed(u)' = Passed(u) /\ Line(u)' = Line(u) /\ Latest(u)' = Latest(u)
  BY DEF Passed, Line, Latest
<1>2. InLine(u, Line(u))'
  BY <1>1 DEF Ordered, InLine
<1>3. Sending(u)'
  BY <1>1 DEF Ordered, Sending
<1>4. Decoding(u)'
  BY <1>1 DEF Ordered, Decoding
<1>5. Counted(u)'
  <2>1. Ending(u)' = Ending(u) /\ Unread(u)' = Unread(u)
    BY DEF Ending, Unread
  <2> QED BY <2>1 DEF Ordered, Counted
<1>6. Clean(u)'
  BY DEF Ordered, Clean
<1> QED BY <1>2, <1>3, <1>4, <1>5, <1>6 DEF Ordered

\* The frames of the line of a sender are carried, and of reports that were begun.
LEMMA LineIs ==
  ASSUME Inv, Known, Kept, NEW s \in Sender
  PROVE  /\ wire[s] \in Seq(Frames) /\ Passed(s) \in Seq(Frames) /\ Line(s) \in Seq(Frames)
         /\ HasDecoder(s) => /\ decoders[s].run \in Seq(Frames) /\ decoders[s].run # <<>>
                             /\ Last(decoders[s].run) \in Frames /\ Last(decoders[s].run) \in Carried
                             /\ Passed(s) = <<Last(decoders[s].run)>>
         /\ \A i \in DOMAIN Line(s) : Line(s)[i] \in Carried
<1>1. PICK p, q : p = Passed(s) /\ q = wire[s]
  OBVIOUS
<1>2. q \in Seq(Frames) /\ \A i \in DOMAIN q : q[i] \in Carried
  BY <1>1 DEF Inv, Types, Carried, OnWire
<1>3. ASSUME HasDecoder(s)
      PROVE  /\ decoders[s].run \in Seq(Frames) /\ decoders[s].run # <<>>
             /\ Last(decoders[s].run) \in Frames /\ Last(decoders[s].run) \in Carried
  <2>1. PICK R : R = decoders[s].run
    OBVIOUS
  <2>2. R \in Seq(Frames) /\ R # <<>>
    BY <1>3, <2>1 DEF Kept, Keeping
  <2>3. Len(R) \in DOMAIN R
    BY <2>2
  <2>4. R[Len(R)] \in Frames /\ R[Len(R)] \in Gathered(s)
    BY <1>3, <2>1, <2>2, <2>3 DEF Gathered
  <2> QED BY <2>1, <2>2, <2>4 DEF Last, Carried
<1>4. p \in Seq(Frames) /\ \A i \in DOMAIN p : p[i] \in Carried
  <2>1. CASE HasDecoder(s)
    <3>1. PICK l : l = Last(decoders[s].run)
      OBVIOUS
    <3>2. l \in Frames /\ l \in Carried /\ p = <<l>>
      BY <1>1, <1>3, <2>1, <3>1 DEF Passed
    <3>3. <<l>> \in Seq(Frames) /\ \A i \in DOMAIN <<l>> : <<l>>[i] = l
      BY <3>2
    <3> QED BY <3>2, <3>3
  <2>2. CASE ~HasDecoder(s)
    <3>1. p = <<>>
      BY <1>1, <2>2 DEF Passed
    <3> QED BY <3>1
  <2> QED BY <2>1, <2>2
<1>5. /\ p \o q \in Seq(Frames)
      /\ \A e \in {(p \o q)[i] : i \in DOMAIN (p \o q)} : (\E i \in DOMAIN p : e = p[i]) \/ (\E i \in DOMAIN q : e = q[i])
  BY ONLY <1>2, <1>4, Appended
<1>6. \A i \in DOMAIN (p \o q) : (p \o q)[i] \in Carried
  BY <1>2, <1>4, <1>5
<1>7. Line(s) = p \o q
  BY <1>1 DEF Line
<1> QED BY <1>1, <1>2, <1>3, <1>4, <1>5, <1>6, <1>7 DEF Passed

\* A frame goes on where the encoder stands, and starts or ends a report as its type says.
LEMMA FrameFollows ==
  ASSUME Types, NEW s \in Sender, NEW e \in Encoder, NEW len \in 1..Len(e.pend), NEW flushing \in BOOLEAN,
         NEW f, f = Frame(s, e, len, flushing)
  PROVE  /\ f \in Frames /\ f.from = s /\ f.rep = Latest(s) /\ f.at = e.exported
         /\ e.exported = 0 <=> StartsNew(f.type)
         /\ Ends(f.type) <=> flushing
         /\ Len(f.data) = len /\ len \in Nat \ {0}
<1>1. len \in 0..Len(e.pend) /\ len \in Nat \ {0}
  BY DEF Encoder
<1>2. f \in Frames /\ f.rep = Latest(s) /\ Len(f.data) = len
  BY <1>1, FrameIs
<1>3. f.from = s /\ f.at = e.exported /\ f.type = FrameType(e, flushing)
  BY DEF Frame
<1>4. (e.exported = 0 <=> StartsNew(f.type)) /\ (Ends(f.type) <=> flushing)
  BY <1>3 DEF FrameType, StartsNew, Ends
<1> QED BY <1>1, <1>2, <1>3, <1>4

\* The reports that end in a queue of frames, with one more frame.
LEMMA EndsMore ==
  ASSUME NEW q \in Seq(Frames), NEW f \in Frames
  PROVE  EndsIn(Append(q, f)) = EndsIn(q) \cup (IF Ends(f.type) THEN {f.rep} ELSE {})
<1>1. PICK p, n : p = Append(q, f) /\ n = Len(q)
  OBVIOUS
<1>2. /\ n \in Nat /\ DOMAIN q = 1..n /\ DOMAIN p = 1..n + 1
      /\ (\A i \in 1..n : p[i] = q[i]) /\ p[n + 1] = f
  BY <1>1
<1>3. /\ \A i \in 1..n + 1 : i = n + 1 \/ i \in 1..n
      /\ n + 1 \in 1..n + 1 /\ \A i \in 1..n : i \in 1..n + 1
  BY <1>2
<1>4. ASSUME NEW i \in DOMAIN p, Ends(p[i].type)
      PROVE  p[i].rep \in EndsIn(q) \cup (IF Ends(f.type) THEN {f.rep} ELSE {})
  BY <1>2, <1>3, <1>4 DEF EndsIn
<1>5. ASSUME NEW i \in DOMAIN q, Ends(q[i].type) PROVE q[i].rep \in EndsIn(p)
  BY <1>2, <1>3, <1>5 DEF EndsIn
<1>6. Ends(f.type) => f.rep \in EndsIn(p)
  BY <1>2, <1>3 DEF EndsIn
<1> QED BY <1>1, <1>4, <1>5, <1>6 DEF EndsIn

\* The encoder sends a frame.
LEMMA OneSent ==
  ASSUME Types, NEW s \in Sender, NEW p \in Seq(Frames), NEW q \in Seq(Frames), InLine(s, p \o q),
         NEW e \in Encoder, Sends(p \o q, e.exported, Latest(s)),
         NEW len \in 1..Len(e.pend), NEW flushing \in BOOLEAN, NEW f, f = Frame(s, e, len, flushing)
  PROVE  /\ Append(q, f) \in Seq(Frames) /\ InLine(s, p \o Append(q, f))
         /\ Starts(p \o q) => Starts(p \o Append(q, f))
         /\ ~flushing => Sends(p \o Append(q, f), e.exported + len, Latest(s))
         /\ EndsIn(Append(q, f)) = EndsIn(q) \cup (IF flushing THEN {Latest(s)} ELSE {})
<1>1. /\ f \in Frames /\ f.from = s /\ f.rep = Latest(s) /\ f.at = e.exported
      /\ (e.exported = 0 <=> StartsNew(f.type)) /\ (Ends(f.type) <=> flushing)
      /\ Len(f.data) = len /\ len \in Nat \ {0}
  BY FrameFollows
<1>2. e.exported \in Nat /\ Latest(s) \in Nat
  BY DEF Encoder, Types, Latest
<1>3. PICK l : l = p \o q
  OBVIOUS
<1>4. p \o Append(q, f) = Append(l, f)
  BY ONLY <1>1, <1>3, p \in Seq(Frames), q \in Seq(Frames)
<1>5. /\ InLine(s, Append(l, f)) /\ (Starts(l) => Starts(Append(l, f)))
      /\ ~Ends(f.type) => Sends(Append(l, f), e.exported + Len(f.data), Latest(s))
  BY <1>1, <1>2, <1>3, LineGrows
<1>6. EndsIn(Append(q, f)) = EndsIn(q) \cup (IF Ends(f.type) THEN {f.rep} ELSE {})
  BY <1>1, EndsMore
<1> QED BY <1>1, <1>3, <1>4, <1>5, <1>6

\* A step of a publisher, with the line as it is then.
LEMMA PublisherOrders ==
  ASSUME UNCHANGED <<setup, decoders, reading, got, intact>>, NEW s, Ordered(s),
         InLine(s, Passed(s) \o wire'[s]), Starts(Passed(s) \o wire[s]) => Starts(Passed(s) \o wire'[s]),
         enc'[s] # None => Sends(Passed(s) \o wire'[s], enc'[s].exported, Len(started'[s])),
         Counted(s)'
  PROVE  Ordered(s)'
<1>1. (HasDecoder(s)' <=> HasDecoder(s)) /\ Passed(s)' = Passed(s)
  BY DEF HasDecoder, Key, Passed
<1>2. Line(s)' = Passed(s) \o wire'[s]
  BY <1>1 DEF Line
<1>3. InLine(s, Line(s))'
  BY <1>2 DEF InLine
<1>4. Sending(s)'
  BY <1>2 DEF Sending, Sends, Latest
<1>5. Decoding(s)'
  BY <1>1, <1>2 DEF Ordered, Decoding, Line, Starts
<1>6. Clean(s)'
  BY DEF Ordered, Clean
<1> QED BY <1>3, <1>4, <1>5, <1>6 DEF Ordered

\* The others, while a sender publishes.
LEMMA OthersPublish ==
  ASSUME UNCHANGED <<setup, decoders, reading, got, intact>>, NEW s \in Sender, \A u \in Sender : Ordered(u),
         \A u \in Sender \ {s} : wire'[u] = wire[u] /\ enc'[u] = enc[u] /\ published'[u] = published[u]
                                 /\ started'[u] = started[u],
         Ordered(s)'
  PROVE  \A u \in Sender : Ordered(u)'
<1>1. ASSUME NEW u \in Sender \ {s} PROVE Ordered(u)'
  <2>1. HasDecoder(u)' <=> HasDecoder(u)
    BY DEF HasDecoder, Key
  <2> QED BY <2>1, OrderedStays
<1> QED BY <1>1

\* The published reports are those before the one that is published, and nothing of
\* their count changes while no frame is sent that ends one.
LEMMA CountedStays ==
  ASSUME UNCHANGED <<setup, decoders, reading, intact>>, NEW s, Counted(s), published'[s] = published[s],
         EndsIn(wire'[s]) = EndsIn(wire[s])
  PROVE  Counted(s)'
<1>1. Ending(s)' = Ending(s) /\ Unread(s)' = Unread(s)
  BY DEF Ending, Unread, EndsIn
<1> QED BY <1>1 DEF Counted

\* publish(): the frames so far are of reports before.
LEMMA BeginOrders ==
  ASSUME Inv, Known, Kept, \A u \in Sender : Ordered(u), UNCHANGED setup, NEW s \in Sender,
         NEW widths \in Reports, Begin(s, widths)
  PROVE  \A u \in Sender : Ordered(u)'
<1>1. /\ started' = [started EXCEPT ![s] = Append(started[s], widths)] /\ enc[s] = None
      /\ enc' = [enc EXCEPT ![s] = NewEncoder(Byte(s, Len(started'[s]), 0, 0))]
      /\ UNCHANGED <<published, wire, decoders, reading, got, intact>>
  BY DEF Begin
<1>2. started \in [Sender -> Seq(Reports)] /\ enc \in [Sender -> Encoder \cup {None}]
  BY DEF Inv, Types
<1>3. /\ Latest(s) \in Nat /\ Len(started'[s]) = Latest(s) + 1 /\ enc'[s].exported = 0
      /\ \A u \in Sender \ {s} : started'[u] = started[u] /\ enc'[u] = enc[u]
  <2>1. started'[s] = Append(started[s], widths) /\ enc'[s] = NewEncoder(Byte(s, Len(started'[s]), 0, 0))
    BY <1>1, <1>2
  <2>2. Len(Append(started[s], widths)) = Len(started[s]) + 1 /\ Len(started[s]) \in Nat
    BY <1>2
  <2>3. \A u \in Sender \ {s} : started'[u] = started[u] /\ enc'[u] = enc[u]
    BY <1>1, <1>2
  <2> QED BY <2>1, <2>2, <2>3 DEF NewEncoder, Latest
<1>4. PICK q : q = Line(s)
  OBVIOUS
<1>5. q \in Seq(Frames) /\ (\A i \in DOMAIN q : q[i] \in Carried) /\ InLine(s, q)
  BY <1>4, LineIs DEF Ordered
<1>6. q # <<>> => Last(q).rep < Latest(s) + 1
  <2> SUFFICES ASSUME q # <<>> PROVE Last(q).rep < Latest(s) + 1
    OBVIOUS
  <2>1. Len(q) \in DOMAIN q
    BY <1>5
  <2>2. Last(q) \in Carried /\ Last(q).from = s
    BY <1>5, <2>1 DEF Last, InLine
  <2>3. Last(q).rep \in 1..Latest(s)
    BY <2>2 DEF Known
  <2> QED BY <1>3, <2>3
<1>7. Sends(q, 0, Latest(s) + 1)
  BY <1>6 DEF Sends
<1>8. Counted(s)'
  BY <1>1, CountedStays DEF Ordered
<1>9. Ordered(s)'
  BY <1>1, <1>3, <1>4, <1>5, <1>7, <1>8, PublisherOrders DEF Line
<1> QED BY <1>1, <1>3, <1>9, OthersPublish

\* A send fails: the report is given up.
LEMMA SendFailsOrders ==
  ASSUME Inv, \A u \in Sender : Ordered(u), UNCHANGED setup, NEW s \in Sender, SendFails(s)
  PROVE  \A u \in Sender : Ordered(u)'
<1>1. enc' = [enc EXCEPT ![s] = None] /\ UNCHANGED <<started, published, wire, decoders, reading, got, intact>>
  BY DEF SendFails
<1>2. enc'[s] = None /\ \A u \in Sender \ {s} : enc'[u] = enc[u]
  BY <1>1 DEF Inv, Types
<1>3. Counted(s)'
  BY <1>1, CountedStays DEF Ordered
<1>4. Ordered(s)'
  BY <1>1, <1>2, <1>3, PublisherOrders DEF Ordered, Line
<1> QED BY <1>1, <1>2, <1>4, OthersPublish

\* writeIfNecessary: a frame goes out when there is more than one takes.
LEMMA EncodeItemOrders ==
  ASSUME Inv, Known, Kept, \A u \in Sender : Ordered(u), UNCHANGED setup, NEW s \in Sender, EncodeItem(s)
  PROVE  \A u \in Sender : Ordered(u)'
<1>1. PICK e, h, f, x : e = enc[s] /\ h = Sent(e) /\ f = Frame(s, e, DataSize, FALSE) /\ x = Last(started[s])[e.item]
  OBVIOUS
<1>2. /\ enc[s] # None
      /\ wire' = IF Overfull(e) THEN [wire EXCEPT ![s] = Append(wire[s], f)] ELSE wire
      /\ enc' = [enc EXCEPT ![s] = IF HasRoom(h, x) THEN Put(s, h, x) ELSE None]
      /\ UNCHANGED <<started, published, decoders, reading, got, intact>>
  BY <1>1 DEF EncodeItem, Sent
<1>3. /\ Types /\ enc \in [Sender -> Encoder \cup {None}] /\ wire \in [Sender -> Seq(Frames)]
      /\ DataSize \in Nat \ {0} /\ e \in Encoder
  BY <1>1, <1>2, Sizes DEF Inv, Types
<1>4. /\ \A u \in Sender \ {s} : enc'[u] = enc[u] /\ wire'[u] = wire[u]
      /\ enc'[s] = None \/ enc'[s] = Put(s, h, x)
  BY <1>2, <1>3
<1>5. PICK p, q : p = Passed(s) /\ q = wire[s]
  OBVIOUS
<1>6. p \in Seq(Frames) /\ q \in Seq(Frames)
  BY <1>5, LineIs
<1>7. InLine(s, p \o q) /\ Sends(p \o q, e.exported, Latest(s))
  BY <1>1, <1>2, <1>5 DEF Ordered, Sending, Line
<1>8. enc'[s] # None => enc'[s].exported = h.exported
  <2>1. h \in Encoder
    BY <1>1, <1>3, SentTyped
  <2>2. Put(s, h, x).exported = h.exported
    BY <2>1 DEF Put, Encoder
  <2> QED BY <1>4, <2>2
<1>9. CASE Overfull(e)
  <2>1. DataSize \in 1..Len(e.pend) /\ FALSE \in BOOLEAN
    BY <1>3, <1>9 DEF Overfull, Encoder
  <2>2. /\ Append(q, f) \in Seq(Frames) /\ InLine(s, p \o Append(q, f))
        /\ Starts(p \o q) => Starts(p \o Append(q, f))
        /\ Sends(p \o Append(q, f), e.exported + DataSize, Latest(s))
        /\ EndsIn(Append(q, f)) = EndsIn(q)
    <3>1. PICK len, flushing : len = DataSize /\ flushing = FALSE
      OBVIOUS
    <3>2. /\ Append(q, f) \in Seq(Frames) /\ InLine(s, p \o Append(q, f))
          /\ Starts(p \o q) => Starts(p \o Append(q, f))
          /\ ~flushing => Sends(p \o Append(q, f), e.exported + len, Latest(s))
          /\ EndsIn(Append(q, f)) = EndsIn(q) \cup (IF flushing THEN {Latest(s)} ELSE {})
      <4>1. len \in 1..Len(e.pend) /\ flushing \in BOOLEAN /\ f = Frame(s, e, len, flushing)
        BY <1>1, <2>1, <3>1
      <4> QED BY <1>3, <1>6, <1>7, <4>1, OneSent
    <3> QED BY <3>1, <3>2
  <2>3. wire'[s] = Append(q, f)
    BY <1>2, <1>3, <1>5, <1>9
  <2>4. h.exported = e.exported + DataSize
    BY <1>1, <1>3, <1>9 DEF Sent, Shifted, Encoder
  <2>5. Counted(s)'
    BY <1>2, <1>5, <2>2, <2>3, CountedStays DEF Ordered
  <2>6. Ordered(s)'
    BY <1>2, <1>5, <1>8, <2>2, <2>3, <2>4, <2>5, PublisherOrders DEF Latest
  <2> QED BY <1>2, <1>4, <2>6, OthersPublish
<1>10. CASE ~Overfull(e)
  <2>1. wire'[s] = q /\ h.exported = e.exported
    BY <1>1, <1>2, <1>5, <1>10 DEF Sent
  <2>2. Counted(s)'
    BY <1>2, <1>5, <2>1, CountedStays DEF Ordered
  <2>3. Ordered(s)'
    BY <1>2, <1>5, <1>7, <1>8, <2>1, <2>2, PublisherOrders DEF Latest
  <2> QED BY <1>2, <1>4, <2>3, OthersPublish
<1> QED BY <1>9, <1>10

\* flush: the report ends, and publish() returns true.
LEMMA FlushOrders ==
  ASSUME Inv, Known, Stories, Kept, setup.header = 0, \A u \in Sender : Ordered(u), UNCHANGED setup,
         NEW s \in Sender, Flush(s)
  PROVE  \A u \in Sender : Ordered(u)'
<1>1. PICK e, h, f, g : e = enc[s] /\ h = Sent(e) /\ f = Frame(s, e, DataSize, FALSE) /\ g = Frame(s, h, Len(h.pend), TRUE)
  OBVIOUS
<1>2. /\ enc[s] # None
      /\ wire' = [wire EXCEPT ![s] = wire[s] \o (IF Overfull(e) THEN <<f>> ELSE <<>>) \o <<g>>]
      /\ enc' = [enc EXCEPT ![s] = None] /\ published' = [published EXCEPT ![s] = Append(published[s], Latest(s))]
      /\ UNCHANGED <<started, decoders, reading, got, intact>>
  BY <1>1 DEF Flush, Sent, Latest
<1>3. /\ Types /\ enc \in [Sender -> Encoder \cup {None}] /\ wire \in [Sender -> Seq(Frames)]
      /\ published \in [Sender -> Seq(Nat)] /\ DataSize \in Nat \ {0} /\ e \in Encoder /\ h \in Encoder
  <2>1. e \in Encoder /\ Types
    BY <1>1, <1>2 DEF Inv, Types
  <2>2. h \in Encoder
    BY <1>1, <2>1, SentTyped
  <2> QED BY <2>1, <2>2, Sizes DEF Inv, Types
<1>4. /\ \A u \in Sender \ {s} : enc'[u] = enc[u] /\ wire'[u] = wire[u] /\ published'[u] = published[u]
      /\ enc'[s] = None /\ published'[s] = Append(published[s], Latest(s))
  BY <1>2, <1>3
<1>5. PICK p, q, y : p = Passed(s) /\ q = wire[s] /\ y = IF Overfull(e) THEN Append(q, f) ELSE q
  OBVIOUS
<1>6. p \in Seq(Frames) /\ q \in Seq(Frames)
  BY <1>5, LineIs
<1>7. InLine(s, p \o q) /\ Sends(p \o q, e.exported, Latest(s))
  BY <1>1, <1>2, <1>5 DEF Ordered, Sending, Line
<1>8. Len(h.pend) \in 1..Len(h.pend)
  <2>1. PICK T, B, n : Encodes(T, B, n, e) /\ Len(T) \in Nat /\ B \in Nat /\ B < Len(T)
    <3>1. PICK T, O, B, n : Laid(DataSize, started[s][Latest(s)], s, Latest(s), T, O, B, n) /\ Encodes(T, B[n], n, e)
      BY <1>1, <1>2, LatestTold, BeyondIs DEF Inv
    <3>2. LaidTypes(started[s][Latest(s)], T, O, B, n) /\ n \in Nat /\ Len(T) \in Nat /\ B[n] \in Nat
      BY <3>1, LaidNumbers DEF Laid, LaidTypes
    <3>3. B[n] < Len(T)
      BY <1>3, <3>1, LaidNear
    <3> QED BY <3>1, <3>2, <3>3
  <2>2. Len(e.pend) = Len(T) - B /\ Len(e.pend) \in Nat
    BY <1>3, <2>1 DEF Encodes, Encoder
  <2>3. Len(e.pend) >= 1
    BY <2>1, <2>2
  <2>4. CASE Overfull(e)
    <3>1. h.pend = SubSeq(e.pend, DataSize + 1, Len(e.pend))
      BY <1>1, <1>3, <2>4 DEF Sent, Shifted, Encoder
    <3>2. PICK a, d : a = e.pend /\ d = DataSize
      OBVIOUS
    <3>3. a \in Seq(Bytes) /\ d \in Nat \ {0} /\ Len(a) > d
      BY <1>3, <2>4, <3>2 DEF Overfull, Encoder
    <3>4. Len(SubSeq(a, d + 1, Len(a))) = Len(a) - d /\ Len(a) \in Nat
      BY ONLY <3>3
    <3>5. Len(SubSeq(a, d + 1, Len(a))) \in 1..Len(SubSeq(a, d + 1, Len(a)))
      BY ONLY <3>3, <3>4
    <3> QED BY <3>1, <3>2, <3>5
  <2>5. CASE ~Overfull(e)
    BY <1>1, <2>2, <2>3, <2>5 DEF Sent
  <2> QED BY <2>4, <2>5
<1>9. /\ y \in Seq(Frames) /\ InLine(s, p \o y) /\ (Starts(p \o q) => Starts(p \o y))
      /\ Sends(p \o y, h.exported, Latest(s)) /\ EndsIn(y) = EndsIn(q)
  <2>1. CASE Overfull(e)
    <3>1. PICK len, flushing : len = DataSize /\ flushing = FALSE
      OBVIOUS
    <3>2. /\ Append(q, f) \in Seq(Frames) /\ InLine(s, p \o Append(q, f))
          /\ Starts(p \o q) => Starts(p \o Append(q, f))
          /\ ~flushing => Sends(p \o Append(q, f), e.exported + len, Latest(s))
          /\ EndsIn(Append(q, f)) = EndsIn(q) \cup (IF flushing THEN {Latest(s)} ELSE {})
      <4>1. len \in 1..Len(e.pend) /\ flushing \in BOOLEAN /\ f = Frame(s, e, len, flushing)
        <5>1. DataSize \in 1..Len(e.pend)
          BY <1>3, <2>1 DEF Overfull, Encoder
        <5> QED BY <1>1, <3>1, <5>1
      <4> QED BY <1>3, <1>6, <1>7, <4>1, OneSent
    <3>3. h.exported = e.exported + DataSize
      BY <1>1, <1>3, <2>1 DEF Sent, Shifted, Encoder
    <3> QED BY <1>5, <2>1, <3>1, <3>2, <3>3
  <2>2. CASE ~Overfull(e)
    <3>1. h = e /\ y = q
      BY <1>1, <1>5, <2>2 DEF Sent
    <3> QED BY <1>6, <1>7, <3>1
  <2> QED BY <2>1, <2>2
<1>10. /\ Append(y, g) \in Seq(Frames) /\ InLine(s, p \o Append(y, g))
       /\ Starts(p \o y) => Starts(p \o Append(y, g))
       /\ EndsIn(Append(y, g)) = EndsIn(y) \cup {Latest(s)}
  <2>1. PICK len, flushing : len = Len(h.pend) /\ flushing = TRUE
    OBVIOUS
  <2>2. len \in 1..Len(h.pend) /\ flushing \in BOOLEAN /\ g = Frame(s, h, len, flushing)
    BY <1>1, <1>8, <2>1
  <2>3. /\ Append(y, g) \in Seq(Frames) /\ InLine(s, p \o Append(y, g))
        /\ Starts(p \o y) => Starts(p \o Append(y, g))
        /\ EndsIn(Append(y, g)) = EndsIn(y) \cup (IF flushing THEN {Latest(s)} ELSE {})
    BY <1>3, <1>6, <1>9, <2>2, OneSent
  <2> QED BY <2>1, <2>3
<1>11. wire'[s] = Append(y, g)
  <2>1. wire'[s] = q \o (IF Overfull(e) THEN <<f>> ELSE <<>>) \o <<g>>
    BY <1>2, <1>3, <1>5
  <2>2. g \in Frames /\ (Overfull(e) => f \in Frames)
    <3>1. g \in Frames
      <4>1. PICK len, flushing : len = Len(h.pend) /\ flushing = TRUE
        OBVIOUS
      <4>2. len \in 1..Len(h.pend) /\ flushing \in BOOLEAN /\ g = Frame(s, h, len, flushing)
        BY <1>1, <1>8, <4>1
      <4> QED BY <1>3, <4>2, FrameFollows
    <3>2. ASSUME Overfull(e) PROVE f \in Frames
      <4>1. PICK len, flushing : len = DataSize /\ flushing = FALSE
        OBVIOUS
      <4>2. len \in 1..Len(e.pend) /\ flushing \in BOOLEAN /\ f = Frame(s, e, len, flushing)
        <5>1. DataSize \in 1..Len(e.pend)
          BY <1>3, <3>2 DEF Overfull, Encoder
        <5> QED BY <1>1, <4>1, <5>1
      <4> QED BY <1>3, <4>2, FrameFollows
    <3> QED BY <3>1, <3>2
  <2>3. CASE Overfull(e)
    <3>1. wire'[s] = q \o <<f>> \o <<g>> /\ y = Append(q, f) /\ f \in Frames
      BY <1>5, <2>1, <2>2, <2>3
    <3>2. q \o <<f>> = Append(q, f)
      BY ONLY <1>6, <3>1
    <3>3. y \o <<g>> = Append(y, g)
      BY ONLY <1>9, <2>2
    <3> QED BY <3>1, <3>2, <3>3
  <2>4. CASE ~Overfull(e)
    <3>1. wire'[s] = q \o <<>> \o <<g>> /\ y = q
      BY <1>5, <2>1, <2>4
    <3>2. q \o <<>> = q
      BY ONLY <1>6
    <3>3. q \o <<g>> = Append(q, g)
      BY ONLY <1>6, <2>2
    <3> QED BY <3>1, <3>2, <3>3
  <2> QED BY <2>3, <2>4
<1>12. Counted(s)'
  <2>1. PICK a, b, n, x : a = published[s] /\ b = intact[s] /\ n = Len(intact[s]) /\ x = Latest(s)
    OBVIOUS
  <2>2. /\ a \in Seq(Nat) /\ b \in Seq(Nat) /\ n \in Nat /\ n = Len(b) /\ n <= Len(a) /\ (\A i \in 1..n : b[i] = a[i])
        /\ (\A i, j \in DOMAIN a : i < j => a[i] < a[j]) /\ Unread(s) = Ending(s)
    BY <1>3, <2>1 DEF Ordered, Counted
  <2>3. x \in Nat /\ \A i \in DOMAIN a : a[i] < x
    <3>1. Done(s) \subseteq 1..Latest(s) - 1 /\ Latest(s) \in Nat
      BY <1>2, <1>3 DEF Inv, Numbered, NumberedFrom, Before, Latest, Types
    <3>2. \A i \in DOMAIN a : a[i] \in 1..x - 1
      BY <2>1, <3>1 DEF Done
    <3> QED BY <2>1, <3>1, <3>2
  <2>4. PICK c : c = Append(a, x)
    OBVIOUS
  <2>5. CountsOn(a, c, n, x)
    BY <2>2, <2>3, <2>4, CountsMore
  <2>8. published'[s] = c /\ intact'[s] = b
    BY <1>2, <1>4, <2>1, <2>4
  <2>9. Unread(s)' = {c[k] : k \in n + 1..Len(c)} /\ Unread(s) = {a[k] : k \in n + 1..Len(a)}
    BY <2>1, <2>2, <2>8 DEF Unread
  <2>6. Unread(s)' = Unread(s) \cup {x}
    BY <2>5, <2>9 DEF CountsOn
  <2>7. Ending(s)' = Ending(s) \cup {x}
    <3>1. EndsIn(wire'[s]) = EndsIn(wire[s]) \cup {x}
      BY <1>5, <1>9, <1>10, <1>11, <2>1
    <3> QED BY <1>2, <3>1 DEF Ending, EndsIn
  <2> QED BY <2>2, <2>5, <2>6, <2>7, <2>8 DEF Counted, CountsOn
<1>13. Ordered(s)'
  BY <1>2, <1>4, <1>5, <1>9, <1>10, <1>11, <1>12, PublisherOrders
<1> QED BY <1>2, <1>4, <1>13, OthersPublish

\* The reports that end in a queue of frames, without the first frame.
LEMMA EndsFewer ==
  ASSUME NEW q \in Seq(Frames), q # <<>>
  PROVE  EndsIn(q) = EndsIn(Tail(q)) \cup (IF Ends(q[1].type) THEN {q[1].rep} ELSE {})
<1>1. PICK p, n : p = Tail(q) /\ n = Len(q)
  OBVIOUS
<1>2. /\ n \in Nat \ {0} /\ DOMAIN q = 1..n /\ DOMAIN p = 1..n - 1
      /\ \A i \in 1..n - 1 : p[i] = q[i + 1]
  BY <1>1
<1>3. 1 \in 1..n /\ \A i \in 1..n - 1 : i + 1 \in 1..n
  BY <1>2
<1>4. \A i \in 1..n : i = 1 \/ (i - 1 \in 1..n - 1 /\ (i - 1) + 1 = i)
  BY <1>2
<1>5. ASSUME NEW i \in DOMAIN q, Ends(q[i].type)
      PROVE  q[i].rep \in EndsIn(p) \cup (IF Ends(q[1].type) THEN {q[1].rep} ELSE {})
  <2>1. CASE i = 1
    BY <1>5, <2>1
  <2>2. CASE i # 1
    <3>1. PICK j : j = i - 1
      OBVIOUS
    <3>2. j \in DOMAIN p /\ p[j] = q[i]
      BY <1>2, <1>4, <2>2, <3>1
    <3> QED BY <1>5, <3>2 DEF EndsIn
  <2> QED BY <2>1, <2>2
<1>6. ASSUME NEW i \in DOMAIN p, Ends(p[i].type) PROVE p[i].rep \in EndsIn(q)
  BY <1>2, <1>3, <1>6 DEF EndsIn
<1>7. Ends(q[1].type) => q[1].rep \in EndsIn(q)
  BY <1>2, <1>3 DEF EndsIn
<1> QED BY <1>1, <1>5, <1>6, <1>7 DEF EndsIn

\* The others, while a subscriber gives a frame to the decoder of a sender, or reads it.
LEMMA OthersRead ==
  ASSUME Inv, Kept, Kept', \A u \in Sender : Ordered(u), UNCHANGED setup, NEW s \in Sender, setup.keyed,
         reading \in {s, None}, reading' \in {s, None}, UNCHANGED <<started, published, enc>>,
         \A u \in Sender \ {s} : wire'[u] = wire[u] /\ decoders'[u] = decoders[u] /\ got'[u] = got[u] /\ intact'[u] = intact[u],
         Ordered(s)'
  PROVE  \A u \in Sender : Ordered(u)'
<1>1. ASSUME NEW u \in Sender \ {s} PROVE Ordered(u)'
  <2>1. Key(s) = s /\ Key(s)' = s /\ u # None /\ u # s
    BY NoneAssumption DEF Key
  <2>2. HasDecoder(u)' <=> HasDecoder(u)
    BY <2>1 DEF HasDecoder
  <2>3. reading' = u <=> reading = u
    BY <2>1
  <2> QED BY <2>2, <2>3, OrderedStays
<1> QED BY <1>1

\* A new decoder is one.
LEMMA NewDecoderIs == ASSUME Types PROVE NewDecoder \in Decoder
<1>1. PICK l, a : l = Limit /\ a = [i \in 1..Limit |-> None]
  OBVIOUS
<1>2. l \in Nat
  <2>1. PICK y, d : y = setup.header /\ d = DataSize
    OBVIOUS
  <2>2. y \in Nat /\ d \in Nat \ {0} /\ l = 2 * d + 2 * y
    BY <1>1, <2>1, Sizes
  <2> QED BY ONLY <2>2
<1>3. a \in [1..l -> Bytes \cup {None}]
  BY <1>1
<1>4. a \in Seq(Bytes \cup {None})
  BY <1>2, <1>3, IsBuffer
<1>5. <<>> \in Seq(Frames) /\ <<>> \in Seq(Items \cup {None}) /\ 0 \in Nat
  OBVIOUS
<1>6. NewDecoder = [queue |-> <<>>, buf |-> a, run |-> <<>>, pos |-> 0, end |-> 0, items |-> <<>>]
  BY <1>1 DEF NewDecoder
<1> QED BY ONLY <1>4, <1>5, <1>6 DEF Decoder

\* It still is with another frame.
LEMMA EnqueuedTyped ==
  ASSUME NEW d \in Decoder, NEW f \in Frames PROVE Enqueued(d, f) \in Decoder
<1>1. PICK R : R = IF StartsNew(f.type) THEN <<f>> ELSE Append(d.run, f)
  OBVIOUS
<1>2. d.queue \in Seq(Frames) /\ d.run \in Seq(Frames)
  BY DEF Decoder
<1>3. Append(d.queue, f) \in Seq(Frames) /\ R \in Seq(Frames)
  <2>1. <<f>> \in Seq(Frames) /\ \A x \in Seq(Frames) : Append(x, f) \in Seq(Frames)
    OBVIOUS
  <2> QED BY <1>1, <1>2, <2>1
<1>4. Enqueued(d, f) = [d EXCEPT !.queue = Append(d.queue, f), !.run = R]
  BY <1>1 DEF Enqueued
<1> QED BY ONLY <1>3, <1>4, d \in Decoder DEF Decoder

\* handle(): the first frame of the line comes to the decoder.
LEMMA HandleOrders ==
  ASSUME Inv, Known, Kept, Kept', \A u \in Sender : Ordered(u), UNCHANGED setup, setup.keyed,
         setup.header = 0, NEW s \in Sender, Handle(s), DOMAIN decoders = Sender
  PROVE  \A u \in Sender : Ordered(u)'
<1>1. PICK q, f : q = wire[s] /\ f = Received(Head(wire[s]))
  OBVIOUS
<1>2. PICK d : d = IF StartsNew(f.type) THEN NewDecoder ELSE decoders[s]
  OBVIOUS
<1>3. PICK e : e = Enqueued(d, f)
  OBVIOUS
<1>4. /\ reading = None /\ q # <<>> /\ wire' = [wire EXCEPT ![s] = Tail(wire[s])]
      /\ UNCHANGED <<started, published, enc, got, intact>> /\ Key(s) = s /\ s # None /\ Key(s)' = s
  BY <1>1, NoneAssumption DEF Handle, Key
<1>5. \/ d # None /\ ~Ends(f.type) /\ decoders' = [decoders EXCEPT ![s] = e] /\ reading' = reading
      \/ d # None /\ Ends(f.type) /\ decoders' = [decoders EXCEPT ![s] = Ready(e)] /\ reading' = s
      \/ d = None /\ UNCHANGED <<decoders, reading>>
  BY <1>1, <1>2, <1>3, <1>4 DEF Handle, Enqueued, StartsNew
<1>6. /\ q \in Seq(Frames) /\ f = q[1] /\ f \in Frames /\ 1 \in DOMAIN q
      /\ wire'[s] = Tail(q) /\ \A u \in Sender \ {s} : wire'[u] = wire[u]
  <2>1. q \in Seq(Frames) /\ wire'[s] = Tail(q) /\ \A u \in Sender \ {s} : wire'[u] = wire[u]
    BY <1>1, <1>4 DEF Inv, Types
  <2>2. 1 \in DOMAIN q /\ Head(q) = q[1] /\ q[1] \in Frames
    BY <1>4, <2>1
  <2>3. q[1] \in OnWire(s)
    BY <1>1, <2>2 DEF OnWire
  <2>4. f = q[1]
    BY <1>1, <2>2, <2>3, ReceivedIs
  <2> QED BY <2>1, <2>2, <2>4
<1>7. PICK l : l = Last(decoders[s].run)
  OBVIOUS
<1>8. /\ HasDecoder(s) => /\ l \in Frames /\ Line(s) = <<l>> \o q
                          /\ decoders[s].run \in Seq(Frames) /\ decoders[s].run # <<>>
      /\ ~HasDecoder(s) => Line(s) = q
  <2>1. CASE HasDecoder(s)
    BY <1>1, <1>7, <2>1, LineIs DEF Line
  <2>2. CASE ~HasDecoder(s)
    <3>1. Line(s) = <<>> \o q
      BY <1>1, <2>2 DEF Line, Passed
    <3>2. <<>> \o q = q
      BY ONLY <1>6
    <3> QED BY <2>2, <3>1, <3>2
  <2> QED BY <2>1, <2>2
<1>9. /\ InLine(s, q) /\ (enc[s] # None => Sends(q, enc[s].exported, Latest(s)))
      /\ HasDecoder(s) => Follows(l, f) /\ l.from = s
      /\ ~HasDecoder(s) => f.at = 0
  <2>1. CASE HasDecoder(s)
    <3>1. InLine(s, <<l>> \o q) /\ (enc[s] # None => Sends(<<l>> \o q, enc[s].exported, Latest(s)))
      BY <1>8, <2>1 DEF Ordered, Sending
    <3> QED BY <1>4, <1>6, <1>8, <2>1, <3>1, LineMoves
  <2>2. CASE ~HasDecoder(s)
    BY <1>4, <1>6, <1>8, <2>2 DEF Ordered, Sending, Decoding, Starts
  <2> QED BY <2>1, <2>2
<1>10. f.from = s /\ (f.at = 0 <=> StartsNew(f.type))
  BY <1>6, <1>9 DEF InLine
<1>11. ~StartsNew(f.type) => /\ HasDecoder(s) /\ Continues(l, f) /\ Collected(decoders[s].run)
                             /\ decoders[s] \in Decoder /\ Keeping(decoders[s])
  <2> SUFFICES ASSUME ~StartsNew(f.type)
               PROVE  /\ HasDecoder(s) /\ Continues(l, f) /\ Collected(decoders[s].run)
                      /\ decoders[s] \in Decoder /\ Keeping(decoders[s])
    OBVIOUS
  <2>1. HasDecoder(s) /\ Continues(l, f)
    BY <1>9, <1>10 DEF Follows
  <2>2. Collected(decoders[s].run) /\ (Ends(l.type) \/ decoders[s] \in Decoder)
    BY <1>7, <2>1 DEF Ordered, Decoding
  <2>3. ~Ends(l.type)
    BY <2>1 DEF Continues
  <2> QED BY <2>1, <2>2, <2>3 DEF Kept
<1>12. d \in Decoder /\ IF StartsNew(f.type) THEN d = NewDecoder ELSE Keeping(d)
  BY <1>2, <1>11, NewDecoderIs DEF Inv
<1>13. d # None /\ e \in Decoder /\ e # None
  BY <1>3, <1>6, <1>12, EnqueuedTyped, NoneAssumption
<1>14. PICK R : R = e.run
  OBVIOUS
<1>15. Buffered(e) /\ R # <<>> /\ Last(R) = f /\ R \in Seq(Frames)
  <2>1. Buffered(e) /\ R # <<>> /\ Last(R) = f
    BY <1>3, <1>6, <1>12, <1>14, EnqueuedIs DEF Inv
  <2> QED BY <1>14, <2>1 DEF Buffered
<1>16. PICK g : g = IF Ends(f.type) THEN Ready(e) ELSE e
  OBVIOUS
<1>17. g.run = R
  BY <1>14, <1>15, <1>16, ReadyKeeps DEF Inv
<1>18. /\ decoders'[s] = g /\ (\A u \in Sender \ {s} : decoders'[u] = decoders[u])
       /\ reading' = IF Ends(f.type) THEN s ELSE None
  BY <1>4, <1>5, <1>13, <1>16
<1>19. R = IF StartsNew(f.type) THEN <<f>> ELSE Append(decoders[s].run, f)
  <2>1. d.queue \in Seq(Frames) /\ d = [queue |-> d.queue, buf |-> d.buf, run |-> d.run, pos |-> d.pos, end |-> d.end, items |-> d.items]
    BY <1>12 DEF Decoder
  <2>2. PICK z : z = IF StartsNew(f.type) THEN <<f>> ELSE Append(d.run, f)
    OBVIOUS
  <2>3. e = [d EXCEPT !.queue = Append(d.queue, f), !.run = z]
    BY <1>3, <2>2 DEF Enqueued
  <2>4. e.run = z
    BY ONLY <2>1, <2>3
  <2> QED BY <1>2, <1>14, <2>2, <2>4
<1>20. Collected(R)
  <2>1. CASE StartsNew(f.type)
    <3>1. R = <<f>> /\ f.at = 0
      BY <1>10, <1>19, <2>1
    <3>2. Len(<<f>>) = 1 /\ <<f>>[1] = f /\ <<f>> # <<>> /\ 1..Len(<<f>>) - 1 = {}
      OBVIOUS
    <3> QED BY <3>1, <3>2 DEF Collected
  <2>2. CASE ~StartsNew(f.type)
    <3>1. PICK x, n : x = decoders[s].run /\ n = Len(decoders[s].run)
      OBVIOUS
    <3>2. x \in Seq(Frames) /\ x # <<>> /\ R = Append(x, f) /\ x[1].at = 0 /\ x[n] = l /\ n = Len(x)
      BY <1>7, <1>8, <1>11, <1>19, <2>2, <3>1 DEF Collected, Last
    <3>3. /\ n \in Nat \ {0} /\ Len(R) = n + 1 /\ (\A i \in 1..n : R[i] = x[i]) /\ R[n + 1] = f
      BY <3>2
    <3>4. \A i \in 1..n - 1 : Continues(x[i], x[i + 1])
      BY <1>11, <2>2, <3>1 DEF Collected
    <3>5. ASSUME NEW i \in 1..Len(R) - 1 PROVE Continues(R[i], R[i + 1])
      <4>1. i \in 1..n /\ (i = n \/ (i \in 1..n - 1 /\ i + 1 \in 1..n))
        BY <3>3
      <4>2. CASE i = n
        BY <1>11, <2>2, <3>2, <3>3, <4>1, <4>2
      <4>3. CASE i \in 1..n - 1 /\ i + 1 \in 1..n
        BY <3>3, <3>4, <4>1, <4>3
      <4> QED BY <4>1, <4>2, <4>3
    <3>6. 1 \in 1..n
      BY <3>3
    <3> QED BY <1>15, <3>2, <3>3, <3>5, <3>6 DEF Collected
  <2> QED BY <2>1, <2>2
<1>21. HasDecoder(s)'
  BY <1>4, <1>13, <1>16, <1>18 DEF HasDecoder
<1>22. Line(s)' = q
  <2>1. Passed(s)' = <<f>>
    BY <1>15, <1>17, <1>18, <1>21 DEF Passed
  <2>2. Line(s)' = <<f>> \o Tail(q)
    BY <1>6, <2>1 DEF Line
  <2>3. <<q[1]>> \o Tail(q) = q
    BY ONLY <1>4, <1>6
  <2> QED BY <1>6, <2>2, <2>3
<1>23. Counted(s)'
  <2>1. EndsIn(q) = EndsIn(Tail(q)) \cup (IF Ends(f.type) THEN {f.rep} ELSE {})
    BY <1>4, <1>6, EndsFewer
  <2>2. Last(decoders'[s].run) = f
    BY <1>15, <1>17, <1>18
  <2>3. Ending(s) = EndsIn(q)
    BY <1>1, <1>4 DEF Ending
  <2>4. Ending(s)' = EndsIn(Tail(q)) \cup (IF Ends(f.type) THEN {f.rep} ELSE {})
    BY <1>4, <1>6, <1>18, <2>2 DEF Ending, EndsIn
  <2>5. Unread(s)' = Unread(s)
    BY <1>4 DEF Unread
  <2> QED BY <1>4, <2>1, <2>3, <2>4, <2>5 DEF Ordered, Counted
<1>24. Ordered(s)'
  <2>1. InLine(s, Line(s))' /\ Sending(s)'
    BY <1>4, <1>9, <1>22 DEF InLine, Sending, Sends, Latest
  <2>2. Decoding(s)'
    BY <1>4, <1>13, <1>15, <1>16, <1>17, <1>18, <1>20, <1>21 DEF Decoding
  <2>3. Clean(s)'
    BY <1>4 DEF Ordered, Clean
  <2> QED BY <1>23, <2>1, <2>2, <2>3 DEF Ordered
<1> QED BY <1>4, <1>6, <1>18, <1>24, OthersRead

\* A report whose frames have all been collected is whole, and not crowded on CAN.
LEMMA CollectedIsRead ==
  ASSUME Inv, Known, Stories, Kept, setup.header = 0, setup.keyed, NEW s \in Sender, Ordered(s), reading = s,
         NEW l, l = Last(decoders[s].run)
  PROVE  /\ HasDecoder(s) /\ Ends(l.type) /\ l \in Frames /\ l.from = s /\ l.rep \in 1..Latest(s)
         /\ ReadBy(s, s, l.rep)
<1>1. Key(s) = s /\ s # None /\ HasDecoder(s)
  BY NoneAssumption DEF Key, HasDecoder
<1>2. PICK R : R = decoders[s].run
  OBVIOUS
<1>3. R \in Seq(Frames) /\ R # <<>> /\ l \in Frames /\ l \in Carried /\ Line(s) = <<l>> \o wire[s] /\ wire[s] \in Seq(Frames)
  BY <1>1, <1>2, LineIs DEF Line
<1>4. Collected(R) /\ Ends(l.type)
  BY <1>1, <1>2 DEF Ordered, Decoding
<1>5. l.from = s
  <2>1. InLine(s, <<l>> \o wire[s])
    <3>1. InLine(s, Line(s))
      BY DEF Ordered
    <3> QED BY <1>3, <3>1
  <2> QED BY ONLY <1>3, <2>1, LineMoves
<1>6. l.rep \in 1..Latest(s)
  BY <1>3, <1>5 DEF Known
<1>7. Whole(R)
  BY <1>2, <1>4 DEF Whole, Collected
<1>8. R[1].from = s /\ R[1].rep = l.rep
  <2>1. Len(R) \in 1..Len(R)
    BY <1>3
  <2>2. R[Len(R)].from = R[1].from /\ R[Len(R)].rep = R[1].rep
    BY <1>3, <1>7, <2>1, OfOneReport
  <2> QED BY <1>2, <1>5, <2>2 DEF Last
<1>9. ~Crowded(R)
  <2>1. PICK T, O, B, n : Placed(s, l.rep, T, O, B, n)
    BY <1>6, BeyondIs DEF Stories, Story, Told, Inv
  <2>2. Len(l.data) \in 1..DataSize
    BY <1>3, <1>5, <2>1 DEF Placed, Carries
  <2>3. Last(R) = l
    BY <1>2
  <2>4. PICK a, D : a = Len(l.data) /\ D = DataSize
    OBVIOUS
  <2>5. D \in Nat \ {0} /\ a \in 1..D
    BY <2>2, <2>4, Sizes DEF Inv
  <2>6. ~(a <= 2 * 0)
    BY ONLY <2>5
  <2> QED BY <2>3, <2>4, <2>6 DEF Crowded
<1> QED BY <1>1, <1>2, <1>3, <1>4, <1>5, <1>6, <1>7, <1>8, <1>9 DEF ReadBy, Decodable

\* The callback reads an item; after the last one, the report is read as it was published.
LEMMA ReadItemOrders ==
  ASSUME Inv, Known, Stories, Kept, Kept', GotRead, DOMAIN intact = Sender, \A u \in Sender : Ordered(u),
         UNCHANGED setup, setup.header = 0, setup.keyed, NEW s \in Sender, ReadItem(s)
  PROVE  \A u \in Sender : Ordered(u)'
<1>1. PICK d, g, l, q : d = decoders[s] /\ g = Item(decoders[s]) /\ l = Last(decoders[s].run) /\ q = wire[s]
  OBVIOUS
<1>2. Key(s) = s /\ Key(s)' = s /\ s # None /\ reading = s /\ UNCHANGED <<started, published, enc, wire>>
  BY NoneAssumption DEF Key, ReadItem
<1>3. /\ HasDecoder(s) /\ Ends(l.type) /\ l \in Frames /\ l.from = s /\ l.rep \in 1..Latest(s)
      /\ ReadBy(s, s, l.rep)
  BY <1>1, <1>2, CollectedIsRead
<1>4. /\ decoders' = [decoders EXCEPT ![s] = g]
      /\ \/ reading' = reading /\ UNCHANGED <<got, intact>>
         \/ /\ Len(g.items) = Announced(d) /\ reading' = None
            /\ got' = [got EXCEPT ![s] = [items |-> g.items, run |-> g.run]]
            /\ intact' = IF g.items = Wholes(s, Last(g.run).rep)
                         THEN [intact EXCEPT ![s] = Append(intact[s], Last(g.run).rep)] ELSE intact
  BY <1>1, <1>2 DEF ReadItem
<1>5. decoders'[s] = g /\ \A u \in Sender \ {s} : decoders'[u] = decoders[u]
  BY <1>4 DEF Kept
<1>6. g.run = d.run /\ d.run # <<>>
  <2>1. Keeping(d) /\ \E i \in DOMAIN d.run : Ends(d.run[i].type)
    BY <1>1, <1>2, <1>3 DEF Kept
  <2> QED BY <1>1, <2>1, ItemKeeps DEF Inv, Keeping
<1>7. q \in Seq(Frames) /\ Line(s) = <<l>> \o q /\ Passed(s) = <<l>>
  BY <1>1, <1>3, LineIs DEF Line
<1>8. InLine(s, <<l>> \o q) /\ (enc[s] # None => Sends(<<l>> \o q, enc[s].exported, Latest(s)))
  BY <1>7 DEF Ordered, Sending
<1>9. Line(s)' = IF HasDecoder(s)' THEN <<l>> \o q ELSE q
  <2>1. CASE HasDecoder(s)'
    BY <1>1, <1>2, <1>5, <1>6, <2>1 DEF Line, Passed
  <2>2. CASE ~HasDecoder(s)'
    <3>1. Line(s)' = <<>> \o q
      BY <1>1, <1>2, <2>2 DEF Line, Passed
    <3>2. <<>> \o q = q
      BY ONLY <1>7
    <3> QED BY <2>2, <3>1, <3>2
  <2> QED BY <2>1, <2>2
<1>10. InLine(s, q) /\ Starts(q) /\ (enc[s] # None => Sends(q, enc[s].exported, Latest(s)))
       /\ \A i \in DOMAIN q : Goes(l, q[i])
  <2>1. /\ InLine(s, q) /\ (q # <<>> => Follows(l, q[1])) /\ \A i \in DOMAIN q : Goes(l, q[i])
        /\ \A x, r : Sends(<<l>> \o q, x, r) => IF q = <<>> THEN Sends(<<l>>, x, r) ELSE Sends(q, x, r)
    BY <1>3, <1>7, <1>8, LineMoves
  <2>2. Starts(q)
    BY <1>3, <2>1 DEF Starts, Follows, Continues
  <2>3. enc[s] # None => Sends(q, enc[s].exported, Latest(s))
    <3>1. CASE q # <<>>
      BY <1>8, <2>1, <3>1
    <3>2. CASE q = <<>>
      <4>1. \A x, r : Sends(<<l>>, x, r) => x = 0
        <5>1. Last(<<l>>) = l
          BY DEF Last
        <5> QED BY <1>3, <5>1 DEF Sends
      <4> QED BY <1>8, <2>1, <3>2, <4>1 DEF Sends
    <3> QED BY <3>1, <3>2
  <2> QED BY <2>1, <2>2, <2>3
<1>11. InLine(s, Line(s))' /\ Sending(s)'
  <2>1. InLine(s, Line(s)')
    BY <1>8, <1>9, <1>10
  <2>2. enc'[s] # None => Sends(Line(s)', enc'[s].exported, Latest(s)')
    BY <1>2, <1>8, <1>9, <1>10 DEF Latest
  <2> QED BY <2>1, <2>2 DEF InLine, Sending, Sends
<1>12. Decoding(s)'
  <2>1. CASE HasDecoder(s)'
    <3>1. Collected(decoders[s].run)
      BY <1>3 DEF Ordered, Decoding
    <3> QED BY <1>1, <1>3, <1>5, <1>6, <2>1, <3>1 DEF Decoding, Collected
  <2>2. CASE ~HasDecoder(s)'
    BY <1>9, <1>10, <2>2 DEF Decoding, Starts
  <2> QED BY <2>1, <2>2
<1>13. CASE reading' = reading /\ UNCHANGED <<got, intact>>
  <2>1. Counted(s)'
    <3>1. Ending(s)' = Ending(s)
      BY <1>1, <1>2, <1>5, <1>6, <1>13 DEF Ending, EndsIn
    <3>2. Unread(s)' = Unread(s)
      BY <1>2, <1>13 DEF Unread
    <3> QED BY <1>2, <1>13, <3>1, <3>2 DEF Ordered, Counted
  <2>2. Clean(s)'
    BY <1>13 DEF Ordered, Clean
  <2>3. Ordered(s)'
    BY <1>11, <1>12, <2>1, <2>2 DEF Ordered
  <2> QED BY <1>2, <1>5, <1>13, <2>3, OthersRead
<1>14. CASE /\ Len(g.items) = Announced(d) /\ reading' = None
            /\ got' = [got EXCEPT ![s] = [items |-> g.items, run |-> g.run]]
            /\ intact' = IF g.items = Wholes(s, Last(g.run).rep)
                         THEN [intact EXCEPT ![s] = Append(intact[s], Last(g.run).rep)] ELSE intact
  <2>1. PICK r : r = l.rep
    OBVIOUS
  <2>2. g.items = Wholes(s, r)
    <3>1. ~Wide(s, r)
      BY BeyondIs DEF Inv
    <3> QED BY <1>1, <1>3, <1>14, <2>1, <3>1, LastItem
  <2>3. /\ intact'[s] = Append(intact[s], r) /\ got'[s].items = Wholes(s, r)
        /\ \A u \in Sender \ {s} : got'[u] = got[u] /\ intact'[u] = intact[u]
    <3>1. intact' = [intact EXCEPT ![s] = Append(intact[s], r)]
      BY <1>1, <1>6, <1>14, <2>1, <2>2
    <3> QED BY <1>14, <2>2, <3>1 DEF GotRead
  <2>4. Clean(s)'
    <3>1. PICK w : w = Wholes(s, r)
      OBVIOUS
    <3>2. \A i \in DOMAIN w : w[i] \in Items
      <4>1. r \in Nat /\ Len(started[s][r]) \in Nat
        <5>1. r \in Nat /\ started[s][r] \in Reports
          BY <1>3, <2>1 DEF Inv, Types, Latest
        <5> QED BY <5>1, StreamAssumption
      <4> QED BY <3>1, <4>1 DEF Wholes, Items
    <3>3. None \notin {w[i] : i \in DOMAIN w}
      BY <3>2, NoneAssumption
    <3>4. got'[s].items = w
      BY <2>3, <3>1
    <3> QED BY <3>3, <3>4 DEF Clean
  <2>5. Counted(s)'
    <3>1. PICK p, a, E : p = published[s] /\ a = intact[s] /\ E = EndsIn(q)
      OBVIOUS
    <3>2. /\ p \in Seq(Nat) /\ a \in Seq(Nat) /\ Len(a) <= Len(p) /\ (\A i \in 1..Len(a) : a[i] = p[i])
          /\ (\A i, j \in DOMAIN p : i < j => p[i] < p[j]) /\ Unread(s) = Ending(s)
      BY <3>1 DEF Ordered, Counted, Inv, Types
    <3>3. r \in Nat
      BY <1>3, <2>1
    <3>4. Rest(p, Len(a)) = E \cup {r}
      BY <1>1, <1>2, <2>1, <3>1, <3>2 DEF Unread, Ending, Rest
    <3>5. \A y \in E : r < y
      BY <1>3, <1>10, <2>1, <3>1 DEF EndsIn, Goes
    <3>6. IsRead(p, Append(a, r), E)
      BY ONLY <3>2, <3>3, <3>4, <3>5, CountsRead
    <3>7. PICK b : b = Append(a, r)
      OBVIOUS
    <3>8. intact'[s] = b /\ published'[s] = p /\ reading' # s
      BY <1>2, <1>14, <2>3, <3>1, <3>7
    <3>9. Ending(s)' = E
      BY <1>1, <1>2, <3>1, <3>8 DEF Ending, EndsIn
    <3>10. Unread(s)' = E
      BY <3>6, <3>7, <3>8 DEF Unread, IsRead, Rest
    <3> QED BY <3>2, <3>6, <3>7, <3>8, <3>9, <3>10 DEF Counted, IsRead
  <2>6. Ordered(s)'
    BY <1>11, <1>12, <2>4, <2>5 DEF Ordered
  <2> QED BY <1>2, <1>5, <1>14, <2>3, <2>6, OthersRead
<1> QED BY <1>4, <1>13, <1>14

\* At first nothing is published.
LEMMA OrderInit == Init => OrderInv
<1> SUFFICES ASSUME Init PROVE OrderInv
  OBVIOUS
<1>1. ReadInv /\ DOMAIN intact = Sender
  BY ReadInit DEF Init
<1>2. ASSUME NEW s \in Sender PROVE Ordered(s)
  <2>1. /\ wire[s] = <<>> /\ decoders[s] = None /\ reading = None /\ enc[s] = None /\ published[s] = <<>>
        /\ intact[s] = <<>> /\ got[s] = None
    BY DEF Init
  <2>2. <<>> \o <<>> = <<>> /\ <<>> \in Seq(Frames) /\ <<>> \in Seq(Nat) /\ Len(<<>>) = 0 /\ DOMAIN <<>> = {}
    OBVIOUS
  <2>3. ~HasDecoder(s) /\ Line(s) = <<>>
    BY <2>1, <2>2 DEF HasDecoder, Line, Passed
  <2>4. InLine(s, Line(s))
    <3>1. 1..0 - 1 = {}
      OBVIOUS
    <3> QED BY <2>2, <2>3, <3>1 DEF InLine
  <2>5. Counted(s)
    <3>1. Ending(s) = {}
      BY <2>1, <2>2, NoneAssumption DEF Ending, EndsIn
    <3>2. Unread(s) = {}
      <4>1. 0 + 1..0 = {}
        OBVIOUS
      <4> QED BY <2>1, <2>2, <4>1 DEF Unread
    <3>3. 1..0 = {} /\ 0 <= 0
      OBVIOUS
    <3> QED BY <2>1, <2>2, <3>1, <3>2, <3>3 DEF Counted
  <2> QED BY <2>1, <2>3, <2>4, <2>5 DEF Ordered, Sending, Decoding, Starts, Clean
<1> QED BY <1>1, <1>2 DEF OrderInv

\* Every step keeps the order.
LEMMA OrderNext == OrderInv /\ [Next]_vars => OrderInv'
<1> SUFFICES ASSUME OrderInv, [Next]_vars PROVE OrderInv'
  OBVIOUS
<1>1. ReadInv /\ ReadInv' /\ UNCHANGED setup /\ DOMAIN intact = Sender
  BY ReadNext, SMTT(40) DEF OrderInv, Next, vars
<1>2. DOMAIN intact' = Sender
  BY <1>1 DEF Next, Step, Begin, EncodeItem, Flush, SendFails, Lose, Overtake, Handle, ReadItem, StopsReading, vars
<1>3. ASSUME Reliable PROVE \A u \in Sender : Ordered(u)'
  <2>1. /\ Inv /\ Known /\ Stories /\ Kept /\ Kept' /\ GotRead /\ DOMAIN decoders = Sender
        /\ \A u \in Sender : Ordered(u)
    BY <1>1, <1>3 DEF OrderInv, ReadInv, Kept
  <2>2. setup.losses = 0 /\ setup.header = 0 /\ setup.keyed
    BY <1>3, <2>1, StreamAssumption DEF Reliable, Inv, Types
  <2>3. losses = 0
    BY <2>1, <2>2 DEF Inv, Types
  <2>4. CASE UNCHANGED vars
    <3>1. UNCHANGED <<setup, wire, enc, published, intact, got, started, decoders, reading>>
      BY <2>4 DEF vars
    <3>2. \A u \in Sender : HasDecoder(u)' <=> HasDecoder(u)
      BY <3>1 DEF HasDecoder, Key
    <3> QED BY <2>1, <3>1, <3>2, OrderedStays
  <2>5. ASSUME NEW s \in Sender, NEW widths \in Reports, Begin(s, widths) PROVE \A u \in Sender : Ordered(u)'
    BY <1>1, <2>1, <2>5, BeginOrders
  <2>6. ASSUME NEW s \in Sender, EncodeItem(s) PROVE \A u \in Sender : Ordered(u)'
    BY <1>1, <2>1, <2>6, EncodeItemOrders
  <2>7. ASSUME NEW s \in Sender, Flush(s) PROVE \A u \in Sender : Ordered(u)'
    BY <1>1, <2>1, <2>2, <2>7, FlushOrders
  <2>8. ASSUME NEW s \in Sender, SendFails(s) PROVE \A u \in Sender : Ordered(u)'
    BY <1>1, <2>1, <2>8, SendFailsOrders
  <2>9. ASSUME NEW s \in Sender, Lose(s) \/ Overtake(s) \/ StopsReading(s) PROVE FALSE
    BY <2>2, <2>3, <2>9 DEF Lose, Overtake, StopsReading
  <2>10. ASSUME NEW s \in Sender, Handle(s) PROVE \A u \in Sender : Ordered(u)'
    BY <1>1, <2>1, <2>2, <2>10, HandleOrders
  <2>11. ASSUME NEW s \in Sender, ReadItem(s) PROVE \A u \in Sender : Ordered(u)'
    BY <1>1, <2>1, <2>2, <2>11, ReadItemOrders
  <2> QED BY <2>4, <2>5, <2>6, <2>7, <2>8, <2>9, <2>10, <2>11 DEF Next, Step
<1>4. Reliable' <=> Reliable
  BY <1>1 DEF Reliable
<1> QED BY <1>1, <1>2, <1>3, <1>4 DEF OrderInv

\* On CAN without losses, however many senders fail to send, for reports of any widths: a
\* callback gets the published reports, once and in order, and has got all of them when
\* nothing is under way any more (SubscriptionListener::handle, StreamingThingSetBinaryEncoder).
THEOREM ReportsOnceInOrder == Spec => []InOrderOnce
<1>1. OrderInv => InOrderOnce
  <2> SUFFICES ASSUME OrderInv, Reliable, NEW s \in Sender
               PROVE  /\ IsPrefix(intact[s], published[s])
                      /\ (enc[s] = None /\ wire[s] = <<>> /\ reading = None => intact[s] = published[s])
                      /\ (got[s] # None => None \notin {got[s].items[i] : i \in DOMAIN got[s].items})
    BY DEF InOrderOnce
  <2>1. Counted(s) /\ Clean(s)
    BY DEF OrderInv, Ordered
  <2>2. PICK a, p : a = intact[s] /\ p = published[s]
    OBVIOUS
  <2>3. a \in Seq(Nat) /\ p \in Seq(Nat) /\ Len(a) <= Len(p) /\ \A i \in 1..Len(a) : a[i] = p[i]
    <3>1. published \in [Sender -> Seq(Nat)]
      BY DEF OrderInv, ReadInv, Inv, Types
    <3>2. published[s] \in Seq(Nat)
      BY ONLY <3>1, s \in Sender
    <3>3. /\ intact[s] \in Seq(Nat) /\ Len(intact[s]) <= Len(published[s])
          /\ \A i \in 1..Len(intact[s]) : intact[s][i] = published[s][i]
      BY ONLY <2>1 DEF Counted
    <3> QED BY ONLY <2>2, <3>2, <3>3
  <2>4. IsPrefix(a, p)
    <3>1. SubSeq(a, 1, Len(a)) = SubSeq(p, 1, Len(a))
      BY ONLY <2>3
    <3> QED BY <2>3, <3>1 DEF IsPrefix
  <2>5. ASSUME wire[s] = <<>>, reading = None PROVE a = p
    <3>1. Ending(s) = {}
      BY <2>5, NoneAssumption DEF Ending, EndsIn
    <3>2. {p[k] : k \in Len(a) + 1..Len(p)} = {}
      BY <2>1, <2>2, <3>1 DEF Counted, Unread
    <3>3. Len(p) \notin Len(a) + 1..Len(p)
      BY <3>2
    <3>4. Len(a) = Len(p)
      BY <2>3, <3>3
    <3> QED BY <2>3, <3>4, SMTT(40)
  <2> QED BY <2>1, <2>2, <2>4, <2>5 DEF Clean
<1> QED BY OrderInit, OrderNext, <1>1, PTL DEF Spec
=============================================================================
