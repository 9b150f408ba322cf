---------------------------- MODULE ReportStream ----------------------------
(***************************************************************************)
(* Reports of several frames: the streaming encoder of a publisher fills a *)
(* buffer of twice the frame size and sends its first half whenever more   *)
(* than that is in it; a subscriber keeps a decoder for each sender, which *)
(* queues the frames of a report and, when the last one is there, decodes  *)
(* them through a buffer of the same size.                                 *)
(***************************************************************************)
EXTENDS Integers, Sequences, SequencesExt, FiniteSets

CONSTANTS
  Sender, None,
  Setups,       \* the systems to look at: records of
                \*   size, header - of a frame (CAN has no header of its own)
                \*   senders      - who publishes
                \*   keyed        - has each sender a decoder of its own?
                \*   losses       - how many frames may be lost or overtaken
                \*   fails        - how many sends may fail
                \*   count        - bound: reports of each sender
  Reports       \* what is published: the widths of the items of a report

ASSUME StreamAssumption ==
  /\ Setups \subseteq [size : Nat \ {0}, header : Nat, senders : SUBSET Sender, keyed : BOOLEAN,
                       losses : Nat, fails : Nat, count : Nat]
  /\ \A u \in Setups : u.header < u.size
  /\ \A u \in Setups : u.header = 0 => u.keyed \* on CAN a sender is known by its address
  /\ Reports \subseteq Seq(Nat \ {0}) \ {<<>>}

VARIABLES
  setup,        \* the system looked at; it never changes
  started,      \* the reports each sender has begun, by their widths
  published,    \* those for which publish() returned true, by number
  enc,          \* the encoder of a sender
  number,       \* _messageNumber
  wire,         \* frames of a sender on their way
  decoders,     \* decodersBySender
  reading,      \* the sender of the report a callback is reading, or None
  got,          \* what the last callback read, by sender
  intact,       \* the reports read as they were published, by number, in order
  losses, fails

vars == <<setup, started, published, enc, number, wire, decoders, reading, got, intact, losses, fails>>

Size == setup.size
DataSize == setup.size - setup.header
Limit == 2 * Size                              \* of the two buffers

\* Byte k of item i of report r of sender s; item 0 is the type of the message.
Bytes == Sender \X Nat \X Nat \X Nat
Items == Sender \X Nat \X Nat
Byte(s, r, i, k) == <<s, r, i, k>>
ItemBytes(s, r, i, w) == [k \in 1..w |-> Byte(s, r, i, k - 1)]
Wholes(s, r) == [i \in 1..Len(started[s][r]) |-> <<s, r, i>>]

Encoder == [pend : Seq(Bytes), exported : Nat, end : Nat, item : Nat, seq : 0..15]
Frames == [type : {"single", "first", "consecutive", "last"}, seq : 0..15, number : 0..3,
           data : Seq(Bytes), rep : Nat, from : Sender, at : Nat]
Decoder == [queue : Seq(Frames), buf : Seq(Bytes \cup {None}), run : Seq(Frames),
            pos : Nat, end : Nat, items : Seq(Items \cup {None})]

ASSUME NoneAssumption == None \notin Sender \cup Bytes \cup Items \cup Encoder \cup Decoder

NewEncoder(type) == [pend |-> <<type>>, exported |-> 0, end |-> Limit, item |-> 1, seq |-> 0]

Init ==
  /\ setup \in Setups
  /\ started = [s \in Sender |-> <<>>] /\ published = [s \in Sender |-> <<>>]
  /\ enc = [s \in Sender |-> None] /\ number = [s \in Sender |-> 0]
  /\ wire = [s \in Sender |-> <<>>] /\ decoders = [s \in Sender |-> None]
  /\ got = [s \in Sender |-> None] /\ intact = [s \in Sender |-> <<>>]
  /\ reading = None /\ losses = 0 /\ fails = 0

-----------------------------------------------------------------------------
(* The publisher.                                                          *)

\* publish: the constructor of the encoder puts the type of the message first.
Begin(s, widths) ==
  /\ s \in setup.senders /\ enc[s] = None /\ Len(started[s]) < setup.count
  /\ started' = [started EXCEPT ![s] = Append(@, widths)]
  /\ enc' = [enc EXCEPT ![s] = NewEncoder(Byte(s, Len(started'[s]), 0, 0))]
  /\ UNCHANGED <<published, number, wire, decoders, reading, got, intact, losses, fails>>

FrameType(e, flushing) ==
  IF e.exported = 0 THEN IF flushing THEN "single" ELSE "first"
  ELSE IF flushing THEN "last" ELSE "consecutive"
Ends(type) == type \in {"single", "last"}

\* write: a frame with the first len bytes of the buffer; rep, from and at are history: of
\* which report, and from which of its bytes on.
Frame(s, e, len, flushing) ==
  [type |-> FrameType(e, flushing), seq |-> e.seq, number |-> number[s],
   data |-> SubSeq(e.pend, 1, len), rep |-> Len(started[s]), from |-> s,
   at |-> e.exported]

\* writeIfNecessary, when the frame was sent: the second half moves to the front.  The end
\* given to zcbor then lies behind the buffer by the length of the header.
Overfull(e) == Len(e.pend) > DataSize
Shifted(e) ==
  [e EXCEPT !.pend = SubSeq(@, DataSize + 1, Len(@)), !.exported = @ + DataSize,
            !.end = Limit + setup.header, !.seq = (@ + 1) % 16]

Put(s, e, w) == [e EXCEPT !.pend = @ \o ItemBytes(s, Len(started[s]), e.item, w), !.item = @ + 1]
HasRoom_Start(e, w) == setup.header + Len(e.pend) < e.end   \* mutant: only the start is checked
HasRoom(e, w) == setup.header + Len(e.pend) + w <= e.end

\* zcbor has written behind _buffer, which is undefined: nothing is said of what follows.
Overrun == \E s \in Sender : enc[s] # None /\ setup.header + Len(enc[s].pend) > Limit

\* Encode the next item: ensureState, and zcbor, which refuses what has no room.  When
\* either fails publish() returns false; what was sent of the report stays sent.
EncodeItem(s) ==
  /\ enc[s] # None /\ enc[s].item <= Len(Last(started[s]))
  /\ LET e == enc[s] w == Last(started[s])[e.item]
         e1 == IF Overfull(e) THEN Shifted(e) ELSE e IN
     /\ wire' = IF Overfull(e) THEN [wire EXCEPT ![s] = Append(@, Frame(s, e, DataSize, FALSE))] ELSE wire
     /\ enc' = [enc EXCEPT ![s] = IF HasRoom(e1, w) THEN Put(s, e1, w) ELSE None]
  /\ UNCHANGED <<started, published, number, decoders, reading, got, intact, losses, fails>>

NextNumber(n) == (n + 1) % 4

\* flush: what is left in one or two frames.
Flush(s) ==
  /\ enc[s] # None /\ enc[s].item > Len(Last(started[s]))
  /\ LET e == enc[s]
         e1 == IF Overfull(e) THEN Shifted(e) ELSE e
         full == IF Overfull(e) THEN <<Frame(s, e, DataSize, FALSE)>> ELSE <<>> IN
     wire' = [wire EXCEPT ![s] = @ \o full \o <<Frame(s, e1, Len(e1.pend), TRUE)>>]
  /\ published' = [published EXCEPT ![s] = Append(@, Len(started[s]))]
  /\ number' = [number EXCEPT ![s] = NextNumber(@)] /\ enc' = [enc EXCEPT ![s] = None]
  /\ UNCHANGED <<started, decoders, reading, got, intact, losses, fails>>

\* A send fails, in ensureState or in flush, where the number advances all the same.
SendFails(s) ==
  /\ enc[s] # None /\ fails < setup.fails
  /\ LET flushing == enc[s].item > Len(Last(started[s])) IN
     /\ flushing \/ Overfull(enc[s])
     /\ number' = IF flushing /\ ~Overfull(enc[s]) THEN [number EXCEPT ![s] = NextNumber(@)] ELSE number
  /\ enc' = [enc EXCEPT ![s] = None] /\ fails' = fails + 1
  /\ UNCHANGED <<started, published, wire, decoders, reading, got, intact, losses>>

-----------------------------------------------------------------------------
(* The network.                                                            *)

Lose(s) ==
  /\ wire[s] # <<>> /\ losses < setup.losses
  /\ wire' = [wire EXCEPT ![s] = Tail(@)] /\ losses' = losses + 1
  /\ UNCHANGED <<started, published, enc, number, decoders, reading, got, intact, fails>>

Overtake(s) ==
  /\ Len(wire[s]) > 1 /\ losses < setup.losses /\ setup.header > 0
  /\ wire' = [wire EXCEPT ![s] = <<@[2], @[1]>> \o SubSeq(@, 3, Len(@))] /\ losses' = losses + 1
  /\ UNCHANGED <<started, published, enc, number, decoders, reading, got, intact, fails>>

-----------------------------------------------------------------------------
(* The subscriber.                                                         *)

Someone == CHOOSE k \in Sender : TRUE
Key_Shared(s) == Someone                        \* mutant: one decoder for all
Key(s) == IF setup.keyed THEN s ELSE Someone

\* StreamingQueuingThingSetBinaryDecoder::read: as many frames of the queue as fit are
\* copied into the buffer from pos on.  What lies beyond them stays in the buffer.
Data(frames) == FlattenSeq([i \in DOMAIN frames |-> frames[i].data])
Fits(queue, pos, n) == pos + Len(Data(SubSeq(queue, 1, n))) <= Limit
Fitting(queue, pos) ==
  CHOOSE n \in 0..Len(queue) :
    (\A m \in 1..n : Fits(queue, pos, m)) /\ (n = Len(queue) \/ ~Fits(queue, pos, n + 1))
Read(d, pos) ==
  LET n == Fitting(d.queue, pos) data == Data(SubSeq(d.queue, 1, n)) IN
  [d EXCEPT !.queue = SubSeq(@, n + 1, Len(@)), !.end = IF d.queue = <<>> THEN 0 ELSE pos + Len(data),
            !.buf = SubSeq(@, 1, pos) \o data \o SubSeq(@, pos + Len(data) + 1, Limit)]

\* ensureLength: when more than half of the buffer is decoded, the rest moves to the
\* front and read() adds what fits.  The length zcbor is given counts the rest twice.
EnsureLength(d) ==
  IF d.pos <= DataSize THEN d
  ELSE LET moved == [d EXCEPT !.buf = SubSeq(@, DataSize + 1, 2 * DataSize) \o SubSeq(@, DataSize + 1, Limit)]
           e == Read(moved, DataSize) IN
       [e EXCEPT !.pos = @ - DataSize, !.end = @ + DataSize]

\* The next item; what cannot be decoded ends the decoding, what does not belong together
\* is decoded as something else.
At(d, i) == IF i <= Limit THEN d.buf[i] ELSE None
Item(d) ==
  LET e == EnsureLength(d) b == At(e, e.pos + 1) IN
  IF b = None \/ b[3] = 0 \/ b[4] # 0 THEN [e EXCEPT !.items = Append(@, None)]
  ELSE LET w == started[b[1]][b[2]][b[3]]
           good == \A k \in 1..w : At(e, e.pos + k) = [b EXCEPT ![4] = k - 1] IN
       IF e.pos + w > e.end THEN [e EXCEPT !.items = Append(@, None)]
       ELSE [e EXCEPT !.pos = @ + w,
                      !.items = Append(@, IF good THEN <<b[1], b[2], b[3]>> ELSE None)]

\* How many items the callback reads: the report announces it.
Announced(d) == LET b == d.buf[2] IN IF b = None THEN 1 ELSE Len(started[b[1]][b[2]])

NewDecoder == [queue |-> <<>>, buf |-> [i \in 1..Limit |-> None], run |-> <<>>,
               pos |-> 0, end |-> 0, items |-> <<>>]   \* run: history, frames since a first one

\* enqueue, with the last frame: fill the buffer and start behind the type.
Ready(d) == [Read(d, 0) EXCEPT !.pos = 1, !.end = Limit, !.items = <<>>]

StartsNew_First(type) == type = "first"         \* mutant: a single frame goes to the old decoder
StartsNew(type) == type \in {"first", "single"}

\* recvfrom: what is longer than a frame is cut off.
Received(f) == IF Len(f.data) > DataSize THEN [f EXCEPT !.data = SubSeq(@, 1, DataSize)] ELSE f

\* SubscriptionListener::handle: a first frame gets a new decoder, a frame of a sender
\* without a decoder is dropped; the decoder stays there after the callback.
Handle(s) ==
  /\ reading = None /\ wire[s] # <<>>
  /\ wire' = [wire EXCEPT ![s] = Tail(@)]
  /\ LET frame == Received(Head(wire[s])) k == Key(s)
         d == IF StartsNew(frame.type) THEN NewDecoder ELSE decoders[k]
         e == [d EXCEPT !.queue = Append(@, frame),
                        !.run = IF frame.type \in {"first", "single"} THEN <<frame>> ELSE Append(@, frame)] IN
     \/ /\ d # None /\ ~Ends(frame.type)
        /\ decoders' = [decoders EXCEPT ![k] = e] /\ UNCHANGED reading
     \/ /\ d # None /\ Ends(frame.type)          \* the callback is called
        /\ decoders' = [decoders EXCEPT ![k] = Ready(e)]
        /\ reading' = s
     \/ d = None /\ UNCHANGED <<decoders, reading>>
  /\ UNCHANGED <<started, published, enc, number, got, intact, losses, fails>>

\* The callback reads the next item, and returns after the last one.
ReadItem(s) ==
  /\ reading = s
  /\ LET k == Key(s) d == Item(decoders[k]) IN
     /\ decoders' = [decoders EXCEPT ![k] = d]
     /\ \/ Len(d.items) < Announced(decoders[k]) /\ UNCHANGED <<got, intact, reading>>
        \/ /\ Len(d.items) = Announced(decoders[k])
           /\ got' = [got EXCEPT ![k] = [items |-> d.items, run |-> d.run]]
           /\ intact' = LET rep == Last(d.run).rep IN
                IF d.items = Wholes(s, rep) THEN [intact EXCEPT ![s] = Append(@, rep)] ELSE intact
           /\ reading' = None
  /\ UNCHANGED <<started, published, enc, number, wire, losses, fails>>

\* Or it returns without having read everything.
StopsReading(s) ==
  /\ reading = s /\ setup.losses > 0 /\ reading' = None
  /\ UNCHANGED <<started, published, enc, number, wire, decoders, got, intact, losses, fails>>

Step ==
  \E s \in Sender :
    \/ \E widths \in Reports : Begin(s, widths)
    \/ EncodeItem(s) \/ Flush(s) \/ SendFails(s)
    \/ Lose(s) \/ Overtake(s) \/ Handle(s) \/ ReadItem(s) \/ StopsReading(s)

Next == UNCHANGED setup /\ ~Overrun /\ Step

Spec == Init /\ [][Next]_vars

-----------------------------------------------------------------------------
(* Properties.                                                             *)

\* The variables keep their types.
TypeOK ==
  /\ \A s \in Sender : Len(started[s]) <= setup.count
  /\ number \in [Sender -> 0..3] /\ wire \in [Sender -> Seq(Frames)]
  /\ enc \in [Sender -> Encoder \cup {None}]
  /\ losses \in 0..setup.losses /\ fails \in 0..setup.fails

\* The frames of one report, all of them, in order, and nothing else.
Continues(f, g) == g.from = f.from /\ g.rep = f.rep /\ ~Ends(f.type) /\ g.at = f.at + Len(f.data)
Whole(run) ==
  /\ run # <<>> /\ run[1].at = 0 /\ Ends(Last(run).type)
  /\ \A i \in 1..Len(run) - 1 : Continues(run[i], run[i + 1])

\* A report with an item wider than a datagram: zcbor may write it behind the buffer, its
\* last frame may be too long, and a decoder need not have it at once.
Wide(s, r) == setup.header > 0 /\ \E i \in DOMAIN started[s][r] : started[s][r][i] > DataSize

\* A report all of whose frames arrive, one after the other, is read as it was published,
\* however long, and whatever was lost or left unread before (handle starts a new decoder,
\* encoder and decoder move their buffers in step).  Datagrams only: not if an item is too
\* wide, or if the last frame is so short that it fits into the buffer behind two others,
\* where the next move of the buffer leaves it behind.
AsPublished(k) == got[k].items = Wholes(got[k].run[1].from, got[k].run[1].rep)
Crowded(run) == Len(run) > 2 /\ Len(Last(run).data) <= 2 * setup.header
WholeReportsRead ==
  \A k \in Sender : got[k] # None /\ Whole(got[k].run) =>
    Wide(got[k].run[1].from, got[k].run[1].rep) \/ Crowded(got[k].run) \/ AsPublished(k)

\* read() keeps the buffer of a decoder as long as it is, whatever is in the queue.
BuffersKept == \A k \in Sender : decoders[k] # None => Len(decoders[k].buf) = Limit
\* What a subscriber makes of the reports, whatever is lost: their buffers and their items.
ReportsRead == BuffersKept /\ WholeReportsRead

\* The same for every report without a wide item.
EveryWholeReportRead ==
  \A k \in Sender : got[k] # None /\ Whole(got[k].run) =>
    Wide(got[k].run[1].from, got[k].run[1].rep) \/ AsPublished(k)

\* On CAN without losses the callback gets exactly the published reports, once and in
\* order, and has got all of them when nothing is under way any more; a report that
\* publish() gave up is never seen.
Reliable == setup.losses = 0 /\ setup.header = 0
InOrderOnce ==
  Reliable =>
    \A s \in Sender : /\ IsPrefix(intact[s], published[s])
                       /\ (enc[s] = None /\ wire[s] = <<>> /\ reading = None => intact[s] = published[s])
                       /\ (got[s] # None => None \notin {got[s].items[i] : i \in DOMAIN got[s].items})

\* The encoder writes nothing beyond its buffer, and no frame is longer than the transport
\* takes (writeIfNecessary, flush), with one exception: when a report has an item wider
\* than a datagram, the encoder may write behind the buffer after the first datagram, and
\* the last datagram may be too long, both by no more than the length of the header.
Beyond(s, r) == IF Wide(s, r) THEN setup.header ELSE 0
BufferKept(s) ==
  enc[s] # None => setup.header + Len(enc[s].pend) <=
                     Limit + (IF enc[s].exported > 0 THEN Beyond(s, Len(started[s])) ELSE 0)
FrameFits(s, f) == Len(f.data) <= DataSize + (IF f.type = "last" THEN Beyond(s, f.rep) ELSE 0)
EncoderWithinBuffer ==
  \A s \in Sender : BufferKept(s) /\ \A i \in DOMAIN wire[s] : FrameFits(s, wire[s][i])

\* Frames of two reports, the first of them published, do not have the same number, so
\* that a subscriber could tell a report from the next (ThingSetCanServerTransport::publish).
NumbersTellApart ==
  \A s \in Sender : \A i, j \in DOMAIN wire[s] :
    wire[s][j].rep = wire[s][i].rep + 1 /\ wire[s][i].rep \in {published[s][k] : k \in DOMAIN published[s]} =>
      wire[s][i].number # wire[s][j].number

\* The frames a publisher makes: they fit, and tell one report from the next.
FramesSound == TypeOK /\ EncoderWithinBuffer /\ NumbersTellApart
=============================================================================
