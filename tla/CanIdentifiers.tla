--------------------------- MODULE CanIdentifiers ---------------------------
(***************************************************************************)
(* The 29-bit identifiers of CAN frames: how their fields are set, what    *)
(* identifiers the nodes send with, and what filters they receive with.    *)
(* An identifier is the set of its bits that are one; a filter has a mask, *)
(* the bits that count.                                                    *)
(***************************************************************************)
EXTENDS Integers, SequencesExt

\* The fields; a target, a data id and the numbers of a report share their bits.
sourceMask == 0..7
targetMask == 8..15
dataIdMask == 8..23
sequenceNumberMask == 8..11
multiFrameTypeMask == 12..13
messageNumberMask == 14..15
bridgeMask == 16..23
messageTypeMask == 24..25
messagePriorityMask == 26..28

requestResponse == 0
multiFrameReport == 1
singleFrameReport == 2
network == 3
networkManagement == 4
reportHigh == 5
channel == 6
reportLow == 7
anonymousAddress == 254
broadcastAddress == 255
defaultBridge == 0

CanID == [id |-> {}, mask |-> {}]

\* The bits of a number that fit into a field, at its place.
First(field) == CHOOSE b \in field : \A c \in field : b <= c
Shifted(field, v) == {b \in field : (v \div 2^(b - First(field))) % 2 = 1}

SetField_NoMask(c, field, v) == [id |-> (c.id \ field) \cup Shifted(field, v), mask |-> field]
                                             \* mutant: the mask is assigned, not added to
SetField(c, field, v) == [id |-> (c.id \ field) \cup Shifted(field, v), mask |-> c.mask \cup field]

\* An identifier with the fields of a sequence of <<field, value>> set, one after the other.
With(settings) == FoldLeft(LAMBDA c, s : SetField(c, s[1], s[2]), CanID, settings)

Create(id) == [id |-> id, mask |-> IF \E b \in id : b > 10 THEN 0..28 ELSE 0..10]
GetReplyId(c) ==
  [id |-> (c.id \ (sourceMask \cup targetMask)) \cup {b + 8 : b \in c.id \cap sourceMask}
                                                \cup {b - 8 : b \in c.id \cap targetMask},
   mask |-> c.mask \cup sourceMask \cup targetMask]

\* A controller or a raw socket lets a frame pass.
Accepts(filter, id) == filter.id \cap filter.mask = id \cap filter.mask

-----------------------------------------------------------------------------
(* What a node of address a sends, to the addresses in peers.              *)

RequestId(a, b) == With(<<<<messageTypeMask, requestResponse>>, <<messagePriorityMask, channel>>,
                          <<sourceMask, a>>, <<targetMask, b>>>>)
\* The response to what came with an identifier (txId of the SocketCAN client, too).
ResponseId(id) == GetReplyId(Create(id))
ReportId(a, frameType, seq, msgNo) ==
  With(<<<<messagePriorityMask, reportLow>>, <<messageTypeMask, multiFrameReport>>,
         <<multiFrameTypeMask, frameType>>, <<sequenceNumberMask, seq>>,
         <<sourceMask, a>>, <<messageNumberMask, msgNo>>>>)
ControlId(a, dataId) ==
  With(<<<<sourceMask, a>>, <<dataIdMask, dataId>>, <<messageTypeMask, singleFrameReport>>,
         <<messagePriorityMask, reportLow>>>>)
ClaimId(a) ==
  With(<<<<sourceMask, a>>, <<targetMask, broadcastAddress>>, <<messageTypeMask, network>>,
         <<messagePriorityMask, networkManagement>>>>)
DiscoveryId(a, random) ==
  With(<<<<messageTypeMask, network>>, <<messagePriorityMask, networkManagement>>,
         <<bridgeMask, random>>, <<targetMask, a>>, <<sourceMask, anonymousAddress>>>>)

Frame(kind, from, to, c) == [kind |-> kind, from |-> from, to |-> to, id |-> c.id]
Traffic(a, peers, data, randoms) ==
  UNION {{Frame("message", a, b, RequestId(a, b)),
          Frame("message", a, b, ResponseId(RequestId(b, a).id))} : b \in peers}
  \cup {Frame("report", a, broadcastAddress, ReportId(a, type, seq, msgNo)) :
           type \in 0..3, seq \in {0, 15, 16}, msgNo \in {0, 3, 4}}
  \cup {Frame("control", a, broadcastAddress, ControlId(a, d)) : d \in data}
  \cup {Frame("claim", a, broadcastAddress, ClaimId(a))}
  \cup {Frame("discovery", anonymousAddress, a, DiscoveryId(a, r)) : r \in randoms}

-----------------------------------------------------------------------------
(* What a node of address b listens to.                                    *)

\* ISO-TP contexts have masks of their own: those of the fixed addressing mode, of all
\* fields but priority and source, or, bound to a peer, of all but priority.
IsoTpMask == 8..25
ServerFilter(b) == [With(<<<<messageTypeMask, requestResponse>>, <<messagePriorityMask, channel>>,
                           <<targetMask, b>>>>) EXCEPT !.mask = IsoTpMask]
ClientFilter(b, peer) ==
  [With(<<<<messageTypeMask, requestResponse>>, <<messagePriorityMask, channel>>,
          <<targetMask, b>>, <<sourceMask, peer>>>>) EXCEPT !.mask = IsoTpMask \cup sourceMask]
SocketServerFilter(b) ==
  With(<<<<messageTypeMask, requestResponse>>, <<messagePriorityMask, channel>>,
         <<bridgeMask, defaultBridge>>, <<targetMask, b>>>>)
\* The kernel's ISO-TP socket receives one identifier.
SocketClientFilter(b, peer) ==
  [With(<<<<sourceMask, peer>>, <<targetMask, b>>, <<messageTypeMask, requestResponse>>,
          <<messagePriorityMask, channel>>>>) EXCEPT !.mask = 0..28]
\* Of the priority those bits count that reportHigh and reportLow have in common.
ReportFilter ==
  [With(<<<<messageTypeMask, multiFrameReport>>, <<messagePriorityMask, reportHigh>>>>)
     EXCEPT !.mask = messageTypeMask \cup Shifted(messagePriorityMask, reportHigh)]
ControlFilter == With(<<<<messageTypeMask, singleFrameReport>>, <<messagePriorityMask, reportLow>>>>)

\* addFilter adds the message type.
ManagementFilter_AnyType(settings) == With(settings)    \* mutant: the type is not added
ManagementFilter(settings) == With(Append(settings, <<messageTypeMask, network>>))
ClaimFilter == ManagementFilter(<<<<targetMask, broadcastAddress>>, <<bridgeMask, 0>>>>)
AnyDiscoveryFilter == ManagementFilter(<<<<sourceMask, anonymousAddress>>>>)
DiscoveryFilter(b) == ManagementFilter(<<<<sourceMask, anonymousAddress>>, <<targetMask, b>>>>)
LookoutFilter == With(<<<<targetMask, broadcastAddress>>, <<messageTypeMask, network>>>>)
ClaimerFilter(b) ==
  With(<<<<sourceMask, anonymousAddress>>, <<targetMask, b>>, <<messageTypeMask, network>>>>)

AnyNode == -1
Listener(kind, from, to, filter) == [kind |-> kind, from |-> from, to |-> to, filter |-> filter]
Listening(b, peers) ==
  {Listener("message", AnyNode, b, ServerFilter(b)), Listener("message", AnyNode, b, SocketServerFilter(b)),
   Listener("report", AnyNode, AnyNode, ReportFilter), Listener("control", AnyNode, AnyNode, ControlFilter),
   Listener("claim", AnyNode, AnyNode, ClaimFilter), Listener("claim", AnyNode, AnyNode, LookoutFilter),
   Listener("discovery", AnyNode, AnyNode, AnyDiscoveryFilter),
   Listener("discovery", AnyNode, b, DiscoveryFilter(b)), Listener("discovery", AnyNode, b, ClaimerFilter(b))}
  \cup UNION {{Listener("message", p, b, ClientFilter(b, p)),
               Listener("message", p, b, SocketClientFilter(b, p))} : p \in peers}

\* Is this frame meant for this listener?
Meant(frame, l) ==
  frame.kind = l.kind /\ l.from \in {AnyNode, frame.from} /\ l.to \in {AnyNode, frame.to}
=============================================================================
