---------------------------- MODULE BinaryCodec ----------------------------
(***************************************************************************)
(* The binary encoding: values to CBOR items and back into the variables   *)
(* they came from.  An item has a major type, an argument and, for a       *)
(* string, its characters.  Decoding is in place: what fails half-way      *)
(* stays half done.                                                        *)
(***************************************************************************)
EXTENDS CodecTypes, SequencesExt

CONSTANT MaxText        \* BINARY_ENCODER_MAX_NULL_TERMINATED_STRING_LENGTH

Item(major, n) == [major |-> major, n |-> n, s |-> <<>>]
Bad == Item("bad", 0)                        \* bytes that are no item

\* The bytes of an item: the shortest head, and the characters.
Width(item) ==
  Len(item.s) + (IF item.major \in {"simple", "bad"} \/ item.n < 24 THEN 1
                 ELSE IF item.n < 2^8 THEN 2 ELSE IF item.n < 2^16 THEN 3 ELSE 5)

-----------------------------------------------------------------------------
(* Encoding.                                                               *)

EncodeInt(v) == <<IF v < 0 THEN Item("negative", -1 - v) ELSE Item("unsigned", v)>>
EncodeBool(v) == <<Item("simple", IF v THEN 21 ELSE 20)>>

\* Every kind of string goes through a C string: it ends at a NUL, 0 here, or at MaxText.
EncodeText(v) ==
  LET n == CHOOSE k \in 0..Len(v) :
             (\A i \in 1..k : v[i] # 0) /\ (k = Len(v) \/ v[k + 1] = 0)
      kept == IF n < MaxText THEN n ELSE MaxText
  IN <<[Item("text", kept) EXCEPT !.s = SubSeq(v, 1, kept)]>>

\* Lists and maps begin with their length; nothing marks their end.
ListStart(n) == <<Item("list", n)>>
MapStart(n) == <<Item("map", n)>>

EncodeScalar(t, v) ==
  CASE t.kind \in {"unsigned", "signed"} -> EncodeInt(v)
    [] t.kind = "boolean" -> EncodeBool(v)
    [] t.kind = "text" -> EncodeText(v)
EncodeElements(t, v) == FlattenSeq([i \in 1..Len(v) |-> EncodeScalar(t, v[i])])
EncodePair(id, item) == EncodeInt(id) \o item
EncodeMembers(members, v) ==
  FlattenSeq([i \in 1..Len(v) |-> EncodePair(members[i].id, EncodeScalar(members[i].type, v[i]))])
Encode(t, v) ==
  CASE t.kind = "list" -> ListStart(t.size) \o EncodeElements(t.of, v)
    [] t.kind = "record" -> MapStart(Len(t.members)) \o EncodeMembers(t.members, v)
    [] OTHER -> EncodeScalar(t, v)

-----------------------------------------------------------------------------
(* Decoding: from the items left of the enclosing list or map, over the old *)
(* value.  An item of another type is not taken.                            *)

Result(ok, v, rest) == [ok |-> ok, v |-> v, rest |-> rest]
Starts(s, majors) == s # <<>> /\ Head(s).major \in majors

\* An integer of the right type is taken also when it is out of range, and the largest of
\* the type is; there is no lower limit.
InRange_Over(i, limit) == i <= limit + 1    \* mutant: the limit is one too large
InRange(i, limit) == i < limit
DecodeUnsigned(bits, s, old) ==
  IF ~Starts(s, {"unsigned"}) THEN Result(FALSE, old, s)
  ELSE LET ok == bits > 16 \/ InRange(Head(s).n, 2^bits - 1)
       IN Result(ok, IF ok /\ bits <= 16 THEN Head(s).n % 2^bits ELSE IF ok THEN Head(s).n ELSE old, Tail(s))
DecodeSigned(bits, s, old) ==
  IF ~Starts(s, {"unsigned", "negative"}) THEN Result(FALSE, old, s)
  ELSE LET i == IF Head(s).major = "negative" THEN -1 - Head(s).n ELSE Head(s).n
           ok == bits > 16 \/ InRange(i, 2^(bits - 1) - 1)
       IN Result(ok, IF ok /\ bits <= 16 THEN Wrap(i, bits) ELSE IF ok THEN i ELSE old, Tail(s))
DecodeBool(s, old) ==
  IF Starts(s, {"simple"}) THEN Result(TRUE, Head(s).n = 21, Tail(s)) ELSE Result(FALSE, old, s)

\* Into a char[size]; a longer string is taken and lost.
DecodeText(size, s, old) ==
  IF ~Starts(s, {"text"}) THEN Result(FALSE, old, s)
  ELSE IF Head(s).n <= size THEN Result(TRUE, Head(s).s, Tail(s)) ELSE Result(FALSE, old, Tail(s))

DecodeScalar(t, s, old) ==
  CASE t.kind = "unsigned" -> DecodeUnsigned(t.bits, s, old)
    [] t.kind = "signed" -> DecodeSigned(t.bits, s, old)
    [] t.kind = "boolean" -> DecodeBool(s, old)
    [] t.kind = "text" -> DecodeText(t.size, s, old)

\* A list with fewer elements than the array has is refused behind its head (the decoders
\* of streams cannot go back); the first element that fails ends the decoding.  Bound: no
\* list is longer than its array, whose elements would be written behind it.
EnsureListSize(n, size) == n >= size
DecodeList(t, s, old) ==
  IF ~Starts(s, {"list"}) THEN Result(FALSE, old, s)
  ELSE IF ~EnsureListSize(Head(s).n, t.size) THEN Result(FALSE, old, Tail(s))
  ELSE LET all == [i \in 1..t.size |-> DecodeScalar(t.of, SubSeq(s, i + 1, Len(s)), old[i])]
           good == CHOOSE k \in 0..t.size :
                    (\A i \in 1..k : all[i].ok) /\ (k = t.size \/ ~all[k + 1].ok)
       IN Result(good = t.size, [i \in 1..t.size |-> IF i <= good THEN all[i].v ELSE old[i]],
                 IF good = t.size THEN SubSeq(s, t.size + 2, Len(s)) ELSE all[good + 1].rest)

Skip(s) ==
  LET ok == s # <<>> /\ Head(s) # Bad IN Result(ok, <<>>, IF ok THEN Tail(s) ELSE s)

\* decodeKey: an id or a name; a name leaves the id of the key before in place, and the id
\* is what counts.
DecodeKey(s, id) ==
  IF Starts(s, {"unsigned"}) THEN Result(TRUE, Head(s).n, Tail(s))
  ELSE Result(Starts(s, {"text"}), id, IF Starts(s, {"text"}) THEN Tail(s) ELSE s)

\* switchDecode, and skip() when there is no such member or its decoding failed: also when
\* the value that failed has been taken.
SwitchDecode(members, id, s, v) ==
  LET found == {i \in DOMAIN members : members[i].id = id} IN
  IF found = {} THEN [Skip(s) EXCEPT !.v = v]
  ELSE LET i == CHOOSE k \in found : TRUE
           r == DecodeScalar(members[i].type, s, v[i])
       IN IF r.ok THEN [r EXCEPT !.v = [v EXCEPT ![i] = r.v]] ELSE [Skip(r.rest) EXCEPT !.v = v]

RECURSIVE DecodeEntries(_, _, _, _)
DecodeEntries(members, s, v, id) ==
  LET key == DecodeKey(s, id) IN
  IF ~key.ok THEN Result(s = <<>>, v, s)     \* decodeMapEnd
  ELSE LET r == SwitchDecode(members, key.v, key.rest, v) IN
       IF r.ok THEN DecodeEntries(members, r.rest, r.v, key.v) ELSE r

DecodeRecord(t, s, old) ==
  IF ~Starts(s, {"map"}) THEN Result(FALSE, old, s)
  ELSE LET n == 2 * Head(s).n
           end == IF n < Len(s) THEN n + 1 ELSE Len(s)
           r == DecodeEntries(t.members, SubSeq(s, 2, end), old, -1)
       IN Result(r.ok, r.v, r.rest \o SubSeq(s, end + 1, Len(s)))

Decode(t, s, old) ==
  CASE t.kind = "list" -> DecodeList(t, s, old)
    [] t.kind = "record" -> DecodeRecord(t, s, old)
    [] OTHER -> DecodeScalar(t, s, old)
=============================================================================
