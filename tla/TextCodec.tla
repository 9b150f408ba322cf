----------------------------- MODULE TextCodec -----------------------------
(***************************************************************************)
(* The text encoding: a text is a sequence of words (brackets, separators, *)
(* blanks, numbers, truth values and strings), each of which stands for    *)
(* its characters; a place in a text is the number of a word.              *)
(* Bounds: a number or truth value is followed by a separator, a bracket   *)
(* or a blank; strings have neither quotes nor escapes, and do not begin   *)
(* with a bracket; the name of the member with id i is <<i>>.              *)
(***************************************************************************)
EXTENDS CodecTypes, FiniteSetsExt, SequencesExt

CONSTANT MaxTokens      \* TEXT_DECODER_DEFAULT_MAX_TOKENS

Word(k, n, s) == [k |-> k, n |-> n, s |-> s]
Mark(c) == Word(c, 0, <<>>)                  \* { } [ ] : , and a blank
Number(i) == Word("number", i, <<>>)
Truth(b) == Word("truth", IF b THEN 1 ELSE 0, <<>>)
Quoted(s) == Word("string", 0, s)
Cut(s) == Word("cut", 0, s)                  \* without its closing quote
Odd == Mark("odd")                           \* a character that is not printable, or NUL

Digits(n) == CHOOSE d \in 1..9 : n < 10^d /\ (d = 1 \/ n >= 10^(d - 1))
Width(w) ==
  CASE w.k = "number" -> IF w.n < 0 THEN 1 + Digits(-w.n) ELSE Digits(w.n)
    [] w.k = "truth" -> IF w.n = 1 THEN 4 ELSE 5
    [] w.k = "string" -> 2 + Len(w.s)
    [] w.k = "cut" -> 1 + Len(w.s)
    [] OTHER -> 1

-----------------------------------------------------------------------------
(* The tokens of a text (jsmn, not strict, without links to parents).  Its *)
(* result is not looked at: what was found before an error counts.         *)

Opens == [c \in {"{", "["} |-> IF c = "{" THEN "object" ELSE "array"]
Closes == [c \in {"}", "]"} |-> IF c = "}" THEN "object" ELSE "array"]

AddToken(p, type, i) ==
  IF Len(p.tokens) >= MaxTokens THEN [p EXCEPT !.stopped = TRUE]
  ELSE [p EXCEPT !.tokens = Append(@, [type |-> type, start |-> i, open |-> type \in {"object", "array"}])]

\* A bracket closes the last container that is open, which must be of its kind.
CloseToken(p, type) ==
  LET open == {j \in DOMAIN p.tokens : p.tokens[j].open} IN
  IF open = {} \/ p.tokens[Max(open)].type # type THEN [p EXCEPT !.stopped = TRUE]
  ELSE [p EXCEPT !.tokens[Max(open)].open = FALSE]

Tokens(text) ==
  LET Next(p, i) ==
        LET k == text[i].k IN
        CASE p.stopped \/ k \in {":", ",", " "} -> p
          [] ~p.stopped /\ k \in DOMAIN Opens -> AddToken(p, Opens[k], i)
          [] ~p.stopped /\ k \in DOMAIN Closes -> CloseToken(p, Closes[k])
          [] ~p.stopped /\ k \in {"number", "truth"} -> AddToken(p, "primitive", i)
          [] ~p.stopped /\ k = "string" -> AddToken(p, "string", i)
          [] ~p.stopped /\ k \in {"cut", "odd"} -> [p EXCEPT !.stopped = TRUE]
  IN FoldLeft(Next, [tokens |-> <<>>, stopped |-> FALSE], [i \in DOMAIN text |-> i]).tokens

-----------------------------------------------------------------------------
(* Decoding, over the old value.  A decoder looks at tokens in turn, and   *)
(* at the text itself for the end of a container.  Nobody clears _tokens:  *)
(* behind the tokens of its text a decoder finds zeros, or what is left of *)
(* the tokens of an earlier text, the first of them of some type; and      *)
(* behind the last it has room for, whatever lies behind the array.        *)

Leftovers == {"none", "object", "array", "string", "primitive"}

\* The first size words of what is in memory are the text.
Decoder(memory, size, junk) ==
  [memory |-> memory, tokens |-> Tokens(SubSeq(memory, 1, size)),
   i |-> 1, pos |-> 1, junk |-> junk, wild |-> FALSE]

Result(d, ok, v) == [d |-> d, ok |-> ok, v |-> v]

Token(d) ==
  IF d.i <= Len(d.tokens) THEN d.tokens[d.i] ELSE [type |-> d.junk, start |-> 1, open |-> FALSE]

WordAt(d) == IF d.pos <= Len(d.memory) THEN d.memory[d.pos] ELSE Odd

\* To take a leftover for a token of this text goes on at any place of it, or behind it
\* (wild): what follows is not defined.
ExpectType(d, type) ==
  LET t == Token(d) IN
  IF t.type # type THEN Result(d, FALSE, 0)
  ELSE IF d.i > Len(d.tokens) THEN Result([d EXCEPT !.wild = TRUE], FALSE, 0)
  ELSE Result([d EXCEPT !.i = @ + 1,
                        !.pos = t.start + (IF type \in {"object", "array"} THEN 1 ELSE 0)], TRUE, 0)

\* strtoul, strtol: what is no number is 0 and is not passed over.
Narrow(t, n) ==
  CASE t.bits > 16 -> n
    [] t.kind = "unsigned" /\ t.bits <= 16 -> n % 2^t.bits
    [] t.kind = "signed" /\ t.bits <= 16 -> Wrap(n, t.bits)
NumberAt(t, d, w) ==
  IF w.k = "number" THEN Result([d EXCEPT !.pos = @ + 1], TRUE, Narrow(t, w.n)) ELSE Result(d, TRUE, 0)
DecodeNumber(t, d, old) ==
  LET r == ExpectType(d, "primitive")
  IN IF r.ok THEN NumberAt(t, r.d, WordAt(r.d)) ELSE Result(r.d, FALSE, old)

\* Neither truth values nor strings are passed over.
DecodeBool(d, old) ==
  LET r == ExpectType(d, "primitive")
      ok == r.ok /\ WordAt(r.d).k = "truth"
  IN Result(r.d, ok, IF ok THEN WordAt(r.d).n = 1 ELSE old)

\* Into a char[size]: what is behind the new characters stays.
DecodeText(size, d, old) ==
  LET r == ExpectType(d, "string")
      s == WordAt(r.d).s
      ok == r.ok /\ Len(s) <= size
  IN Result(r.d, ok, IF ok THEN [i \in 1..size |-> IF i <= Len(s) THEN s[i] ELSE old[i]] ELSE old)

DecodeEnd_Assumed(d, bracket) ==             \* mutant: the bracket is not looked for
  Result([d EXCEPT !.pos = @ + 1], TRUE, 0)
\* decodeMapEnd, decodeListEnd: the bracket must be the next character.
DecodeEnd(d, bracket) ==
  IF WordAt(d).k = bracket THEN Result([d EXCEPT !.pos = @ + 1], TRUE, 0) ELSE Result(d, FALSE, 0)

Skip(d) ==
  LET next == [d EXCEPT !.i = @ + 1]
  IN [next EXCEPT !.pos = Token(next).start, !.wild = @ \/ (next.i > Len(d.tokens) /\ d.junk # "none")]

\* An id or a name.  Nothing tells the keys of a map from those that follow it.  The id of
\* the key before counts also when there is a name.
DecodeKey(d, id) ==
  LET n == DecodeNumber(Unsigned(32), d, id)
      Named(s) == Result(s.d, s.ok /\ ~s.d.wild, [id |-> id, name |-> WordAt(s.d).s])
  IN IF n.ok THEN Result(n.d, TRUE, [id |-> n.v, name |-> <<>>]) ELSE Named(ExpectType(n.d, "string"))
NoId == -1

RECURSIVE Decode(_, _, _), DecodeEntries(_, _, _)

\* switchDecode, and skip() when there is no such member or its decoding failed.
DecodeMember(members, key, d, v) ==
  LET found == {i \in DOMAIN members :
                  IF key.id # NoId THEN members[i].id = key.id ELSE key.name = <<members[i].id>>}
  IN IF found = {} THEN Result(Skip(d), TRUE, v)
     ELSE LET i == Min(found)
              r == Decode(members[i].type, d, v[i])
          IN Result(IF r.ok THEN r.d ELSE Skip(r.d), TRUE, [v EXCEPT ![i] = r.v])

DecodeEntries(members, key, v) ==
  IF ~key.ok THEN [DecodeEnd(key.d, "}") EXCEPT !.v = v]
  ELSE LET r == DecodeMember(members, key.v, key.d, v)
       IN DecodeEntries(members, DecodeKey(r.d, key.v.id), r.v)

DecodeRecord(t, d, old) ==
  LET r == ExpectType(d, "object") IN
  IF r.ok THEN DecodeEntries(t.members, DecodeKey(r.d, NoId), old) ELSE Result(r.d, FALSE, old)

\* A list is as long as the array (ensureListSize): it must end behind that many elements.
DecodeList(t, d, old) ==
  LET r == ExpectType(d, "array")
      Element(a, i) == LET e == Decode(t.of, a.d, old[i]) IN
                       IF a.ok THEN Result(e.d, e.ok, [a.v EXCEPT ![i] = e.v]) ELSE a
      all == FoldLeft(Element, [r EXCEPT !.v = old], [i \in 1..t.size |-> i])
  IN IF all.ok THEN [DecodeEnd(all.d, "]") EXCEPT !.v = all.v] ELSE all

Decode(t, d, old) ==
  CASE t.kind \in {"unsigned", "signed"} -> DecodeNumber(t, d, old)
    [] t.kind = "boolean" -> DecodeBool(d, old)
    [] t.kind = "text" -> DecodeText(t.size, d, old)
    [] t.kind = "list" -> DecodeList(t, d, old)
    [] t.kind = "record" -> DecodeRecord(t, d, old)

\* The body of an update, entry by entry, as handleUpdate decodes it into variables of type
\* t.  It ends with the value that is none, bad here; an entry by "wild" is not defined.
RECURSIVE Entries(_, _, _)
Entries(t, key, bad) ==
  LET value == DecodeNumber(t, key.d, bad)
      By(kind) == << [by |-> kind, id |-> key.v.id, name |-> key.v.name, v |-> value.v] >>
  IN CASE key.d.wild -> By("wild")
       [] ~key.d.wild /\ ~key.ok -> <<>>
       [] key.ok /\ value.d.wild -> By("wild")
       [] key.ok /\ ~value.d.wild ->
            By(IF key.v.id = NoId THEN "name" ELSE "id") \o
            (IF value.ok THEN Entries(t, DecodeKey(value.d, NoId), bad) ELSE <<>>)

Update(t, d, bad) ==
  LET r == ExpectType(d, "object") IN IF r.ok THEN Entries(t, DecodeKey(r.d, NoId), bad) ELSE <<>>

-----------------------------------------------------------------------------
(* Encoding, into a buffer with room for so many characters more.          *)

Buffer(room) == [out |-> <<>>, room |-> room, ok |-> TRUE]

Put(e, w) ==
  IF Width(w) <= e.room THEN [out |-> Append(e.out, w), room |-> e.room - Width(w), ok |-> TRUE]
  ELSE [e EXCEPT !.ok = FALSE]

\* A number that fills the buffer loses its last character to the terminating NUL.
EncodeNumber(e, n) ==
  LET r == Put(e, Number(n)) IN
  IF r.ok /\ r.room = 0 THEN [r EXCEPT !.out[Len(r.out)] = Odd] ELSE r

\* Quote, characters up to the NUL, quote, as far as they fit.
EncodeText(e, v) ==
  LET n == Min({i \in 1..Len(v) + 1 : i > Len(v) \/ v[i] = 0}) - 1
      s == SubSeq(v, 1, n)
      fits == CASE e.room > n + 1 -> <<Quoted(s)>>
                [] e.room = n + 1 -> <<Cut([i \in 1..n |-> IF i < n THEN s[i] ELSE 0])>>
                [] e.room \in 1..n -> <<Cut(<<>>)>>
                [] OTHER -> <<>>
  IN [out |-> e.out \o fits, ok |-> e.room > n + 1,
      room |-> e.room - (IF fits = <<>> THEN 0 ELSE Width(fits[1]))]

\* encodeMapEnd, encodeListEnd: the separator behind the last value goes.
EncodeEnd(e, bracket) ==
  LET last == Len(e.out) IN
  IF e.out # <<>> /\ e.out[last].k = ","
  THEN Put([e EXCEPT !.out = Front(@), !.room = @ + 1], Mark(bracket))
  ELSE Put(e, Mark(bracket))

Then(e, w) == IF e.ok THEN Put(e, w) ELSE e

RECURSIVE Encode(_, _, _)
\* The elements that do not fit are left out, and said to be.
EncodeList(e, t, v) ==
  LET Element(a, i) == LET w == Then(Encode(a, t.of, v[i]), Mark(",")) IN [w EXCEPT !.ok = @ /\ a.ok]
      all == FoldLeft(Element, Put(e, Mark("[")), [i \in 1..t.size |-> i])
  IN IF all.ok THEN EncodeEnd(all, "]") ELSE all

\* The members that do not fit are left out, and nobody is told.
EncodeRecord(e, t, v) ==
  LET Pair(a, i) == Put(Encode(Put(EncodeText(a, <<t.members[i].id>>), Mark(":")),
                               t.members[i].type, v[i]), Mark(","))
      open == Put(e, Mark("{"))
  IN IF open.ok THEN EncodeEnd(FoldLeft(Pair, open, [i \in DOMAIN v |-> i]), "}") ELSE open

Encode(e, t, v) ==
  CASE t.kind \in {"unsigned", "signed"} -> EncodeNumber(e, v)
    [] t.kind = "boolean" -> EncodeNumber(e, IF v THEN 1 ELSE 0)
    [] t.kind = "text" -> EncodeText(e, v)
    [] t.kind = "list" -> EncodeList(e, t, v)
    [] t.kind = "record" -> EncodeRecord(e, t, v)

-----------------------------------------------------------------------------
(* Properties, of a type x.type, a value x.value, and x.old to decode over. *)

Full(x) == Encode(Buffer(1000), x.type, x.value).out
Read(x, text, junk) == Decode(x.type, Decoder(text, Len(text), junk), x.old)

RECURSIVE EndsInRecord(_), Readable(_)
EndsInRecord(t) == t.kind = "record" \/ (t.kind = "list" /\ t.size > 0 /\ EndsInRecord(t.of))
\* What can be read back: no truth values; no string at the end of a container, and no
\* key in a record behind another record.
Readable(t) ==
  CASE t.kind = "boolean" -> FALSE
    [] t.kind = "list" -> Readable(t.of) /\ t.of.kind # "text"
    [] t.kind = "record" ->
         \A i \in DOMAIN t.members :
           LET of == t.members[i].type IN
           Readable(of) /\ (IF i = Len(t.members) THEN of.kind # "text" ELSE ~EndsInRecord(of))
    [] OTHER -> TRUE

Needed(x) ==
  Cardinality({i \in DOMAIN Full(x) : Full(x)[i].k \in {"{", "[", "number", "string"}})

\* What is encoded is decoded to the same value, exactly if it has as many tokens as the
\* decoder has room for (FixedSizeThingSetTextDecoder, getTokens), whatever an earlier text
\* has left in _tokens: unless the text ends in a record, behind whose last value decodeMap
\* asks for one more key, and the token there could be one (decodeKey).
ReadBack(x) ==
  LET fits == Needed(x) <= MaxTokens IN
  Readable(x.type) =>
    \A junk \in Leftovers :
      LET r == Read(x, Full(x), junk) IN
      /\ fits => (r.d.wild <=> EndsInRecord(x.type) /\ junk \in {"primitive", "string"})
      /\ ~r.d.wild => r.ok = fits
      /\ ~r.d.wild /\ r.ok => Full([x EXCEPT !.value = r.v]) = Full(x)

\* A list or map that breaks off, in a string too, is refused (decodeListEnd, decodeMapEnd),
\* unless leftovers are taken for the tokens it lacks: never with zeros behind the tokens.
Refused(r, junk) == IF r.d.wild THEN junk # "none" ELSE ~r.ok
CutRefused(x) ==
  x.type.kind \in {"list", "record"} =>
    \A n \in 1..Len(Full(x)) - 1 : \A junk \in Leftovers :
      LET text == SubSeq(Full(x), 1, n) IN
      /\ Refused(Read(x, text, junk), junk)
      /\ text[n].k = "string" => Refused(Read(x, [text EXCEPT ![n] = Cut(@.s)], junk), junk)

\* A blank makes no difference but in front of a closing bracket.
BlanksHarmless(x) ==
  Readable(x.type) =>
    \A i \in DOMAIN Full(x) : \A junk \in Leftovers :
      Full(x)[i].k \in {"}", "]"} \/
        LET r == Read(x, InsertAt(Full(x), i, Mark(" ")), junk)
            plain == Read(x, Full(x), junk)
        IN r.d.wild = plain.d.wild /\ (~r.d.wild => r.ok = plain.ok /\ r.v = plain.v)

RECURSIVE HasRecord(_)
HasRecord(t) == t.kind = "record" \/ (t.kind = "list" /\ HasRecord(t.of))
\* A list is said to be encoded exactly if all of it fits (encode of arrays), and so is a
\* record that fits.
SaysWhatFits(x) ==
  LET width == FoldLeft(LAMBDA sum, w : sum + Width(w), 0, Full(x)) IN
  x.type.kind \in {"list", "record"} =>
    \A room \in 0..width + 1 :
      LET e == Encode(Buffer(room), x.type, x.value) IN
      /\ room >= width => e.ok
      /\ e.ok /\ (room >= width \/ ~HasRecord(x.type)) => e.out = Full(x)

Sound(x) == ReadBack(x) /\ CutRefused(x) /\ BlanksHarmless(x) /\ SaysWhatFits(x)
=============================================================================
