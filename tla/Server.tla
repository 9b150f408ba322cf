------------------------------- MODULE Server -------------------------------
(***************************************************************************)
(* ThingSetServer: one request at a time is looked up in the registry and  *)
(* answered; ThingSetClient: what a caller concludes from the answer.      *)
(* Between two requests the application assigns values, constructs and     *)
(* destroys nodes and changes its mind about the writes it accepts.        *)
(***************************************************************************)
EXTENDS Registry
LOCAL INSTANCE SequencesExt

CONSTANTS
  Values, Bad,      \* values of properties; a value of another type
  CanWrite,         \* nodes whose access has a write bit
  CanRead,          \* nodes whose access has a read bit
  Sets,             \* what a function's code assigns its argument to
  Gateway,          \* does the server have a forwarder?
  Requests,         \* requests peers make (the body is part of the request)
  MaxTokens         \* TEXT_DECODER_DEFAULT_MAX_TOKENS

Textual == INSTANCE TextCodec

ASSUME ServerAssumption ==
  /\ Bad \notin Values /\ CanWrite \subseteq Node /\ CanRead \subseteq Node
  /\ \A n \in Node : Kind[n] \in {"root", "group"} => n \in CanRead \ CanWrite

VARIABLES
  val,              \* values of the scalar nodes and of the elements of record arrays
  refused,          \* nodes whose willWrite the group callbacks refuse now
  last,             \* the last request, its answer and the callbacks it caused
  undefined         \* a write outside of an array has taken place

servVars == <<regVars, val, refused, last, undefined>>

Scalars == {n \in Node : Kind[n] = "value"}
Records == {n \in Node : Kind[n] = "record"}
Slots == Scalars \cup {<<r, i>> : r \in Records, i \in 0..(RecordSize - 1)}

-----------------------------------------------------------------------------
(* The values a node shows.                                                *)

Encodable(n) == "encodable" \in Casts(n)

\* The values below node n in the order an encoder writes them (ThingSetGroup::encode
\* and the operators of ThingSetValue); a function is not encodable.
Leaves(r, v, top) ==
  LET below[d \in 0..Cardinality(Node)] ==
        [n \in Node |->
           CASE Kind[n] = "value"  -> << <<n, v[n]>> >>
             [] Kind[n] = "record" -> [i \in 1..RecordSize |-> <<n, v[<<n, i - 1>>]>>]
             [] Kind[n] \in {"group", "root"} /\ d > 0 ->
                  LET shown == SelectSeq(Children(r, n), Encodable) IN
                  FlattenSeq([i \in DOMAIN shown |-> below[d - 1][shown[i]]])
             [] OTHER -> <<>>]
  IN below[Cardinality(Node)][top]

Answer(status, payload, v, calls) ==
  [status |-> status, payload |-> payload, val |-> v, calls |-> calls]

Failure(status) == Answer(status, <<>>, val, <<>>)
Content(payload) == Answer("content", payload, val, <<>>)

-----------------------------------------------------------------------------
(* The handlers; req.room is how many values the response buffer holds.    *)

HandleGet(n, req) ==
  LET all == Leaves(reg, val, n) IN
  IF Encodable(n)
  THEN IF Len(all) <= req.room THEN Content(all) ELSE Failure("unsupportedFormat")
  ELSE IF HasChildren(n)
  \* the children of an overlay node are encoded until the buffer is full
  THEN Content(SubSeq(all, 1, IF Len(all) <= req.room THEN Len(all) ELSE req.room))
  ELSE Failure("unsupportedFormat")

\* The metadata overlay answers a list of ids with the metadata of each.
HandleFetch(n, req) ==
  LET asked == [i \in DOMAIN req.body |-> FindById(reg, req.body[i].id)] IN
  CASE req.body = <<>> ->
         IF HasChildren(n) THEN Content(Children(reg, n)) ELSE Failure("badRequest")
    [] req.body # <<>> /\ n = Metadata ->
         IF Nil \in ToSet(asked) \/ Len(asked) > req.room
         THEN Failure("notFound") ELSE Content(asked)
    [] OTHER -> Failure("badRequest")

\* The node an entry of an update is applied to.  decodeKey never clears the id it has
\* decoded, so that a name after an id is not looked at.
TargetOf(n, body, i) ==
  LET ids == {j \in 1..i : body[j].by = "id"} IN
  IF ids # {} THEN FindById(reg, body[CHOOSE j \in ids : \A k \in ids : k <= j].id)
  ELSE FindByName(reg, n, body[i].name).node

MayWrite(n) == n \in CanWrite

\* Callbacks of a group; those of other parents accept everything.
Accepts(p, n) == Kind[p] = "group" => n \notin refused

Step_WritesFirst(p, n, e, acc) ==            \* mutant: decoded before willWrite
  IF n = Nil \/ ~MayWrite(n) \/ Kind[n] # "value" \/ e.v = Bad
  THEN [acc EXCEPT !.status = "badRequest"]
  ELSE [acc EXCEPT !.val[n] = e.v, !.status = IF Accepts(p, n) THEN @ ELSE "forbidden",
                   !.calls = @ \o << <<"willWrite", p, n>> >> \o
                             (IF Accepts(p, n) THEN << <<"didWrite", p, n>> >> ELSE <<>>)]

\* handleNodeUpdate: one entry of an update, on top of those before it.
Step(p, n, e, acc) ==
  CASE n = Nil -> [acc EXCEPT !.status = "notFound"]
    [] n # Nil /\ ~MayWrite(n) -> [acc EXCEPT !.status = "forbidden"]
    [] n # Nil /\ MayWrite(n) /\ "decodable" \notin Casts(n) -> [acc EXCEPT !.status = "badRequest"]
    [] n # Nil /\ MayWrite(n) /\ "decodable" \in Casts(n) ->
         LET asked == Append(acc.calls, <<"willWrite", p, n>>) IN
         IF ~Accepts(p, n) THEN [acc EXCEPT !.status = "forbidden", !.calls = asked]
         ELSE IF e.v = Bad \/ Kind[n] = "record"      \* a scalar is no list of elements
         THEN [acc EXCEPT !.status = "badRequest", !.calls = asked]
         ELSE [acc EXCEPT !.val[n] = e.v, !.calls = Append(asked, <<"didWrite", p, n>>)]

\* The keys before the first that is neither an id nor a name; the map ends there.
Keys(body) ==
  LET broken == {i \in DOMAIN body : body[i].by \notin {"id", "name"}} IN
  IF broken = {} THEN Len(body) ELSE (CHOOSE i \in broken : \A j \in broken : i <= j) - 1

\* The body as it is decoded.  The length ThingSetTextRequestContext gives its decoder is
\* one too large: the text goes on with what the buffer has behind it.
Body(req) ==
  IF req.text = <<>> THEN req.body
  ELSE Textual!Update(Textual!Unsigned(8),
                      Textual!Decoder(Append(req.text, req.behind), Len(req.text) + 1, req.junk), Bad)

HandleUpdate_GoesOn(n, req) ==               \* mutant: a failed entry does not end the map
  LET done[i \in 0..Len(req.body)] ==
        IF i = 0 THEN Answer("changed", <<>>, val, <<>>)
        ELSE Step(n, TargetOf(n, req.body, i), req.body[i], done[i - 1])
  IN done[Keys(req.body)]
\* handleUpdate: entry by entry, up to the first that fails; nothing is undone.
Applied(n, body) ==
  LET done[i \in 0..Len(body)] ==
        IF i = 0 THEN Answer("changed", <<>>, val, <<>>)
        ELSE IF done[i - 1].status # "changed" THEN done[i - 1]
        ELSE Step(n, TargetOf(n, body, i), body[i], done[i - 1])
  IN done[Keys(body)]
HandleUpdate(n, req) == IF HasChildren(n) THEN Applied(n, Body(req)) ELSE Failure("badRequest")

\* handleExec: any access bit will do; one argument, decoded into its place before.
HandleExec(n, req) ==
  IF n \notin CanRead \cup CanWrite THEN Failure("forbidden")
  ELSE IF "function" \in Casts(n) /\ Len(req.body) = 1 /\ req.body[1].v # Bad
  THEN LET ran == [val EXCEPT ![Sets[n]] = req.body[1].v] IN
       Answer(IF req.room > 0 THEN "changed" ELSE "badRequest", <<>>, ran, <<>>)
  ELSE Failure("badRequest")

\* ThingSetRecordPropertyHelpers::handleRequest, of requests in CBOR.  The members an element does not have
\* or cannot decode are skipped, and so is the outcome of the decoding.
HandleRecord(n, index, req) ==
  IF req.verb = "get"
  THEN IF index = NoIndex THEN Content(<<RecordSize>>) ELSE Content(<< val[<<n, index>>] >>)
  ELSE LET member == {m \in Node : Kind[m] = "member" /\ Parent[m] = Id[n]}
           names(e) == \E m \in member : IF e.by = "id" THEN e.id = Id[m] ELSE e.name = <<Name[m]>>
           Write(acc, e) == IF names(e) /\ e.v # Bad THEN e.v ELSE acc
       IN IF index = NoIndex THEN Failure("badRequest") ELSE
          Answer("changed", <<>>,
                 [val EXCEPT ![<<n, index>>] =
                    FoldLeft(Write, @, SubSeq(req.body, 1, Keys(req.body)))], <<>>)

ToBeForwarded(req) ==
  \/ req.verb = "forward"
  \/ req.by = "path" /\ req.path[1] = "" /\ Len(req.path) > 1 /\ req.path # <<"", "">>

Target(req) ==
  IF req.by = "id" THEN Found(FindById(reg, req.id), NoIndex)
  ELSE FindByName(reg, Root, req.path)

\* requestCallback and handleRequest.
HandleRequest(req) ==
  LET t == Target(req) n == t.node IN
  IF req.verb = "junk" \/ req.by = "none" THEN Failure("badRequest")
  ELSE IF ToBeForwarded(req) THEN Failure(IF Gateway THEN "forwarded" ELSE "notAGateway")
  ELSE IF n = Nil THEN Failure("notFound")
  ELSE IF "requestHandler" \in Casts(n) /\ req.verb \in {"get", "update"} THEN HandleRecord(n, t.index, req)
  ELSE CASE req.verb = "get"    -> HandleGet(n, req)
         [] req.verb = "fetch"  -> HandleFetch(n, req)
         [] req.verb = "update" -> HandleUpdate(n, req)
         [] req.verb = "exec"   -> HandleExec(n, req)
         [] OTHER               -> Failure("notImplemented")

\* What follows is not defined when an element that does not exist is written, or when the
\* end of a map is taken for a token that was never there.
NotDefined(req) ==
  /\ req.verb = "update" /\ req.by # "none" /\ ~ToBeForwarded(req)
  /\ LET t == Target(req) IN
     /\ t.node # Nil
     /\ \/ Kind[t.node] = "record" /\ t.index = NoIndex
        \/ /\ Kind[t.node] # "record" /\ HandleUpdate(t.node, req).status = "changed"
           /\ \E body \in {Body(req)} : \E i \in DOMAIN body : body[i].by = "wild"

-----------------------------------------------------------------------------
(* ThingSetClient.                                                         *)

ClientResult_Stale(req, a, answered) ==      \* mutant: the previous answer is taken again
  [code |-> IF answered THEN a.status ELSE "changed", value |-> Bad]
ClientResult(req, a, answered) ==
  LET ok == answered /\ a.status \in {"content", "changed", "created", "deleted"} IN
  CASE ~answered -> [code |-> "gatewayTimeout", value |-> Bad]
    [] ok /\ req.verb = "get" /\ Len(a.payload) = 1 /\ Target(req).node \in Scalars ->
         [code |-> a.status, value |-> a.payload[1][2]]
    [] ok /\ req.verb = "get" -> [code |-> "internalServerError", value |-> Bad]
    [] OTHER -> [code |-> a.status, value |-> Bad]

\* update(id) goes through the root node, update(name) through the parent's path.
ClientUpdate(by, id, path, v) ==
  [verb |-> "update", by |-> IF by = "id" THEN "id" ELSE "path", id |-> 0,
   path |-> IF Len(path) > 1 THEN SubSeq(path, 1, Len(path) - 1) ELSE <<"">>, room |-> 4,
   body |-> << [by |-> by, id |-> id, name |-> <<path[Len(path)]>>, v |-> v] >>,
   text |-> <<>>, behind |-> Textual!Odd, junk |-> "none"]

-----------------------------------------------------------------------------
NoRequest == [verb |-> "junk", by |-> "none", id |-> 0, path |-> <<"">>, room |-> 0, body |-> <<>>,
              text |-> <<>>, behind |-> Textual!Odd, junk |-> "none"]

Idle == [req |-> NoRequest, answer |-> [status |-> "none", payload |-> <<>>, calls |-> <<>>],
         result |-> [code |-> "none", value |-> Bad]]

ServerInit ==
  /\ RegistryInit
  /\ \E v \in Values : val = [s \in Slots |-> v]
  /\ refused = {} /\ last = Idle /\ undefined = FALSE

\* One request is received and answered; request and answer may be lost on the way.
Request(req) ==
  /\ ~undefined /\ ~aborted /\ last = Idle
  /\ undefined' = NotDefined(req)
  /\ \E heard, answered \in BOOLEAN, a \in {HandleRequest(req)} :
       /\ answered => heard
       /\ val' = IF heard /\ ~undefined' THEN a.val ELSE val
       /\ last' = IF undefined' THEN Idle
                  ELSE [req |-> req, result |-> ClientResult(req, a, answered),
                        answer |-> IF heard THEN [status |-> a.status, payload |-> a.payload,
                                                  calls |-> a.calls] ELSE Idle.answer]
  /\ UNCHANGED <<regVars, refused>>

\* The answer has been read; what the buffers held is of no interest any more.
Done ==
  /\ last # Idle
  /\ last' = Idle /\ UNCHANGED <<regVars, val, refused, undefined>>

\* operator= of a property or of a member of an element.
Assign(s, v) ==
  /\ ~undefined /\ ~aborted /\ last = Idle
  /\ refs[IF s \in Scalars THEN s ELSE s[1]] > 0
  /\ val' = [val EXCEPT ![s] = v]
  /\ UNCHANGED <<regVars, refused, last, undefined>>

\* The application's group callback changes its mind about a node.
Refuse(n) ==
  /\ ~undefined /\ ~aborted /\ last = Idle
  /\ refused' = IF n \in refused THEN refused \ {n} ELSE refused \cup {n}
  /\ UNCHANGED <<regVars, val, last, undefined>>

\* The set of nodes changes between two requests.
NodesChange ==
  /\ ~undefined /\ last = Idle
  /\ \E n \in Node : Construct(n) \/ Destroy(n)
  /\ UNCHANGED <<val, refused, last, undefined>>

ServerNext ==
  \/ \E req \in Requests : Request(req)
  \/ \E s \in Slots, v \in Values : Assign(s, v)
  \/ Done
  \/ \E n \in Scalars \cap CanWrite \cap Live : Refuse(n)
  \/ NodesChange

-----------------------------------------------------------------------------
(* Properties.                                                             *)

ServerTypeOK ==
  /\ RegTypeOK
  /\ val \in [Slots -> Values]
  /\ refused \subseteq Scalars
  /\ last.result.value \in Values \cup {Bad}
  /\ undefined \in BOOLEAN

\* The names from the root down to n, if the chain of its parents is alive and whole.
Above(n) == {p \in Live : HasChildren(p) /\ Kind[p] # "record" /\ Id[p] = Parent[n] /\ p # n}
PathTo(n) ==
  LET up[d \in 0..3] ==
        [m \in Node |-> IF m = Root THEN <<>>
                        ELSE IF d = 0 \/ Above(m) = {} \/ m \in stale THEN <<"none">>
                        ELSE LET p == CHOOSE p \in Above(m) : TRUE
                                 rest == up[d - 1][p]
                             IN IF rest = <<"none">> THEN rest ELSE Append(rest, Name[m])]
  IN up[3][n]

\* A node is reached by its path as well as by its id, in whatever order it and the
\* groups above it were constructed (ThingSetRegistry::findByName, findById).
PathsLeadToNodes ==
  ~aborted =>
    \A n \in Live \ {Root, Metadata} :
      Kind[n] # "member" /\ PathTo(n) # <<"none">> =>
        /\ FindByName(reg, Root, PathTo(n)).node = n
        /\ FindById(reg, Id[n]) = n

Named(n, e) ==
  IF e.by = "id" THEN FindById(reg, e.id) ELSE FindByName(reg, n, e.name).node

\* What is behind a text is not taken for one more key.
Harmless(req) == req.behind.k \notin {"number", "truth"}

\* handleUpdate: exactly the first k entries of an update, in CBOR or as a text, are applied,
\* each to the node its key names; "changed" means all of them (up to a key that cannot be
\* decoded), and any other status that entry k+1 could not be applied, but for texts
\* with the remains of another behind them.
UpdatesByEntry ==
  [][LET req == last'.req n == Target(req).node
         Valid(e) == LET t == Named(n, e) IN t # Nil /\ t \in CanWrite \cap Scalars
                                             /\ Accepts(n, t) /\ e.v # Bad
         Upto(k) == FoldLeft(LAMBDA v, e : [v EXCEPT ![Named(n, e)] = e.v],
                             val, SubSeq(req.body, 1, k))
     IN last'.answer # Idle.answer /\ req.verb = "update" /\ req.by # "none"
        /\ ~ToBeForwarded(req)
        /\ n # Nil /\ HasChildren(n) /\ Kind[n] # "record" =>
          \E k \in 0..Keys(req.body) :
            /\ \A i \in 1..k : Valid(req.body[i])
            /\ val' = Upto(k)
            /\ last'.answer.status = "changed" => k = Keys(req.body)
            /\ k = Keys(req.body) => last'.answer.status = "changed" \/ ~Harmless(req)
            /\ k < Keys(req.body) => ~Valid(req.body[k + 1])]_servVars

\* "Trying to write read-only value" (ThingSetStatusCode::forbidden): no request changes
\* a property without a write bit, unless a function does so on behalf of its caller.
ReadOnlyKept ==
  [][last' # Idle /\ last'.req.verb # "exec" =>
       \A n \in Scalars \ CanWrite : val'[n] = val[n]]_servVars

\* Every written property was announced to the addressed parent and confirmed to it,
\* and an announcement without a confirmation is the last thing a request does.
WritesAnnounced ==
  [][LET c == last'.answer.calls IN
     last'.answer # Idle.answer /\ last'.req.verb = "update" =>
       /\ \A n \in Scalars : val'[n] # val[n] =>
            \E i \in DOMAIN c : c[i][1] = "didWrite" /\ c[i][3] = n
       /\ \A i \in DOMAIN c :
            IF c[i][1] = "didWrite"
            THEN i > 1 /\ c[i - 1] = <<"willWrite", c[i][2], c[i][3]>>
            ELSE i = Len(c) \/ c[i + 1] = <<"didWrite", c[i][2], c[i][3]>>]_servVars

\* What a client may rely on, whether it uses ids or names and whatever is lost on the
\* way: a value it got is the server's, a value it was told it has set is set, and an
\* update of one value that was refused has left everything as it was.
ClientRelies ==
  [][LET req == last'.req res == last'.result IN
     last' # Idle =>
       /\ req.verb = "get" /\ res.code = "content" =>
            \E n \in Scalars \cap Live : Target(req).node = n /\ res.value = val'[n]
       /\ req.verb = "update" /\ req.text = <<>> /\ Len(req.body) = 1 /\ Target(req).node \notin Records =>
            LET e == req.body[1] n == Named(Target(req).node, e) IN
            /\ res.code = "changed" /\ e.by # "none" => n \in Live /\ val'[n] = e.v
            /\ res.code \in {"badRequest", "forbidden", "notFound"} => val' = val]_servVars

\* An answer with status "content" to a get of an encodable node is complete: it has
\* the value of every live property below the node (ThingSetGroup::encode).
ContentComplete ==
  [][LET req == last'.req n == Target(req).node IN
     last' # Idle /\ req.verb = "get" /\ last'.answer.status = "content" /\ Kind[n] = "group" =>
       \A c \in Scalars \cap (Live \ stale) :
         Parent[c] = Id[n] => <<c, val[c]>> \in ToSet(last'.answer.payload)]_servVars
\* The registry at every moment of construction and destruction: its lists end and hold
\* only live nodes, children each once (registerNode, unregisterNode, PushBack, Unlink).
RegistrySound == ServerTypeOK /\ ListsEnd /\ NothingDeadListed /\ ChildrenComplete

\* Every live node is found by its id, as member of its record and by its path, no other
\* is found in its stead, and registration refuses none but duplicates.
NodesFound == LookupCorrect /\ PathsLeadToNodes /\ RefusesOnlyDuplicates

\* Only what may be written is, and only between its announcement and its confirmation.
WritesSound == ReadOnlyKept /\ WritesAnnounced

\* What an answer says is so: to a client (ThingSetClient) and in a complete content.
AnswersTrue == ClientRelies /\ ContentComplete
=============================================================================
