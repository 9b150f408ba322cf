------------------------------ MODULE MCServer ------------------------------
(***************************************************************************)
(* In "registry" the application constructs and destroys nodes in any      *)
(* order; in "requests" a peer updates, reads and executes while values,   *)
(* vetoes and one node change; "texts" looks at the text encoding.         *)
(***************************************************************************)
EXTENDS Server
LOCAL INSTANCE SequencesExt
LOCAL INSTANCE TLC

CONSTANTS root, meta, g, pa, pb, ra, rb, m, m2, f, dup

VARIABLE scene

\* A group with a writable and a read-only property, two record arrays whose members
\* have the same id, a function, and a node that claims the id of property b.
MCTable ==
  (root :> <<0, 0, "", "root">>)     @@ (meta :> <<25, 0, "_Metadata", "root">>) @@
  (g :> <<1, 0, "G", "group">>)      @@ (pa :> <<17, 1, "a", "value">>) @@
  (pb :> <<18, 1, "b", "value">>)     @@ (f :> <<32, 0, "F", "function">>) @@
  (ra :> <<2, 0, "R", "record">>)     @@ (rb :> <<258, 0, "R2", "record">>) @@
  (m :> <<17, 2, "m", "member">>)    @@ (m2 :> <<17, 258, "m", "member">>) @@
  (dup :> <<18, 0, "Dup", "value">>)
MCId == [n \in Node |-> MCTable[n][1]]
MCParent == [n \in Node |-> MCTable[n][2]]
MCName == [n \in Node |-> MCTable[n][3]]
MCKind == [n \in Node |-> MCTable[n][4]]
MCSets == [n \in {f} |-> pb]
MCNumberOf == [s \in {"0", "7"} |-> IF s = "0" THEN 0 ELSE 7]
MCStatic == <<f, rb, ra>>

Ask(verb, by, id, path, room, body) ==
  [verb |-> verb, by |-> by, id |-> id, path |-> path, room |-> room, body |-> body,
   text |-> <<>>, behind |-> Textual!Odd, junk |-> "none"]
ById(verb, id, room, body) == Ask(verb, "id", id, <<"">>, room, body)
ByPath(verb, path, room, body) == Ask(verb, "path", 0, path, room, body)
Entry(by, id, name, v) == [by |-> by, id |-> id, name |-> name, v |-> v]
IdEntry(id, v) == Entry("id", id, <<"">>, v)
NameEntry(name, v) == Entry("name", 0, name, v)

Paths == {<<"">>, <<"G">>, <<"G", "a">>, <<"R", "0">>, <<"R", "7">>, <<"X">>, <<"", "x", "G">>}
Singles == {<<IdEntry(17, v)>> : v \in {0, 1, Bad}} \cup {<<IdEntry(i, 1)>> : i \in {18, 2, 32}}
           \cup {<<NameEntry(p, 1)>> : p \in {<<"a">>, <<"b">>, <<"G", "a">>}}
Pairs == {<<IdEntry(17, 1), IdEntry(i, 0)>> : i \in {17, 18, 99}}
         \cup {<<NameEntry(<<"a">>, 1), NameEntry(<<"a">>, v)>> : v \in {0, Bad}}
         \cup {<<NameEntry(<<"a">>, 0), Entry("none", 0, <<"">>, 1)>>}
         \cup {<<IdEntry(18, 1), IdEntry(17, 1)>>}

\* The same entries as a text, with what its buffer has behind it.
Mark(c) == Textual!Mark(c)
Texts(e) ==
  LET Words(i) == (IF i > 1 THEN <<Mark(",")>> ELSE <<>>) \o
                  <<IF e[i].by = "id" THEN Textual!Number(e[i].id) ELSE Textual!Quoted(e[i].name), Mark(":"),
                    IF e[i].v = Bad THEN Textual!Quoted(<<"x">>) ELSE Textual!Number(e[i].v)>>
  IN <<Mark("{")>> \o FlattenSeq([i \in DOMAIN e |-> Words(i)]) \o <<Mark("}")>>
AsText(path, e, behind, junk) ==
  [ByPath("update", path, 4, e) EXCEPT !.text = Texts(e), !.behind = behind, !.junk = junk]
Behind == {Mark("}"), Textual!Number(1), Textual!Number(5)}

\* Ids before names in one update are left out: decodeKey then keeps the id of the entry
\* before, and a named value goes to the node of that id.
MCRequests ==
  {ById("get", i, n, <<>>) : i \in {0, 1, 2, 17, 18, 32, 99}, n \in {1, 4}}
  \cup {ByPath(verb, p, 4, <<>>) : verb \in {"get", "fetch"}, p \in Paths}
  \cup {ById("fetch", 25, 4, <<IdEntry(i, 0)>>) : i \in {18, 99}}
  \cup {ById("update", i, 4, e) : i \in {0, 1}, e \in Singles \cup Pairs}
  \cup {ById("update", i, 4, <<IdEntry(17, 1)>>) : i \in {2, 17, 25, 99}}
  \cup {ByPath("update", <<"R", "0">>, 4, e) :
          e \in {<<IdEntry(17, 0)>>, <<IdEntry(18, 1)>>, <<NameEntry(<<"m">>, 1), IdEntry(17, Bad)>>}}
  \cup {ClientUpdate("id", 17, <<"G", "a">>, 1), ClientUpdate("name", 17, <<"G", "a">>, 1)}
  \cup {AsText(<<"G">>, e, Textual!Odd, "none") : e \in {s \in Singles \cup Pairs : Keys(s) = Len(s)}}
  \cup {AsText(<<"G">>, <<NameEntry(<<"a">>, 1)>>, b, "none") : b \in Behind}
  \cup {AsText(<<"">>, <<IdEntry(17, 1)>>, Mark("}"), junk) : junk \in {"string", "object"}}
  \cup {ById("exec", i, n, <<NameEntry(<<"x">>, 1)>>) : i \in {1, 32}, n \in {0, 1}}
  \cup {ByPath(verb, <<"G">>, 4, <<>>) : verb \in {"create", "forward", "junk"}}
  \cup {Ask("get", "none", 0, <<"">>, 4, <<>>)}

\* What is encoded and decoded as text: narrow integers, strings, lists up to the limit on
\* tokens, records in records and in lists; and some that cannot be read back.
Sample(t, v, old) == [type |-> t, value |-> v, old |-> old]
Byte == Textual!Unsigned(8)
List(of, n) == Textual!List(of, n)
Rec(types) == Textual!RecordOf([i \in DOMAIN types |-> Textual!Member(i, types[i])])
Point == Rec(<<Byte, Textual!Signed(16)>>)
Lists(n) == Sample(List(Byte, n), [i \in 1..n |-> i], [i \in 1..n |-> 0])
Samples ==
  <<Sample(Byte, 200, 7), Sample(Textual!Signed(16), -32768, 7), Sample(Textual!Text(3), <<5, 6, 0>>, <<0, 0, 0>>),
    Sample(List(Textual!Boolean, 2), <<TRUE, FALSE>>, <<FALSE, TRUE>>),
    Sample(List(Textual!Text(2), 2), <<<<5, 0>>, <<6, 0>>>>, <<<<0, 0>>, <<0, 0>>>>),
    Sample(Point, <<1, -5>>, <<0, 0>>), Sample(Rec(<<>>), <<>>, <<>>),
    Sample(Rec(<<Textual!Text(2), List(Byte, 2)>>), <<<<5, 0>>, <<1, 200>>>>, <<<<0, 0>>, <<9, 9>>>>),
    Sample(Rec(<<Byte, Point>>), <<1, <<2, 3>>>>, <<0, <<0, 0>>>>),
    Sample(Rec(<<Point, Byte>>), <<<<2, 3>>, 1>>, <<<<0, 0>>, 0>>),
    Sample(List(Rec(<<Byte>>), 2), <<<<1>>, <<2>>>>, <<<<0>>, <<0>>>>),
    Lists(0), Lists(3), Lists(7), Lists(8)>>

\* The text encoding on all samples, with all leftovers in _tokens: ThingSetTextEncoder,
\* ThingSetTextDecoder and jsmn.
TextSound == scene = "texts" => \A i \in DOMAIN Samples : Textual!Sound(Samples[i])

vars == <<servVars, scene>>

\* In "requests" the members, the duplicate and the second record array stay out of it,
\* and only the writable property comes and goes.
Init == ServerInit /\ (\A s \in Slots : val[s] = 0) /\ scene \in {"registry", "requests", "texts"}
Next == /\ UNCHANGED scene
        /\ \/ /\ scene = "requests" /\ ServerNext
              /\ Live' \cap {m, m2, dup} = {} /\ val'[<<rb, 0>>] = 0
              /\ \A n \in {g, pb} : refs'[n] >= refs[n]
           \/ scene = "registry" /\ NodesChange
Spec == Init /\ [][Next]_vars
=============================================================================
