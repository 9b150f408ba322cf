--------------------------- MODULE MCPersistence ---------------------------
(* No faults with values of every length; faults and restarts; other firmwares. *)
EXTENDS Persistence
Byte == [id |-> 1, type |-> Unsigned(8)]
Pair == [id |-> 30, type |-> List(Signed(16), 2)]
Rec == [id |-> 300, type |-> RecordOf(<<Member(2, Unsigned(8)), Member(40, Text(9))>>)]
Name == [id |-> 300, type |-> Text(9)]
Three == [id |-> 30, type |-> List(Signed(16), 3)]
MCId == {1, 30, 300}
Word(n) == [i \in 1..n |-> i]
By(as, bs, cs) == {1 :> a @@ 30 :> b @@ 300 :> c : a \in as, b \in bs, c \in cs}
Firm(version, nodes) == [version |-> version, nodes |-> nodes]
All == Firm(1, <<Byte, Pair, Rec>>)
MCIntegers == {-32769, -32768, -129, -128, -1, 0, 23, 24, 127, 128, 254, 255, 256, 257, 32767, 32768,
               65534, 65535, 65536}
Of(firmwares, vals, ss, cs, fs) ==
  [firmwares |-> firmwares, integers |-> MCIntegers, values |-> vals, saves |-> ss, changes |-> cs, faults |-> fs]
MCSetups == {
  Of(<<All>>, By({0, 24, 254, 255}, {<<5, -1>>, <<-32768, 32766>>, <<32767, 0>>, <<255, 256>>},
                 {<<1, Word(0)>>, <<200, Word(4)>>, <<255, Word(1)>>, <<3, Word(7)>>, <<9, <<1, 0, 2>>>>}), 1, 1, 0),
  Of(<<All>>, By({0, 200}, {<<5, -1>>}, {<<1, Word(2)>>, <<1, Word(7)>>}), 2, 1, 3),
  Of(<<All, Firm(2, <<Byte, Pair, Rec>>), Firm(1, <<Byte, Rec>>), Firm(1, <<Rec, Pair, Byte>>),
      Firm(1, <<Byte, Three, Rec>>)>>, By({0, 200}, {<<5, -1>>}, {<<1, Word(2)>>}), 2, 1, 1),
  Of(<<Firm(1, <<Byte, Pair, Name>>)>>, By({0}, {<<5, -1>>, <<500, -100>>}, {Word(3), Word(6)}), 2, 2, 1) }
=============================================================================
