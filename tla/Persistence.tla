---------------------------- MODULE Persistence ----------------------------
(***************************************************************************)
(* Properties of the persisted subset, saved to an EEPROM and loaded from  *)
(* it.  save() encodes them into a buffer of two chunks, writes a chunk    *)
(* whenever there is more than one, reading it back and trying again, and  *)
(* writes the header (version, length, checksum) last.  load() decodes     *)
(* while it reads, straight into the properties, and checks the checksum   *)
(* at the end.  Writes fail or are torn, and the power fails at any time;  *)
(* after that the device may run another firmware.                         *)
(***************************************************************************)
EXTENDS BinaryCodec, FiniteSets

CONSTANTS
  None,
  Id,           \* the ids of properties
  Chunk,        \* CONFIG_THINGSET_PLUS_PLUS_EEPROM_CHUNK_SIZE
  Attempts,     \* CONFIG_THINGSET_PLUS_PLUS_EEPROM_ACCESS_ATTEMPTS
  EepromSize,
  Setups        \* the systems to look at: records of
                \*   firmwares - sequence of what the device may run, the first one to start
                \*               with, each replaced only by later ones: [version,
                \*               nodes: sequence of [id, type]]
                \*   values    - the values the application gives the properties, by id
                \*   integers  - what integers may be found where another type is expected
                \*   saves     - bound: calls of save()
                \*   changes   - bound: changes of values
                \*   faults    - bound: failing accesses and power failures

ASSUME PersistenceAssumption ==
  /\ Chunk \in Nat /\ Chunk >= 5             \* the head of every item fits
  /\ Attempts \in Nat \ {0} /\ EepromSize \in Nat \ {0}
  /\ \A u \in Setups : u.saves \in Nat /\ u.changes \in Nat /\ u.faults \in Nat

VARIABLES
  setup,        \* the system looked at; it never changes
  firmware,     \* what is running, an index
  values,       \* the values of the properties
  eeprom,       \* its header and cells: an item and which of its bytes, or None
  saver,        \* the call of save() under way
  loaded,       \* what the last load() did, or None
  intact,       \* history: the save the EEPROM holds, or None
  finished,     \* history: the saves whose header was written
  told,         \* history: what the last save() returned, and what it was to write
  saves, changes, faults

vars == <<setup, firmware, values, eeprom, saver, loaded, intact, finished, told, saves, changes, faults>>

Running == setup.firmwares[firmware]
Idle == [pc |-> "idle"]
Blank == [version |-> None, len |-> None, crc |-> None, cells |-> [i \in 1..EepromSize |-> None]]

\* A list is as long as the running firmware says.
Fit(id, v, nodes) ==
  LET n == {nodes[i] : i \in {k \in DOMAIN nodes : nodes[k].id = id}} IN
  IF \E m \in n : m.type.kind = "list"
  THEN [k \in 1..(CHOOSE m \in n : TRUE).type.size |-> IF k <= Len(v) THEN v[k] ELSE 0] ELSE v

Init ==
  /\ setup \in Setups /\ firmware = 1
  /\ values \in setup.values
  /\ eeprom = Blank /\ saver = Idle /\ loaded = None /\ intact = None /\ finished = {}
  /\ told = None /\ saves = 0 /\ changes = 0 /\ faults = 0

Change(i) ==
  /\ changes < setup.changes /\ changes' = changes + 1
  /\ \E v \in setup.values : values' = [values EXCEPT ![i] = Fit(i, v[i], Running.nodes)]
  /\ UNCHANGED <<firmware, eeprom, saver, loaded, intact, finished, told, saves, faults>>

-----------------------------------------------------------------------------
(* save().                                                                 *)

Cells(item) == [k \in 1..Width(item) |-> <<item, k - 1>>]

BeginSave ==
  /\ saver.pc = "idle" /\ saves < setup.saves /\ saves' = saves + 1
  /\ saver' = [pc |-> "encode", nodes |-> Running.nodes, items |-> MapStart(Len(Running.nodes)),
               record |-> FALSE, pend |-> <<>>, off |-> 0,
               crc |-> <<>>, tries |-> 0, lost |-> FALSE, taken |-> [i \in Id |-> None]]
  /\ told' = None
  /\ UNCHANGED <<firmware, values, eeprom, loaded, intact, finished, changes, faults>>

\* The value of a property is read when its turn comes.
EncodeNode ==
  /\ saver.pc = "encode" /\ saver.items = <<>> /\ saver.nodes # <<>>
  /\ LET n == Head(saver.nodes) IN
     saver' = [saver EXCEPT !.nodes = Tail(@), !.taken[n.id] = values[n.id],
                            !.record = n.type.kind = "record",
                            !.items = EncodePair(n.id, Encode(n.type, values[n.id]))]
  /\ UNCHANGED <<firmware, values, eeprom, loaded, intact, finished, told, saves, changes, faults>>

\* An item that does not fit into the buffer ends the call, unless it is the value of a
\* member of a record: that one is left out.
HasRoom(s, item) == Len(s.pend) + Width(item) <= 2 * Chunk
Put ==
  /\ saver.pc = "encode" /\ saver.items # <<>> /\ Len(saver.pend) <= Chunk
  /\ LET item == Head(saver.items) IN
     \/ /\ HasRoom(saver, item) /\ UNCHANGED told
        /\ saver' = [saver EXCEPT !.items = Tail(@), !.pend = @ \o Cells(item)]
     \/ /\ ~HasRoom(saver, item) /\ ~saver.record
        /\ saver' = Idle /\ told' = [ok |-> FALSE, cells |-> <<>>]
     \/ /\ ~HasRoom(saver, item) /\ saver.record /\ UNCHANGED told
        /\ saver' = [saver EXCEPT !.items = Tail(@), !.lost = TRUE]
  /\ UNCHANGED <<firmware, values, eeprom, loaded, intact, finished, saves, changes, faults>>

\* A chunk is written when there is more than one, and the rest at the end.
Flushing(s) == s.items = <<>> /\ s.nodes = <<>> /\ Len(s.pend) <= Chunk
Writing(s) == s.pc = "encode" /\ (Flushing(s) \/ Len(s.pend) > Chunk)
Next_(s) == IF Flushing(s) THEN s.pend ELSE SubSeq(s.pend, 1, Chunk)

\* The first n bytes of the chunk reach the EEPROM.
Burn(s, n) == [i \in 1..EepromSize |-> IF i \in s.off + 1..s.off + n THEN Next_(s)[i - s.off]
                                        ELSE eeprom.cells[i]]

Crc(s) == s.crc \o Next_(s)
Written(s) == [s EXCEPT !.off = @ + Len(Next_(s)), !.crc = Crc(s), !.tries = 0,
                        !.pend = SubSeq(@, Len(Next_(s)) + 1, Len(@)),
                        !.pc = IF Flushing(s) THEN "header" ELSE "encode"]

WriteChunk ==
  /\ Writing(saver)
  /\ eeprom' = [eeprom EXCEPT !.cells = Burn(saver, Len(Next_(saver)))]
  /\ saver' = Written(saver) /\ intact' = None
  /\ UNCHANGED <<firmware, values, loaded, finished, told, saves, changes, faults>>

\* An attempt fails, with any of the bytes written, or its reading back does.  After the
\* last attempt save() goes on as if it had succeeded: the variable that is looked at is
\* not the one the errors were put into.
OutOfTries(s) == s.tries + 1 = Attempts
WriteFails ==
  /\ Writing(saver) /\ faults < setup.faults /\ faults' = faults + 1
  /\ \E n \in {0, Len(Next_(saver)) \div 2, Len(Next_(saver))} :
       eeprom' = [eeprom EXCEPT !.cells = Burn(saver, n)]
  /\ saver' = IF OutOfTries(saver) THEN [Written(saver) EXCEPT !.lost = TRUE]
              ELSE [saver EXCEPT !.tries = @ + 1]
  /\ intact' = None
  /\ UNCHANGED <<firmware, values, loaded, finished, told, saves, changes>>

\* Whether the header is written is not looked at.
NewHeader == [eeprom EXCEPT !.version = Running.version, !.len = saver.off, !.crc = saver.crc]
TornHeader == [eeprom EXCEPT !.version = Running.version, !.len = saver.off]
Saved == [taken |-> saver.taken, version |-> Running.version, nodes |-> Running.nodes]
WriteHeader ==
  /\ saver.pc = "header"
  /\ \/ /\ eeprom' = NewHeader /\ finished' = finished \cup {Saved}
        /\ intact' = IF saver.lost THEN None ELSE Saved
        /\ UNCHANGED faults
     \/ /\ faults < setup.faults /\ faults' = faults + 1
        /\ eeprom' \in {eeprom, TornHeader} /\ UNCHANGED <<intact, finished>>
  /\ saver' = Idle /\ told' = [ok |-> TRUE, cells |-> saver.crc]
  /\ UNCHANGED <<firmware, values, loaded, saves, changes>>

\* Power fails: an access under way is torn, the properties have their initial values.
PowerFails ==
  /\ faults < setup.faults /\ faults' = faults + 1
  /\ eeprom' \in {eeprom} \cup
       (IF Writing(saver) THEN {[eeprom EXCEPT !.cells = Burn(saver, n)] : n \in 1..Len(Next_(saver))}
        ELSE IF saver.pc = "header" THEN {TornHeader} ELSE {})
  /\ intact' = IF eeprom' = eeprom THEN intact ELSE None
  /\ saver' = Idle /\ told' = None /\ loaded' = None
  /\ firmware' \in firmware..Len(setup.firmwares)
  /\ values' = LET v == CHOOSE a \in setup.values : TRUE
               IN [i \in Id |-> Fit(i, v[i], setup.firmwares[firmware'].nodes)]
  /\ UNCHANGED <<finished, saves, changes>>

-----------------------------------------------------------------------------
(* load().                                                                 *)

\* The items the decoder finds behind position p of the data, pos bytes into its buffer, of
\* which it has read so many; when more than half of the buffer is decoded it reads on.
Least(m, n) == IF m < n THEN m ELSE n
RECURSIVE Fetch(_, _, _, _)
Fetch(data, p, pos, read) ==
  LET moves == pos > Chunk
      pos1 == IF moves THEN pos - Chunk ELSE pos
      read1 == IF moves THEN Least(Len(data), read + Chunk) ELSE read
      cell == IF p < Len(data) THEN data[p + 1] ELSE None
      w == IF cell = None THEN 0 ELSE Width(cell[1])
  IN IF \/ cell = None \/ p + w > Len(data) \/ pos1 + w > 2 * Chunk
        \/ \E k \in 1..w : data[p + k] # <<cell[1], k - 1>>
     THEN [items |-> <<Bad>>, read |-> read1]
     ELSE LET more == Fetch(data, p + w, pos1 + w, read1)
          IN [more EXCEPT !.items = <<cell[1]>> \o @]

\* The data as it is read: the length of the header, and what a read that fails at n leaves
\* in the buffer.
Data(n) ==
  LET len == IF eeprom.len = None THEN EepromSize ELSE eeprom.len
  IN [i \in 1..len |-> IF n > 0 /\ i \in n..n + Chunk - 1 THEN None ELSE eeprom.cells[i]]

IsEmpty == eeprom.version = None /\ eeprom.len = None /\ eeprom.crc = None

\* decodeMap with the callback of load(): an id that is not known ends it.
RECURSIVE DecodeNodes(_, _, _)
DecodeNodes(count, s, vals) ==
  IF count = 0 THEN Result(TRUE, vals, s)
  ELSE LET key == DecodeUnsigned(16, s, 0)
           nodes == {i \in DOMAIN Running.nodes : Running.nodes[i].id = key.v}
       IN IF ~key.ok \/ nodes = {} THEN Result(FALSE, vals, s)
          ELSE LET n == Running.nodes[CHOOSE i \in nodes : TRUE]
                   r == Decode(n.type, key.rest, vals[n.id])
                   applied == [vals EXCEPT ![n.id] = r.v]
               IN IF r.ok THEN DecodeNodes(count - 1, r.rest, applied) ELSE Result(FALSE, applied, s)

Verify_Skipped(f) == TRUE                    \* mutant: the checksum is not compared
Verify(f) == eeprom.crc = SubSeq(f.data, 1, f.read)

Loaded(ok, got, failed) ==
  [ok |-> ok, got |-> got, from |-> IF failed = 0 THEN intact ELSE None, nodes |-> Running.nodes,
   version |-> Running.version]
Load ==
  /\ saver.pc = "idle"
  /\ IF IsEmpty \/ eeprom.version # Running.version
     THEN loaded' = Loaded(FALSE, values, 0) /\ UNCHANGED <<values, faults>>
     ELSE \E failed \in {0} \cup (IF faults < setup.faults THEN {1, 1 + Chunk} ELSE {}) :
            LET data == Data(failed)
                f == Fetch(data, 0, 0, Least(Len(data), 2 * Chunk))
                start == Head(f.items)
                r == IF start.major = "map" THEN DecodeNodes(start.n, Tail(f.items), values)
                     ELSE Result(FALSE, values, f.items)
            IN /\ values' = r.v
               /\ loaded' = Loaded(r.ok /\ Verify([data |-> data, read |-> f.read]), r.v, failed)
               /\ faults' = IF failed = 0 THEN faults ELSE faults + 1
  /\ UNCHANGED <<firmware, eeprom, saver, intact, finished, told, saves, changes>>

Next ==
  /\ UNCHANGED setup
  /\ \/ BeginSave \/ EncodeNode \/ Put \/ WriteChunk \/ WriteFails \/ WriteHeader \/ PowerFails \/ Load
     \/ \E i \in Id : Change(i)

Spec == Init /\ [][Next]_vars

-----------------------------------------------------------------------------
(* Properties.                                                             *)

\* The variables keep their types, and the buffer and the EEPROM are not exceeded.
TypeOK ==
  /\ firmware \in DOMAIN setup.firmwares /\ DOMAIN values = Id /\ Len(eeprom.cells) = EepromSize
  /\ saver.pc \in {"idle", "encode", "header"}
  /\ (saver.pc # "idle" => /\ saver.tries \in 0..Attempts - 1 /\ Len(saver.pend) <= 2 * Chunk
                           /\ saver.off + Len(saver.pend) <= EepromSize)

\* One of the largest values of its type, which the decoder refuses.
Largest(t, v) == \/ t.kind = "unsigned" /\ t.bits <= 16 /\ v = 2^t.bits - 1
                 \/ t.kind = "signed" /\ t.bits <= 16 /\ v = 2^(t.bits - 1) - 1
HasLargest(t, v) ==
  CASE t.kind = "list" -> \E i \in DOMAIN v : Largest(t.of, v[i])
    [] t.kind = "record" -> \E i \in DOMAIN v : Largest(t.members[i].type, v[i])
    [] OTHER -> Largest(t, v)

Holds(vals, save) ==
  \A i \in DOMAIN save.nodes : LET n == save.nodes[i] IN
    Encode(n.type, vals[n.id]) = Encode(n.type, save.taken[n.id])

\* load() returns true only if the properties now have the values of one finished save, all
\* of them: never those of a save that was interrupted, torn or half overwritten by the
\* next, or of two saves (the header is written last, the checksum covers all that is read).
TrueMeansSaved ==
  loaded # None /\ loaded.ok => \E save \in finished : save.version = loaded.version /\ Holds(loaded.got, save)

\* What was saved without a fault, and whole, is loaded after any number of restarts, whatever the
\* lengths of the items and wherever the chunks cut them, unless the firmware knows it no
\* more or it contains the largest value of an integer type.
LoadRestores ==
  loaded # None /\ loaded.from # None =>
    LET save == loaded.from IN
      \/ save.version # loaded.version
      \/ \E i \in DOMAIN save.nodes : /\ \A j \in DOMAIN loaded.nodes : loaded.nodes[j] # save.nodes[i]
      \/ \E i \in DOMAIN save.nodes : HasLargest(save.nodes[i].type, save.taken[save.nodes[i].id])
      \/ loaded.ok /\ Holds(loaded.got, save)

\* The value of every property is decoded to one with the same encoding, over every other
\* value, and nothing behind it is taken; but for the largest values.
RoundTrips ==
  saver.pc = "idle" => \A i \in DOMAIN Running.nodes :
    LET n == Running.nodes[i] t == n.type v == values[n.id] IN
    HasLargest(t, v) \/
      \A old \in {Fit(n.id, a[n.id], Running.nodes) : a \in setup.values} :
        LET r == Decode(t, Encode(t, v) \o <<Bad>>, old)
        IN r.ok /\ r.rest = <<Bad>> /\ Encode(t, r.v) = Encode(t, v)

\* What is decoded as an integer of some width is the integer that was encoded, never a part
\* of a larger one; but for negative numbers too small for the type, for which there is no check.
Widths == {Unsigned(8), Unsigned(16), Signed(8), Signed(16)}
NeverMisread ==
  saver.pc = "idle" => \A t \in Widths : \A i \in setup.integers :
    LET r == Decode(t, EncodeInt(i), 7) IN
      r.ok => r.v = i \/ (t.kind = "signed" /\ i < -2^(t.bits - 1))

\* save() returns true only if the EEPROM holds what it was to write.
TrueMeansWritten ==
  told # None /\ told.ok => SubSeq(eeprom.cells, 1, Len(told.cells)) = told.cells
\* Saving and loading: true is said of whole saves only, and what was saved is loaded again.
SavesAndLoads == TypeOK /\ TrueMeansSaved /\ LoadRestores

\* The binary codec on every value, item length and width of the run.
CodecSound == RoundTrips /\ NeverMisread
=============================================================================
