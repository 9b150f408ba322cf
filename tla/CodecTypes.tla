----------------------------- MODULE CodecTypes -----------------------------
(* The types of the variables that are encoded and decoded. *)
EXTENDS Integers, Sequences

\* A value is an integer, a truth value, a sequence of characters, or a sequence of values
\* (a list, the members of a record).
Unsigned(bits) == [kind |-> "unsigned", bits |-> bits]
Signed(bits) == [kind |-> "signed", bits |-> bits]
Boolean == [kind |-> "boolean"]
Text(size) == [kind |-> "text", size |-> size]
List(of, size) == [kind |-> "list", of |-> of, size |-> size]
Member(id, type) == [id |-> id, type |-> type]
RecordOf(members) == [kind |-> "record", members |-> members]

\* Conversion to a signed integer.
Wrap(i, bits) == ((i + 2^(bits - 1)) % 2^bits) - 2^(bits - 1)
=============================================================================
