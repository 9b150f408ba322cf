------------------------------ MODULE NodeList ------------------------------
(***************************************************************************)
(* IntrusiveLinkedList: a list is a head and a tail; the links are fields  *)
(* of the nodes themselves, one field for the registry's buckets and one   *)
(* for the children of a parent.  A node can therefore be in one list of   *)
(* each sort, and a link outlives the list it was made for.                *)
(***************************************************************************)
EXTENDS Integers, Sequences, FiniteSets
LOCAL INSTANCE SequencesExt

CONSTANTS
  Node,         \* the node objects of the program
  Nil           \* a null pointer

Ptr == Node \cup {Nil}

EmptyList == [head |-> Nil, tail |-> Nil]

\* A list object and the links it goes through.
ListOf(l, nx) == [list |-> l, next |-> nx]

\* The nodes an iteration of list l visits, in order; one node more than there are if it
\* does not end.
Elems(l, nx) ==
  LET after[k \in 0..Cardinality(Node)] ==
        [p \in Ptr |-> IF p = Nil THEN <<>> ELSE IF k = 0 THEN <<p>>
                       ELSE <<p>> \o after[k - 1][nx[p]]]
  IN after[Cardinality(Node)][l.head]

\* Does the iteration of l come to an end?
Ends(l, nx) == Len(Elems(l, nx)) <= Cardinality(Node)

Among(l, nx) == ToSet(Elems(l, nx))

\* Mutant of PushBack: a node that is already linked is appended again.
PushBack_Relinks(l, nx, n) ==
  IF l.tail = Nil THEN ListOf([head |-> n, tail |-> n], nx)
  ELSE ListOf([l EXCEPT !.tail = n], [nx EXCEPT ![l.tail] = n])

\* push_back: a node that has a successor already is left where it is.
PushBack(l, nx, n) ==
  IF nx[n] # Nil THEN ListOf(l, nx)
  ELSE IF l.tail = Nil THEN ListOf([head |-> n, tail |-> n], nx)
  ELSE ListOf([l EXCEPT !.tail = n], [nx EXCEPT ![l.tail] = n])

\* Mutant of Unlink: the tail pointer is not moved back.
Unlink_KeepsTail(l, nx, n) ==
  IF n \notin Among(l, nx) THEN ListOf(l, nx)
  ELSE IF l.head = n
       THEN ListOf([l EXCEPT !.head = nx[n]], [nx EXCEPT ![n] = Nil])
       ELSE LET prev == CHOOSE p \in Among(l, nx) : nx[p] = n IN
            ListOf(l, [nx EXCEPT ![prev] = nx[n], ![n] = Nil])

\* remove: take the node out, if it is in the list.
Unlink(l, nx, n) ==
  IF n \notin Among(l, nx) THEN ListOf(l, nx)
  ELSE IF l.head = n
       THEN ListOf([head |-> nx[n], tail |-> IF l.tail = n THEN nx[n] ELSE l.tail],
                   [nx EXCEPT ![n] = Nil])
       ELSE LET prev == CHOOSE p \in Among(l, nx) : nx[p] = n IN
            ListOf([l EXCEPT !.tail = IF @ = n THEN prev ELSE @],
                   [nx EXCEPT ![prev] = nx[n], ![n] = Nil])
=============================================================================
