--------------------------- MODULE MessageTransfer ---------------------------
(***************************************************************************)
(* What the ISO-TP transport promises its users, whatever the bus does:    *)
(* a message that arrives is one that was sent, whole; messages to one     *)
(* address arrive at most once and in the order they were sent; and the    *)
(* outcome of a send is reported at most once.  Messages may be lost.      *)
(***************************************************************************)
EXTENDS Naturals, Sequences

CONSTANTS
  Msg,
  Content(_),   \* what a message carries
  To(_)         \* the address a message is sent to

VARIABLES
  sent,     \* messages accepted for transmission, in order
  got,      \* contents delivered at the other end, in order
  told      \* told[m]: the outcomes reported for message m

vars == <<sent, got, told>>

Init == sent = <<>> /\ got = <<>> /\ told = [m \in Msg |-> <<>>]

\* Every message is sent once.
Send(m) ==
  /\ \A i \in DOMAIN sent : sent[i] # m
  /\ sent' = Append(sent, m)
  /\ UNCHANGED <<got, told>>

\* Position of the message whose content was delivered as got[k].
SentAt(k) == {i \in DOMAIN sent : Content(sent[i]) = got[k]}

Deliver(i) ==
  /\ \A k \in DOMAIN got : \A j \in SentAt(k) : To(sent[j]) = To(sent[i]) => j < i
  /\ got' = Append(got, Content(sent[i]))
  /\ UNCHANGED <<sent, told>>

Report(m, outcome) ==
  /\ \E i \in DOMAIN sent : sent[i] = m
  /\ told[m] = <<>>
  /\ told' = [told EXCEPT ![m] = <<outcome>>]
  /\ UNCHANGED <<sent, got>>

Next ==
  \/ \E m \in Msg : Send(m)
  \/ \E i \in DOMAIN sent : Deliver(i)
  \/ \E m \in Msg, outcome \in {"ok", "error"} : Report(m, outcome)

Spec == Init /\ [][Next]_vars
=============================================================================
