----------------------------- MODULE MCIsoTpLink -----------------------------
(***************************************************************************)
(* The link in two environments; the first state chooses one.  The         *)
(* constants of the .cfg are those of the prompt one: no faults, and a     *)
(* receiver that has dispatched a message before the next frame arrives.   *)
(***************************************************************************)
EXTENDS IsoTpLink

CONSTANTS m1, m2, m3, a1

VARIABLE env

\* A message of two blocks that wraps the sequence number, one of a single block, and a single-frame message.
MCCfs  == [m \in Msg |-> CASE m = m1 -> 4 [] m = m2 -> 1 [] m = m3 -> 0]
MCDest == [m \in Msg |-> a1]

\* Frames may be lost or fail twice, and arrive while the receiver is busy.
Lossy == INSTANCE IsoTpLink WITH
  Bs <- 2, RBs <- 2, FaultKinds <- {"loss", "txError"}, MaxFaults <- 2, PromptReceiver <- FALSE

vars == <<env, allVars>>

Init == env \in {"prompt", "lossy"} /\ LinkInit
Next == \/ env = "prompt" /\ LinkNext /\ UNCHANGED env
        \/ env = "lossy" /\ Lossy!LinkNext /\ UNCHANGED env

Spec == /\ Init /\ [][Next]_vars
        /\ env = "prompt" => LinkFairness
        /\ env = "lossy" => Lossy!LinkFairness

\* Over a faultless bus a prompt receiver is passed every message (recv_callback).
PromptlyDelivered == env = "prompt" => EveryMessageDelivered
\* Every accepted message is answered by a report, whatever is lost, and a faultless bus
\* delivers it (sent_callback and recv_callback).
AnsweredAndDelivered == EveryMessageAnswered /\ PromptlyDelivered
=============================================================================
