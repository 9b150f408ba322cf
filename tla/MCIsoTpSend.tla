----------------------------- MODULE MCIsoTpSend -----------------------------
(***************************************************************************)
(* The transmitter in two environments; the first state chooses one.  The  *)
(* constants of the .cfg are those of the one in which the owner unbinds,  *)
(* interrupted anywhere, and the bus does not fail.                        *)
(***************************************************************************)
EXTENDS IsoTpSend

CONSTANTS m1, m2, m3, a1

VARIABLE env

\* A message of two blocks (first frame, four consecutive frames), a shorter one,
\* and a single-frame message, to one recipient.
MCCfs == [m \in Msg |-> CASE m = m1 -> 4 [] m = m2 -> 1 [] m = m3 -> 0]
MCOneDest == [m \in Msg |-> a1]
MCPeerFc == {[fs |-> "CTS", bs |-> 2], [fs |-> "WAIT", bs |-> 0], [fs |-> "OVFLW", bs |-> 0]}

\* A separation time, and two CAN errors, at can_send or on the bus; no unbind.
Failing == INSTANCE IsoTpSend WITH
  Stmin <- TRUE, MayUnbind <- FALSE, FaultKinds <- {"txError", "sendFails"}, MaxFaults <- 2

vars == <<env, allSendVars>>

Init == env \in {"unbind", "faults"} /\ SendStart
Next == \/ env = "unbind" /\ SendNext /\ UNCHANGED env
        \/ env = "faults" /\ Failing!SendNext /\ UNCHANGED env

Spec == Init /\ [][Next]_vars /\ (env = "unbind" => SendFairness)

\* No faults, unbind at any moment: success means transmitted (sent_callback).
UnboundOkMeansAired == env = "unbind" => OkMeansAired
\* Contexts are attended to, messages reported and orphans returned, if memory is valid.
UnboundEverythingEnds == env = "unbind" => EverythingEnds
\* The inductive invariant of a disciplined use: pending_cb counts the frame in the driver.
FailingSendInv == env = "faults" => Failing!SendInv
=============================================================================
