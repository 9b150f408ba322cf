----------------------------- MODULE IsoTpCommon -----------------------------
(***************************************************************************)
(* What the two halves of the ISO-TP transport share: the messages that    *)
(* are transferred, the environment they are transferred in, and the       *)
(* memory-safety flag.                                                     *)
(*                                                                         *)
(* A message is an identity; its length is Cfs[m], the number of           *)
(* consecutive frames that follow its first frame (0: the message fits in  *)
(* a single frame).  A payload octet range is the pair <<message, index>>  *)
(* of the frame that carries it.                                           *)
(***************************************************************************)
EXTENDS Integers, Sequences, FiniteSets

CONSTANTS
  Msg,          \* messages given to isotp_fast_send
  NoMsg,        \* a data or cb_arg pointer that was never set
  Cfs,          \* Cfs[m]: consecutive frames of message m, 0 for a single frame
  NoBlock,      \* no slab block
  SnMod,        \* sequence numbers are taken modulo SnMod (16: sn is 4 bits wide)
  FaultKinds,   \* which faults the environment may inject
  MaxFaults,    \* bound: how many of them
  LateTimers    \* may a timer expire while the node still has work or frames
                \* of the context it supervises in its own queues?

ASSUME CommonAssumption ==
  /\ Cfs \in [Msg -> Nat]
  /\ NoMsg \notin Msg
  /\ SnMod \in Nat \ {0}
  /\ FaultKinds \subseteq {"loss", "txError", "sendFails"}
  /\ MaxFaults \in Nat
  /\ LateTimers \in BOOLEAN

VARIABLES
  faults,       \* faults injected so far
  corrupt       \* a freed slab block was used, freed again, or handed out with
                \* its work item still queued: undefined behaviour from here on

CommonInit == faults = 0 /\ corrupt = FALSE

CommonTypeOK == faults \in Nat /\ corrupt \in BOOLEAN

\* The environment injects a fault of kind k.
Fault(k) == k \in FaultKinds /\ faults < MaxFaults /\ faults' = faults + 1

NoFault == UNCHANGED faults

\* Memory stays valid in this step, or is corrupted by it.
Safe    == UNCHANGED corrupt
Corrupt == corrupt' = TRUE

\* The memory of the node is never corrupted.  Every access to a context goes
\* through a pointer that a queued CAN frame, a timer, a work item or the
\* application thread holds; none of them may outlive the slab block.
MemorySafe == ~corrupt

\* Counters of type uint8_t.
Byte(n) == n % 256

\* The payload of message m, frame by frame.
Payload(m) == [i \in 1..(Cfs[m] + 1) |-> <<m, i - 1>>]
=============================================================================
