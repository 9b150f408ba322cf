------------------------- MODULE MCCanAddressClaim -------------------------
(***************************************************************************)
(* Two Zephyr nodes that start together, two SocketCAN nodes, a node that  *)
(* joins two others of either kind, and late answers.                      *)
(***************************************************************************)
EXTENDS CanAddressClaim, TLC

CONSTANTS n1, n2, n3

Kinds(k1, k2, k3) == n1 :> k1 @@ n2 :> k2 @@ n3 :> k3
Old(x, y, z) == n1 :> x @@ n2 :> y @@ n3 :> z
Net(k1, k2, k3, old, starts, prompt) ==
  [kind |-> Kinds(k1, k2, k3), old |-> old, starts |-> starts, prompt |-> prompt]
Z == "zephyr"
S == "socketcan"
Nobody == Old(None, None, None)
MCSetups == {Net(Z, Z, Z, Nobody, {n1, n2}, TRUE), Net(S, S, Z, Nobody, {n1, n2}, TRUE),
             Net(Z, S, Z, Nobody, {n1, n2}, TRUE),
             Net(Z, S, Z, Old(None, 2, 1), {n1}, TRUE), Net(S, S, Z, Old(None, 2, 1), {n1}, TRUE),
             Net(Z, S, Z, Old(None, 2, 1), {n1}, FALSE)}
=============================================================================
