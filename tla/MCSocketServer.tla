--------------------------- MODULE MCSocketServer ---------------------------
(* Two clients in one piece, three for two slots, messages in pieces, clients that close or
   stall, asio. *)
EXTENDS SocketServer
CONSTANTS c1, c2, c3
MCClient == {c1, c2, c3}
Of(clients, asio, calls, pieces, leaves, stops) ==
  [clients |-> clients, asio |-> asio, calls |-> calls, pieces |-> pieces, leaves |-> leaves, stops |-> stops]
Leaves == {"closed", "stalled"}
MCSetups == { Of({c1, c2}, FALSE, 2, 1, {}, TRUE), Of({c1, c2, c3}, FALSE, 1, 1, {"closed"}, FALSE),
              Of({c1, c2}, FALSE, 1, 2, Leaves, FALSE), Of({c1, c2}, FALSE, 1, 2, {"stalled"}, TRUE),
              Of({c1}, FALSE, 1, 2, Leaves, TRUE),
              Of({c1, c2, c3}, TRUE, 1, 1, {"stalled"}, TRUE), Of({c1, c2}, TRUE, 1, 2, Leaves, FALSE) }
=============================================================================
