------------------------ MODULE MCCanRequestResponse ------------------------
(***************************************************************************)
(* Two clients with short messages and prompt answers, the same with late  *)
(* answers, and one client with long messages.                             *)
(***************************************************************************)
EXTENDS CanRequestResponse

CONSTANTS c1, c2

Of(callers, long, prompt) == [callers |-> callers, long |-> long, prompt |-> prompt]
MCSetups == {Of({c1, c2}, FALSE, TRUE), Of({c1, c2}, FALSE, FALSE), Of({c1}, TRUE, TRUE)}
=============================================================================
