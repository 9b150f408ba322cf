--------------------------- MODULE MCReportStream ---------------------------
(***************************************************************************)
(* CAN frames of three bytes and datagrams of five with a header of one;   *)
(* two reliable senders, and one whose frames are lost or overtaken.       *)
(***************************************************************************)
EXTENDS ReportStream

CONSTANTS s1, s2

System(size, header, senders, keyed, l, f, n) ==
  [size |-> size, header |-> header, senders |-> senders, keyed |-> keyed, losses |-> l, fails |-> f,
   count |-> n]
MCSetups == {System(3, 0, {s1}, TRUE, 0, 1, 3), System(5, 1, {s1}, TRUE, 0, 1, 2),
             System(3, 0, {s1}, TRUE, 2, 1, 2), System(5, 1, {s1}, TRUE, 1, 0, 2),
             System(3, 0, {s1, s2}, TRUE, 0, 0, 1), System(5, 1, {s1, s2}, FALSE, 0, 0, 1)}
MCReports == {<<1>>, <<2, 2, 1>>, <<1, 3, 2>>, <<3, 3, 3>>, <<3, 4, 6>>, <<3, 5>>, <<1, 1, 1, 1, 1, 1>>}
=============================================================================
