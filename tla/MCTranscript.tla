---------------------------- MODULE MCTranscript ----------------------------
(***************************************************************************)
(* Instances of Transcript for TLC: a long log on one connection, of the   *)
(* lines that make items; a shorter one of all lines; and short ones with  *)
(* an app that is killed or a connection that is lost, and with that and a *)
(* restart of the daemon.                                                  *)
(***************************************************************************)
EXTENDS Transcript

AllLines == {line.type : line \in Line}
ItemLines == {"text", "tool_use", "tool_result", "permission", "stop"}

LongOrBroken ==
  {[events |-> 5, sessions |-> 1, breaks |-> 0, lines |-> ItemLines],
   [events |-> 4, sessions |-> 1, breaks |-> 0, lines |-> AllLines],
   [events |-> 3, sessions |-> 1, breaks |-> 1, lines |-> AllLines],
   [events |-> 2, sessions |-> 2, breaks |-> 1, lines |-> AllLines]}
=============================================================================
