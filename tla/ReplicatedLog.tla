--------------------------- MODULE ReplicatedLog ---------------------------
(***************************************************************************)
(* What event synchronisation promises a screen: the daemon keeps one      *)
(* append-only log per session, and a screen shows a copy that is at all   *)
(* times a prefix of the log of one session.  A copy grows by the next     *)
(* event of that log and by nothing else, or it starts again from nothing. *)
(*                                                                         *)
(* When a copy grows is left open: a screen may be offline for as long as  *)
(* it likes.                                                               *)
(***************************************************************************)
EXTENDS Naturals, Sequences

CONSTANTS Event, NoSession

VARIABLES
  logs,    \* the logs of the sessions so far; the last one is current
  copyOf,  \* the session the screen shows, or NoSession
  copy     \* the events it shows

rvars == <<logs, copyOf, copy>>

Init ==
  /\ logs = <<<<>>>>
  /\ copyOf = NoSession
  /\ copy = <<>>

\* The daemon appends to the current log.
AppendToLog ==
  /\ \E ev \in Event :
       logs' = [logs EXCEPT ![Len(logs)] = Append(@, ev)]
  /\ UNCHANGED <<copyOf, copy>>

\* The daemon restarts, with a new session.
NewSession ==
  /\ logs' = Append(logs, <<>>)
  /\ UNCHANGED <<copyOf, copy>>

\* The screen learns which session it is to show, with nothing shown yet.
Follow ==
  /\ copyOf' \in DOMAIN logs
  /\ copy = <<>>
  /\ UNCHANGED <<logs, copy>>

\* The screen shows the next event of its session.
ShowNext ==
  /\ copyOf # NoSession
  /\ Len(copy) < Len(logs[copyOf])
  /\ copy' = Append(copy, logs[copyOf][Len(copy) + 1])
  /\ UNCHANGED <<logs, copyOf>>

\* The screen discards what it shows.
StartAgain ==
  /\ copyOf' \in DOMAIN logs \cup {NoSession}
  /\ copy' = <<>>
  /\ UNCHANGED logs

Next == AppendToLog \/ NewSession \/ Follow \/ ShowNext \/ StartAgain

Spec == Init /\ [][Next]_rvars

\* A screen shows a prefix of the log of its session.
CopyIsPrefix ==
  copyOf # NoSession => copy = SubSeq(logs[copyOf], 1, Len(copy))
=============================================================================
