---------------------------- MODULE MCSyncSystem ----------------------------
(* Instances of SyncSystem for TLC. *)
EXTENDS SyncSystem, TLC

CONSTANTS ingest, handler, r1, d1, k1

MCValue == {"idle", "running"}

AskOf(r) == [kind |-> "permission_request", ref |-> r, val |-> None, origin |-> None]
AnswerOf(r) ==
  [kind |-> "permission_resolved", ref |-> r, val |-> None, origin |-> <<d1, k1>>]
Output == [kind |-> "output", ref |-> None, val |-> None, origin |-> None]
Status(v) == [kind |-> "status_change", ref |-> None, val |-> v, origin |-> None]

\* The ingest loop asks; a command handler resolves or reports a status.
MCWriterEvents ==
  ingest :> {AskOf(r1), Status("running")} @@ handler :> {AnswerOf(r1)}

\* Events that differ in nothing but their place.
PlainEvents == [w \in Writer |-> {Output}]
=============================================================================
