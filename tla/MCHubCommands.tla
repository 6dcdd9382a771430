--------------------------- MODULE MCHubCommands ---------------------------
(***************************************************************************)
(* Instances of HubCommands for TLC.  A small set of connections, requests *)
(* and commands, each configuration choosing which.                        *)
(***************************************************************************)
EXTENDS HubCommands, TLC

CONSTANTS c1, c2, c3, d1, d2, k1, k2, k3, k4, k5, p1, q1

\* d1 has two connections (the old one and the one it came back on), d2 one.
MCDeviceOf == (c1 :> d1) @@ (c2 :> d1) @@ (c3 :> d2)

TwoConnDeviceOf == (c1 :> d1) @@ (c3 :> d2)

AnswerPermission(k, v) ==
  [key |-> k, kind |-> "answer_permission", ref |-> p1, val |-> v]
AnswerQuestion(k) ==
  [key |-> k, kind |-> "answer_question", ref |-> q1, val |-> "allow"]
Other(k, kind) == [key |-> k, kind |-> kind, ref |-> None, val |-> None]

MCValue == {"allow", "deny", "idle", "running"}

\* Both devices answer p1; d1 also sends a prompt, d2 two commands the hub
\* rejects.
SafetyOutbox ==
  (d1 :> {AnswerPermission(k1, "allow"), Other(k2, "send_prompt")}) @@
  (d2 :> {AnswerPermission(k3, "deny"), Other(k4, "malformed"), Other(k5, "no_id")})
LiveOutbox ==
  (d1 :> {AnswerPermission(k1, "allow"), AnswerQuestion(k2)}) @@
  (d2 :> {AnswerPermission(k3, "deny")})
=============================================================================
