----------------------------- MODULE SessionLog -----------------------------
(***************************************************************************)
(* The vocabulary of the append-only event log of a session                *)
(* (internal/store/store.go) and the state GetSnapshot derives from it.    *)
(* The log of a session is a sequence of events: the seq the store assigns *)
(* to an event is its position.                                            *)
(*                                                                         *)
(* An event keeps what the rest of the system tells apart: its kind, the   *)
(* permission or question id it names, the value it carries (a decision,   *)
(* a mode or a status) and its origin, the command that caused it.  Of the *)
(* origin <<device, key>> the payload carries only the device (byDevice);  *)
(* the idempotency key is a history value.                                 *)
(***************************************************************************)
EXTENDS Naturals, Sequences

CONSTANTS
  Device,       \* ids of paired devices
  Permission,   \* ids of permission requests
  Question,     \* ids of questions
  Key,          \* idempotency keys of commands
  Value,        \* decisions, answers, modes and statuses
  None          \* the absent id, value or origin

Ref == Permission \cup Question
Origin == Device \X Key

(***************************************************************************)
(* Permission and question ids live in two maps of the hub, so an id       *)
(* stands for itself together with its map.  Both statuses the code names  *)
(* are values.                                                             *)
(***************************************************************************)
ASSUME IdAssumption ==
  /\ Permission \cap Question = {}
  /\ None \notin Ref
  /\ None \notin Origin
ASSUME ValueAssumption == {"idle", "running"} \subseteq Value

(***************************************************************************)
(* "output" stands for the kinds no derived state depends on: text_delta,  *)
(* tool_call_start, tool_call_end, turn_complete, usage_update and error.  *)
(***************************************************************************)
EventKind ==
  {"permission_request", "question", "permission_resolved",
   "question_resolved", "mode_changed", "status_change", "user_prompt",
   "output"}

Event == [kind : EventKind, ref : Ref \cup {None}, val : Value \cup {None},
          origin : Origin \cup {None}]

AskKind(r) == IF r \in Permission THEN "permission_request" ELSE "question"

ResolvedKind(r) ==
  IF r \in Permission THEN "permission_resolved" ELSE "question_resolved"

IsAsk(ev, r) == ev.kind = AskKind(r) /\ ev.ref = r
IsResolution(ev, r) == ev.kind = ResolvedKind(r) /\ ev.ref = r

\* What the daemon appends: a request or a resolution names an id, of the map
\* its kind belongs to, and a status is one of the values.
ProperEvent ==
  {ev \in Event :
     /\ ev.kind \in {"permission_request", "question"} =>
          ev.ref \in Ref /\ IsAsk(ev, ev.ref)
     /\ ev.kind \in {"permission_resolved", "question_resolved"} =>
          ev.ref \in Ref /\ IsResolution(ev, ev.ref)
     /\ ev.kind = "status_change" => ev.val \in Value}

(***************************************************************************)
(* What GetSnapshot materialises, by folding the log from the left: a      *)
(* request adds its id to the pending ones, a resolution deletes it, and   *)
(* the last status and mode win.                                           *)
(***************************************************************************)
View == [pending : SUBSET Ref, status : Value, mode : Value \cup {None}]

EmptyView == [pending |-> {}, status |-> "idle", mode |-> None]

Materialize(view, ev) ==
  CASE ev.kind \in {"permission_request", "question"} ->
         [view EXCEPT !.pending = @ \cup {ev.ref}]
    [] ev.kind \in {"permission_resolved", "question_resolved"} ->
         [view EXCEPT !.pending = @ \ {ev.ref}]
    [] ev.kind = "status_change" -> [view EXCEPT !.status = ev.val]
    [] ev.kind = "mode_changed"  -> [view EXCEPT !.mode = ev.val]
    [] OTHER -> view

\* GetSnapshot, as a function of how many events it has folded.
Snapshot(log) ==
  LET fold[n \in 0 .. Len(log)] ==
        IF n = 0 THEN EmptyView ELSE Materialize(fold[n - 1], log[n])
  IN  fold[Len(log)]

(***************************************************************************)
(* The same state without the fold: an id is pending when it was asked and *)
(* not resolved since.                                                     *)
(***************************************************************************)
Requested(log, r) == \E i \in DOMAIN log : IsAsk(log[i], r)
Resolved(log, r) == \E i \in DOMAIN log : IsResolution(log[i], r)

Unresolved(log) ==
  {r \in Ref : \E i \in DOMAIN log :
      /\ IsAsk(log[i], r)
      /\ \A j \in DOMAIN log : j > i => ~IsResolution(log[j], r)}
=============================================================================
