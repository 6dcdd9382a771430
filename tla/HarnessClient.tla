--------------------------- MODULE HarnessClient ---------------------------
(***************************************************************************)
(* The state machine of HarnessClient                                      *)
(* (clients/packages/harness-protocol/src/client.ts) for a paired device:  *)
(* sockets, snapshots, events, gaps, full resync and reconnection.  The    *)
(* client is single-threaded, so each callback is one step.                *)
(*                                                                         *)
(* A callback is a function from the client's state to its next state;     *)
(* SyncSystem connects the callbacks to the sockets.  SessionState keeps   *)
(* of the reducer's state what the log determines: the pending requests,   *)
(* status and mode (view), and the events the transcript is built from.    *)
(***************************************************************************)
EXTENDS SessionLog

\* The null sessionId; sessions are numbered from 1.
NoSession == 0

NewSessionState ==
  [id |-> NoSession, lastSeq |-> 0, tipSeq |-> 0, view |-> EmptyView,
   transcript |-> <<>>]

NewClient ==
  [session |-> NewSessionState, phase |-> "idle", gapSeq |-> 0, gapCount |-> 0,
   fullResync |-> FALSE, closedByUser |-> FALSE, timer |-> FALSE,
   socket |-> None]

-----------------------------------------------------------------------------
(* reducer.ts *)

\* applySnapshot: a new session drops everything; lastSeq is not touched.
ApplySnapshot(state, id, tip, view) ==
  LET base == IF state.id # NoSession /\ state.id # id THEN NewSessionState
                                                       ELSE state
  IN  [base EXCEPT !.id = id, !.tipSeq = tip, !.view = view]

ApplyEvent(state, seq, ev) ==
  [state EXCEPT !.lastSeq = seq,
                !.view = Materialize(@, ev),
                !.transcript = Append(@, ev)]

-----------------------------------------------------------------------------
(* client.ts *)

\* openNormalSocket, the part before the new socket is created; phase looks at
\* the session before a full resync clears it.
OpenNormalSocket(cl, socket) ==
  [cl EXCEPT !.phase = IF cl.session.id = NoSession THEN "connecting"
                                                    ELSE "reconnecting",
             !.session = IF cl.fullResync THEN NewSessionState ELSE @,
             !.fullResync = FALSE,
             !.socket = socket]

\* connect: any pending reconnection is cancelled, an open socket is not.
Connect(cl, socket) ==
  OpenNormalSocket([cl EXCEPT !.closedByUser = FALSE, !.gapCount = 0,
                              !.timer = FALSE], socket)

\* Mutant of ScheduleReconnect: only a live client reconnects.
ScheduleReconnectWhenLive(cl) ==
  IF cl.closedByUser \/ cl.phase # "live" THEN cl
  ELSE [cl EXCEPT !.phase = "reconnecting", !.timer = TRUE]

ScheduleReconnect(cl) ==
  IF cl.closedByUser THEN cl
  ELSE [cl EXCEPT !.phase = "reconnecting", !.timer = TRUE]

\* close
UserClose(cl) ==
  [cl EXCEPT !.closedByUser = TRUE, !.timer = FALSE, !.socket = None,
             !.phase = "idle"]

AtTip(state) == state.lastSeq >= state.tipSeq

\* Mutant of HandleSnapshot: live before the catch-up has arrived.
HandleSnapshotAndGoLive(cl, id, tip, view) ==
  [cl EXCEPT !.session = ApplySnapshot(cl.session, id, tip, view),
             !.phase = "live"]

HandleSnapshot(cl, id, tip, view) ==
  LET session == ApplySnapshot(cl.session, id, tip, view)
  IN  [cl EXCEPT !.session = session,
                 !.phase = IF AtTip(session) THEN "live" ELSE "syncing"]

\* handleEvent, by the seq of the event: seen already, the next, or a gap.
IsOlder(cl, seq) == seq < cl.session.lastSeq        \* mutant of IsDuplicate
IsFarAhead(cl, seq) == seq > cl.session.lastSeq + 2  \* mutant of IsGap

IsDuplicate(cl, seq) == seq <= cl.session.lastSeq
IsGap(cl, seq) == seq > cl.session.lastSeq + 1

HandleNext(cl, seq, ev) ==
  LET session == ApplyEvent(cl.session, seq, ev)
  IN  [cl EXCEPT !.session = session, !.gapSeq = 0, !.gapCount = 0,
                 !.phase = IF AtTip(session) THEN "live" ELSE @]

\* Mutant of NoteGap: the count is not reset when the resync is asked for.
NoteGapUnreset(cl, seq) ==
  LET count == IF cl.gapSeq = seq THEN cl.gapCount + 1 ELSE 1
  IN  ScheduleReconnect(
        [cl EXCEPT !.gapSeq = seq, !.gapCount = count,
                   !.fullResync = @ \/ count >= 3, !.socket = None])

\* noteGap: the third gap in a row at the same seq asks for a full resync; the
\* current socket is dropped.
NoteGap(cl, seq) ==
  LET count == IF cl.gapSeq = seq THEN cl.gapCount + 1 ELSE 1
      again == count >= 3
  IN  ScheduleReconnect(
        [cl EXCEPT !.gapSeq = IF again THEN 0 ELSE seq,
                   !.gapCount = IF again THEN 0 ELSE count,
                   !.fullResync = @ \/ again,
                   !.socket = None])
=============================================================================
