------------------------------- MODULE Daemon -------------------------------
(***************************************************************************)
(* The life of the daemon: harness serve (cmd/harness/main.go) from its    *)
(* start to its shutdown, beside harness pair --qr, with the host identity *)
(* they keep on disk (internal/certutil) and the process tree of the agent *)
(* (internal/agent/claude, internal/supervisor).                           *)
(*                                                                         *)
(* Both commands run LoadOrGenerate on the same two files with no lock     *)
(* between them, and either may die at any step.  What a phone pins of the *)
(* host is the fingerprint of its key, from a QR code.                     *)
(***************************************************************************)
EXTENDS Naturals, FiniteSets

CONSTANTS
  Platforms,  \* whether supervisor_windows.go may be built, or supervisor_other.go
  KeyDamage,  \* whether the key file may be deleted or damaged
  MaxKeys,    \* bounds: keys minted
  MaxStarts   \* and starts of the two commands

ASSUME DaemonAssumption ==
  /\ Platforms \subseteq BOOLEAN /\ KeyDamage \in BOOLEAN
  /\ MaxKeys \in Nat \ {0} /\ MaxStarts \in Nat

VARIABLES
  keyFile,   \* key.pem: a key, Absent, or Damaged
  certFile,  \* cert.pem: the key it was made with and whether it still covers
             \* the host's addresses and is not near its end, or Absent
  minted,    \* keys generated so far
  windows,   \* the platform
  proc,      \* per command: where it is, whether it saw the key file, its key
  starts,    \* commands started so far
  printed,   \* keys named by QR codes shown so far
  agent,     \* the process tree of claude and its readers
  damaged,   \* history: the key file was deleted or damaged
  crossed    \* history: a key was minted beside one the other command had minted

fileVars == <<keyFile, certFile, minted>>
vars == <<fileVars, windows, proc, starts, printed, agent, damaged, crossed>>

Command == {"serve", "qr"}
Key == 1 .. MaxKeys
Absent == [key |-> 0]
Damaged == [key |-> MaxKeys + 1]
NoKey == 0

Loading == {"check", "load", "key", "writeKey", "writeCert"}
Up == {"ready", "assign", "serving", "kill", "wait"}

Step(p, from, to) == proc[p].pc = from /\ proc' = [proc EXCEPT ![p].pc = to]

-----------------------------------------------------------------------------
(* certutil.LoadOrGenerate *)

StartCommand(p) ==
  /\ starts < MaxStarts
  /\ starts' = starts + 1
  /\ proc[p].pc = "off"
  /\ proc' = [proc EXCEPT ![p] = [pc |-> "check", sawKey |-> FALSE, key |-> NoKey]]
  /\ UNCHANGED <<fileVars, windows, printed, agent, damaged, crossed>>

CheckFiles(p) ==
  /\ proc[p].pc = "check"
  /\ proc' = [proc EXCEPT ![p].sawKey = keyFile # Absent,
                          ![p].pc = IF certFile # Absent /\ keyFile # Absent
                                    THEN "load" ELSE "key"]
  /\ UNCHANGED <<fileVars, windows, starts, printed, agent, damaged, crossed>>

\* LoadX509KeyPair, covers and not nearExpiry.
Usable ==
  /\ certFile # Absent
  /\ keyFile.key = certFile.key /\ keyFile.key \in Key
  /\ certFile.good

\* Mutant of LoadPair: a pair that was loaded comes without its pins.
LoadPairUnpinned(p) ==
  /\ proc[p].pc = "load"
  /\ proc' = [proc EXCEPT ![p].pc = IF Usable THEN "ready" ELSE "key"]
  /\ UNCHANGED <<fileVars, windows, starts, printed, agent, damaged, crossed>>

LoadPair(p) ==
  /\ proc[p].pc = "load"
  /\ proc' = [proc EXCEPT ![p].pc = IF Usable THEN "ready" ELSE "key",
                          ![p].key = IF Usable THEN keyFile.key ELSE NoKey]
  /\ UNCHANGED <<fileVars, windows, starts, printed, agent, damaged, crossed>>

\* Mutant of Reuses: a key is only reused while its certificate is good.
ReusesUsable(p) == proc[p].sawKey /\ Usable

\* loadOrGenerateKey: a key file that was there and can be parsed is reused.
Reuses(p) == proc[p].sawKey /\ keyFile.key \in Key

LoadOrGenerateKey(p) ==
  /\ proc[p].pc = "key"
  /\ IF Reuses(p)
     THEN /\ proc' = [proc EXCEPT ![p].pc = "writeKey", ![p].key = keyFile.key]
          /\ UNCHANGED <<minted, crossed>>
     ELSE /\ minted < MaxKeys
          /\ minted' = minted + 1
          /\ proc' = [proc EXCEPT ![p].pc = "writeKey", ![p].key = minted + 1]
          /\ crossed' = (crossed \/ (~proc[p].sawKey /\ keyFile.key \in Key)
                                \/ \E q \in Command \ {p} : proc[q].pc \in {"writeKey", "writeCert"})
  /\ UNCHANGED <<keyFile, certFile, windows, starts, printed, agent, damaged>>

\* writeFileAtomic, for the key and then for the certificate.
WriteKey(p) ==
  /\ Step(p, "writeKey", "writeCert")
  /\ keyFile' = [key |-> proc[p].key]
  /\ UNCHANGED <<certFile, minted, windows, starts, printed, agent, damaged, crossed>>

\* Mutant of WriteCert: a certificate that is there is left alone.
WriteFirstCert(p) ==
  /\ Step(p, "writeCert", "ready")
  /\ certFile' = IF certFile # Absent THEN certFile
                 ELSE [key |-> proc[p].key, good |-> TRUE]
  /\ UNCHANGED <<keyFile, minted, windows, starts, printed, agent, damaged, crossed>>

WriteCert(p) ==
  /\ Step(p, "writeCert", "ready")
  /\ certFile' = [key |-> proc[p].key, good |-> TRUE]
  /\ UNCHANGED <<keyFile, minted, windows, starts, printed, agent, damaged, crossed>>

-----------------------------------------------------------------------------
(* The two commands after that *)

\* pair --qr prints the QR code and ends.
PrintQR ==
  /\ Step("qr", "ready", "off")
  /\ printed' = printed \cup {proc["qr"].key}
  /\ UNCHANGED <<fileVars, windows, starts, agent, damaged, crossed>>

NoAgent == [leader |-> "none", tools |-> "none", reading |-> FALSE, canceled |-> FALSE,
            early |-> FALSE]

\* adapter.Start: the process runs, its tree is put into a job afterwards.
StartAgent ==
  /\ Step("serve", "ready", "assign")
  /\ agent' = [NoAgent EXCEPT !.leader = "running"]
  /\ UNCHANGED <<fileVars, windows, starts, printed, damaged, crossed>>

\* assignAfterStart, the readers, and the rest of serve up to the listener.
Serve ==
  /\ Step("serve", "assign", "serving")
  /\ agent' = [agent EXCEPT !.reading = TRUE]
  /\ printed' = printed \cup {proc["serve"].key}
  /\ UNCHANGED <<fileVars, windows, starts, damaged, crossed>>

\* A command ends with os.Exit(1) or is killed; so far as serve has started
\* it, the agent is left to itself.
Die(p) ==
  /\ proc[p].pc # "off"
  /\ proc' = [proc EXCEPT ![p].pc = "off"]
  /\ agent' = IF p = "serve" THEN NoAgent ELSE agent
  /\ UNCHANGED <<fileVars, windows, starts, printed, damaged, crossed>>

-----------------------------------------------------------------------------
(* Shutdown: adapter.Stop *)

\* A signal; Stop cancels the context of the process.
CancelContext ==
  /\ Step("serve", "serving", "kill")
  /\ agent' = [agent EXCEPT !.canceled = TRUE]
  /\ UNCHANGED <<fileVars, windows, starts, printed, damaged, crossed>>

Killed(leader) == IF leader = "running" THEN "zombie" ELSE leader

\* Mutant of Tree: only the process itself is killed.
TreeOfOne == [agent EXCEPT !.leader = Killed(@)]

\* killTree: the job, or the process group of a process that can still be
\* looked up.
Tree ==
  IF windows \/ agent.leader \in {"running", "zombie"}
  THEN [agent EXCEPT !.leader = Killed(@), !.tools = IF @ = "inside" THEN "none" ELSE @]
  ELSE agent

KillTree ==
  /\ Step("serve", "kill", "wait")
  /\ agent' = [Tree EXCEPT !.early = agent.leader \notin {"running", "zombie"}]
  /\ UNCHANGED <<fileVars, windows, starts, printed, damaged, crossed>>

\* wg.Wait, and serve returns.
StopReturns ==
  /\ ~agent.reading
  /\ Step("serve", "wait", "off")
  /\ agent' = NoAgent
  /\ UNCHANGED <<fileVars, windows, starts, printed, damaged, crossed>>

-----------------------------------------------------------------------------
(* The agent and its readers *)

AgentStep(next) ==
  /\ agent' = next
  /\ UNCHANGED <<fileVars, windows, proc, starts, printed, damaged, crossed>>

\* A tool started before the process was put into its job stays outside it;
\* a process group has it from the start.
ToolStarts ==
  /\ agent.leader = "running" /\ agent.tools = "none"
  /\ AgentStep([agent EXCEPT !.tools =
       IF windows /\ proc["serve"].pc = "assign" THEN "outside" ELSE "inside"])

ToolEnds == agent.tools # "none" /\ AgentStep([agent EXCEPT !.tools = "none"])

LeaderExits == agent.leader = "running" /\ AgentStep([agent EXCEPT !.leader = "zombie"])

\* exec.CommandContext kills the process once its context is done.
ContextKills ==
  /\ agent.canceled /\ agent.leader = "running"
  /\ AgentStep([agent EXCEPT !.leader = "zombie"])

\* reap: Wait returns and closes the pipes.
Reap == agent.leader = "zombie" /\ AgentStep([agent EXCEPT !.leader = "reaped"])

\* Mutant of EndOfOutput: a reader waits for the last writer of its pipe.
LastWriterGone == agent.leader # "running" /\ agent.tools = "none"

\* A pipe ends when Wait has closed it, or when nobody has it open for writing.
EndOfOutput ==
  agent.leader = "reaped" \/ (agent.leader # "running" /\ agent.tools = "none")

ReadersEnd == agent.reading /\ EndOfOutput /\ AgentStep([agent EXCEPT !.reading = FALSE])

-----------------------------------------------------------------------------
(* The world outside *)

\* The host moves to another address or back, or the certificate gets old.
CertificateAges ==
  /\ certFile # Absent
  /\ certFile' = [certFile EXCEPT !.good = ~@]
  /\ UNCHANGED <<keyFile, minted, windows, proc, starts, printed, agent, damaged, crossed>>

KeyFileLost ==
  /\ KeyDamage /\ keyFile.key \in Key
  /\ keyFile' \in {Absent, Damaged}
  /\ damaged' = TRUE
  /\ UNCHANGED <<certFile, minted, windows, proc, starts, printed, agent, crossed>>

-----------------------------------------------------------------------------
Init ==
  /\ keyFile = Absent /\ certFile = Absent /\ minted = 0
  /\ windows \in Platforms
  /\ proc = [p \in Command |-> [pc |-> "off", sawKey |-> FALSE, key |-> NoKey]]
  /\ starts = 0
  /\ printed = {}
  /\ agent = NoAgent
  /\ damaged = FALSE /\ crossed = FALSE

Load(p) == CheckFiles(p) \/ LoadPair(p) \/ LoadOrGenerateKey(p) \/ WriteKey(p) \/ WriteCert(p)
Stop == KillTree \/ StopReturns
AgentRuns == ContextKills \/ Reap \/ ReadersEnd

Next ==
  \/ \E p \in Command : StartCommand(p) \/ Load(p) \/ Die(p)
  \/ PrintQR \/ StartAgent \/ Serve \/ CancelContext \/ Stop
  \/ AgentRuns \/ ToolStarts \/ ToolEnds \/ LeaderExits
  \/ CertificateAges \/ KeyFileLost

Spec == Init /\ [][Next]_vars

\* The goroutines of a stopping daemon and the kernel do their part; nothing
\* obliges a tool to end.
Fairness == WF_vars(Stop) /\ WF_vars(ContextKills) /\ WF_vars(Reap) /\ WF_vars(ReadersEnd)

FairSpec == Spec /\ Fairness

-----------------------------------------------------------------------------
(* Properties *)

\* The type of every variable.
TypeOK ==
  /\ keyFile \in [key : 0 .. MaxKeys + 1]
  /\ certFile \in {Absent} \cup [key : 0 .. minted, good : BOOLEAN]
  /\ minted \in 0 .. MaxKeys /\ windows \in Platforms /\ starts \in 0 .. MaxStarts
  /\ proc \in [Command -> [pc : Loading \cup Up \cup {"off"},
                           sawKey : BOOLEAN, key : 0 .. minted]]
  /\ printed \in SUBSET (1 .. minted)
  /\ agent \in [leader : {"none", "running", "zombie", "reaped"},
                tools : {"none", "inside", "outside"},
                reading : BOOLEAN, canceled : BOOLEAN, early : BOOLEAN]
  /\ damaged \in BOOLEAN /\ crossed \in BOOLEAN

\* PHASE2.md: "both reconnect without re-pairing".  Whatever address the host
\* has, however old its certificate is and wherever either command has died
\* before, the daemon has the key of every QR code ever shown, which is the
\* key every paired phone has pinned, unless the key file was lost or the two
\* commands each made a first key.
PinsStayGood ==
  proc["serve"].pc = "serving" => printed \subseteq {proc["serve"].key} \/ damaged \/ crossed

\* A start that died between the two files, or lost its key file, is made good
\* by the next: as long as the key file has the key a command came away with,
\* the certificate beside it was made with that key.
FilesAreRepaired ==
  \A p \in Command :
    proc[p].pc \in Up /\ keyFile.key = proc[p].key /\ ~crossed => certFile.key = keyFile.key

\* supervisor.go:30: "guarantees their process trees are reaped", a promise
\* without exceptions; the code has two.  A tool of the agent survives Stop only
\* where claude itself had been reaped before killTree looked its process group
\* up, or on Windows if it was started before its parent was in the job.
StraysExplained ==
  proc["serve"].pc = "wait" /\ agent.tools # "none" /\ agent.leader # "running"
    => IF windows THEN agent.tools = "outside" ELSE agent.early

\* A stopping daemon ends, also with a tool that keeps the agent's output open.
StopEnds == proc["serve"].pc = "kill" ~> proc["serve"].pc = "off"
=============================================================================
