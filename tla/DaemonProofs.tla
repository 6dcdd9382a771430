---------------------------- MODULE DaemonProofs ----------------------------
(***************************************************************************)
(* Theorems about Daemon, on any platform, for any number of starts and of *)
(* keys, with or without damage to the key file.                           *)
(***************************************************************************)
EXTENDS Daemon, TLAPS

-----------------------------------------------------------------------------
(* Type correctness *)

\* The two records of TypeOK.
ProcType == [Command -> [pc : Loading \cup Up \cup {"off"}, sawKey : BOOLEAN, key : 0 .. minted]]
AgentType == [leader : {"none", "running", "zombie", "reaped"},
              tools : {"none", "inside", "outside"},
              reading : BOOLEAN, canceled : BOOLEAN, early : BOOLEAN]

\* Whoever has a key in hand has one that was minted, and the key file never
\* has one that was not.
HasKey(p) == proc[p].pc \in {"writeKey", "writeCert"} \cup Up

KeysInv ==
  /\ keyFile.key \in 0 .. minted \/ keyFile = Damaged
  /\ \A p \in Command : HasKey(p) => proc[p].key \in 1 .. minted

\* A step keeps the types; a minted key is named only because KeysInv says so.
LEMMA TypeStep == TypeOK /\ KeysInv /\ [Next]_vars => TypeOK'
<1>. SUFFICES ASSUME TypeOK, KeysInv, [Next]_vars PROVE TypeOK'
  OBVIOUS
<1>. USE DaemonAssumption DEF TypeOK, fileVars, Command, Key, Absent, Damaged, NoKey, Loading, Up
<1>1. ASSUME NEW p \in Command, StartCommand(p) PROVE TypeOK'
  BY <1>1 DEF StartCommand
<1>2. ASSUME NEW p \in Command, CheckFiles(p) PROVE TypeOK'
  BY <1>2 DEF CheckFiles
<1>3. ASSUME NEW p \in Command, LoadPair(p) PROVE TypeOK'
  BY <1>3 DEF LoadPair, Usable
<1>4. ASSUME NEW p \in Command, LoadOrGenerateKey(p) PROVE TypeOK'
  BY <1>4 DEF LoadOrGenerateKey, Reuses, KeysInv
<1>5. ASSUME NEW p \in Command, WriteKey(p) PROVE TypeOK'
  BY <1>5 DEF WriteKey, Step
<1>6. ASSUME NEW p \in Command, WriteCert(p) PROVE TypeOK'
  BY <1>6 DEF WriteCert, Step
<1>7. ASSUME NEW p \in Command, Die(p) PROVE TypeOK'
  BY <1>7 DEF Die, NoAgent
<1>8. CASE PrintQR
  <2>1. proc["qr"].key \in 1 .. minted
    BY <1>8 DEF PrintQR, Step, KeysInv, HasKey
  <2>. QED BY <1>8, <2>1 DEF PrintQR, Step
<1>9. CASE StartAgent \/ Serve \/ CancelContext
  <2>1. CASE StartAgent
    BY <2>1 DEF StartAgent, Step, NoAgent
  <2>2. CASE Serve
    <3>1. proc["serve"].key \in 1 .. minted
      BY <2>2 DEF Serve, Step, KeysInv, HasKey
    <3>2. proc' \in ProcType
      BY <2>2 DEF Serve, Step, ProcType
    <3>3. agent' \in AgentType
      BY <2>2 DEF Serve, AgentType
    <3>4. UNCHANGED <<keyFile, certFile, minted, windows, starts, damaged, crossed>>
          /\ printed' = printed \cup {proc["serve"].key}
      BY <2>2 DEF Serve
    <3>. HIDE DEF Loading, Up
    <3>. QED BY <3>1, <3>2, <3>3, <3>4 DEF ProcType, AgentType
  <2>3. CASE CancelContext
    BY <2>3 DEF CancelContext, Step
  <2>. QED BY <1>9, <2>1, <2>2, <2>3
<1>10. CASE Stop
  <2>1. CASE KillTree
    <3>1. proc' \in ProcType
      BY <2>1 DEF KillTree, Step, ProcType
    <3>2. Tree \in AgentType
      BY DEF Tree, Killed, AgentType
    <3>3. agent' \in AgentType
      BY <2>1, <3>2 DEF KillTree, AgentType
    <3>4. UNCHANGED <<keyFile, certFile, minted, windows, starts, printed, damaged, crossed>>
      BY <2>1 DEF KillTree
    <3>. HIDE DEF Loading, Up
    <3>. QED BY <3>1, <3>3, <3>4 DEF ProcType, AgentType
  <2>2. CASE StopReturns
    BY <2>2 DEF StopReturns, Step, NoAgent
  <2>. QED BY <1>10, <2>1, <2>2 DEF Stop
<1>11. CASE AgentRuns \/ ToolStarts \/ ToolEnds \/ LeaderExits
  BY <1>11 DEF AgentRuns, ContextKills, Reap, ReadersEnd, ToolStarts, ToolEnds, LeaderExits, AgentStep
<1>12. CASE CertificateAges \/ KeyFileLost
  <2>1. CASE CertificateAges
    <3>1. certFile' \in [key : 0 .. minted, good : BOOLEAN]
      BY <2>1 DEF CertificateAges
    <3>. QED BY <2>1, <3>1 DEF CertificateAges
  <2>2. CASE KeyFileLost
    BY <2>2 DEF KeyFileLost
  <2>. QED BY <1>12, <2>1, <2>2
<1>13. CASE UNCHANGED vars
  BY <1>13 DEF vars, fileVars
<1>. QED BY <1>1, <1>2, <1>3, <1>4, <1>5, <1>6, <1>7, <1>8, <1>9, <1>10, <1>11, <1>12, <1>13
       DEF Next, Load

\* A step keeps KeysInv: keys are only minted, and only a minted one is written.
LEMMA KeysStep == TypeOK /\ KeysInv /\ [Next]_vars => KeysInv'
<1>. SUFFICES ASSUME TypeOK, KeysInv, [Next]_vars PROVE KeysInv'
  OBVIOUS
<1>. USE DaemonAssumption DEF TypeOK, KeysInv, HasKey, fileVars, Command, Key, Absent, Damaged, Up
<1>1. ASSUME NEW p \in Command, StartCommand(p) \/ CheckFiles(p) \/ Die(p) PROVE KeysInv'
  BY <1>1 DEF StartCommand, CheckFiles, Die
<1>2. ASSUME NEW p \in Command, LoadPair(p) PROVE KeysInv'
  BY <1>2 DEF LoadPair, Usable
<1>3. ASSUME NEW p \in Command, LoadOrGenerateKey(p) PROVE KeysInv'
  BY <1>3 DEF LoadOrGenerateKey, Reuses
<1>4. ASSUME NEW p \in Command, WriteKey(p) \/ WriteCert(p) PROVE KeysInv'
  BY <1>4 DEF WriteKey, WriteCert, Step
<1>5. CASE PrintQR \/ StartAgent \/ Serve \/ CancelContext \/ Stop
  BY <1>5 DEF PrintQR, StartAgent, Serve, CancelContext, Stop, KillTree, StopReturns, Step
<1>6. CASE AgentRuns \/ ToolStarts \/ ToolEnds \/ LeaderExits
  BY <1>6 DEF AgentRuns, ContextKills, Reap, ReadersEnd, ToolStarts, ToolEnds, LeaderExits, AgentStep
<1>7. CASE CertificateAges \/ KeyFileLost
  BY <1>7 DEF CertificateAges, KeyFileLost
<1>8. CASE UNCHANGED vars
  BY <1>8 DEF vars
<1>. QED BY <1>1, <1>2, <1>3, <1>4, <1>5, <1>6, <1>7, <1>8 DEF Next, Load

\* Nothing is minted and nobody is up at the start.
LEMMA TypeInit == Init => TypeOK /\ KeysInv
<1>. SUFFICES ASSUME Init PROVE TypeOK /\ KeysInv
  OBVIOUS
<1>. USE DaemonAssumption DEF Init, Command, Absent, NoKey, Loading, Up
<1>1. proc \in [Command -> [pc : Loading \cup Up \cup {"off"}, sawKey : BOOLEAN, key : 0 .. minted]]
  OBVIOUS
<1>2. agent \in [leader : {"none", "running", "zombie", "reaped"},
                 tools : {"none", "inside", "outside"},
                 reading : BOOLEAN, canceled : BOOLEAN, early : BOOLEAN]
  BY DEF NoAgent
<1>3. TypeOK
  <2>1. damaged \in BOOLEAN /\ crossed \in BOOLEAN
    OBVIOUS
  <2>2. keyFile \in [key : 0 .. MaxKeys + 1] /\ minted \in 0 .. MaxKeys /\ starts \in 0 .. MaxStarts
    OBVIOUS
  <2>3. printed \in SUBSET (1 .. minted) /\ windows \in Platforms
    OBVIOUS
  <2>. QED BY <1>1, <1>2, <2>1, <2>2, <2>3 DEF TypeOK
<1>4. KeysInv
  BY DEF KeysInv, HasKey
<1>. QED BY <1>3, <1>4

\* Every variable of the daemon has its type in every reachable state; in
\* particular no command and no QR code names a key that was never minted.
THEOREM TypeCorrect == Spec => []TypeOK
BY TypeInit, TypeStep, KeysStep, PTL DEF Spec

-----------------------------------------------------------------------------
(* The key and the certificate *)

\* Until a key has been crossed: the files are only written with the key that
\* is in the key file, or with one for a file that has none; and whoever is up
\* has the certificate's key, or one that nobody can write any more.
Writes(p) == proc[p].pc \in {"writeKey", "writeCert"}

FilesInv ==
  ~crossed =>
    /\ \A p \in Command : Writes(p) => keyFile.key \notin Key \/ keyFile.key = proc[p].key
    /\ \A p, q \in Command : Writes(p) /\ Writes(q) => proc[p].key = proc[q].key
    /\ \A p \in Command : proc[p].pc \in Up =>
         \/ certFile.key = proc[p].key
         \/ /\ keyFile.key # proc[p].key
            /\ \A q \in Command : Writes(q) => proc[q].key # proc[p].key

\* Until the key file has been damaged, too: it has the key that any command
\* got as far as writing, and that any QR code named.
PinsInv ==
  ~crossed /\ ~damaged =>
    /\ keyFile = Absent \/ keyFile.key \in Key
    /\ \A p \in Command :
         /\ proc[p].pc \in {"writeCert"} \cup Up => keyFile.key = proc[p].key
         /\ proc[p].sawKey /\ proc[p].pc \in {"load", "key"} => keyFile # Absent
    /\ printed \subseteq {keyFile.key}

BaseInv == TypeOK /\ KeysInv

\* The first layer.
LEMMA BaseInvariant == Spec => []BaseInv
BY TypeInit, TypeStep, KeysStep, PTL DEF Spec, BaseInv

\* A step keeps what the key file and those who write it agree on.
LEMMA FilesStep == BaseInv /\ FilesInv /\ [Next]_vars => FilesInv'
<1>. SUFFICES ASSUME BaseInv, FilesInv, [Next]_vars PROVE FilesInv'
  OBVIOUS
<1>. USE DaemonAssumption DEF BaseInv, TypeOK, KeysInv, HasKey, FilesInv, Writes, fileVars, Command,
                              Key, Absent, Damaged, Up
<1>1. ASSUME NEW p \in Command, StartCommand(p) \/ CheckFiles(p) \/ Die(p) PROVE FilesInv'
  BY <1>1 DEF StartCommand, CheckFiles, Die
<1>2. ASSUME NEW p \in Command, LoadPair(p) PROVE FilesInv'
  BY <1>2 DEF LoadPair, Usable
<1>3. ASSUME NEW p \in Command, LoadOrGenerateKey(p) PROVE FilesInv'
  <2>1. CASE Reuses(p)
    BY <1>3, <2>1 DEF LoadOrGenerateKey, Reuses
  <2>2. CASE ~Reuses(p)
    BY <1>3, <2>2 DEF LoadOrGenerateKey, Reuses
  <2>. QED BY <2>1, <2>2
<1>4. ASSUME NEW p \in Command, WriteKey(p) PROVE FilesInv'
  BY <1>4 DEF WriteKey, Step
<1>5. ASSUME NEW p \in Command, WriteCert(p) PROVE FilesInv'
  BY <1>5 DEF WriteCert, Step
<1>6. CASE PrintQR \/ StartAgent \/ Serve \/ CancelContext \/ Stop
  BY <1>6 DEF PrintQR, StartAgent, Serve, CancelContext, Stop, KillTree, StopReturns, Step
<1>7. CASE AgentRuns \/ ToolStarts \/ ToolEnds \/ LeaderExits
  BY <1>7 DEF AgentRuns, ContextKills, Reap, ReadersEnd, ToolStarts, ToolEnds, LeaderExits, AgentStep
<1>8. CASE CertificateAges
  <2>1. certFile'.key = certFile.key
    BY <1>8 DEF CertificateAges
  <2>. QED BY <1>8, <2>1 DEF CertificateAges
<1>9. CASE KeyFileLost
  BY <1>9 DEF KeyFileLost
<1>10. CASE UNCHANGED vars
  BY <1>10 DEF vars
<1>. QED BY <1>1, <1>2, <1>3, <1>4, <1>5, <1>6, <1>7, <1>8, <1>9, <1>10 DEF Next, Load

\* A step keeps what QR codes name equal to the key file, unless it was damaged.
LEMMA PinsStep == BaseInv /\ FilesInv /\ PinsInv /\ [Next]_vars => PinsInv'
<1>. SUFFICES ASSUME BaseInv, FilesInv, PinsInv, [Next]_vars PROVE PinsInv'
  OBVIOUS
<1>. USE DaemonAssumption DEF BaseInv, TypeOK, KeysInv, HasKey, FilesInv, Writes, PinsInv, fileVars,
                              Command, Key, Absent, Damaged, Up
<1>1. ASSUME NEW p \in Command, StartCommand(p) \/ CheckFiles(p) \/ Die(p) PROVE PinsInv'
  BY <1>1 DEF StartCommand, CheckFiles, Die
<1>2. ASSUME NEW p \in Command, LoadPair(p) PROVE PinsInv'
  BY <1>2 DEF LoadPair, Usable
<1>3. ASSUME NEW p \in Command, LoadOrGenerateKey(p) PROVE PinsInv'
  BY <1>3 DEF LoadOrGenerateKey, Reuses
<1>4. ASSUME NEW p \in Command, WriteKey(p) PROVE PinsInv'
  BY <1>4 DEF WriteKey, Step
<1>5. ASSUME NEW p \in Command, WriteCert(p) PROVE PinsInv'
  BY <1>5 DEF WriteCert, Step
<1>6. CASE PrintQR \/ StartAgent \/ Serve \/ CancelContext \/ Stop
  BY <1>6 DEF PrintQR, StartAgent, Serve, CancelContext, Stop, KillTree, StopReturns, Step
<1>7. CASE AgentRuns \/ ToolStarts \/ ToolEnds \/ LeaderExits
  BY <1>7 DEF AgentRuns, ContextKills, Reap, ReadersEnd, ToolStarts, ToolEnds, LeaderExits, AgentStep
<1>8. CASE CertificateAges \/ KeyFileLost
  BY <1>8 DEF CertificateAges, KeyFileLost
<1>9. CASE UNCHANGED vars
  BY <1>9 DEF vars
<1>. QED BY <1>1, <1>2, <1>3, <1>4, <1>5, <1>6, <1>7, <1>8, <1>9 DEF Next, Load

\* The second and third layers hold at the start.
LEMMA FilesInit == Init => FilesInv /\ PinsInv
BY DaemonAssumption DEF Init, FilesInv, PinsInv, Writes, Command, Absent, Up

\* The second and third layers.
LEMMA FilesInvariant == Spec => [](BaseInv /\ FilesInv /\ PinsInv)
BY TypeInit, BaseInvariant, FilesInit, FilesStep, PinsStep, PTL DEF Spec, BaseInv

\* However often both commands start and die, and whatever happens to
\* addresses and certificates: a daemon that serves has the key of every QR
\* code, unless the key file was damaged or two first keys were crossed.
THEOREM PinnedPhonesGetIn == Spec => []PinsStayGood
<1>1. BaseInv /\ FilesInv /\ PinsInv => PinsStayGood
  BY DEF PinsInv, PinsStayGood, Command, Up
<1>. QED BY <1>1, FilesInvariant, PTL

\* Whatever a command that died left behind, also after damage: the next that
\* comes away with the key of the key file has a certificate made with it.
THEOREM HalfWrittenFilesAreRepaired == Spec => []FilesAreRepaired
<1>1. BaseInv /\ FilesInv /\ PinsInv => FilesAreRepaired
  BY DEF FilesInv, FilesAreRepaired
<1>. QED BY <1>1, FilesInvariant, PTL

-----------------------------------------------------------------------------
(* The agent's processes *)

\* On Unix no tool is outside the group; once killTree has run claude is dead
\* and of its tools there are only those it could not reach.
StrayInv ==
  /\ ~windows => agent.tools # "outside"
  /\ proc["serve"].pc = "wait" =>
       /\ agent.leader # "running"
       /\ agent.tools # "none" => IF windows THEN agent.tools = "outside" ELSE agent.early

\* A step keeps the reasons for which a tool may be left.
LEMMA StrayStep == BaseInv /\ StrayInv /\ [Next]_vars => StrayInv'
<1>. SUFFICES ASSUME BaseInv, StrayInv, [Next]_vars PROVE StrayInv'
  OBVIOUS
<1>. USE DaemonAssumption DEF BaseInv, TypeOK, StrayInv, NoAgent, Step, fileVars, Command
<1>1. ASSUME NEW p \in Command, Load(p) PROVE StrayInv'
  BY <1>1 DEF Load, CheckFiles, LoadPair, LoadOrGenerateKey, WriteKey, WriteCert
<1>2. ASSUME NEW p \in Command, StartCommand(p) \/ Die(p) PROVE StrayInv'
  BY <1>2 DEF StartCommand, Die
<1>3. CASE PrintQR \/ StartAgent \/ Serve \/ CancelContext
  BY <1>3 DEF PrintQR, StartAgent, Serve, CancelContext
<1>4. CASE KillTree
  BY <1>4 DEF KillTree, Tree, Killed
<1>5. CASE StopReturns
  BY <1>5 DEF StopReturns
<1>6. CASE ToolStarts
  BY <1>6 DEF ToolStarts, AgentStep
<1>7. CASE AgentRuns \/ ToolEnds \/ LeaderExits
  BY <1>7 DEF AgentRuns, ContextKills, Reap, ReadersEnd, ToolEnds, LeaderExits, AgentStep
<1>8. CASE CertificateAges \/ KeyFileLost
  BY <1>8 DEF CertificateAges, KeyFileLost
<1>9. CASE UNCHANGED vars
  BY <1>9 DEF vars
<1>. QED BY <1>1, <1>2, <1>3, <1>4, <1>5, <1>6, <1>7, <1>8, <1>9 DEF Next, Stop

\* Wherever claude, its tools and the stopping daemon are when it happens, a
\* tool survives killTree for one of the two known reasons only.
THEOREM SurvivorsHaveAReason == Spec => []StraysExplained
<1>1. Init => StrayInv
  BY DEF Init, StrayInv, NoAgent, Command
<1>2. StrayInv => StraysExplained
  BY DEF StrayInv, StraysExplained
<1>. QED BY <1>1, <1>2, StrayStep, BaseInvariant, PTL DEF Spec
=============================================================================
