---------------------------- MODULE Window_proofs ----------------------------
(***************************************************************************)
(* Theorems about the window of agent-gui: AgentLifecycle, for any set of  *)
(* starts of agent-gui, any number of gpg-agents and any configuration,    *)
(* and the icon and the session of Systray, which is the instance Icon of  *)
(* MCWindow, for any number of ends of Explorer, locks and unlocks.        *)
(***************************************************************************)
EXTENDS MCWindow, TLAPS

(* Both orders list the same number of connectors. *)
LEMMA Orders ==
  /\ Len(ServeOrder) \in Nat /\ Len(ConnOrder) = Len(ServeOrder)
  /\ \A n \in 1..Len(ServeOrder) : ServeOrder[n] \in Connectors
<1>1. CASE HasXAgent /\ HasExtraPort
  BY <1>1 DEF ServeOrder, ConnOrder, Connectors, If
<1>2. CASE HasXAgent /\ ~HasExtraPort
  BY <1>2 DEF ServeOrder, ConnOrder, Connectors, If
<1>3. CASE ~HasXAgent /\ HasExtraPort
  BY <1>3 DEF ServeOrder, ConnOrder, Connectors, If
<1>4. CASE ~HasXAgent /\ ~HasExtraPort
  BY <1>4 DEF ServeOrder, ConnOrder, Connectors, If
<1>5. QED BY <1>1, <1>2, <1>3, <1>4

LEMMA TypeInit == Init => TypeOK
<1> SUFFICES ASSUME Init PROVE TypeOK
  OBVIOUS
<1> USE Orders DEF Init
<1>1. MainType BY LimitsAssumption DEF MainType, PCs
<1>2. TrayType BY LimitsAssumption DEF TrayType
<1>3. FileType BY DEF FileType
<1>4. GpgType BY LimitsAssumption DEF GpgType
<1>5. ConvType BY DEF ConvType
<1>6. HistType BY LimitsAssumption DEF HistType
<1>7. QED BY <1>1, <1>2, <1>3, <1>4, <1>5, <1>6 DEF TypeOK

LEMMA TypeStep == ASSUME TypeOK, [Next]_vars PROVE TypeOK'
<1> USE Orders DEF TypeOK, mainVars, trayVars, fileVars, gpgVars, convVars, histVars
<1>1. ASSUME NEW i \in Instances, Launch(i)
      PROVE  TypeOK'
  <2>1. MainType' BY <1>1 DEF MainType, PCs, Launch, Goto
  <2>2. TrayType' /\ FileType' /\ GpgType' /\ ConvType' /\ HistType'
    BY <1>1 DEF TrayType, FileType, GpgType, ConvType, HistType, Launch, Goto
  <2>3. QED BY <2>1, <2>2
<1>2. ASSUME NEW i \in Instances, StatLock(i)
      PROVE  TypeOK'
  <2>1. MainType' BY <1>2 DEF MainType, PCs, StatLock, Exit, Goto
  <2>2. FileType' BY <1>2 DEF FileType, StatLock, Exit, Goto
  <2>3. ConvType' BY <1>2 DEF ConvType, StatLock, Exit, Goto
  <2>4. TrayType' /\ GpgType' /\ HistType'
    BY <1>2 DEF TrayType, GpgType, HistType, StatLock, Exit, Goto
  <2>5. QED BY <2>1, <2>2, <2>3, <2>4
<1>3. ASSUME NEW i \in Instances, CreateLock(i)
      PROVE  TypeOK'
  <2>1. MainType' BY <1>3 DEF MainType, PCs, CreateLock, Exit, Goto
  <2>2. FileType' BY <1>3 DEF FileType, CreateLock, Exit, Goto
  <2>3. ConvType' BY <1>3 DEF ConvType, CreateLock, Exit, Goto
  <2>4. TrayType' /\ GpgType' /\ HistType'
    BY <1>3 DEF TrayType, GpgType, HistType, CreateLock, Exit, Goto
  <2>5. QED BY <2>1, <2>2, <2>3, <2>4
<1>4. ASSUME NEW i \in Instances, KillRunningAgent(i)
      PROVE  TypeOK'
  <2>1. MainType' BY <1>4 DEF MainType, PCs, KillRunningAgent, Exit, Goto
  <2>2. FileType' BY <1>4 DEF FileType, KillRunningAgent, Exit, Goto
  <2>3. GpgType' BY <1>4 DEF GpgType, KillRunningAgent, Exit, Goto
  <2>4. ConvType' BY <1>4 DEF ConvType, KillRunningAgent, Exit, Goto
  <2>5. TrayType' /\ HistType'
    BY <1>4 DEF TrayType, HistType, KillRunningAgent, Exit, Goto
  <2>6. QED BY <2>1, <2>2, <2>3, <2>4, <2>5
<1>5. ASSUME NEW i \in Instances, NewAgent(i)
      PROVE  TypeOK'
  <2>1. MainType' BY <1>5 DEF MainType, PCs, NewAgent, Exit, Goto
  <2>2. FileType' BY <1>5 DEF FileType, NewAgent, Exit, Goto
  <2>3. ConvType' BY <1>5 DEF ConvType, NewAgent, Exit, Goto
  <2>4. TrayType' /\ GpgType' /\ HistType'
    BY <1>5 DEF TrayType, GpgType, HistType, NewAgent, Exit, Goto
  <2>5. QED BY <2>1, <2>2, <2>3, <2>4
<1>6. ASSUME NEW i \in Instances, WaitForFileDeparture(i)
      PROVE  TypeOK'
  <2>1. MainType' BY <1>6 DEF MainType, PCs, WaitForFileDeparture, Goto
  <2>2. GpgType' BY <1>6, LimitsAssumption DEF GpgType, WaitForFileDeparture, Goto
  <2>3. TrayType' /\ FileType' /\ ConvType' /\ HistType'
    BY <1>6 DEF TrayType, FileType, ConvType, HistType, WaitForFileDeparture, Goto
  <2>4. QED BY <2>1, <2>2, <2>3
<1>7. ASSUME NEW i \in Instances, Serve(i)
      PROVE  TypeOK'
  <2>1. MainType'
    <3>1. idx[i] + 1 \in 1..Len(ServeOrder)
      BY <1>7 DEF MainType, Serve
    <3>2. ServeOrder[idx[i] + 1] \in Connectors
      BY <3>1
    <3>3. pc' \in [Instances -> PCs] /\ cmd' \in [Instances -> 0..MaxGpg]
      BY <1>7 DEF MainType, PCs, Serve, Goto
    <3>4. idx' \in [Instances -> 0..Len(ServeOrder)]
      BY <1>7, <3>1 DEF MainType, Serve
    <3>5. lsn' \in [Instances -> SUBSET Connectors]
      <4>1. lsn[i] \cup {ServeOrder[idx[i] + 1]} \in SUBSET Connectors
        BY <3>2 DEF MainType
      <4>2. CASE lsn' = [lsn EXCEPT ![i] = @ \cup {ServeOrder[idx[i] + 1]}]
        BY <4>1, <4>2 DEF MainType
      <4>3. CASE UNCHANGED lsn BY <4>3 DEF MainType
      <4>4. QED BY <1>7, <4>2, <4>3 DEF Serve
    <3>6. QED BY <3>3, <3>4, <3>5 DEF MainType, PCs
  <2>2. FileType' BY <1>7 DEF FileType, Serve, Goto
  <2>3. TrayType' /\ GpgType' /\ ConvType' /\ HistType'
    BY <1>7 DEF TrayType, GpgType, ConvType, HistType, Serve, Goto
  <2>4. QED BY <2>1, <2>2, <2>3
<1>8. ASSUME NEW i \in Instances, Served(i)
      PROVE  TypeOK'
  <2>1. MainType' BY <1>8 DEF MainType, PCs, Served, Goto
  <2>2. TrayType' /\ FileType' /\ GpgType' /\ ConvType' /\ HistType'
    BY <1>8 DEF TrayType, FileType, GpgType, ConvType, HistType, Served, Goto
  <2>3. QED BY <2>1, <2>2
<1>9. ASSUME NEW i \in Instances, SetVars(i)
      PROVE  TypeOK'
  <2>1. MainType' BY <1>9 DEF MainType, PCs, SetVars, Goto
  <2>2. TrayType' /\ FileType' /\ GpgType' /\ ConvType' /\ HistType'
    BY <1>9 DEF TrayType, FileType, GpgType, ConvType, HistType, SetVars, Goto
  <2>3. QED BY <2>1, <2>2
<1>10. ASSUME NEW i \in Instances, Start(i)
      PROVE  TypeOK'
  <2>1. MainType'
    <3>1. pc' \in [Instances -> PCs] BY <1>10 DEF MainType, PCs, Start, Goto
    <3>2. cmd' \in [Instances -> 0..MaxGpg]
      <4>1. CASE UNCHANGED cmd BY <4>1 DEF MainType
      <4>2. CASE \E g \in Gpgs : cmd' = [cmd EXCEPT ![i] = g]
        BY <4>2, LimitsAssumption DEF MainType, Gpgs
      <4>3. QED BY <1>10, <4>1, <4>2 DEF Start
    <3>3. QED BY <1>10, <3>1, <3>2 DEF MainType, PCs, Start
  <2>2. GpgType' BY <1>10 DEF GpgType, Start, Spawn, Gpgs, Goto
  <2>3. TrayType' /\ FileType' /\ ConvType' /\ HistType'
    BY <1>10 DEF TrayType, FileType, ConvType, HistType, Start, Spawn, Gpgs, Goto
  <2>4. QED BY <2>1, <2>2, <2>3
<1>11. ASSUME NEW i \in Instances, WaitForFileArrival(i)
      PROVE  TypeOK'
  <2>1. MainType' BY <1>11 DEF MainType, PCs, WaitForFileArrival, ForceCleanup, Goto
  <2>2. GpgType' BY <1>11 DEF GpgType, WaitForFileArrival, ForceCleanup, Goto
  <2>3. TrayType' /\ FileType' /\ ConvType' /\ HistType'
    BY <1>11 DEF TrayType, FileType, ConvType, HistType, WaitForFileArrival, ForceCleanup, Goto
  <2>4. QED BY <2>1, <2>2, <2>3
<1>12. ASSUME NEW i \in Instances, Reset(i)
      PROVE  TypeOK'
  <2>1. MainType' BY <1>12 DEF MainType, PCs, Reset, ForceCleanup, Goto
  <2>2. TrayType' BY <1>12 DEF TrayType, Reset, ForceCleanup, Goto
  <2>3. GpgType' BY <1>12 DEF GpgType, Reset, ForceCleanup, Goto
  <2>4. FileType' /\ ConvType' /\ HistType'
    BY <1>12 DEF FileType, ConvType, HistType, Reset, ForceCleanup, Goto
  <2>5. QED BY <2>1, <2>2, <2>3, <2>4
<1>13. ASSUME NEW i \in Instances, WmClose(i)
      PROVE  TypeOK'
  <2>1. MainType' BY <1>13 DEF MainType, PCs, WmClose, Goto
  <2>2. TrayType' BY <1>13 DEF TrayType, WmClose, Goto
  <2>3. FileType' /\ GpgType' /\ ConvType' /\ HistType'
    BY <1>13 DEF FileType, GpgType, ConvType, HistType, WmClose, Goto
  <2>4. QED BY <2>1, <2>2, <2>3
<1>14. ASSUME NEW i \in Instances, StopConnector(i)
      PROVE  TypeOK'
  <2>1. MainType' BY <1>14 DEF MainType, PCs, StopConnector, Close
  <2>2. FileType' BY <1>14 DEF FileType, StopConnector, Close
  <2>3. TrayType' /\ GpgType' /\ ConvType' /\ HistType'
    BY <1>14 DEF TrayType, GpgType, ConvType, HistType, StopConnector, Close
  <2>4. QED BY <2>1, <2>2, <2>3
<1>15. ASSUME NEW i \in Instances, Cancel(i)
      PROVE  TypeOK'
  <2>1. MainType' BY <1>15 DEF MainType, PCs, Cancel, Goto
  <2>2. TrayType' /\ FileType' /\ GpgType' /\ ConvType' /\ HistType'
    BY <1>15 DEF TrayType, FileType, GpgType, ConvType, HistType, Cancel, Goto
  <2>3. QED BY <2>1, <2>2
<1>16. ASSUME NEW i \in Instances, KillAgent(i)
      PROVE  TypeOK'
  <2>1. MainType'
    <3>1. pc' \in [Instances -> PCs]
      BY <1>16 DEF MainType, PCs, KillAgent, Return, Goto
    <3>2. idx' \in [Instances -> 0..Len(ServeOrder)]
      BY <1>16 DEF MainType, KillAgent, Rewind
    <3>3. QED BY <1>16, <3>1, <3>2 DEF MainType, PCs, KillAgent
  <2>2. GpgType' BY <1>16 DEF GpgType, KillAgent, ForceCleanup, Return, Rewind, Answers, Goto
  <2>3. HistType' BY <1>16, LimitsAssumption DEF HistType, GpgType, KillAgent, ForceCleanup,
     Return, Rewind, Answers, Goto
  <2>4. TrayType' /\ FileType' /\ ConvType'
    BY <1>16 DEF TrayType, FileType, ConvType, KillAgent, ForceCleanup, Return, Rewind,
       Answers, Goto
  <2>5. QED BY <2>1, <2>2, <2>3, <2>4
<1>17. ASSUME NEW i \in Instances, WaitCmd(i)
      PROVE  TypeOK'
  <2>1. MainType' BY <1>17 DEF MainType, PCs, WaitCmd, Return, Rewind, Goto
  <2>2. TrayType' /\ FileType' /\ GpgType' /\ ConvType' /\ HistType'
    BY <1>17 DEF TrayType, FileType, GpgType, ConvType, HistType, WaitCmd, Return, Rewind, Goto
  <2>3. QED BY <2>1, <2>2
<1>18. ASSUME NEW i \in Instances, Deferred(i)
      PROVE  TypeOK'
  <2>1. MainType' BY <1>18 DEF MainType, PCs, Deferred, Close
  <2>2. FileType' BY <1>18 DEF FileType, Deferred, Close
  <2>3. TrayType' /\ GpgType' /\ ConvType' /\ HistType'
    BY <1>18 DEF TrayType, GpgType, ConvType, HistType, Deferred, Close
  <2>4. QED BY <2>1, <2>2, <2>3
<1>19. ASSUME NEW i \in Instances, RunReturns(i)
      PROVE  TypeOK'
  <2>1. MainType' BY <1>19 DEF MainType, PCs, RunReturns, Goto
  <2>2. TrayType' /\ FileType' /\ GpgType' /\ ConvType' /\ HistType'
    BY <1>19 DEF TrayType, FileType, GpgType, ConvType, HistType, RunReturns, Goto
  <2>3. QED BY <2>1, <2>2
<1>20. ASSUME NEW i \in Instances, CloseLock(i)
      PROVE  TypeOK'
  <2>1. MainType' BY <1>20 DEF MainType, PCs, CloseLock, Goto
  <2>2. FileType' BY <1>20 DEF FileType, CloseLock, Goto
  <2>3. TrayType' /\ GpgType' /\ ConvType' /\ HistType'
    BY <1>20 DEF TrayType, GpgType, ConvType, HistType, CloseLock, Goto
  <2>4. QED BY <2>1, <2>2, <2>3
<1>21. ASSUME NEW i \in Instances, RemoveLock(i)
      PROVE  TypeOK'
  <2>1. MainType' BY <1>21 DEF MainType, PCs, RemoveLock, Exit, Goto
  <2>2. FileType' BY <1>21 DEF FileType, RemoveLock, Exit, Goto
  <2>3. ConvType' BY <1>21 DEF ConvType, RemoveLock, Exit, Goto
  <2>4. TrayType' /\ GpgType' /\ HistType'
    BY <1>21 DEF TrayType, GpgType, HistType, RemoveLock, Exit, Goto
  <2>5. QED BY <2>1, <2>2, <2>3, <2>4
<1>22. ASSUME NEW i \in Instances, Quit(i)
      PROVE  TypeOK'
  <2>1. TrayType' BY <1>22 DEF TrayType, Quit
  <2>2. MainType' /\ FileType' /\ GpgType' /\ ConvType' /\ HistType'
    BY <1>22 DEF MainType, FileType, GpgType, ConvType, HistType, Quit
  <2>3. QED BY <2>1, <2>2
<1>23. ASSUME NEW i \in Instances, Crash(i)
      PROVE  TypeOK'
  <2>1. MainType' BY <1>23 DEF MainType, PCs, Crash, Exit, Goto
  <2>2. FileType' BY <1>23 DEF FileType, Crash, Exit, Goto
  <2>3. ConvType' BY <1>23 DEF ConvType, Crash, Exit, Goto
  <2>4. HistType' BY <1>23 DEF HistType, Crash, Exit, Goto
  <2>5. TrayType' /\ GpgType'
    BY <1>23 DEF TrayType, GpgType, Crash, Exit, Goto
  <2>6. QED BY <2>1, <2>2, <2>3, <2>4, <2>5
<1>24. ASSUME NEW i \in Instances, WmEndSession(i)
      PROVE  TypeOK'
  <2>1. MainType' BY <1>24 DEF MainType, PCs, WmEndSession, Goto
  <2>2. TrayType' BY <1>24, LimitsAssumption DEF TrayType, WmEndSession, Goto
  <2>3. FileType' /\ GpgType' /\ ConvType' /\ HistType'
    BY <1>24 DEF FileType, GpgType, ConvType, HistType, WmEndSession, Goto
  <2>4. QED BY <2>1, <2>2, <2>3
<1>25. ASSUME NEW i \in Instances, LoopError(i)
      PROVE  TypeOK'
  <2>1. MainType' BY <1>25 DEF MainType, PCs, LoopError, Goto
  <2>2. HistType' BY <1>25 DEF HistType, LoopError, Goto
  <2>3. TrayType' /\ FileType' /\ GpgType' /\ ConvType'
    BY <1>25 DEF TrayType, FileType, GpgType, ConvType, LoopError, Goto
  <2>4. QED BY <2>1, <2>2, <2>3
<1>26. ASSUME NEW i \in Instances, NEW to \in {"box", "exit"}, Click(i, to)
      PROVE  TypeOK'
  <2>1. TrayType' BY <1>26 DEF TrayType, Click
  <2>2. MainType' /\ FileType' /\ GpgType' /\ ConvType' /\ HistType'
    BY <1>26 DEF MainType, FileType, GpgType, ConvType, HistType, Click
  <2>3. QED BY <2>1, <2>2
<1>27. ASSUME NEW i \in Instances, DismissBox(i)
      PROVE  TypeOK'
  <2>1. TrayType' BY <1>27 DEF TrayType, DismissBox
  <2>2. MainType' /\ FileType' /\ GpgType' /\ ConvType' /\ HistType'
    BY <1>27 DEF MainType, FileType, GpgType, ConvType, HistType, DismissBox
  <2>3. QED BY <2>1, <2>2
<1>28. ASSUME Conversation
      PROVE  TypeOK'
  <2>1. ConvType' BY <1>28 DEF ConvType, Conversation, Accept, Converse
  <2>2. MainType' /\ TrayType' /\ FileType' /\ GpgType' /\ HistType'
    BY <1>28 DEF MainType, TrayType, FileType, GpgType, HistType, Conversation, Accept, Converse
  <2>3. QED BY <2>1, <2>2
<1>29. ASSUME NEW g \in Gpgs, Gpg(g)
      PROVE  TypeOK'
  <2>1. GpgType' BY <1>29, LimitsAssumption DEF GpgType, Gpg, GpgListens, GpgExits, Gpgs
  <2>2. MainType' /\ TrayType' /\ FileType' /\ ConvType' /\ HistType'
    BY <1>29 DEF MainType, TrayType, FileType, ConvType, HistType, Gpg, GpgListens, GpgExits, Gpgs
  <2>3. QED BY <2>1, <2>2
<1>30. ASSUME NEW g \in Gpgs, GpgDies(g)
      PROVE  TypeOK'
  <2>1. GpgType' BY <1>30 DEF GpgType, GpgDies
  <2>2. MainType' /\ TrayType' /\ FileType' /\ ConvType' /\ HistType'
    BY <1>30 DEF MainType, TrayType, FileType, ConvType, HistType, GpgDies
  <2>3. QED BY <2>1, <2>2
<1>31. ASSUME NEW g \in Gpgs, UserStartsGpg(g)
      PROVE  TypeOK'
  <2>1. GpgType' BY <1>31 DEF GpgType, UserStartsGpg, Spawn
  <2>2. MainType' /\ TrayType' /\ FileType' /\ ConvType' /\ HistType'
    BY <1>31 DEF MainType, TrayType, FileType, ConvType, HistType, UserStartsGpg, Spawn
  <2>3. QED BY <2>1, <2>2
<1>32. CASE UNCHANGED vars
  BY <1>32 DEF vars, MainType, TrayType, FileType, GpgType, ConvType, HistType
<1>33. QED
  BY <1>1, <1>2, <1>3, <1>4, <1>5, <1>6, <1>7, <1>8, <1>9, <1>10, <1>11, <1>12, <1>13, <1>14,
     <1>15, <1>16, <1>17, <1>18, <1>19, <1>20, <1>21, <1>22, <1>23, <1>24, <1>25, <1>26,
     <1>27, <1>28, <1>29, <1>30, <1>31, <1>32 DEF Next, Main, Outside

(* Type correctness of the lifecycle.                                      *)
THEOREM LifecycleTypeCorrect == Spec => []TypeOK
<1>1. Init => TypeOK BY TypeInit
<1>2. TypeOK /\ [Next]_vars => TypeOK' BY TypeStep
<1>3. QED BY <1>1, <1>2, PTL DEF Spec

-----------------------------------------------------------------------------
(* The lock.  An instance past it owns the lock file and has it open, so    *)
(* nobody can remove the file and nobody can create another.               *)
LockInv == \A i \in Inside : lockFile = i /\ i \in held

(* The files of an instance that has not ended are those of the connectors *)
(* it has served and not yet closed.                                       *)
Serving == {"serve", "env", "spawn", "arrive", "reset", "loop", "stop",
            "killagent", "wait", "unwind"}

FileInv ==
  \A i \in Instances, k \in FileBacked : guiFile[k] = i /\ pc[i] # "end" =>
    /\ pc[i] \in Serving
    /\ pc[i] \in {"serve", "unwind"} => \E n \in 1..idx[i] : ServeOrder[n] = k

IdxInv ==
  \A i \in Instances :
    pc[i] \in {"env", "spawn", "arrive", "reset"} => idx[i] = Len(ServeOrder)

(* The gpg-agent of an instance that is past systray.Run is gone.          *)
CmdInv ==
  \A i \in Instances :
    /\ cmd[i] # 0 => gst[cmd[i]] # "none"
    /\ pc[i] \in {"off", "stat", "create", "kill", "new", "depart", "serve", "env", "spawn"}
         => cmd[i] = 0
    /\ pc[i] \in {"unwind", "unlock", "unlink", "end"} /\ i \notin abrupt
         => (cmd[i] # 0 => gst[cmd[i]] = "gone")

EndInv ==
  \A i \in Instances, k \in FileBacked :
    pc[i] = "end" /\ i \notin abrupt => guiFile[k] # i

(* Until an instance has started its own, no gpg-agent runs after it has   *)
(* killed the one it found.                                                *)
OwnerInv == \A g \in Gpgs : gst[g] = "none" => owner[g] = NoOne

AgentInv ==
  (\A g \in Gpgs : owner[g] # User) =>
    /\ \A g, h \in Gpgs : Running(g) /\ Running(h) => g = h
    /\ \A i \in Instances, g \in Gpgs :
         pc[i] \in {"new", "depart", "serve", "env", "spawn"} => ~Running(g)

LEMMA OneInside ==
  ASSUME LockInv, NEW i \in Inside, NEW j \in Inside
  PROVE  i = j
  BY DEF LockInv

LEMMA LockStep == ASSUME TypeOK, LockInv, [Next]_vars PROVE LockInv'
<1> USE DEF LockInv, Inside, TypeOK, MainType, FileType,
            trayVars, fileVars, gpgVars, convVars, mainVars, histVars
<1>1. ASSUME NEW i \in Instances, Launch(i) PROVE LockInv'
  BY <1>1 DEF Launch, Goto
<1>2. ASSUME NEW i \in Instances, StatLock(i) PROVE LockInv'
  BY <1>2 DEF StatLock, Exit, Goto
<1>3. ASSUME NEW i \in Instances, CreateLock(i) PROVE LockInv'
  <2>1. CASE lockFile # NoOne
    BY <1>3, <2>1 DEF CreateLock, Exit, Goto
  <2>2. CASE lockFile = NoOne
    <3>1. \A j \in Instances :
            pc[j] \in {"off", "stat", "create", "unlink", "end"}
      BY <2>2, InstancesAssumption
    <3>2. QED BY <1>3, <2>2, <3>1 DEF CreateLock, Goto
  <2>3. QED BY <2>1, <2>2
<1>4. ASSUME NEW i \in Instances, KillRunningAgent(i) PROVE LockInv'
  BY <1>4 DEF KillRunningAgent, Exit, Goto
<1>5. ASSUME NEW i \in Instances, NewAgent(i) PROVE LockInv'
  BY <1>5 DEF NewAgent, Exit, Goto
<1>6. ASSUME NEW i \in Instances, WaitForFileDeparture(i) PROVE LockInv'
  BY <1>6 DEF WaitForFileDeparture, Goto
<1>7. ASSUME NEW i \in Instances, Serve(i) PROVE LockInv'
  BY <1>7 DEF Serve, Goto
<1>8. ASSUME NEW i \in Instances, Served(i) PROVE LockInv'
  BY <1>8 DEF Served, Goto
<1>9. ASSUME NEW i \in Instances, SetVars(i) PROVE LockInv'
  BY <1>9 DEF SetVars, Goto
<1>10. ASSUME NEW i \in Instances, Start(i) PROVE LockInv'
  BY <1>10 DEF Start, Goto
<1>11. ASSUME NEW i \in Instances, WaitForFileArrival(i) PROVE LockInv'
  BY <1>11 DEF WaitForFileArrival, Goto
<1>12. ASSUME NEW i \in Instances, Reset(i) PROVE LockInv'
  BY <1>12 DEF Reset, Goto
<1>13. ASSUME NEW i \in Instances, WmClose(i) PROVE LockInv'
  BY <1>13 DEF WmClose, Goto
<1>14. ASSUME NEW i \in Instances, Cancel(i) PROVE LockInv'
  BY <1>14 DEF Cancel, Goto
<1>15. ASSUME NEW i \in Instances, KillAgent(i) PROVE LockInv'
  BY <1>15 DEF KillAgent, Return, Rewind, Goto
<1>16. ASSUME NEW i \in Instances, WaitCmd(i) PROVE LockInv'
  BY <1>16 DEF WaitCmd, Return, Rewind, Goto
<1>17. ASSUME NEW i \in Instances, RunReturns(i) PROVE LockInv'
  BY <1>17 DEF RunReturns, Goto
<1>18. ASSUME NEW i \in Instances, CloseLock(i) PROVE LockInv'
  BY <1>18 DEF CloseLock, Goto
<1>19. ASSUME NEW i \in Instances, RemoveLock(i) PROVE LockInv'
  BY <1>19 DEF RemoveLock, Exit, Goto
<1>20. ASSUME NEW i \in Instances, Crash(i) PROVE LockInv'
  BY <1>20 DEF Crash, Exit, Goto
<1>21. ASSUME NEW i \in Instances, WmEndSession(i) PROVE LockInv'
  BY <1>21 DEF WmEndSession, Goto
<1>22. ASSUME NEW i \in Instances, LoopError(i) PROVE LockInv'
  BY <1>22 DEF LoopError, Goto
<1>23. CASE \/ (\E i \in Instances : StopConnector(i))
          \/ (\E i \in Instances : Deferred(i))
          \/ (\E i \in Instances : Quit(i))
          \/ (\E i \in Instances, to \in {"box", "exit"} : Click(i, to))
          \/ (\E i \in Instances : DismissBox(i))
          \/ Conversation
          \/ (\E g \in Gpgs : Gpg(g))
          \/ (\E g \in Gpgs : GpgDies(g))
          \/ (\E g \in Gpgs : UserStartsGpg(g))
          \/ UNCHANGED vars
  BY <1>23 DEF StopConnector, Close, Deferred, Quit, Click, DismissBox, Conversation, Accept,
     Converse, Gpg, GpgListens, GpgExits, GpgDies, UserStartsGpg, Spawn, vars
<1>24. QED
  BY <1>1, <1>2, <1>3, <1>4, <1>5, <1>6, <1>7, <1>8, <1>9, <1>10, <1>11, <1>12, <1>13, <1>14,
     <1>15, <1>16, <1>17, <1>18, <1>19, <1>20, <1>21, <1>22, <1>23 DEF Next, Main, Outside

LEMMA Indexed == \A k \in FileBacked : \E n \in 1..Len(ServeOrder) : ServeOrder[n] = k
  BY DEF FileBacked, Connectors

LEMMA IdxStep == ASSUME TypeOK, IdxInv, [Next]_vars PROVE IdxInv'
<1> USE DEF IdxInv, TypeOK, MainType,
            trayVars, fileVars, gpgVars, convVars, mainVars, histVars
<1>1. ASSUME NEW i \in Instances, Launch(i) PROVE IdxInv'
  BY <1>1 DEF Launch, Goto
<1>2. ASSUME NEW i \in Instances, StatLock(i) PROVE IdxInv'
  BY <1>2 DEF StatLock, Exit, Goto
<1>3. ASSUME NEW i \in Instances, CreateLock(i) PROVE IdxInv'
  BY <1>3 DEF CreateLock, Exit, Goto
<1>4. ASSUME NEW i \in Instances, KillRunningAgent(i) PROVE IdxInv'
  BY <1>4 DEF KillRunningAgent, Exit, Goto
<1>5. ASSUME NEW i \in Instances, NewAgent(i) PROVE IdxInv'
  BY <1>5 DEF NewAgent, Exit, Goto
<1>6. ASSUME NEW i \in Instances, WaitForFileDeparture(i) PROVE IdxInv'
  BY <1>6 DEF WaitForFileDeparture, Goto
<1>7. ASSUME NEW i \in Instances, Serve(i) PROVE IdxInv'
  BY <1>7 DEF Serve, Goto
<1>8. ASSUME NEW i \in Instances, Served(i) PROVE IdxInv'
  BY <1>8 DEF Served, Goto
<1>9. ASSUME NEW i \in Instances, SetVars(i) PROVE IdxInv'
  BY <1>9 DEF SetVars, Goto
<1>10. ASSUME NEW i \in Instances, Start(i) PROVE IdxInv'
  BY <1>10 DEF Start, Goto
<1>11. ASSUME NEW i \in Instances, WaitForFileArrival(i) PROVE IdxInv'
  BY <1>11 DEF WaitForFileArrival, Goto
<1>12. ASSUME NEW i \in Instances, Reset(i) PROVE IdxInv'
  BY <1>12 DEF Reset, Goto
<1>13. ASSUME NEW i \in Instances, WmClose(i) PROVE IdxInv'
  BY <1>13 DEF WmClose, Goto
<1>14. ASSUME NEW i \in Instances, StopConnector(i) PROVE IdxInv'
  BY <1>14 DEF StopConnector, Close
<1>15. ASSUME NEW i \in Instances, Cancel(i) PROVE IdxInv'
  BY <1>15 DEF Cancel, Goto
<1>16. ASSUME NEW i \in Instances, KillAgent(i) PROVE IdxInv'
  BY <1>16 DEF KillAgent, Return, Rewind, Goto
<1>17. ASSUME NEW i \in Instances, WaitCmd(i) PROVE IdxInv'
  BY <1>17 DEF WaitCmd, Return, Rewind, Goto
<1>18. ASSUME NEW i \in Instances, Deferred(i) PROVE IdxInv'
  BY <1>18 DEF Deferred, Close
<1>19. ASSUME NEW i \in Instances, RunReturns(i) PROVE IdxInv'
  BY <1>19 DEF RunReturns, Goto
<1>20. ASSUME NEW i \in Instances, CloseLock(i) PROVE IdxInv'
  BY <1>20 DEF CloseLock, Goto
<1>21. ASSUME NEW i \in Instances, RemoveLock(i) PROVE IdxInv'
  BY <1>21 DEF RemoveLock, Exit, Goto
<1>22. ASSUME NEW i \in Instances, Crash(i) PROVE IdxInv'
  BY <1>22 DEF Crash, Exit, Goto
<1>23. ASSUME NEW i \in Instances, WmEndSession(i) PROVE IdxInv'
  BY <1>23 DEF WmEndSession, Goto
<1>24. ASSUME NEW i \in Instances, LoopError(i) PROVE IdxInv'
  BY <1>24 DEF LoopError, Goto
<1>25. CASE \/ (\E i \in Instances : Quit(i))
          \/ (\E i \in Instances, to \in {"box", "exit"} : Click(i, to))
          \/ (\E i \in Instances : DismissBox(i))
          \/ Conversation
          \/ (\E g \in Gpgs : Gpg(g))
          \/ (\E g \in Gpgs : GpgDies(g))
          \/ (\E g \in Gpgs : UserStartsGpg(g))
          \/ UNCHANGED vars
  BY <1>25 DEF Quit, Click, DismissBox, Conversation, Accept, Converse, Gpg, GpgListens,
     GpgExits, GpgDies, UserStartsGpg, Spawn, vars
<1>26. QED
  BY <1>1, <1>2, <1>3, <1>4, <1>5, <1>6, <1>7, <1>8, <1>9, <1>10, <1>11, <1>12, <1>13, <1>14,
     <1>15, <1>16, <1>17, <1>18, <1>19, <1>20, <1>21, <1>22, <1>23, <1>24, <1>25
     DEF Next, Main, Outside

LEMMA FileStep == ASSUME TypeOK, IdxInv, FileInv, [Next]_vars PROVE FileInv'
<1> USE Orders, Indexed, InstancesAssumption
    DEF FileInv, Serving, TypeOK, MainType, FileType,
        trayVars, fileVars, gpgVars, convVars, mainVars, histVars
<1>1. ASSUME NEW i \in Instances, Launch(i) PROVE FileInv'
  BY <1>1 DEF Launch, Goto
<1>2. ASSUME NEW i \in Instances, StatLock(i) PROVE FileInv'
  BY <1>2 DEF StatLock, Exit, Goto
<1>3. ASSUME NEW i \in Instances, CreateLock(i) PROVE FileInv'
  BY <1>3 DEF CreateLock, Exit, Goto
<1>4. ASSUME NEW i \in Instances, KillRunningAgent(i) PROVE FileInv'
  BY <1>4 DEF KillRunningAgent, Exit, Goto
<1>5. ASSUME NEW i \in Instances, NewAgent(i) PROVE FileInv'
  BY <1>5 DEF NewAgent, Exit, Goto
<1>6. ASSUME NEW i \in Instances, WaitForFileDeparture(i) PROVE FileInv'
  BY <1>6 DEF WaitForFileDeparture, Goto
<1>7. ASSUME NEW i \in Instances, Serve(i) PROVE FileInv'
  BY <1>7 DEF Serve, Goto
<1>8. ASSUME NEW i \in Instances, Served(i) PROVE FileInv'
  BY <1>8 DEF Served, Goto, IdxInv
<1>9. ASSUME NEW i \in Instances, SetVars(i) PROVE FileInv'
  BY <1>9 DEF SetVars, Goto, IdxInv
<1>10. ASSUME NEW i \in Instances, Start(i) PROVE FileInv'
  BY <1>10 DEF Start, Goto, IdxInv
<1>11. ASSUME NEW i \in Instances, WaitForFileArrival(i) PROVE FileInv'
  BY <1>11 DEF WaitForFileArrival, Goto, IdxInv
<1>12. ASSUME NEW i \in Instances, Reset(i) PROVE FileInv'
  BY <1>12 DEF Reset, Goto, IdxInv
<1>13. ASSUME NEW i \in Instances, WmClose(i) PROVE FileInv'
  BY <1>13 DEF WmClose, Goto
<1>14. ASSUME NEW i \in Instances, StopConnector(i) PROVE FileInv'
  BY <1>14 DEF StopConnector, Close
<1>15. ASSUME NEW i \in Instances, Cancel(i) PROVE FileInv'
  BY <1>15 DEF Cancel, Goto
<1>16. ASSUME NEW i \in Instances, KillAgent(i) PROVE FileInv'
  <2>1. CASE pc' = [pc EXCEPT ![i] = "wait"] /\ UNCHANGED idx
    BY <1>16, <2>1 DEF KillAgent
  <2>2. CASE pc' = [pc EXCEPT ![i] = Return(i)] /\ Rewind(i)
    BY <1>16, <2>2 DEF KillAgent, Return, Rewind
  <2>3. QED BY <1>16, <2>1, <2>2 DEF KillAgent, Goto
<1>17. ASSUME NEW i \in Instances, WaitCmd(i) PROVE FileInv'
  BY <1>17 DEF WaitCmd, Return, Rewind, Goto
<1>18. ASSUME NEW i \in Instances, Deferred(i) PROVE FileInv'
  BY <1>18 DEF Deferred, Close
<1>19. ASSUME NEW i \in Instances, RunReturns(i) PROVE FileInv'
  BY <1>19 DEF RunReturns, Goto
<1>20. ASSUME NEW i \in Instances, CloseLock(i) PROVE FileInv'
  BY <1>20 DEF CloseLock, Goto
<1>21. ASSUME NEW i \in Instances, RemoveLock(i) PROVE FileInv'
  BY <1>21 DEF RemoveLock, Exit, Goto
<1>22. ASSUME NEW i \in Instances, Crash(i) PROVE FileInv'
  BY <1>22 DEF Crash, Exit, Goto
<1>23. ASSUME NEW i \in Instances, WmEndSession(i) PROVE FileInv'
  BY <1>23 DEF WmEndSession, Goto
<1>24. ASSUME NEW i \in Instances, LoopError(i) PROVE FileInv'
  BY <1>24 DEF LoopError, Goto
<1>25. CASE \/ (\E i \in Instances : Quit(i))
          \/ (\E i \in Instances, to \in {"box", "exit"} : Click(i, to))
          \/ (\E i \in Instances : DismissBox(i))
          \/ Conversation
          \/ (\E g \in Gpgs : Gpg(g))
          \/ (\E g \in Gpgs : GpgDies(g))
          \/ (\E g \in Gpgs : UserStartsGpg(g))
          \/ UNCHANGED vars
  BY <1>25 DEF Quit, Click, DismissBox, Conversation, Accept, Converse, Gpg, GpgListens,
     GpgExits, GpgDies, UserStartsGpg, Spawn, vars
<1>26. QED
  BY <1>1, <1>2, <1>3, <1>4, <1>5, <1>6, <1>7, <1>8, <1>9, <1>10, <1>11, <1>12, <1>13, <1>14,
     <1>15, <1>16, <1>17, <1>18, <1>19, <1>20, <1>21, <1>22, <1>23, <1>24, <1>25
     DEF Next, Main, Outside

LEMMA EndStep == ASSUME TypeOK, FileInv, EndInv, [Next]_vars PROVE EndInv'
<1>0. \A i \in Instances, k \in FileBacked :
        pc[i] \notin Serving /\ pc[i] # "end" => guiFile[k] # i
  BY DEF FileInv
<1> USE <1>0, InstancesAssumption
    DEF EndInv, Serving, TypeOK, MainType, FileType, HistType,
        trayVars, fileVars, gpgVars, convVars, mainVars, histVars
<1>1. ASSUME NEW i \in Instances, Launch(i) PROVE EndInv'
  BY <1>1 DEF Launch, Goto
<1>2. ASSUME NEW i \in Instances, StatLock(i) PROVE EndInv'
  BY <1>2 DEF StatLock, Exit, Goto
<1>3. ASSUME NEW i \in Instances, CreateLock(i) PROVE EndInv'
  BY <1>3 DEF CreateLock, Exit, Goto
<1>4. ASSUME NEW i \in Instances, KillRunningAgent(i) PROVE EndInv'
  BY <1>4 DEF KillRunningAgent, Exit, Goto
<1>5. ASSUME NEW i \in Instances, NewAgent(i) PROVE EndInv'
  BY <1>5 DEF NewAgent, Exit, Goto
<1>6. ASSUME NEW i \in Instances, WaitForFileDeparture(i) PROVE EndInv'
  BY <1>6 DEF WaitForFileDeparture, Goto
<1>7. ASSUME NEW i \in Instances, Serve(i) PROVE EndInv'
  BY <1>7 DEF Serve, Goto
<1>8. ASSUME NEW i \in Instances, Served(i) PROVE EndInv'
  BY <1>8 DEF Served, Goto
<1>9. ASSUME NEW i \in Instances, SetVars(i) PROVE EndInv'
  BY <1>9 DEF SetVars, Goto
<1>10. ASSUME NEW i \in Instances, Start(i) PROVE EndInv'
  BY <1>10 DEF Start, Goto
<1>11. ASSUME NEW i \in Instances, WaitForFileArrival(i) PROVE EndInv'
  BY <1>11 DEF WaitForFileArrival, Goto
<1>12. ASSUME NEW i \in Instances, Reset(i) PROVE EndInv'
  BY <1>12 DEF Reset, Goto
<1>13. ASSUME NEW i \in Instances, WmClose(i) PROVE EndInv'
  BY <1>13 DEF WmClose, Goto
<1>14. ASSUME NEW i \in Instances, StopConnector(i) PROVE EndInv'
  BY <1>14 DEF StopConnector, Close
<1>15. ASSUME NEW i \in Instances, Cancel(i) PROVE EndInv'
  BY <1>15 DEF Cancel, Goto
<1>16. ASSUME NEW i \in Instances, KillAgent(i) PROVE EndInv'
  BY <1>16 DEF KillAgent, Return, Rewind, Goto
<1>17. ASSUME NEW i \in Instances, WaitCmd(i) PROVE EndInv'
  BY <1>17 DEF WaitCmd, Return, Rewind, Goto
<1>18. ASSUME NEW i \in Instances, Deferred(i) PROVE EndInv'
  BY <1>18 DEF Deferred, Close
<1>19. ASSUME NEW i \in Instances, RunReturns(i) PROVE EndInv'
  BY <1>19 DEF RunReturns, Goto
<1>20. ASSUME NEW i \in Instances, CloseLock(i) PROVE EndInv'
  BY <1>20 DEF CloseLock, Goto
<1>21. ASSUME NEW i \in Instances, RemoveLock(i) PROVE EndInv'
  BY <1>21 DEF RemoveLock, Exit, Goto
<1>22. ASSUME NEW i \in Instances, Crash(i) PROVE EndInv'
  BY <1>22 DEF Crash, Exit, Goto
<1>23. ASSUME NEW i \in Instances, WmEndSession(i) PROVE EndInv'
  BY <1>23 DEF WmEndSession, Goto
<1>24. ASSUME NEW i \in Instances, LoopError(i) PROVE EndInv'
  BY <1>24 DEF LoopError, Goto
<1>25. CASE \/ (\E i \in Instances : Quit(i))
          \/ (\E i \in Instances, to \in {"box", "exit"} : Click(i, to))
          \/ (\E i \in Instances : DismissBox(i))
          \/ Conversation
          \/ (\E g \in Gpgs : Gpg(g))
          \/ (\E g \in Gpgs : GpgDies(g))
          \/ (\E g \in Gpgs : UserStartsGpg(g))
          \/ UNCHANGED vars
  BY <1>25 DEF Quit, Click, DismissBox, Conversation, Accept, Converse, Gpg, GpgListens,
     GpgExits, GpgDies, UserStartsGpg, Spawn, vars
<1>26. QED
  BY <1>1, <1>2, <1>3, <1>4, <1>5, <1>6, <1>7, <1>8, <1>9, <1>10, <1>11, <1>12, <1>13, <1>14,
     <1>15, <1>16, <1>17, <1>18, <1>19, <1>20, <1>21, <1>22, <1>23, <1>24, <1>25
     DEF Next, Main, Outside

(* A gpg-agent is started once, and one that is gone stays gone.           *)
LEMMA GpgOnce ==
  ASSUME TypeOK, [Next]_vars, NEW g \in Gpgs
  PROVE  /\ gst[g] # "none" => gst'[g] # "none"
         /\ gst[g] = "gone" => gst'[g] = "gone"
<1> USE DEF TypeOK, GpgType, Running, gpgVars
<1>1. ASSUME NEW i \in Instances, KillRunningAgent(i) \/ WaitForFileArrival(i) \/ Reset(i)
      PROVE  (gst[g] # "none" => gst'[g] # "none") /\ (gst[g] = "gone" => gst'[g] = "gone")
  BY <1>1 DEF KillRunningAgent, WaitForFileArrival, Reset, ForceCleanup
<1>2. ASSUME NEW i \in Instances, KillAgent(i)
      PROVE  (gst[g] # "none" => gst'[g] # "none") /\ (gst[g] = "gone" => gst'[g] = "gone")
  BY <1>2 DEF KillAgent, ForceCleanup, Answers
<1>3. ASSUME NEW i \in Instances, Start(i)
      PROVE  (gst[g] # "none" => gst'[g] # "none") /\ (gst[g] = "gone" => gst'[g] = "gone")
  BY <1>3 DEF Start, Spawn
<1>4. ASSUME NEW h \in Gpgs, Gpg(h) \/ GpgDies(h) \/ UserStartsGpg(h)
      PROVE  (gst[g] # "none" => gst'[g] # "none") /\ (gst[g] = "gone" => gst'[g] = "gone")
  BY <1>4 DEF Gpg, GpgListens, GpgExits, GpgDies, UserStartsGpg, Spawn
<1>5. CASE UNCHANGED gst
  BY <1>5
<1>6. ASSUME NEW i \in Instances,
             \/ StatLock(i) \/ CreateLock(i) \/ NewAgent(i) \/ WaitForFileDeparture(i)
             \/ Serve(i) \/ Served(i) \/ SetVars(i) \/ WmClose(i) \/ StopConnector(i)
             \/ Cancel(i) \/ WaitCmd(i) \/ Deferred(i) \/ RunReturns(i) \/ CloseLock(i)
             \/ RemoveLock(i) \/ Quit(i) \/ Outside(i)
      PROVE  UNCHANGED gst
  BY <1>6 DEF StatLock, CreateLock, NewAgent, WaitForFileDeparture, Serve, Served, SetVars,
       WmClose, StopConnector, Cancel, WaitCmd, Deferred, RunReturns, CloseLock, RemoveLock,
       Quit, Outside, Launch, Crash, WmEndSession, LoopError, Click, DismissBox
<1>7. CASE Conversation \/ UNCHANGED vars
  BY <1>5, <1>7 DEF Conversation, Accept, Converse, vars
<1>8. QED BY <1>1, <1>2, <1>3, <1>4, <1>5, <1>6, <1>7 DEF Next, Main

LEMMA CmdStep == ASSUME TypeOK, CmdInv, [Next]_vars PROVE CmdInv'
<1> USE GpgOnce, LimitsAssumption DEF CmdInv, TypeOK, MainType, HistType, Gpgs,
            trayVars, fileVars, gpgVars, convVars, mainVars, histVars
<1>1. ASSUME NEW i \in Instances, Launch(i) PROVE CmdInv'
  BY <1>1 DEF Launch, Goto
<1>2. ASSUME NEW i \in Instances, StatLock(i) PROVE CmdInv'
  BY <1>2 DEF StatLock, Exit, Goto
<1>3. ASSUME NEW i \in Instances, CreateLock(i) PROVE CmdInv'
  BY <1>3 DEF CreateLock, Exit, Goto
<1>4. ASSUME NEW i \in Instances, KillRunningAgent(i) PROVE CmdInv'
  BY <1>4 DEF KillRunningAgent, Exit, Goto
<1>5. ASSUME NEW i \in Instances, NewAgent(i) PROVE CmdInv'
  BY <1>5 DEF NewAgent, Exit, Goto
<1>6. ASSUME NEW i \in Instances, WaitForFileDeparture(i) PROVE CmdInv'
  BY <1>6 DEF WaitForFileDeparture, Goto
<1>7. ASSUME NEW i \in Instances, Serve(i) PROVE CmdInv'
  BY <1>7 DEF Serve, Goto
<1>8. ASSUME NEW i \in Instances, Served(i) PROVE CmdInv'
  BY <1>8 DEF Served, Goto
<1>9. ASSUME NEW i \in Instances, SetVars(i) PROVE CmdInv'
  BY <1>9 DEF SetVars, Goto
<1>10. ASSUME NEW i \in Instances, Start(i) PROVE CmdInv'
  BY <1>10 DEF Start, Goto, Spawn, GpgType
<1>11. ASSUME NEW i \in Instances, WaitForFileArrival(i) PROVE CmdInv'
  BY <1>11 DEF WaitForFileArrival, Goto, ForceCleanup, Running, GpgType
<1>12. ASSUME NEW i \in Instances, Reset(i) PROVE CmdInv'
  BY <1>12 DEF Reset, Goto, ForceCleanup, Running, GpgType
<1>13. ASSUME NEW i \in Instances, WmClose(i) PROVE CmdInv'
  BY <1>13 DEF WmClose, Goto
<1>14. ASSUME NEW i \in Instances, StopConnector(i) PROVE CmdInv'
  BY <1>14 DEF StopConnector, Close
<1>15. ASSUME NEW i \in Instances, Cancel(i) PROVE CmdInv'
  BY <1>15 DEF Cancel, Goto
<1>16. ASSUME NEW i \in Instances, KillAgent(i) PROVE CmdInv'
  BY <1>16 DEF KillAgent, Return, Rewind, Goto, ForceCleanup, Running, GpgType
<1>17. ASSUME NEW i \in Instances, WaitCmd(i) PROVE CmdInv'
  BY <1>17 DEF WaitCmd, Return, Rewind, Goto, Running, GpgType
<1>18. ASSUME NEW i \in Instances, Deferred(i) PROVE CmdInv'
  BY <1>18 DEF Deferred, Close
<1>19. ASSUME NEW i \in Instances, RunReturns(i) PROVE CmdInv'
  BY <1>19 DEF RunReturns, Goto
<1>20. ASSUME NEW i \in Instances, CloseLock(i) PROVE CmdInv'
  BY <1>20 DEF CloseLock, Goto
<1>21. ASSUME NEW i \in Instances, RemoveLock(i) PROVE CmdInv'
  BY <1>21 DEF RemoveLock, Exit, Goto
<1>22. ASSUME NEW i \in Instances, Crash(i) PROVE CmdInv'
  BY <1>22 DEF Crash, Exit, Goto
<1>23. ASSUME NEW i \in Instances, WmEndSession(i) PROVE CmdInv'
  BY <1>23 DEF WmEndSession, Goto
<1>24. ASSUME NEW i \in Instances, LoopError(i) PROVE CmdInv'
  BY <1>24 DEF LoopError, Goto
<1>25. ASSUME NEW g \in Gpgs, Gpg(g) PROVE CmdInv'
  BY <1>25 DEF Gpg, GpgListens, GpgExits
<1>26. ASSUME NEW g \in Gpgs, GpgDies(g) PROVE CmdInv'
  BY <1>26 DEF GpgDies
<1>27. ASSUME NEW g \in Gpgs, UserStartsGpg(g) PROVE CmdInv'
  BY <1>27 DEF UserStartsGpg, Spawn
<1>28. CASE \/ (\E i \in Instances : Quit(i))
          \/ (\E i \in Instances, to \in {"box", "exit"} : Click(i, to))
          \/ (\E i \in Instances : DismissBox(i))
          \/ Conversation
          \/ UNCHANGED vars
  BY <1>28 DEF Quit, Click, DismissBox, Conversation, Accept, Converse, vars
<1>29. QED
  BY <1>1, <1>2, <1>3, <1>4, <1>5, <1>6, <1>7, <1>8, <1>9, <1>10, <1>11, <1>12, <1>13, <1>14,
     <1>15, <1>16, <1>17, <1>18, <1>19, <1>20, <1>21, <1>22, <1>23, <1>24, <1>25, <1>26,
     <1>27, <1>28 DEF Next, Main, Outside

LEMMA OwnerStep == ASSUME TypeOK, OwnerInv, [Next]_vars PROVE OwnerInv'
<1>1. ASSUME NEW g \in Gpgs, gst'[g] = "none" PROVE UNCHANGED owner \/ owner'[g] = owner[g]
  <2>1. ASSUME NEW h \in Gpgs, NEW who, Spawn(h, who)
        PROVE  owner'[g] = owner[g]
    BY <1>1, <2>1 DEF Spawn, TypeOK, GpgType
  <2>2. CASE \E i \in Instances : Start(i)
    BY <2>1, <2>2 DEF Start
  <2>3. CASE \E h \in Gpgs : UserStartsGpg(h)
    BY <2>1, <2>3 DEF UserStartsGpg
  <2>4. ASSUME NEW i \in Instances,
               \/ StatLock(i) \/ CreateLock(i) \/ KillRunningAgent(i) \/ NewAgent(i)
               \/ WaitForFileDeparture(i) \/ Serve(i) \/ Served(i) \/ SetVars(i)
               \/ WaitForFileArrival(i) \/ Reset(i) \/ WmClose(i) \/ StopConnector(i)
               \/ Cancel(i) \/ KillAgent(i) \/ WaitCmd(i) \/ Deferred(i) \/ RunReturns(i)
               \/ CloseLock(i) \/ RemoveLock(i) \/ Quit(i) \/ Outside(i)
        PROVE  UNCHANGED owner
    BY <2>4 DEF StatLock, CreateLock, KillRunningAgent, NewAgent, WaitForFileDeparture, Serve,
         Served, SetVars, WaitForFileArrival, Reset, WmClose, StopConnector, Cancel, KillAgent,
         WaitCmd, Deferred, RunReturns, CloseLock, RemoveLock, Quit, Outside, Launch, Crash,
         WmEndSession, LoopError, Click, DismissBox, gpgVars
  <2>5. ASSUME NEW h \in Gpgs, Gpg(h) \/ GpgDies(h) PROVE UNCHANGED owner
    BY <2>5 DEF Gpg, GpgListens, GpgExits, GpgDies
  <2>6. CASE Conversation \/ UNCHANGED vars
    BY <2>6 DEF Conversation, Accept, Converse, vars, gpgVars
  <2>7. QED BY <2>2, <2>3, <2>4, <2>5, <2>6 DEF Next, Main
<1>2. QED BY <1>1, GpgOnce DEF OwnerInv

(* Nobody but gpg starts a second gpg-agent.                               *)
LEMMA AgentStep ==
  ASSUME TypeOK, LockInv, OwnerInv, AgentInv, [Next]_vars
  PROVE  AgentInv'
<1> DEFINE Alone == \A g \in Gpgs : owner[g] # User
           Early(i) == pc[i] \in {"new", "depart", "serve", "env", "spawn"}
<1> SUFFICES ASSUME Alone'
             PROVE  /\ \A g, h \in Gpgs : Running(g)' /\ Running(h)' => g = h
                    /\ \A i \in Instances, g \in Gpgs : Early(i)' => ~Running(g)'
  BY DEF AgentInv
<1> USE DEF TypeOK, MainType, GpgType, Running,
            trayVars, fileVars, gpgVars, convVars, mainVars, histVars
<1>1. CASE Alone /\ (\A g \in Gpgs : Running(g)' => Running(g))
                 /\ (\A i \in Instances : Early(i)' => Early(i))
  BY <1>1 DEF AgentInv
<1>2. ASSUME NEW g \in Gpgs, UserStartsGpg(g) PROVE FALSE
  BY <1>2 DEF UserStartsGpg, Spawn
<1>3. ASSUME NEW i \in Instances, NEW g \in Gpgs, pc[i] = "spawn", Spawn(g, i),
             pc' = [pc EXCEPT ![i] = "arrive"]
      PROVE  /\ \A f, h \in Gpgs : Running(f)' /\ Running(h)' => f = h
             /\ \A j \in Instances, h \in Gpgs : Early(j)' => ~Running(h)'
  <2>1. Alone
    BY <1>3, InstancesAssumption DEF Spawn, OwnerInv
  <2>2. \A h \in Gpgs : ~Running(h)
    BY <1>3, <2>1 DEF AgentInv
  <2>3. \A h \in Gpgs : Running(h)' => h = g
    BY <1>3, <2>2 DEF Spawn
  <2>4. \A j \in Instances : Early(j) => j = i
    <3>1. i \in Inside BY <1>3 DEF Inside
    <3>2. \A j \in Instances : Early(j) => j \in Inside BY DEF Inside
    <3>3. QED BY <3>1, <3>2, OneInside
  <2>5. \A j \in Instances : ~Early(j)'
    BY <1>3, <2>4
  <2>6. QED BY <2>3, <2>5
<1>4. ASSUME NEW i \in Instances, KillRunningAgent(i)
      PROVE  /\ \A f, h \in Gpgs : Running(f)' /\ Running(h)' => f = h
             /\ \A j \in Instances, h \in Gpgs : Early(j)' => ~Running(h)'
  <2>1. Alone /\ pc[i] = "kill"
    BY <1>4 DEF KillRunningAgent
  <2>2. \A j \in Instances : ~Early(j)
    <3>1. i \in Inside BY <2>1 DEF Inside
    <3>2. \A j \in Instances : Early(j) => j \in Inside BY DEF Inside
    <3>3. QED BY <2>1, <3>1, <3>2, OneInside
  <2>3. CASE Exit(i) /\ UNCHANGED gst
    BY <2>1, <2>2, <2>3 DEF AgentInv, Exit, Goto
  <2>4. ASSUME NEW g \in Gpgs, Running(g), gst' = [gst EXCEPT ![g] = "gone"]
        PROVE  \A h \in Gpgs : ~Running(h)'
    BY <2>1, <2>4 DEF AgentInv
  <2>5. CASE (\A g \in Gpgs : ~Running(g)) /\ UNCHANGED gst
    BY <2>5
  <2>6. QED BY <1>4, <2>3, <2>4, <2>5 DEF KillRunningAgent
<1>5. ASSUME NEW i \in Instances, Start(i)
      PROVE  /\ \A f, h \in Gpgs : Running(f)' /\ Running(h)' => f = h
             /\ \A j \in Instances, h \in Gpgs : Early(j)' => ~Running(h)'
  <2>1. CASE Goto(i, "unwind") /\ UNCHANGED <<cmd, gst, owner>>
    BY <1>1, <2>1 DEF Goto
  <2>2. QED BY <1>3, <1>5, <2>1 DEF Start, Goto
<1>6. ASSUME NEW i \in Instances,
             Launch(i) \/ StatLock(i) \/ CreateLock(i) \/ NewAgent(i) \/ WaitForFileDeparture(i) \/ Serve(i)
      PROVE  /\ Alone /\ (\A g \in Gpgs : Running(g)' => Running(g))
             /\ \A j \in Instances : Early(j)' => Early(j)
  <2>1. CASE Launch(i) BY <2>1 DEF Launch, Goto
  <2>2. CASE StatLock(i) BY <2>2 DEF StatLock, Exit, Goto
  <2>3. CASE CreateLock(i) BY <2>3 DEF CreateLock, Exit, Goto
  <2>4. CASE NewAgent(i) BY <2>4 DEF NewAgent, Exit, Goto
  <2>5. CASE WaitForFileDeparture(i) BY <2>5 DEF WaitForFileDeparture, Goto
  <2>6. CASE Serve(i) BY <2>6 DEF Serve, Goto
  <2>7. QED BY <1>6, <2>1, <2>2, <2>3, <2>4, <2>5, <2>6
<1>7. ASSUME NEW i \in Instances,
             Served(i) \/ SetVars(i) \/ WaitForFileArrival(i) \/ Reset(i) \/ WmClose(i)
      PROVE  /\ Alone /\ (\A g \in Gpgs : Running(g)' => Running(g))
             /\ \A j \in Instances : Early(j)' => Early(j)
  <2>1. CASE Served(i) BY <2>1 DEF Served, Goto
  <2>2. CASE SetVars(i) BY <2>2 DEF SetVars, Goto
  <2>3. CASE WaitForFileArrival(i) BY <2>3 DEF WaitForFileArrival, ForceCleanup, Goto
  <2>4. CASE Reset(i) BY <2>4 DEF Reset, ForceCleanup, Goto
  <2>5. CASE WmClose(i) BY <2>5 DEF WmClose, Goto
  <2>6. QED BY <1>7, <2>1, <2>2, <2>3, <2>4, <2>5
<1>8. ASSUME NEW i \in Instances,
             StopConnector(i) \/ Cancel(i) \/ KillAgent(i) \/ WaitCmd(i) \/ Deferred(i) \/ RunReturns(i)
      PROVE  /\ Alone /\ (\A g \in Gpgs : Running(g)' => Running(g))
             /\ \A j \in Instances : Early(j)' => Early(j)
  <2>1. CASE StopConnector(i) BY <2>1 DEF StopConnector
  <2>2. CASE Cancel(i) BY <2>2 DEF Cancel, Goto
  <2>3. CASE KillAgent(i) BY <2>3 DEF KillAgent, ForceCleanup, Answers, Return, Goto
  <2>4. CASE WaitCmd(i) BY <2>4 DEF WaitCmd, Return, Goto
  <2>5. CASE Deferred(i) BY <2>5 DEF Deferred
  <2>6. CASE RunReturns(i) BY <2>6 DEF RunReturns, Goto
  <2>7. QED BY <1>8, <2>1, <2>2, <2>3, <2>4, <2>5, <2>6
<1>9. ASSUME NEW i \in Instances,
             CloseLock(i) \/ RemoveLock(i) \/ Quit(i) \/ Crash(i) \/ WmEndSession(i) \/ LoopError(i)
      PROVE  /\ Alone /\ (\A g \in Gpgs : Running(g)' => Running(g))
             /\ \A j \in Instances : Early(j)' => Early(j)
  <2>1. CASE CloseLock(i) BY <2>1 DEF CloseLock, Goto
  <2>2. CASE RemoveLock(i) BY <2>2 DEF RemoveLock, Exit, Goto
  <2>3. CASE Quit(i) BY <2>3 DEF Quit
  <2>4. CASE Crash(i) BY <2>4 DEF Crash, Exit, Goto
  <2>5. CASE WmEndSession(i) BY <2>5 DEF WmEndSession, Goto
  <2>6. CASE LoopError(i) BY <2>6 DEF LoopError, Goto
  <2>7. QED BY <1>9, <2>1, <2>2, <2>3, <2>4, <2>5, <2>6
<1>10. ASSUME NEW i \in Instances, (\E to \in {"box", "exit"} : Click(i, to)) \/ DismissBox(i)
       PROVE  UNCHANGED <<pc, gst, owner>>
  BY <1>10 DEF Click, DismissBox
<1>11. ASSUME NEW g \in Gpgs, Gpg(g) \/ GpgDies(g)
       PROVE  /\ Alone /\ (\A h \in Gpgs : Running(h)' => Running(h))
              /\ \A j \in Instances : Early(j)' => Early(j)
  BY <1>11 DEF Gpg, GpgListens, GpgExits, GpgDies
<1>12. CASE Conversation \/ UNCHANGED vars
  <2>1. UNCHANGED <<pc, gst, owner>>
    BY <1>12 DEF Conversation, Accept, Converse, vars
  <2>2. QED BY <1>1, <2>1
<1>13. CASE UNCHANGED <<pc, gst, owner>>
  BY <1>1, <1>13
<1>14. QED
  BY <1>1, <1>2, <1>4, <1>5, <1>6, <1>7, <1>8, <1>9, <1>10, <1>11, <1>12, <1>13
  DEF Next, Main, Outside

-----------------------------------------------------------------------------
(* The inductive invariant, and the theorems.                              *)
LifeInv == TypeOK /\ LockInv /\ IdxInv /\ FileInv /\ EndInv /\ CmdInv /\ OwnerInv /\ AgentInv

LEMMA LifeInvHolds == Spec => []LifeInv
<1>1. Init => LifeInv
  <2> SUFFICES ASSUME Init PROVE LifeInv
    OBVIOUS
  <2>1. TypeOK BY TypeInit
  <2>2. LockInv /\ IdxInv /\ EndInv BY DEF Init, LockInv, Inside, IdxInv, EndInv
  <2>3. FileInv BY InstancesAssumption DEF Init, FileInv
  <2>4. CmdInv BY DEF Init, CmdInv
  <2>5. OwnerInv /\ AgentInv BY DEF Init, OwnerInv, AgentInv, Running
  <2>6. QED BY <2>1, <2>2, <2>3, <2>4, <2>5 DEF LifeInv
<1>2. LifeInv /\ [Next]_vars => LifeInv'
  BY TypeStep, LockStep, IdxStep, FileStep, EndStep, CmdStep, OwnerStep, AgentStep DEF LifeInv
<1>3. QED BY <1>1, <1>2, PTL DEF Spec

(* However many instances of agent-gui are started, and whenever they      *)
(* crash or exit, one at a time is past the lock (main.go:308-313).        *)
THEOREM OneInstanceCorrect == Spec => []OneInstance
<1>1. LifeInv => OneInstance BY OneInside DEF LifeInv, OneInstance
<1>2. QED BY <1>1, LifeInvHolds, PTL

(* An instance that ends in order leaves neither its gpg-agent nor a file  *)
(* of its sockets, whatever failed on its way (agent.go:134, 251-289, the  *)
(* deferred calls of run).                                                 *)
THEOREM CleanEndCorrect == Spec => []CleanEnd
<1>1. LifeInv => CleanEnd BY DEF LifeInv, CleanEnd, CmdInv, EndInv, Running
<1>2. QED BY <1>1, LifeInvHolds, PTL

(* As long as only agent-gui starts gpg-agents there is never more than    *)
(* one, across any number of crashes and restarts (main.go:320-325).       *)
THEOREM OneAgentCorrect == Spec => []OneAgent
<1>1. LifeInv => OneAgent BY DEF LifeInv, OneAgent, AgentInv
<1>2. QED BY <1>1, LifeInvHolds, PTL

(* The file of a socket an instance serves is removed or replaced by that  *)
(* instance only (connector.go:90-111, agent.go:266-268).                  *)
THEOREM OwnFilesCorrect == Spec => OwnFiles
<1> DEFINE Kept == \A k \in FileBacked : LET i == guiFile[k] IN
                     i # NoOne /\ pc[i] # "end" /\ guiFile'[k] # i => idx'[i] # idx[i]
<1>1. LifeInv /\ [Next]_vars => [Kept]_vars
  <2> SUFFICES ASSUME LifeInv, [Next]_vars, NEW k \in FileBacked, NEW j,
                      j = guiFile[k], j # NoOne, pc[j] # "end", guiFile'[k] # j
               PROVE  idx'[j] # idx[j]
    OBVIOUS
  <2>1. j \in Instances /\ j \in Inside
    BY DEF LifeInv, TypeOK, FileType, FileInv, Serving, Inside
  <2>2. ASSUME NEW i \in Instances, i \in Inside, idx'[i] # idx[i]
        PROVE  idx'[j] # idx[j]
    BY <2>1, <2>2, OneInside DEF LifeInv
  <2>3. ASSUME NEW i \in Instances, Serve(i) PROVE idx'[j] # idx[j]
    <3>1. i \in Inside BY <2>3 DEF Serve, Inside
    <3>2. idx'[i] # idx[i]
      BY <2>1, <2>3, Orders DEF Serve, LifeInv, TypeOK, MainType
    <3>3. QED BY <2>2, <3>1, <3>2
  <2>4. ASSUME NEW i \in Instances, StopConnector(i) PROVE idx'[j] # idx[j]
    <3>1. i \in Inside BY <2>4 DEF StopConnector, Inside
    <3>2. idx'[i] # idx[i]
      BY <2>4, Orders DEF StopConnector, LifeInv, TypeOK, MainType
    <3>3. QED BY <2>2, <3>1, <3>2
  <2>5. ASSUME NEW i \in Instances, Deferred(i) PROVE idx'[j] # idx[j]
    <3>1. i \in Inside BY <2>5 DEF Deferred, Inside
    <3>2. idx'[i] # idx[i]
      BY <2>5, Orders DEF Deferred, LifeInv, TypeOK, MainType
    <3>3. QED BY <2>2, <3>1, <3>2
  <2>6. ASSUME NEW i \in Instances,
               \/ StatLock(i) \/ CreateLock(i) \/ KillRunningAgent(i) \/ NewAgent(i)
               \/ WaitForFileDeparture(i) \/ Served(i) \/ SetVars(i) \/ Start(i)
               \/ WaitForFileArrival(i) \/ Reset(i) \/ WmClose(i) \/ Cancel(i)
               \/ KillAgent(i) \/ WaitCmd(i) \/ RunReturns(i) \/ CloseLock(i)
               \/ RemoveLock(i) \/ Quit(i) \/ Outside(i)
        PROVE  UNCHANGED guiFile
    BY <2>6 DEF StatLock, CreateLock, KillRunningAgent, NewAgent, WaitForFileDeparture, Served,
         SetVars, Start, WaitForFileArrival, Reset, WmClose, Cancel, KillAgent, WaitCmd,
         RunReturns, CloseLock, RemoveLock, Quit, Outside, Launch, Crash, WmEndSession,
         LoopError, Click, DismissBox, fileVars
  <2>7. ASSUME NEW g \in Gpgs, Gpg(g) \/ GpgDies(g) \/ UserStartsGpg(g)
        PROVE  UNCHANGED guiFile
    BY <2>7 DEF Gpg, GpgListens, GpgExits, GpgDies, UserStartsGpg, fileVars
  <2>8. CASE Conversation \/ UNCHANGED vars
    BY <2>8 DEF Conversation, Accept, Converse, vars, fileVars
  <2>9. QED BY <2>3, <2>4, <2>5, <2>6, <2>7, <2>8 DEF Next, Main
<1>2. QED BY <1>1, LifeInvHolds, PTL DEF Spec, OwnFiles

-----------------------------------------------------------------------------
(* Systray.  How far the main thread has come, and what it has filled in.  *)

TrayStage ==
  /\ trayPc = "init" => window = "none"
  /\ trayPc \in {"nid", "menu", "put"} => window = "open"
  /\ window = "none" => queue = << >> /\ ready = 0 /\ trayPc \in {"init", "loop"} /\ ~locked
  /\ trayPc \in {"init", "nid"} => nid = {} /\ shown = {}
  /\ trayPc \in {"menu", "put"} \/ (trayPc = "loop" /\ window = "open") => nid # {}

\* The icon is that of nid or none at all, and none only for a reason that
\* lasts, or with the message on its way that adds it.
TrayIcon ==
  /\ explorer \/ shown = {}
  /\ shown = {} \/ shown = nid
  /\ trayPc \in {"menu", "put", "loop"} /\ window = "open"
        => shown = nid \/ deleted \/ ~explorer \/ Icon!Pending({"taskbar"})

\* The last notification that waits.
LastNews(n) ==
  /\ n \in DOMAIN queue /\ queue[n] \in {"lock", "unlock"}
  /\ \A k \in DOMAIN queue : k > n => queue[k] \notin {"lock", "unlock"}

\* It tells how the session is now; when none waits, the flag does.
TrayLock ==
  registered /\ window = "open" =>
     /\ \A n \in DOMAIN queue : LastNews(n) => (queue[n] = "lock") = session
     /\ Icon!Heard /\ known => locked = session

TrayInv == Icon!TypeOK /\ TrayStage /\ TrayIcon /\ TrayLock

LEMMA TrayScript ==
  /\ DOMAIN Icon!Script = 1..6 /\ Icon!Served = 7
  /\ Len(Icon!Items) = 4
  /\ \A n \in 1..4 : Icon!Items[n] \in {Icon!Items[i] : i \in 1..Len(Icon!Items)}
  BY DEF Icon!Script, Icon!Items, Icon!Served

LEMMA TrayInit == Icon!Init => TrayInv
<1> SUFFICES ASSUME Icon!Init PROVE TrayInv
  OBVIOUS
<1>1. Icon!TypeOK
  <2>1. 0 \in 0..MaxExplorer /\ 0 \in 0..MaxSession /\ 0 \in 0..MaxEnd
    BY IconBounds DEF Icon!SystrayBounds
  <2>2. << >> \in Seq(Icon!Messages) /\ << >> \in Seq({Icon!Items[n] : n \in 1..Len(Icon!Items)})
    OBVIOUS
  <2>3. ready \in 0..Icon!Served
    BY TrayScript DEF Icon!Init
  <2> HIDE DEF Icon!Script, Icon!Items, Icon!Served
  <2> QED BY <2>1, <2>2, <2>3 DEF Icon!Init, Icon!TypeOK
<1>2. TrayStage
  BY DEF Icon!Init, TrayStage
<1>3. TrayIcon
  BY DEF Icon!Init, TrayIcon
<1>4. TrayLock
  BY DEF Icon!Init, TrayLock
<1> QED BY <1>1, <1>2, <1>3, <1>4 DEF TrayInv

\* A message more at the end of the queue.
LEMMA TrayPosts ==
  ASSUME Icon!TypeOK, NEW m \in Icon!Messages, Icon!Post(m)
  PROVE  /\ queue' \in Seq(Icon!Messages)
         /\ Len(queue') = Len(queue) + 1 /\ queue'[Len(queue) + 1] = m
         /\ \A n \in 1..Len(queue) : queue'[n] = queue[n]
         /\ DOMAIN queue = 1..Len(queue) /\ DOMAIN queue' = 1..Len(queue)+1 /\ Len(queue) \in Nat
  BY DEF Icon!TypeOK, Icon!Post

\* The first message taken.
LEMMA TrayReceives ==
  ASSUME Icon!TypeOK, NEW m, Icon!Receives(m)
  PROVE  /\ queue' \in Seq(Icon!Messages) /\ Len(queue) \in Nat \ {0} /\ queue[1] = m
         /\ Len(queue') = Len(queue) - 1
         /\ \A n \in 1..Len(queue) - 1 : queue'[n] = queue[n + 1]
         /\ DOMAIN queue = 1..Len(queue) /\ DOMAIN queue' = 1..Len(queue)-1
         /\ trayPc = "loop" /\ window = "open"
  BY DEF Icon!TypeOK, Icon!Receives

LEMMA TrayTypeStep ==
  ASSUME Icon!TypeOK, [Icon!Next]_(Icon!vars)
  PROVE  Icon!TypeOK'
<1> USE IconBounds DEF Icon!SystrayBounds
<1>1. CASE Icon!CreateWindow
  BY <1>1, TrayScript DEF Icon!CreateWindow, Icon!TypeOK
<1>2. CASE Icon!CreateFails
  BY <1>2 DEF Icon!CreateFails, Icon!TypeOK, Icon!iconVars, Icon!readyVars, Icon!sessionVars
<1>3. CASE Icon!AddIcon
  BY <1>3 DEF Icon!AddIcon, Icon!Add, Icon!Look, Icon!TypeOK, Icon!readyVars, Icon!sessionVars
<1>4. CASE Icon!CreateMenu \/ Icon!PutMenu
  BY <1>4 DEF Icon!CreateMenu, Icon!PutMenu, Icon!TypeOK, Icon!iconVars, Icon!readyVars,
     Icon!sessionVars
<1>5. CASE Icon!TaskbarCreated
  <2>1. queue' \in Seq(Icon!Messages)
    BY <1>5, TrayReceives DEF Icon!TaskbarCreated
  <2>2. shown' \in {{}} \cup {{l} : l \in Icon!Look}
    BY <1>5 DEF Icon!TaskbarCreated, Icon!Add, Icon!TypeOK
  <2>3. UNCHANGED <<Icon!winVars, nid, explorer, downs, deleted, Icon!readyVars, Icon!sessionVars,
                    crashed, ends>>
    BY <1>5 DEF Icon!TaskbarCreated
  <2> QED BY <2>1, <2>2, <2>3 DEF Icon!TypeOK, Icon!winVars, Icon!readyVars, Icon!sessionVars
<1>6. ASSUME NEW m \in {"lock", "unlock"}, Icon!SessionEvent(m) PROVE Icon!TypeOK'
  BY <1>6, TrayReceives DEF Icon!SessionEvent, Icon!TypeOK, Icon!winVars, Icon!iconVars,
     Icon!readyVars
<1>7. CASE Icon!WmClose
  BY <1>7, TrayReceives DEF Icon!WmClose, Icon!TypeOK, Icon!readyVars, Icon!sessionVars
<1>8. ASSUME NEW part \in {"icon", "tip"}, Icon!Decorate(part) PROVE Icon!TypeOK'
  <2>1. CASE Icon!Panic
    BY <2>1 DEF Icon!Panic, Icon!TypeOK, Icon!readyVars, Icon!sessionVars
  <2>2. CASE ~Icon!Panic
    <3>1. PICK l \in nid :
             /\ nid' = {[l EXCEPT ![part] = TRUE]} /\ Icon!Modify([l EXCEPT ![part] = TRUE])
             /\ ready' = ready + 1 /\ ready \in DOMAIN Icon!Script
             /\ UNCHANGED <<Icon!winVars, queue, popup, Icon!sessionVars, crashed>>
             /\ UNCHANGED <<explorer, downs, deleted, ends>>
      BY <1>8, <2>2 DEF Icon!Decorate
    <3>2. l \in Icon!Look
      BY <3>1 DEF Icon!TypeOK
    <3>3. [l EXCEPT ![part] = TRUE] \in Icon!Look
      BY <1>8, <3>2 DEF Icon!Look
    <3>4. ready' \in 0..Icon!Served
      BY <3>1, TrayScript
    <3>5. nid' \in {{}} \cup {{x} : x \in Icon!Look} /\ shown' \in {{}} \cup {{x} : x \in Icon!Look}
      BY <3>1, <3>3 DEF Icon!Modify, Icon!TypeOK
    <3> QED BY <3>1, <3>4, <3>5 DEF Icon!TypeOK, Icon!winVars, Icon!sessionVars
  <2> QED BY <2>1, <2>2
<1>9. ASSUME NEW n \in 1..Len(Icon!Items), Icon!AddItem(n) PROVE Icon!TypeOK'
  <2>1. CASE Icon!Panic
    BY <2>1 DEF Icon!Panic, Icon!TypeOK, Icon!readyVars, Icon!sessionVars
  <2>2. CASE ~Icon!Panic
    <3>1. Append(popup, Icon!Items[n]) \in Seq({Icon!Items[i] : i \in 1..Len(Icon!Items)})
      BY DEF Icon!TypeOK
    <3>2. /\ ready \in DOMAIN Icon!Script /\ ready' = ready + 1
          /\ popup' = Append(popup, Icon!Items[n]) \/ popup' = popup
          /\ UNCHANGED <<Icon!winVars, queue, Icon!iconVars, Icon!sessionVars, crashed, ends>>
      BY <1>9, <2>2 DEF Icon!AddItem
    <3>3. ready' \in 0..Icon!Served
      BY <3>2, TrayScript
    <3>4. popup' \in Seq({Icon!Items[i] : i \in 1..Len(Icon!Items)})
      BY <3>1, <3>2 DEF Icon!TypeOK
    <3> QED BY <3>2, <3>3, <3>4 DEF Icon!TypeOK, Icon!winVars, Icon!iconVars, Icon!sessionVars
  <2> QED BY <2>1, <2>2
<1>10. CASE Icon!Quit
  BY <1>10, TrayPosts DEF Icon!Quit, Icon!TypeOK, Icon!Messages, Icon!winVars, Icon!iconVars,
     Icon!readyVars, Icon!sessionVars
<1>11. CASE Icon!WmEndSession
  BY <1>11 DEF Icon!WmEndSession, Icon!TypeOK, Icon!winVars, Icon!readyVars, Icon!sessionVars
<1>12. CASE Icon!ExplorerEnds
  <2>1. downs' \in 0..MaxExplorer
    BY <1>12 DEF Icon!ExplorerEnds, Icon!TypeOK
  <2>2. shown' \in {{}} \cup {{l} : l \in Icon!Look}
    BY <1>12 DEF Icon!ExplorerEnds
  <2>3. /\ explorer' = FALSE
        /\ UNCHANGED <<Icon!winVars, queue, nid, deleted, Icon!readyVars, Icon!sessionVars, crashed,
                       ends>>
    BY <1>12 DEF Icon!ExplorerEnds
  <2>4. nid' \in {{}} \cup {{l} : l \in Icon!Look} /\ popup' = popup /\ queue' \in Seq(Icon!Messages)
    BY <2>3 DEF Icon!TypeOK, Icon!readyVars
  <2> QED BY <2>1, <2>2, <2>3, <2>4 DEF Icon!TypeOK, Icon!winVars, Icon!readyVars,
     Icon!sessionVars
<1>13. CASE Icon!ExplorerStarts
  <2>1. queue' \in Seq(Icon!Messages)
    BY <1>13, TrayPosts DEF Icon!ExplorerStarts, Icon!Messages, Icon!TypeOK
  <2> QED BY <1>13, <2>1 DEF Icon!ExplorerStarts, Icon!TypeOK, Icon!winVars, Icon!readyVars,
     Icon!sessionVars
<1>14. CASE Icon!SessionTurns
  <2>1. queue' \in Seq(Icon!Messages)
    BY <1>14, TrayPosts DEF Icon!SessionTurns, Icon!Messages, Icon!TypeOK
  <2> QED BY <1>14, <2>1 DEF Icon!SessionTurns, Icon!TypeOK, Icon!winVars, Icon!iconVars,
     Icon!readyVars
<1>15. CASE UNCHANGED Icon!vars
  BY <1>15 DEF Icon!vars, Icon!TypeOK, Icon!winVars, Icon!readyVars
<1> QED BY <1>1, <1>2, <1>3, <1>4, <1>5, <1>6, <1>7, <1>8, <1>9, <1>10, <1>11, <1>12, <1>13,
   <1>14,
           <1>15 DEF Icon!Next, Icon!Main, Icon!OnReady, Icon!Outside, Icon!SetIcon, Icon!SetTooltip

\* SetIcon and SetTooltip either panic or change what nid shows.
LEMMA TrayDecorates ==
  ASSUME Icon!TypeOK, NEW part \in {"icon", "tip"}, Icon!Decorate(part), ~Icon!Panic
  PROVE  /\ nid # {} /\ nid' # {} /\ shown' = (IF shown = {} THEN {} ELSE nid')
         /\ ready \in 1..6 /\ ready' = ready + 1 /\ trayPc # "end"
         /\ UNCHANGED <<Icon!winVars, queue, popup, Icon!sessionVars, crashed>>
         /\ UNCHANGED <<explorer, downs, deleted, ends>>
  BY TrayScript DEF Icon!Decorate, Icon!Modify

LEMMA TrayStageStep ==
  ASSUME Icon!TypeOK, TrayStage, [Icon!Next]_(Icon!vars)
  PROVE  TrayStage'
<1> USE DEF TrayStage
<1>1. CASE Icon!CreateWindow \/ Icon!CreateFails \/ Icon!AddIcon \/ Icon!CreateMenu \/ Icon!PutMenu
  BY <1>1 DEF Icon!CreateWindow, Icon!CreateFails, Icon!AddIcon, Icon!CreateMenu,
     Icon!PutMenu, Icon!iconVars, Icon!readyVars, Icon!sessionVars
<1>2. CASE Icon!TaskbarCreated \/ Icon!WmClose \/ Icon!WmEndSession
  BY <1>2, TrayReceives DEF Icon!TaskbarCreated, Icon!WmClose, Icon!WmEndSession,
     Icon!winVars, Icon!iconVars, Icon!readyVars, Icon!sessionVars
<1>3. ASSUME NEW m \in {"lock", "unlock"}, Icon!SessionEvent(m) PROVE TrayStage'
  BY <1>3, TrayReceives DEF Icon!SessionEvent, Icon!winVars, Icon!iconVars, Icon!readyVars
<1>4. CASE Icon!Panic
  BY <1>4 DEF Icon!Panic
<1>5. ASSUME NEW part \in {"icon", "tip"}, Icon!Decorate(part), ~Icon!Panic PROVE TrayStage'
  BY <1>5, TrayDecorates DEF Icon!winVars, Icon!sessionVars
<1>6. ASSUME NEW n \in 1..Len(Icon!Items), Icon!AddItem(n), ~Icon!Panic PROVE TrayStage'
  BY <1>6, TrayScript DEF Icon!AddItem, Icon!winVars, Icon!iconVars, Icon!sessionVars
<1>7. CASE Icon!Quit
  BY <1>7, TrayScript DEF Icon!Quit, Icon!winVars, Icon!iconVars, Icon!readyVars, Icon!sessionVars
<1>8. CASE Icon!ExplorerEnds \/ Icon!ExplorerStarts \/ Icon!SessionTurns
  BY <1>8 DEF Icon!ExplorerEnds, Icon!ExplorerStarts, Icon!SessionTurns, Icon!winVars,
     Icon!iconVars, Icon!readyVars, Icon!sessionVars
<1>9. CASE UNCHANGED Icon!vars
  BY <1>9 DEF Icon!vars, Icon!winVars, Icon!readyVars
<1> QED BY <1>1, <1>2, <1>3, <1>4, <1>5, <1>6, <1>7, <1>8, <1>9
        DEF Icon!Next, Icon!Main, Icon!OnReady, Icon!Outside, Icon!SetIcon, Icon!SetTooltip

LEMMA TrayIconStep ==
  ASSUME TrayInv, Icon!TypeOK', [Icon!Next]_(Icon!vars)
  PROVE  TrayIcon'
<1> USE DEF TrayInv, TrayIcon, Icon!Pending
<1>1. CASE Icon!CreateWindow \/ Icon!CreateFails \/ Icon!CreateMenu \/ Icon!PutMenu
  BY <1>1 DEF Icon!CreateWindow, Icon!CreateFails, Icon!CreateMenu, Icon!PutMenu,
     Icon!iconVars, TrayStage
<1>2. CASE Icon!AddIcon
  BY <1>2 DEF Icon!AddIcon, Icon!Add, TrayStage
<1>3. CASE Icon!TaskbarCreated
  <2>1. PICK l \in nid : shown' = IF explorer /\ shown = {} THEN {l} ELSE shown
    BY <1>3 DEF Icon!TaskbarCreated, Icon!Add
  <2>2. nid = {l}
    BY <2>1 DEF Icon!TypeOK
  <2>3. nid' = nid /\ explorer' = explorer
    BY <1>3 DEF Icon!TaskbarCreated
  <2> QED BY <2>1, <2>2, <2>3
<1>4. ASSUME NEW m \in {"lock", "unlock"}, Icon!SessionEvent(m) PROVE TrayIcon'
  <2>1. UNCHANGED <<trayPc, window, explorer, nid, shown, deleted>>
    BY <1>4 DEF Icon!SessionEvent, Icon!winVars, Icon!iconVars
  <2>2. Icon!Receives(m)
    BY <1>4 DEF Icon!SessionEvent
  <2>3. ASSUME NEW n \in DOMAIN queue, queue[n] = "taskbar"
        PROVE  \E k \in DOMAIN queue' : queue'[k] = "taskbar"
    <3>1. n # 1 /\ n - 1 \in DOMAIN queue' /\ queue'[n - 1] = queue[n]
      BY <2>2, <2>3, TrayReceives
    <3> QED BY <2>3, <3>1
  <2> QED BY <2>1, <2>3
<1>5. CASE Icon!WmClose \/ Icon!WmEndSession
  BY <1>5 DEF Icon!WmClose, Icon!WmEndSession, Icon!winVars
<1>6. CASE Icon!Panic
  BY <1>6 DEF Icon!Panic
<1>7. ASSUME NEW part \in {"icon", "tip"}, Icon!Decorate(part), ~Icon!Panic PROVE TrayIcon'
  BY <1>7, TrayDecorates DEF Icon!winVars
<1>8. ASSUME NEW n \in 1..Len(Icon!Items), Icon!AddItem(n), ~Icon!Panic PROVE TrayIcon'
  BY <1>8 DEF Icon!AddItem, Icon!winVars, Icon!iconVars
<1>9. CASE Icon!Quit \/ Icon!SessionTurns
  <2>1. UNCHANGED <<trayPc, window, explorer, nid, shown, deleted>>
    BY <1>9 DEF Icon!Quit, Icon!SessionTurns, Icon!winVars, Icon!iconVars
  <2>2. queue' = queue \/ \E m \in Icon!Messages : Icon!Post(m)
    BY <1>9 DEF Icon!Quit, Icon!SessionTurns, Icon!Messages
  <2>3. ASSUME NEW n \in DOMAIN queue
        PROVE  n \in DOMAIN queue' /\ queue'[n] = queue[n]
    BY <2>2, TrayPosts
  <2> QED BY <2>1, <2>3
<1>10. CASE Icon!ExplorerEnds
  BY <1>10 DEF Icon!ExplorerEnds
<1>11. CASE Icon!ExplorerStarts
  <2>1. shown' = {} /\ UNCHANGED <<trayPc, window, nid, deleted>>
    BY <1>11 DEF Icon!ExplorerStarts, Icon!winVars
  <2>2. window = "open" => \E n \in DOMAIN queue' : queue'[n] = "taskbar"
    BY <1>11, TrayPosts DEF Icon!ExplorerStarts, Icon!Messages
  <2> QED BY <2>1, <2>2
<1>12. CASE UNCHANGED Icon!vars
  BY <1>12 DEF Icon!vars, Icon!winVars
<1> QED BY <1>1, <1>2, <1>3, <1>4, <1>5, <1>6, <1>7, <1>8, <1>9, <1>10, <1>11, <1>12
        DEF Icon!Next, Icon!Main, Icon!OnReady, Icon!Outside, Icon!SetIcon, Icon!SetTooltip

\* What waits in the queue and the flag are as they were.
LEMMA TrayLockKept ==
  ASSUME TrayInv, UNCHANGED <<window, registered, queue, session, known, locked>>
  PROVE  TrayLock'
  BY DEF TrayInv, TrayLock, LastNews, Icon!Heard, Icon!Pending

\* Another message at the end.
LEMMA TrayLockPosts ==
  ASSUME TrayInv, NEW m \in {"taskbar", "close"}, Icon!Post(m),
         UNCHANGED <<window, registered, session, known, locked>>
  PROVE  TrayLock'
<1>1. m \in Icon!Messages
  BY DEF Icon!Messages
<1>2. \A n \in DOMAIN queue' : LastNews(n)' => LastNews(n) /\ queue'[n] = queue[n]
  BY <1>1, TrayPosts DEF TrayInv, LastNews
<1>3. Icon!Heard' => Icon!Heard
  BY <1>1, TrayPosts DEF TrayInv, Icon!Heard, Icon!Pending
<1> QED BY <1>2, <1>3, <1>1, TrayPosts DEF TrayInv, TrayLock, LastNews

\* The last news stays the last when the first message is taken.
LEMMA TrayLaterNews ==
  ASSUME Icon!TypeOK, NEW m, Icon!Receives(m), NEW n \in DOMAIN queue', LastNews(n)'
  PROVE  LastNews(n + 1) /\ queue'[n] = queue[n + 1]
<1>1. n + 1 \in DOMAIN queue /\ queue'[n] = queue[n + 1]
  BY TrayReceives
<1>2. ASSUME NEW k \in DOMAIN queue, k > n + 1 PROVE queue[k] \notin {"lock", "unlock"}
  <2>1. k \in 1..Len(queue) /\ n \in 1..Len(queue) - 1 /\ Len(queue) \in Nat
    BY <1>2, TrayReceives
  <2>2. k - 1 \in 1..Len(queue) - 1 /\ k - 1 > n /\ (k - 1) + 1 = k
    BY <1>2, <2>1
  <2>3. k - 1 \in DOMAIN queue' /\ queue'[k - 1] = queue[k]
    BY <2>2, TrayReceives
  <2> QED BY <2>2, <2>3 DEF LastNews
<1> QED BY <1>1, <1>2 DEF LastNews

\* The first message taken that is none of the session's.
LEMMA TrayLockReceives ==
  ASSUME TrayInv, NEW m, m \notin {"lock", "unlock"}, Icon!Receives(m),
         UNCHANGED <<window, registered, session, known, locked>>
  PROVE  TrayLock'
<1>1. ASSUME NEW n \in DOMAIN queue', LastNews(n)'
      PROVE  LastNews(n + 1) /\ queue'[n] = queue[n + 1]
  BY <1>1, TrayLaterNews DEF TrayInv
<1>2. Icon!Heard' => Icon!Heard
  <2>1. ASSUME NEW k \in DOMAIN queue, queue[k] \in {"lock", "unlock"} PROVE ~Icon!Heard'
    <3>1. k # 1 /\ k - 1 \in DOMAIN queue' /\ queue'[k - 1] = queue[k]
      BY <2>1, TrayReceives DEF TrayInv
    <3> QED BY <2>1, <3>1 DEF Icon!Heard, Icon!Pending
  <2> QED BY <2>1 DEF Icon!Heard, Icon!Pending
<1>3. ASSUME registered, window = "open"
      PROVE  \A n \in DOMAIN queue' : LastNews(n)' => (queue'[n] = "lock") = session'
  BY <1>1, <1>3 DEF TrayInv, TrayLock, LastNews
<1> QED BY <1>2, <1>3 DEF TrayInv, TrayLock

LEMMA TrayLockStep ==
  ASSUME TrayInv, Icon!TypeOK', [Icon!Next]_(Icon!vars)
  PROVE  TrayLock'
<1> USE DEF TrayInv
<1>1. CASE Icon!CreateWindow
  <2>1. /\ queue' = << >> /\ locked' = FALSE /\ session' = session
        /\ known' = (registered' /\ ~session)
    BY <1>1 DEF Icon!CreateWindow, TrayStage
  <2> QED BY <2>1 DEF TrayLock, Icon!Heard, Icon!Pending, Icon!TypeOK
<1>2. CASE Icon!CreateFails \/ Icon!AddIcon \/ Icon!CreateMenu \/ Icon!PutMenu \/ Icon!WmEndSession
           \/ Icon!ExplorerEnds
           \/ UNCHANGED Icon!vars
  BY <1>2, TrayLockKept DEF Icon!CreateFails, Icon!AddIcon, Icon!CreateMenu, Icon!PutMenu,
     Icon!WmEndSession, Icon!ExplorerEnds,
     Icon!vars, Icon!winVars, Icon!iconVars, Icon!readyVars, Icon!sessionVars
<1>3. CASE Icon!TaskbarCreated
  BY <1>3, TrayLockReceives DEF Icon!TaskbarCreated, Icon!winVars, Icon!sessionVars
<1>4. CASE Icon!WmClose \/ Icon!Panic
  BY <1>4 DEF Icon!WmClose, Icon!Panic, TrayLock
<1>5. ASSUME NEW m \in {"lock", "unlock"}, Icon!SessionEvent(m) PROVE TrayLock'
  <2>1. /\ Icon!Receives(m) /\ locked' = (m = "lock")
        /\ UNCHANGED <<window, registered, session>>
    BY <1>5 DEF Icon!SessionEvent, Icon!winVars
  <2>2. ASSUME registered, window = "open"
        PROVE  \A n \in DOMAIN queue' : LastNews(n)' => (queue'[n] = "lock") = session'
    <3>1. ASSUME NEW n \in DOMAIN queue', LastNews(n)'
          PROVE  LastNews(n + 1) /\ queue'[n] = queue[n + 1] /\ n + 1 \in DOMAIN queue
      BY <2>1, <3>1, TrayLaterNews DEF LastNews
    <3> QED BY <2>1, <2>2, <3>1 DEF TrayLock
  <2>3. ASSUME registered, window = "open", Icon!Heard'
        PROVE  locked' = session'
    <3>1. ASSUME NEW k \in DOMAIN queue, k > 1 PROVE queue[k] \notin {"lock", "unlock"}
      <4>1. k - 1 \in DOMAIN queue' /\ queue'[k - 1] = queue[k]
        BY <2>1, <3>1, TrayReceives
      <4> QED BY <2>3, <4>1 DEF Icon!Heard, Icon!Pending
    <3>2. LastNews(1) /\ queue[1] = m /\ 1 \in DOMAIN queue
      BY <2>1, <3>1, TrayReceives DEF LastNews
    <3> QED BY <2>1, <2>3, <3>2 DEF TrayLock
  <2> QED BY <2>1, <2>2, <2>3 DEF TrayLock
<1>6. ASSUME NEW part \in {"icon", "tip"}, Icon!Decorate(part), ~Icon!Panic PROVE TrayLock'
  BY <1>6, TrayDecorates, TrayLockKept DEF Icon!winVars, Icon!sessionVars
<1>7. ASSUME NEW n \in 1..Len(Icon!Items), Icon!AddItem(n), ~Icon!Panic PROVE TrayLock'
  BY <1>7, TrayLockKept DEF Icon!AddItem, Icon!winVars, Icon!iconVars, Icon!sessionVars
<1>8. CASE Icon!Quit
  BY <1>8, TrayLockPosts DEF Icon!Quit, Icon!winVars, Icon!sessionVars
<1>9. CASE Icon!ExplorerStarts
  BY <1>9, TrayLockPosts, TrayLockKept DEF Icon!ExplorerStarts, Icon!winVars, Icon!sessionVars
<1>10. CASE Icon!SessionTurns
  <2>1. session' = ~session /\ UNCHANGED <<window, registered, known, locked>>
    BY <1>10 DEF Icon!SessionTurns, Icon!winVars
  <2>2. CASE registered /\ window = "open"
    <3>1. PICK m \in {"lock", "unlock"} : Icon!Post(m) /\ (m = "lock") = ~session
      BY <1>10, <2>2 DEF Icon!SessionTurns, Icon!TypeOK
    <3>2. m \in Icon!Messages
      BY DEF Icon!Messages
    <3>3. \A n \in DOMAIN queue' : LastNews(n)' => n = Len(queue) + 1
      BY <3>1, <3>2, TrayPosts DEF LastNews
    <3>4. ~Icon!Heard'
      BY <3>1, <3>2, TrayPosts DEF Icon!Heard, Icon!Pending
    <3>5. queue'[Len(queue) + 1] = m
      BY <3>1, <3>2, TrayPosts
    <3> QED BY <2>1, <3>1, <3>3, <3>4, <3>5 DEF TrayLock
  <2> QED BY <2>1, <2>2 DEF TrayLock
<1> QED BY <1>1, <1>2, <1>3, <1>4, <1>5, <1>6, <1>7, <1>8, <1>9, <1>10
        DEF Icon!Next, Icon!Main, Icon!OnReady, Icon!Outside, Icon!SetIcon, Icon!SetTooltip

LEMMA TrayAlways == Icon!Spec => []TrayInv
<1>1. TrayInv /\ [Icon!Next]_(Icon!vars) => TrayInv'
  <2> SUFFICES ASSUME TrayInv, [Icon!Next]_(Icon!vars) PROVE TrayInv'
    OBVIOUS
  <2>1. Icon!TypeOK'
    BY TrayTypeStep DEF TrayInv
  <2>2. TrayStage'
    BY TrayStageStep DEF TrayInv
  <2>3. TrayIcon' /\ TrayLock'
    BY <2>1, TrayIconStep, TrayLockStep
  <2> QED BY <2>1, <2>2, <2>3 DEF TrayInv
<1> QED BY <1>1, TrayInit, PTL DEF Icon!Spec

\* While Explorer runs and its restarts have been heard of, the icon is there
\* with what SetIcon and SetTooltip have given it, wherever the ends and
\* restarts of Explorer fall between initInstance, SetIcon, SetTooltip and
\* wmTaskbarCreated (src/systray/systray_windows.go:331-480, 918-1010), however many.
THEOREM IconRightCorrect == Icon!Spec => []IconRight
<1>1. TrayInv => IconRight
  BY DEF TrayInv, Icon!TypeOK, TrayStage, TrayIcon, IconRight, Icon!IconRight, Icon!IconKept
<1> QED BY <1>1, TrayAlways, PTL

\* The lock flag follows the session, in the order of the notifications, those
\* that are posted before the message loop runs included
\* (src/systray/systray_windows.go:291-346), however often it turns.
THEOREM LockFollowsCorrect == Icon!Spec => []LockFollows
<1>1. TrayInv => LockFollows
  BY DEF TrayInv, TrayLock, LockFollows, Icon!LockFollows
<1> QED BY <1>1, TrayAlways, PTL

-----------------------------------------------------------------------------
(* The behaviours of MCWindow.                                             *)

\* What MCWindow is checked on are behaviours of both parts, so that whatever is
\* proved of Systray, or of AgentLifecycle, holds of it
\* (src/systray/systray_windows.go, src/agent/agent.go:136-337).
THEOREM WindowIsBoth == WindowSpec => Spec /\ Icon!Spec
<1>1. WindowInit => Init /\ Icon!Init
  BY DEF WindowInit
<1>2. [InLife(Next) \/ InIcon(Icon!Next)]_allVars => [Next]_vars
  BY DEF InLife, InIcon, allVars
<1>3. [InLife(Next) \/ InIcon(Icon!Next)]_allVars => [Icon!Next]_(Icon!vars)
  BY DEF InLife, InIcon, allVars, iconVars, Icon!vars, Icon!winVars, Icon!readyVars
<1> QED BY <1>1, <1>2, <1>3, PTL DEF WindowSpec, Spec, Icon!Spec
=============================================================================
