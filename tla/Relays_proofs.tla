---------------------------- MODULE Relays_proofs ----------------------------
(***************************************************************************)
(* Theorems about the two relays of MCRelays: agent-gui, AssuanRelay, and  *)
(* sorelay, SoRelay, whose names are those of the instance Sorelay.  They  *)
(* hold for every set of connections, every bound and every configuration. *)
(***************************************************************************)
EXTENDS MCRelays, FiniteSetTheorems, TLAPS

-----------------------------------------------------------------------------
(* AssuanRelay: the counters, the locks and the sockets.                   *)

LEMMA Places ==
  /\ \A c \in Conns : Up(c) \in Copiers /\ Down(c) \in Copiers /\ Up(c) # Down(c)
  /\ \A c \in Conns : <<c, "conn">> \in Ends /\ <<c, "assuan">> \in Ends
  /\ \A k \in Copiers : k[1] \in Conns /\ Twin(k) \in Copiers
  /\ \A k \in Copiers : Src(k) \in Ends /\ Snk(k) \in Ends
  BY DEF Up, Down, Copiers, Ends, Twin, Src, Snk

LEMMA TypeInit == Init => TypeOK
<1> SUFFICES ASSUME Init PROVE TypeOK
  OBVIOUS
<1>1. ProcType BY DEF Init, ProcType
<1>2. LoopType BY DEF Init, LoopType, PCs, Reasons
<1>3. FlagType BY DEF Init, FlagType
<1>4. SockType BY DEF Init, SockType
<1>5. CountType BY DEF Init, CountType
<1>6. FlowType BY DEF Init, FlowType
<1>7. QED BY <1>1, <1>2, <1>3, <1>4, <1>5, <1>6 DEF TypeOK

(* The counter of the WaitGroup cannot be seen non-negative by looking at  *)
(* types alone: wg' \in Nat comes from WgStep.                             *)
LEMMA TypeStep ==
  ASSUME TypeOK, [Next]_vars, (wg \in Nat)'
  PROVE  TypeOK'
<1> USE Places DEF procVars, loopVars, sockVars, flowVars, histVars, TypeOK
<1>1. ASSUME NEW k \in Copiers, StartUp(k)
      PROVE  TypeOK'
  <2>1. ProcType' BY <1>1 DEF ProcType, StartUp
  <2>2. LoopType' BY <1>1 DEF LoopType, StartUp, Goto, PCs, Reasons
  <2>3. FlagType' BY <1>1 DEF FlagType, StartUp
  <2>4. SockType' BY <1>1 DEF SockType, StartUp
  <2>5. CountType' BY <1>1 DEF CountType, StartUp
  <2>6. FlowType' BY <1>1 DEF FlowType, StartUp
  <2>7. QED BY <2>1, <2>2, <2>3, <2>4, <2>5, <2>6
<1>2. ASSUME NEW k \in Copiers, Panic(k)
      PROVE  TypeOK'
  <2>1. ProcType' BY <1>2 DEF ProcType, Panic
  <2>2. LoopType' BY <1>2 DEF LoopType, Panic, Goto, PCs, Reasons
  <2>3. FlagType' BY <1>2 DEF FlagType, Panic
  <2>4. SockType' BY <1>2 DEF SockType, Panic
  <2>5. CountType' BY <1>2 DEF CountType, Panic
  <2>6. FlowType' BY <1>2 DEF FlowType, Panic
  <2>7. QED BY <2>1, <2>2, <2>3, <2>4, <2>5, <2>6
<1>3. ASSUME NEW k \in Copiers, CheckLock(k)
      PROVE  TypeOK'
  <2>1. ProcType' BY <1>3 DEF ProcType, CheckLock, Exit
  <2>2. LoopType' BY <1>3 DEF LoopType, CheckLock, Exit, Goto, PCs, Reasons
  <2>3. FlagType' BY <1>3 DEF FlagType, CheckLock, Exit
  <2>4. SockType' BY <1>3 DEF SockType, CheckLock, Exit
  <2>5. CountType' BY <1>3 DEF CountType, CheckLock, Exit
  <2>6. FlowType' BY <1>3 DEF FlowType, CheckLock, Exit
  <2>7. QED BY <2>1, <2>2, <2>3, <2>4, <2>5, <2>6
<1>4. ASSUME NEW k \in Copiers, Arm(k)
      PROVE  TypeOK'
  <2>1. ProcType' BY <1>4 DEF ProcType, Arm, SetDeadline
  <2>2. LoopType' BY <1>4 DEF LoopType, Arm, SetDeadline, Goto, PCs, Reasons
  <2>3. FlagType' BY <1>4 DEF FlagType, Arm, SetDeadline
  <2>4. SockType' BY <1>4 DEF SockType, Arm, SetDeadline
  <2>5. CountType' BY <1>4 DEF CountType, Arm, SetDeadline
  <2>6. FlowType' BY <1>4 DEF FlowType, Arm, SetDeadline
  <2>7. QED BY <2>1, <2>2, <2>3, <2>4, <2>5, <2>6
<1>5. ASSUME NEW k \in Copiers, ReadFails(k)
      PROVE  TypeOK'
  <2>1. ProcType' BY <1>5 DEF ProcType, ReadFails, TimedOut, Exit
  <2>2. LoopType' BY <1>5 DEF LoopType, ReadFails, TimedOut, Exit, Goto, PCs, Reasons
  <2>3. FlagType' BY <1>5 DEF FlagType, ReadFails, TimedOut, Exit
  <2>4. SockType' BY <1>5 DEF SockType, ReadFails, TimedOut, Exit
  <2>5. CountType' BY <1>5 DEF CountType, ReadFails, TimedOut, Exit
  <2>6. FlowType' BY <1>5 DEF FlowType, ReadFails, TimedOut, Exit
  <2>7. QED BY <2>1, <2>2, <2>3, <2>4, <2>5, <2>6
<1>6. ASSUME NEW k \in Copiers, ReadChunk(k)
      PROVE  TypeOK'
  <2>1. ProcType' BY <1>6 DEF ProcType, ReadChunk
  <2>2. LoopType' BY <1>6 DEF LoopType, ReadChunk, Goto, PCs, Reasons
  <2>3. FlagType' BY <1>6 DEF FlagType, ReadChunk
  <2>4. SockType' BY <1>6 DEF SockType, ReadChunk
  <2>5. CountType' BY <1>6 DEF CountType, ReadChunk
  <2>6. FlowType' BY <1>6 DEF FlowType, ReadChunk
  <2>7. QED BY <2>1, <2>2, <2>3, <2>4, <2>5, <2>6
<1>7. ASSUME NEW k \in Copiers, WriteFails(k)
      PROVE  TypeOK'
  <2>1. ProcType' BY <1>7 DEF ProcType, WriteFails, TimedOut, Exit
  <2>2. LoopType' BY <1>7 DEF LoopType, WriteFails, TimedOut, Exit, Goto, PCs, Reasons
  <2>3. FlagType' BY <1>7 DEF FlagType, WriteFails, TimedOut, Exit
  <2>4. SockType' BY <1>7 DEF SockType, WriteFails, TimedOut, Exit
  <2>5. CountType' BY <1>7 DEF CountType, WriteFails, TimedOut, Exit
  <2>6. FlowType' BY <1>7 DEF FlowType, WriteFails, TimedOut, Exit
  <2>7. QED BY <2>1, <2>2, <2>3, <2>4, <2>5, <2>6
<1>8. ASSUME NEW k \in Copiers, WriteChunk(k)
      PROVE  TypeOK'
  <2>1. ProcType' BY <1>8 DEF ProcType, WriteChunk
  <2>2. LoopType' BY <1>8 DEF LoopType, WriteChunk, Goto, PCs, Reasons
  <2>3. FlagType' BY <1>8 DEF FlagType, WriteChunk
  <2>4. SockType' BY <1>8 DEF SockType, WriteChunk
  <2>5. CountType' BY <1>8 DEF CountType, WriteChunk
  <2>6. FlowType'
    <3>1. Append(got[k], hold[k]) \in Seq(Nat) BY <1>8 DEF CountType, FlowType
    <3>2. QED BY <1>8, <3>1 DEF FlowType, WriteChunk
  <2>7. QED BY <2>1, <2>2, <2>3, <2>4, <2>5, <2>6
<1>9. ASSUME NEW k \in Copiers, CloseSink(k)
      PROVE  TypeOK'
  <2>1. ProcType' BY <1>9 DEF ProcType, CloseSink, CloseSock
  <2>2. LoopType' BY <1>9 DEF LoopType, CloseSink, CloseSock, Goto, PCs, Reasons
  <2>3. FlagType' BY <1>9 DEF FlagType, CloseSink, CloseSock
  <2>4. SockType' BY <1>9 DEF SockType, CloseSink, CloseSock
  <2>5. CountType' BY <1>9 DEF CountType, CloseSink, CloseSock
  <2>6. FlowType' BY <1>9 DEF FlowType, CloseSink, CloseSock
  <2>7. QED BY <2>1, <2>2, <2>3, <2>4, <2>5, <2>6
<1>10. ASSUME NEW k \in Copiers, Leave(k)
      PROVE  TypeOK'
  <2>1. ProcType' BY <1>10 DEF ProcType, Leave
  <2>2. LoopType' BY <1>10 DEF LoopType, Leave, Goto, PCs, Reasons
  <2>3. FlagType' BY <1>10 DEF FlagType, Leave
  <2>4. SockType' BY <1>10 DEF SockType, Leave
  <2>5. CountType' BY <1>10 DEF CountType, Leave
  <2>6. FlowType' BY <1>10 DEF FlowType, Leave
  <2>7. QED BY <2>1, <2>2, <2>3, <2>4, <2>5, <2>6
<1>11. ASSUME NEW c \in Conns, Dial(c)
      PROVE  TypeOK'
  <2>1. ProcType' BY <1>11 DEF ProcType, Dial
  <2>2. LoopType' BY <1>11 DEF LoopType, Dial, Goto, PCs, Reasons
  <2>3. FlagType' BY <1>11 DEF FlagType, Dial
  <2>4. SockType' BY <1>11 DEF SockType, Dial
  <2>5. CountType' BY <1>11 DEF CountType, Dial
  <2>6. FlowType' BY <1>11 DEF FlowType, Dial
  <2>7. QED BY <2>1, <2>2, <2>3, <2>4, <2>5, <2>6
<1>12. ASSUME NEW c \in Conns, Accept(c)
      PROVE  TypeOK'
  <2>1. ProcType' BY <1>12 DEF ProcType, Accept
  <2>2. LoopType' BY <1>12 DEF LoopType, Accept, Goto, PCs, Reasons
  <2>3. FlagType'
    <3>1. (fresh \in [Conns -> BOOLEAN])'
      <4>1. CASE locked BY <1>12, <4>1 DEF FlagType, Accept
      <4>2. CASE ~locked
        <5>1. locked = FALSE BY <4>2 DEF ProcType
        <5>2. QED BY <1>12, <5>1 DEF FlagType, Accept
      <4>3. QED BY <4>1, <4>2
    <3>2. QED BY <1>12, <3>1 DEF FlagType, Accept
  <2>4. SockType' BY <1>12 DEF SockType, Accept
  <2>5. CountType' BY <1>12 DEF CountType, Accept
  <2>6. FlowType' BY <1>12 DEF FlowType, Accept
  <2>7. QED BY <2>1, <2>2, <2>3, <2>4, <2>5, <2>6
<1>13. ASSUME SessionLock
      PROVE  TypeOK'
  <2>1. ProcType' BY <1>13 DEF ProcType, SessionLock
  <2>2. LoopType' BY <1>13 DEF LoopType, SessionLock, Goto, PCs, Reasons
  <2>3. FlagType' BY <1>13 DEF FlagType, SessionLock
  <2>4. SockType' BY <1>13 DEF SockType, SessionLock
  <2>5. CountType' BY <1>13 DEF CountType, SessionLock
  <2>6. FlowType' BY <1>13 DEF FlowType, SessionLock
  <2>7. QED BY <2>1, <2>2, <2>3, <2>4, <2>5, <2>6
<1>14. ASSUME SessionUnlock
      PROVE  TypeOK'
  <2>1. ProcType' BY <1>14 DEF ProcType, SessionUnlock
  <2>2. LoopType' BY <1>14 DEF LoopType, SessionUnlock, Goto, PCs, Reasons
  <2>3. FlagType' BY <1>14 DEF FlagType, SessionUnlock
  <2>4. SockType' BY <1>14 DEF SockType, SessionUnlock
  <2>5. CountType' BY <1>14 DEF CountType, SessionUnlock
  <2>6. FlowType' BY <1>14 DEF FlowType, SessionUnlock
  <2>7. QED BY <2>1, <2>2, <2>3, <2>4, <2>5, <2>6
<1>15. ASSUME NEW e \in Ends, Expire(e)
      PROVE  TypeOK'
  <2>1. ProcType' BY <1>15 DEF ProcType, Expire
  <2>2. LoopType' BY <1>15 DEF LoopType, Expire, Goto, PCs, Reasons
  <2>3. FlagType' BY <1>15 DEF FlagType, Expire
  <2>4. SockType' BY <1>15 DEF SockType, Expire
  <2>5. CountType' BY <1>15 DEF CountType, Expire
  <2>6. FlowType' BY <1>15 DEF FlowType, Expire
  <2>7. QED BY <2>1, <2>2, <2>3, <2>4, <2>5, <2>6
<1>16. ASSUME NEW k \in Copiers, PeerSend(k)
      PROVE  TypeOK'
  <2>1. ProcType' BY <1>16 DEF ProcType, PeerSend
  <2>2. LoopType' BY <1>16 DEF LoopType, PeerSend, Goto, PCs, Reasons
  <2>3. FlagType' BY <1>16 DEF FlagType, PeerSend
  <2>4. SockType' BY <1>16 DEF SockType, PeerSend
  <2>5. CountType' BY <1>16 DEF CountType, PeerSend
  <2>6. FlowType' BY <1>16 DEF FlowType, PeerSend
  <2>7. QED BY <2>1, <2>2, <2>3, <2>4, <2>5, <2>6
<1>17. ASSUME NEW e \in Ends, NEW what \in {"open", "stalled", "closed"}, PeerBecomes(e, what)
      PROVE  TypeOK'
  <2>1. ProcType' BY <1>17 DEF ProcType, PeerBecomes
  <2>2. LoopType' BY <1>17 DEF LoopType, PeerBecomes
  <2>3. FlagType' BY <1>17 DEF FlagType, PeerBecomes
  <2>4. SockType' BY <1>17 DEF SockType, PeerBecomes
  <2>5. CountType' BY <1>17 DEF CountType, PeerBecomes
  <2>6. FlowType' BY <1>17 DEF FlowType, PeerBecomes
  <2>7. QED BY <2>1, <2>2, <2>3, <2>4, <2>5, <2>6
<1>18. CASE UNCHANGED vars BY <1>18 DEF vars, ProcType, LoopType, FlagType, SockType,
   CountType, FlowType
<1>19. QED BY <1>1, <1>2, <1>3, <1>4, <1>5, <1>6, <1>7, <1>8, <1>9, <1>10, <1>11, <1>12,
   <1>13, <1>14, <1>15, <1>16, <1>17, <1>18
     DEF Next, Handler, Step, Environment

-----------------------------------------------------------------------------
(* The WaitGroup.  Counting needs to know that Up(c) does not run before   *)
(* its handler has dialled.                                                *)
Launch == \A c \in Conns : pc[Down(c)] \in {"idle", "dial"} => pc[Up(c)] = "idle"

WgInv == TypeOK /\ WgBalanced /\ Launch

LEMMA RunningFinite ==
  ASSUME NEW R \in SUBSET Copiers
  PROVE  IsFiniteSet(R) /\ Cardinality(R) \in Nat
<1>1. IsFiniteSet({"up", "down"})
  <2>1. {"up", "down"} = {"up"} \cup {"down"} OBVIOUS
  <2>2. IsFiniteSet({"up"}) /\ IsFiniteSet({"down"}) BY FS_Singleton
  <2>3. IsFiniteSet({"up"} \cup {"down"}) BY <2>2, FS_Union
  <2>4. QED BY <2>1, <2>3
<1>2. IsFiniteSet(Copiers) BY <1>1, ConnsAssumption, FS_Product DEF Copiers
<1>3. QED BY <1>2, FS_Subset, FS_CardinalityType

LEMMA GotoRunning ==
  ASSUME TypeOK, NEW k \in Copiers, pc[k] \in Live, NEW to \in Live, Goto(k, to)
  PROVE  Running' = Running
  BY DEF TypeOK, LoopType, Running, Goto, Live

LEMMA StepRunning ==
  ASSUME TypeOK, NEW k \in Copiers, Step(k)
  PROVE  \/ Running' = Running /\ wg' = wg
         \/ k \in Running /\ Running' = Running \ {k} /\ wg' = wg - 1
<1> USE DEF procVars, loopVars
<1>1. CASE Leave(k)
  <2>1. k \in Running BY <1>1 DEF Leave, Running, Live, PCs
  <2>2. Running' = Running \ {k}
    BY <1>1 DEF Leave, Goto, Running, Live, PCs, TypeOK, LoopType
  <2>3. QED BY <2>1, <2>2, <1>1 DEF Leave
<1>2. CASE Panic(k) BY <1>2 DEF Panic, Running
<1>3. ASSUME ~Leave(k), ~Panic(k)
      PROVE  wg' = wg /\ pc[k] \in Live /\ \E to \in Live : Goto(k, to)
  <2>1. CASE StartUp(k) BY <2>1 DEF StartUp, Live, PCs
  <2>2. CASE CheckLock(k) BY <2>2 DEF CheckLock, Exit, Live, PCs
  <2>3. CASE Arm(k) BY <2>3 DEF Arm, Live, PCs
  <2>4. CASE ReadFails(k) BY <2>4 DEF ReadFails, TimedOut, Exit, Live, PCs
  <2>5. CASE ReadChunk(k) BY <2>5 DEF ReadChunk, Live, PCs
  <2>6. CASE WriteFails(k) BY <2>6 DEF WriteFails, TimedOut, Exit, Live, PCs
  <2>7. CASE WriteChunk(k) BY <2>7 DEF WriteChunk, Live, PCs
  <2>8. CASE CloseSink(k) BY <2>8 DEF CloseSink, Live, PCs
  <2>9. QED BY <1>3, <2>1, <2>2, <2>3, <2>4, <2>5, <2>6, <2>7, <2>8 DEF Step
<1>4. QED BY <1>1, <1>2, <1>3, GotoRunning

LEMMA LaunchStep ==
  ASSUME TypeOK, Launch, [Next]_vars
  PROVE  Launch'
<1> USE Places DEF TypeOK, LoopType, Launch, procVars, loopVars, sockVars, flowVars, histVars
<1>1. ASSUME NEW c \in Conns, Dial(c) PROVE Launch'
  BY <1>1 DEF Dial, Up, Down
<1>2. ASSUME NEW c \in Conns, Accept(c) PROVE Launch'
  BY <1>2 DEF Accept, Goto, Up, Down
<1>3. ASSUME NEW k \in Copiers, Step(k) PROVE Launch'
  <2>1. /\ pc[k] \notin {"idle", "dial"}
        /\ pc' = pc \/ \E to \in PCs \ {"idle", "dial"} : Goto(k, to)
    <3>1. CASE StartUp(k) BY <3>1 DEF StartUp, PCs
    <3>2. CASE Panic(k) BY <3>2 DEF Panic
    <3>3. CASE CheckLock(k) BY <3>3 DEF CheckLock, Exit, PCs
    <3>4. CASE Arm(k) BY <3>4 DEF Arm, PCs
    <3>5. CASE ReadFails(k) BY <3>5 DEF ReadFails, TimedOut, Exit, PCs
    <3>6. CASE ReadChunk(k) BY <3>6 DEF ReadChunk, PCs
    <3>7. CASE WriteFails(k) BY <3>7 DEF WriteFails, TimedOut, Exit, PCs
    <3>8. CASE WriteChunk(k) BY <3>8 DEF WriteChunk, PCs
    <3>9. CASE CloseSink(k) BY <3>9 DEF CloseSink, PCs
    <3>10. CASE Leave(k) BY <3>10 DEF Leave, PCs
    <3>11. QED BY <1>3, <3>1, <3>2, <3>3, <3>4, <3>5, <3>6, <3>7, <3>8, <3>9, <3>10 DEF Step
  <2>2. QED BY <2>1 DEF Goto
<1>4. ASSUME Environment, \A c \in Conns : ~Accept(c) PROVE pc' = pc
  BY <1>4 DEF Environment, SessionLock, SessionUnlock, Expire, PeerSend, PeerBecomes
<1>5. CASE UNCHANGED vars BY <1>5 DEF vars
<1>6. QED BY <1>1, <1>2, <1>3, <1>4, <1>5 DEF Next, Handler, Environment

LEMMA WgStep ==
  ASSUME WgInv, [Next]_vars
  PROVE  WgBalanced' /\ (wg \in Nat)'
<1> USE Places DEF WgInv, procVars, loopVars, sockVars, flowVars, histVars
<1>0. Running \in SUBSET Copiers BY DEF Running
<1>1. ASSUME NEW k \in Copiers, k \notin Running, Running' = Running \cup {k}, wg' = wg + 1
      PROVE  WgBalanced' /\ (wg \in Nat)'
  BY <1>0, <1>1, RunningFinite, FS_AddElement DEF WgBalanced
<1>2. ASSUME Running' = Running, wg' = wg PROVE WgBalanced' /\ (wg \in Nat)'
  BY <1>0, <1>2, RunningFinite DEF WgBalanced
<1>3. ASSUME NEW c \in Conns, Dial(c) PROVE WgBalanced' /\ (wg \in Nat)'
  <2>1. pc[Up(c)] = "idle" BY <1>3 DEF Dial, Launch
  <2>2. Up(c) \notin Running BY <2>1 DEF Running, Live
  <2>3. Running' = Running \cup {Up(c)}
    BY <1>3, <2>1 DEF Dial, Running, Live, PCs, TypeOK, LoopType
  <2>4. QED BY <1>1, <1>3, <2>2, <2>3 DEF Dial, WgAdd
<1>4. ASSUME NEW c \in Conns, Accept(c) PROVE WgBalanced' /\ (wg \in Nat)'
  <2>1. Down(c) \notin Running BY <1>4 DEF Accept, Running, Live
  <2>2. Running' = Running \cup {Down(c)}
    BY <1>4 DEF Accept, Goto, Running, Live, PCs, TypeOK, LoopType
  <2>3. QED BY <1>1, <1>4, <2>1, <2>2 DEF Accept, WgAdd
<1>5. ASSUME NEW k \in Copiers, Step(k) PROVE WgBalanced' /\ (wg \in Nat)'
  <2>1. CASE k \in Running /\ Running' = Running \ {k} /\ wg' = wg - 1
    BY <1>0, <2>1, RunningFinite, FS_RemoveElement DEF WgBalanced
  <2>2. QED BY <1>2, <1>5, <2>1, StepRunning
<1>6. ASSUME Environment, \A c \in Conns : ~Accept(c) PROVE pc' = pc /\ wg' = wg
  BY <1>6 DEF Environment, SessionLock, SessionUnlock, Expire, PeerSend, PeerBecomes
<1>7. CASE UNCHANGED vars BY <1>2, <1>7 DEF vars, Running
<1>8. QED BY <1>2, <1>3, <1>4, <1>5, <1>6, <1>7 DEF Next, Handler, Environment, Running

LEMMA WgInit == Init => WgInv
<1> SUFFICES ASSUME Init PROVE WgInv
  OBVIOUS
<1>1. Launch BY Places DEF Init, Launch
<1>2. Running = {} BY DEF Init, Running, Live
<1>3. WgBalanced BY <1>2, FS_EmptySet DEF Init, WgBalanced
<1>4. QED BY <1>1, <1>3, TypeInit DEF WgInv

LEMMA WgInvariant == Spec => []WgInv
<1>1. WgInv /\ [Next]_vars => WgInv'
  BY TypeStep, LaunchStep, WgStep DEF WgInv
<1>2. QED BY WgInit, <1>1, PTL DEF Spec

(* The counter of the WaitGroup is never negative (sync.WaitGroup panics   *)
(* then), and every variable keeps its type.                               *)
THEOREM TypeCorrect == Spec => []TypeOK
  BY WgInvariant, PTL DEF WgInv

(* The WaitGroup counts the goroutines of the relay that are running, no   *)
(* matter which path each of them takes out of its loop.                   *)
THEOREM WgCorrect == Spec => []WgBalanced
  BY WgInvariant, PTL DEF WgInv

-----------------------------------------------------------------------------
(* What the relay of AssuanRelay delivers, and what it delivers while the  *)
(* session is locked.                                                      *)

(* A step of one copier leaves what belongs to the other copiers alone.    *)
LEMMA Frame ==
  ASSUME TypeOK, NEW k \in Copiers, Step(k)
  PROVE  /\ \A j \in Copiers \ {k} : /\ pc'[j] = pc[j] /\ got'[j] = got[j]
                                    /\ hold'[j] = hold[j] /\ taken'[j] = taken[j]
                                    /\ late'[j] = late[j]
         /\ sent' = sent /\ fresh' = fresh /\ locked' = locked /\ peer' = peer
<1> USE DEF TypeOK, LoopType, CountType, FlowType, procVars, loopVars, sockVars, flowVars,
           histVars, Goto
<1>1. CASE StartUp(k) BY <1>1 DEF StartUp
<1>2. CASE Panic(k) BY <1>2 DEF Panic
<1>3. CASE CheckLock(k) BY <1>3 DEF CheckLock, Exit
<1>4. CASE Arm(k) BY <1>4 DEF Arm
<1>5. CASE ReadFails(k) BY <1>5 DEF ReadFails, TimedOut, Exit
<1>6. CASE ReadChunk(k) BY <1>6 DEF ReadChunk
<1>7. CASE WriteFails(k) BY <1>7 DEF WriteFails, TimedOut, Exit
<1>8. CASE WriteChunk(k) BY <1>8 DEF WriteChunk
<1>9. CASE CloseSink(k) BY <1>9 DEF CloseSink
<1>10. CASE Leave(k) BY <1>10 DEF Leave
<1>11. QED BY <1>1, <1>2, <1>3, <1>4, <1>5, <1>6, <1>7, <1>8, <1>9, <1>10 DEF Step

(* Outside the copiers' own steps nothing is read, written or delivered.   *)
LEMMA Idle ==
  ASSUME [Next]_vars, \A k \in Copiers : ~Step(k)
  PROVE  got' = got /\ hold' = hold /\ taken' = taken
<1> USE DEF procVars, loopVars, sockVars, flowVars, histVars
<1>1. CASE UNCHANGED vars BY <1>1 DEF vars
<1>2. ASSUME NEW c \in Conns, Handler(c) PROVE got' = got /\ hold' = hold /\ taken' = taken
  BY <1>2 DEF Handler, Dial
<1>3. CASE Environment
  BY <1>3 DEF Environment, SessionLock, SessionUnlock, Accept, Expire, PeerSend, PeerBecomes
<1>4. QED BY <1>1, <1>2, <1>3 DEF Next

(* ... and no copier gets to write, to arm a deadline or to its loop.      *)
LEMMA IdlePc ==
  ASSUME TypeOK, Launch, [Next]_vars, \A k \in Copiers : ~Step(k), NEW k \in Copiers
  PROVE  \/ pc'[k] = pc[k]
         \/ pc[k] = "idle" /\ pc'[k] \in {"dial", "start"}
         \/ pc[k] = "dial" /\ pc'[k] = "check"
<1> USE Places DEF TypeOK, LoopType, procVars, loopVars, sockVars, flowVars, histVars
<1>1. CASE UNCHANGED vars BY <1>1 DEF vars
<1>2. ASSUME NEW c \in Conns, Handler(c)
      PROVE  \/ pc'[k] = pc[k]
             \/ pc[k] = "idle" /\ pc'[k] = "start"
             \/ pc[k] = "dial" /\ pc'[k] = "check"
  <2>1. pc[Up(c)] = "idle" BY <1>2 DEF Handler, Dial, Launch
  <2>2. QED BY <1>2, <2>1 DEF Handler, Dial
<1>3. ASSUME NEW c \in Conns, Accept(c)
      PROVE  pc'[k] = pc[k] \/ (pc[k] = "idle" /\ pc'[k] = "dial")
  <2>1. pc[Down(c)] = "idle" /\ pc' = [pc EXCEPT ![Down(c)] = "dial"] BY <1>3 DEF Accept, Goto
  <2>2. CASE k = Down(c) BY <2>1, <2>2
  <2>3. CASE k # Down(c) BY <2>1, <2>3
  <2>4. QED BY <2>2, <2>3
<1>4. CASE Environment /\ \A c \in Conns : ~Accept(c)
  <2>1. pc' = pc
    BY <1>4 DEF Environment, SessionLock, SessionUnlock, Expire, PeerSend, PeerBecomes
  <2>2. QED BY <2>1
<1>5. QED BY <1>1, <1>2, <1>3, <1>4 DEF Next, Environment

-----------------------------------------------------------------------------
(* Order.  The chunk being held is the last one taken, and nothing at or   *)
(* after it has been delivered.                                            *)
Ordered(k) ==
  /\ \A i \in 1..Len(got[k]) : /\ got[k][i] \in 1..taken[k]
                               /\ \A j \in 1..i - 1 : got[k][j] < got[k][i]
  /\ pc[k] = "write" => /\ hold[k] = taken[k] /\ taken[k] > 0
                         /\ \A i \in 1..Len(got[k]) : got[k][i] < taken[k]

OrderInv == \A k \in Copiers : Ordered(k)

LEMMA OrderedSame ==
  ASSUME NEW j \in Copiers, Ordered(j), got'[j] = got[j], taken'[j] = taken[j],
         pc'[j] = "write" => pc[j] = "write" /\ hold'[j] = hold[j]
  PROVE  Ordered(j)'
  BY DEF Ordered

LEMMA OrderedOwn ==
  ASSUME TypeOK, NEW k \in Copiers, Ordered(k), Step(k)
  PROVE  Ordered(k)'
<1> USE DEF TypeOK, LoopType, CountType, FlowType, procVars, loopVars, sockVars, flowVars,
           histVars, Goto
<1>1. CASE ReadChunk(k)
  <2>1. /\ got'[k] = got[k] /\ taken'[k] = taken[k] + 1 /\ hold'[k] = taken[k] + 1
        BY <1>1 DEF ReadChunk
  <2>2. QED BY <2>1 DEF Ordered
<1>2. CASE WriteChunk(k)
  <2>1. pc[k] = "write" /\ pc'[k] = "read" /\ taken' = taken BY <1>2 DEF WriteChunk
  <2>2. CASE got' = got BY <2>1, <2>2 DEF Ordered
  <2>3. CASE got' = [got EXCEPT ![k] = Append(@, hold[k])]
    <3>1. got'[k] = Append(got[k], taken[k]) BY <2>1, <2>3 DEF Ordered
    <3>2. got[k] \in Seq(Nat) /\ taken[k] \in Nat OBVIOUS
    <3>3. /\ Len(got'[k]) = Len(got[k]) + 1
          /\ got'[k][Len(got[k]) + 1] = taken[k]
          /\ \A i \in 1..Len(got[k]) : got'[k][i] = got[k][i]
      BY <3>1, <3>2
    <3>4. \A i \in 1..Len(got[k]) :
             /\ got[k][i] \in 1..taken[k] /\ got[k][i] < taken[k]
             /\ \A j \in 1..i - 1 : got[k][j] < got[k][i]
      BY <2>1 DEF Ordered
    <3>5. Len(got[k]) \in Nat /\ taken[k] > 0 BY <2>1, <3>2 DEF Ordered
    <3>6. ASSUME NEW i \in 1..Len(got'[k])
          PROVE  /\ got'[k][i] \in 1..taken[k]
                 /\ \A j \in 1..i - 1 : got'[k][j] < got'[k][i]
      <4>1. i \in 1..Len(got[k]) \/ i = Len(got[k]) + 1 BY <3>3, <3>5
      <4>2. CASE i \in 1..Len(got[k])
        <5>1. \A j \in 1..i - 1 : j \in 1..Len(got[k]) BY <4>2, <3>5
        <5>2. QED BY <3>3, <3>4, <4>2, <5>1
      <4>3. CASE i = Len(got[k]) + 1
        <5>1. got'[k][i] = taken[k] BY <3>3, <4>3
        <5>2. \A j \in 1..i - 1 : j \in 1..Len(got[k]) BY <4>3, <3>5
        <5>3. \A j \in 1..i - 1 : got'[k][j] < taken[k] BY <3>3, <3>4, <5>2
        <5>4. QED BY <2>1, <3>2, <3>5, <5>1, <5>3
      <4>4. QED BY <4>1, <4>2, <4>3
    <3>7. QED BY <2>1, <3>6 DEF Ordered
  <2>4. QED BY <1>2, <2>2, <2>3 DEF WriteChunk
<1>3. CASE ~ReadChunk(k) /\ ~WriteChunk(k)
  <2> SUFFICES /\ got'[k] = got[k] /\ taken'[k] = taken[k]
               /\ pc'[k] = "write" => pc[k] = "write" /\ hold'[k] = hold[k]
    BY OrderedSame
  <2>1. CASE StartUp(k) BY <2>1 DEF StartUp
  <2>2. CASE Panic(k) BY <2>2 DEF Panic
  <2>3. CASE CheckLock(k) BY <2>3 DEF CheckLock, Exit
  <2>4. CASE Arm(k) BY <2>4 DEF Arm
  <2>5. CASE ReadFails(k) BY <2>5 DEF ReadFails, TimedOut, Exit
  <2>7. CASE WriteFails(k) BY <2>7 DEF WriteFails, TimedOut, Exit
  <2>9. CASE CloseSink(k) BY <2>9 DEF CloseSink
  <2>10. CASE Leave(k) BY <2>10 DEF Leave
  <2>11. QED BY <1>3, <2>1, <2>2, <2>3, <2>4, <2>5, <2>7, <2>9, <2>10 DEF Step
<1>4. QED BY <1>1, <1>2, <1>3

LEMMA OrderStep ==
  ASSUME WgInv, OrderInv, [Next]_vars
  PROVE  OrderInv'
<1> SUFFICES ASSUME NEW j \in Copiers PROVE Ordered(j)'
  BY DEF OrderInv
<1>1. TypeOK /\ Launch /\ Ordered(j) BY DEF WgInv, OrderInv
<1>2. ASSUME NEW k \in Copiers, Step(k) PROVE Ordered(j)'
  <2>1. CASE j = k BY <1>1, <1>2, <2>1, OrderedOwn
  <2>2. CASE j # k BY <1>1, <1>2, <2>2, Frame, OrderedSame
  <2>3. QED BY <2>1, <2>2
<1>3. CASE \A k \in Copiers : ~Step(k)
  <2>1. pc'[j] = "write" => pc[j] = "write" BY <1>1, <1>3, IdlePc
  <2>2. QED BY <1>1, <1>3, <2>1, Idle, OrderedSame
<1>4. QED BY <1>2, <1>3

(* Nothing is reordered and nothing is delivered twice, whatever the       *)
(* deadlines, the lock and the peers do.                                   *)
THEOREM OrderCorrect == Spec => []InOrder
<1>1. Init => OrderInv
  BY DEF Init, OrderInv, Ordered
<1>2. WgInv /\ OrderInv /\ [Next]_vars => OrderInv'
  BY OrderStep
<1>3. OrderInv => InOrder
  BY DEF OrderInv, Ordered, InOrder
<1>4. QED BY <1>1, <1>2, <1>3, WgInvariant, PTL DEF Spec

-----------------------------------------------------------------------------
(* The session lock.  A copier that stands between its loop head and       *)
(* SetDeadline when the session locks has not armed a round since.         *)
Windowed(k) ==
  locked => /\ late[k] <= 1
            /\ pc[k] = "arm" => late[k] = 0

WindowInv == ~IgnoreSessionLock => \A k \in Copiers : Windowed(k)

LEMMA WindowedOwn ==
  ASSUME TypeOK, ~IgnoreSessionLock, NEW k \in Copiers, Windowed(k), Step(k)
  PROVE  Windowed(k)'
<1> USE DEF TypeOK, LoopType, CountType, Windowed, procVars, loopVars, sockVars, flowVars,
           histVars, Goto
<1>1. CASE StartUp(k) BY <1>1 DEF StartUp
<1>2. CASE Panic(k) BY <1>2 DEF Panic
<1>3. CASE CheckLock(k) BY <1>3 DEF CheckLock, Exit
<1>4. CASE Arm(k) BY <1>4 DEF Arm
<1>5. CASE ReadFails(k) BY <1>5 DEF ReadFails, TimedOut, Exit
<1>6. CASE ReadChunk(k) BY <1>6 DEF ReadChunk
<1>7. CASE WriteFails(k) BY <1>7 DEF WriteFails, TimedOut, Exit
<1>8. CASE WriteChunk(k) BY <1>8 DEF WriteChunk
<1>9. CASE CloseSink(k) BY <1>9 DEF CloseSink
<1>10. CASE Leave(k) BY <1>10 DEF Leave
<1>11. QED BY <1>1, <1>2, <1>3, <1>4, <1>5, <1>6, <1>7, <1>8, <1>9, <1>10 DEF Step

LEMMA WindowStep ==
  ASSUME WgInv, WindowInv, [Next]_vars
  PROVE  WindowInv'
<1> SUFFICES ASSUME ~IgnoreSessionLock, NEW j \in Copiers PROVE Windowed(j)'
  BY DEF WindowInv
<1>1. TypeOK /\ Launch /\ Windowed(j) BY DEF WgInv, WindowInv
<1>2. ASSUME NEW k \in Copiers, Step(k) PROVE Windowed(j)'
  <2>1. CASE j = k BY <1>1, <1>2, <2>1, WindowedOwn
  <2>2. CASE j # k BY <1>1, <1>2, <2>2, Frame DEF Windowed
  <2>3. QED BY <2>1, <2>2
<1>3. CASE \A k \in Copiers : ~Step(k)
  <2>1. pc'[j] = "arm" => pc[j] = "arm" BY <1>1, <1>3, IdlePc
  <2>2. CASE SessionLock \/ SessionUnlock BY <2>2 DEF SessionLock, SessionUnlock, Windowed
  <2>3. ASSUME ~SessionLock, ~SessionUnlock PROVE locked' = locked /\ late' = late
    <3> USE DEF procVars, loopVars, sockVars, flowVars, histVars
    <3>1. CASE UNCHANGED vars BY <3>1 DEF vars
    <3>2. ASSUME NEW c \in Conns, Handler(c) PROVE locked' = locked /\ late' = late
      BY <3>2 DEF Handler, Dial
    <3>3. CASE Environment BY <2>3, <3>3 DEF Environment, Accept, Expire, PeerSend, PeerBecomes
    <3>4. QED BY <1>3, <3>1, <3>2, <3>3 DEF Next
  <2>4. QED BY <1>1, <2>1, <2>2, <2>3 DEF Windowed
<1>4. QED BY <1>2, <1>3

(* A locked session is served for one more round of each copier at most.   *)
THEOREM LockCorrect == Spec => []LockWindow
<1>1. Init => WindowInv
  BY DEF Init, WindowInv, Windowed
<1>2. WgInv /\ WindowInv /\ [Next]_vars => WindowInv'
  BY WindowStep
<1>3. WindowInv => LockWindow
  BY DEF WindowInv, Windowed, LockWindow
<1>4. QED BY <1>1, <1>2, <1>3, WgInvariant, PTL DEF Spec

-----------------------------------------------------------------------------
(* A connection accepted under the lock stays outside its loops.           *)
Outside == {"idle", "dial", "start", "check", "close", "leave", "done"}

Silent(k) ==
  /\ pc[k] \in {"idle", "dial", "start"} => got[k] = << >>
  /\ fresh[k[1]] /\ ~IgnoreSessionLock => locked /\ pc[k] \in Outside /\ got[k] = << >>

SilentInv == \A k \in Copiers : Silent(k)

LEMMA SilentOwn ==
  ASSUME TypeOK, NEW k \in Copiers, Silent(k), Step(k)
  PROVE  Silent(k)'
<1> USE DEF TypeOK, LoopType, Silent, Outside, procVars, loopVars, sockVars, flowVars,
           histVars, Goto
<1>1. CASE StartUp(k) BY <1>1 DEF StartUp
<1>2. CASE Panic(k) BY <1>2 DEF Panic
<1>3. CASE CheckLock(k) BY <1>3 DEF CheckLock, Exit
<1>4. CASE Arm(k) BY <1>4 DEF Arm
<1>5. CASE ReadFails(k) BY <1>5 DEF ReadFails, TimedOut, Exit
<1>6. CASE ReadChunk(k) BY <1>6 DEF ReadChunk
<1>7. CASE WriteFails(k) BY <1>7 DEF WriteFails, TimedOut, Exit
<1>8. CASE WriteChunk(k) BY <1>8 DEF WriteChunk
<1>9. CASE CloseSink(k) BY <1>9 DEF CloseSink
<1>10. CASE Leave(k) BY <1>10 DEF Leave
<1>11. QED BY <1>1, <1>2, <1>3, <1>4, <1>5, <1>6, <1>7, <1>8, <1>9, <1>10 DEF Step

LEMMA SilentAccept ==
  ASSUME WgInv, SilentInv, NEW c \in Conns, Accept(c), NEW j \in Copiers
  PROVE  Silent(j)'
<1> USE Places DEF WgInv, TypeOK, LoopType, FlagType
<1>1. /\ pc[Down(c)] = "idle" /\ pc' = [pc EXCEPT ![Down(c)] = "dial"]
      /\ fresh' = [fresh EXCEPT ![c] = locked] /\ got' = got /\ locked' = locked
  BY DEF Accept, Goto, flowVars
<1>2. Silent(j) BY DEF SilentInv
<1>3. pc'[j] = pc[j] \/ (pc[j] = "idle" /\ pc'[j] = "dial")
  <2>1. CASE j = Down(c) BY <1>1, <2>1
  <2>2. CASE j # Down(c) BY <1>1, <2>2
  <2>3. QED BY <2>1, <2>2
<1>4. CASE j[1] = c
  <2>1. j = Up(c) \/ j = Down(c) BY <1>4 DEF Copiers, Up, Down
  <2>2. pc[j] = "idle" BY <1>1, <2>1 DEF Launch
  <2>3. fresh'[j[1]] = locked BY <1>1, <1>4
  <2>4. pc'[j] \in {"idle", "dial"} BY <1>3, <2>2
  <2>5. QED BY <1>1, <1>2, <2>2, <2>3, <2>4 DEF Silent, Outside
<1>5. CASE j[1] # c
  <2>1. fresh'[j[1]] = fresh[j[1]] BY <1>1, <1>5
  <2>2. QED BY <1>1, <1>2, <1>3, <2>1 DEF Silent, Outside
<1>6. QED BY <1>4, <1>5

LEMMA SilentStep ==
  ASSUME WgInv, SilentInv, [Next]_vars
  PROVE  SilentInv'
<1> SUFFICES ASSUME NEW j \in Copiers PROVE Silent(j)'
  BY DEF SilentInv
<1>1. TypeOK /\ Launch /\ Silent(j) /\ j[1] \in Conns BY Places DEF WgInv, SilentInv
<1>2. ASSUME NEW k \in Copiers, Step(k) PROVE Silent(j)'
  <2>1. CASE j = k BY <1>1, <1>2, <2>1, SilentOwn
  <2>2. CASE j # k BY <1>1, <1>2, <2>2, Frame DEF Silent
  <2>3. QED BY <2>1, <2>2
<1>3. ASSUME NEW c \in Conns, Accept(c) PROVE Silent(j)'
  BY <1>3, SilentAccept
<1>4. CASE (\A k \in Copiers : ~Step(k)) /\ (\A c \in Conns : ~Accept(c))
  <2>1. got' = got BY <1>4, Idle
  <2>2. \/ pc'[j] = pc[j]
        \/ pc[j] = "idle" /\ pc'[j] \in {"dial", "start"}
        \/ pc[j] = "dial" /\ pc'[j] = "check"
    BY <1>1, <1>4, IdlePc
  <2>3. CASE SessionUnlock
    <3>1. ~fresh'[j[1]] BY <1>1, <2>3 DEF SessionUnlock
    <3>2. QED BY <1>1, <2>1, <2>2, <3>1 DEF Silent
  <2>4. CASE ~SessionUnlock
    <3>1. fresh' = fresh /\ (locked => locked')
      <4> USE DEF procVars, loopVars, sockVars, flowVars, histVars
      <4>1. CASE UNCHANGED vars BY <4>1 DEF vars
      <4>2. ASSUME NEW c \in Conns, Handler(c) PROVE fresh' = fresh /\ (locked => locked')
        BY <4>2 DEF Handler, Dial
      <4>3. CASE Environment
        BY <1>4, <2>4, <4>3 DEF Environment, SessionLock, Expire, PeerSend, PeerBecomes
      <4>4. QED BY <1>4, <4>1, <4>2, <4>3 DEF Next
    <3>2. QED BY <1>1, <2>1, <2>2, <3>1 DEF Silent, Outside
  <2>5. QED BY <2>3, <2>4
<1>5. QED BY <1>2, <1>3, <1>4

(* A connection accepted while the session is locked carries nothing until *)
(* the session is unlocked.                                                *)
THEOREM FreshCorrect == Spec => []FreshSilent
<1>1. Init => SilentInv
  BY Places DEF Init, SilentInv, Silent
<1>2. WgInv /\ SilentInv /\ [Next]_vars => SilentInv'
  BY SilentStep
<1>3. SilentInv => FreshSilent
  BY DEF SilentInv, Silent, FreshSilent
<1>4. QED BY <1>1, <1>2, <1>3, WgInvariant, PTL DEF Spec

-----------------------------------------------------------------------------
(* Without a deadline the relay loses nothing, and implements StreamPipe.  *)

NoTimer == \A e \in Ends : timer[e] = "none"

Gone == {"close", "leave", "done"}

(* As long as a copier runs and its sink listens, what it has taken and    *)
(* not delivered is the chunk it holds.                                    *)
Whole(k) ==
  /\ \A i \in 1..Len(got[k]) : got[k][i] = i
  /\ Len(got[k]) <= taken[k] /\ taken[k] <= sent[k]
  /\ pc[k] = "write" => hold[k] = taken[k] /\ taken[k] > 0
  /\ peer[Snk(k)] # "closed" /\ pc[k] \notin Gone
        => taken[k] = IF pc[k] = "write" THEN Len(got[k]) + 1 ELSE Len(got[k])

WholeInv == NoTimer /\ \A k \in Copiers : Whole(k)

LEMMA NoTimerStep ==
  ASSUME ~HasDeadline, TypeOK, NoTimer, [Next]_vars
  PROVE  NoTimer'
<1> USE Places DEF TypeOK, SockType, NoTimer, procVars, loopVars, sockVars, flowVars, histVars
<1>1. CASE UNCHANGED vars BY <1>1 DEF vars
<1>2. ASSUME NEW c \in Conns, Handler(c) PROVE NoTimer'
  BY <1>2 DEF Handler, Dial
<1>3. CASE Environment
  BY <1>3 DEF Environment, SessionLock, SessionUnlock, Accept, Expire, PeerSend, PeerBecomes
<1>4. ASSUME NEW k \in Copiers, Step(k) PROVE NoTimer'
  <2>1. CASE StartUp(k) BY <2>1 DEF StartUp
  <2>2. CASE Panic(k) BY <2>2 DEF Panic
  <2>3. CASE CheckLock(k) BY <2>3 DEF CheckLock, Exit
  <2>4. CASE Arm(k) BY <2>4 DEF Arm, SetDeadline
  <2>5. CASE ReadFails(k) BY <2>5 DEF ReadFails, TimedOut, Exit
  <2>6. CASE ReadChunk(k) BY <2>6 DEF ReadChunk
  <2>7. CASE WriteFails(k) BY <2>7 DEF WriteFails, TimedOut, Exit
  <2>8. CASE WriteChunk(k) BY <2>8 DEF WriteChunk
  <2>9. CASE CloseSink(k) BY <2>9 DEF CloseSink
  <2>10. CASE Leave(k) BY <2>10 DEF Leave
  <2>11. QED BY <1>4, <2>1, <2>2, <2>3, <2>4, <2>5, <2>6, <2>7, <2>8, <2>9, <2>10 DEF Step
<1>5. QED BY <1>1, <1>2, <1>3, <1>4 DEF Next

LEMMA WholeOwn ==
  ASSUME TypeOK, NoTimer, NEW k \in Copiers, Whole(k), Step(k)
  PROVE  Whole(k)'
<1> USE DEF TypeOK, LoopType, CountType, FlowType, procVars, loopVars, sockVars, flowVars,
           histVars, Goto, Gone
<1>0. timer[Snk(k)] = "none" /\ timer[Src(k)] = "none" BY Places DEF NoTimer
<1>1. CASE WriteChunk(k)
  <2>1. /\ pc[k] = "write" /\ pc'[k] = "read" /\ taken' = taken /\ sent' = sent /\ peer' = peer
    BY <1>1 DEF WriteChunk
  <2>2. CASE peer[Snk(k)] = "closed"
    <3>1. got' = got BY <1>1, <2>2 DEF WriteChunk
    <3>2. QED BY <2>1, <2>2, <3>1 DEF Whole
  <2>3. CASE peer[Snk(k)] = "open"
    <3>1. taken[k] = Len(got[k]) + 1 /\ hold[k] = taken[k] BY <2>1, <2>3 DEF Whole
    <3>2. got'[k] = Append(got[k], taken[k]) BY <1>1, <2>3, <3>1 DEF WriteChunk
    <3>3. got[k] \in Seq(Nat) /\ taken[k] \in Nat /\ Len(got[k]) \in Nat OBVIOUS
    <3>4. /\ Len(got'[k]) = Len(got[k]) + 1
          /\ got'[k][Len(got[k]) + 1] = taken[k]
          /\ \A i \in 1..Len(got[k]) : got'[k][i] = got[k][i]
      BY <3>2, <3>3
    <3>5. \A i \in 1..Len(got[k]) : got[k][i] = i BY DEF Whole
    <3>6. ASSUME NEW i \in 1..Len(got'[k]) PROVE got'[k][i] = i
      <4>1. i \in 1..Len(got[k]) \/ i = Len(got[k]) + 1 BY <3>3, <3>4
      <4>2. CASE i \in 1..Len(got[k]) BY <3>4, <3>5, <4>2
      <4>3. CASE i = Len(got[k]) + 1 BY <3>1, <3>4, <4>3
      <4>4. QED BY <4>1, <4>2, <4>3
    <3>7. QED BY <2>1, <3>1, <3>3, <3>4, <3>6 DEF Whole
  <2>4. QED BY <1>1, <2>2, <2>3 DEF WriteChunk
<1>2. CASE ReadChunk(k)
  <2>1. /\ pc[k] = "read" /\ pc'[k] = "write" /\ got' = got /\ sent' = sent /\ peer' = peer
        /\ taken'[k] = taken[k] + 1 /\ hold'[k] = taken[k] + 1 /\ taken[k] < sent[k]
    BY <1>2 DEF ReadChunk
  <2>2. got[k] \in Seq(Nat) /\ taken[k] \in Nat /\ sent[k] \in Nat /\ Len(got[k]) \in Nat
    OBVIOUS
  <2>3. QED BY <2>1, <2>2 DEF Whole
<1>3. CASE ~WriteChunk(k) /\ ~ReadChunk(k)
  <2>0. /\ got' = got /\ taken' = taken /\ sent' = sent /\ peer' = peer
        /\ pc[k] # "write" \/ pc'[k] = "close" \/ (pc'[k] = pc[k] /\ hold'[k] = hold[k])
        /\ pc'[k] = "write" => pc[k] = "write"
        /\ pc[k] \in Gone => pc'[k] \in Gone
    <3>1. CASE StartUp(k) BY <3>1 DEF StartUp
    <3>2. CASE Panic(k) BY <3>2 DEF Panic
    <3>3. CASE CheckLock(k) BY <3>3 DEF CheckLock, Exit
    <3>4. CASE Arm(k) BY <3>4 DEF Arm
    <3>5. CASE ReadFails(k) BY <3>5 DEF ReadFails, ReadExpired, TimedOut, Exit
    <3>7. CASE WriteFails(k) BY <1>0, <3>7 DEF WriteFails, WriteExpired, TimedOut, Exit
    <3>9. CASE CloseSink(k) BY <3>9 DEF CloseSink
    <3>10. CASE Leave(k) BY <3>10 DEF Leave
    <3>11. QED BY <1>3, <3>1, <3>2, <3>3, <3>4, <3>5, <3>7, <3>9, <3>10 DEF Step
  <2>1. QED BY <2>0 DEF Whole
<1>4. QED BY <1>1, <1>2, <1>3

LEMMA WholeSame ==
  ASSUME TypeOK, NEW j \in Copiers, Whole(j), got'[j] = got[j], taken'[j] = taken[j],
         sent[j] <= sent'[j], sent'[j] \in Nat, hold'[j] = hold[j],
         \/ pc'[j] = pc[j]
         \/ pc[j] = "idle" /\ pc'[j] \in {"dial", "start"}
         \/ pc[j] = "dial" /\ pc'[j] = "check",
         peer[Snk(j)] = "closed" => peer'[Snk(j)] = "closed"
  PROVE  Whole(j)'
<1>1. taken[j] \in Nat /\ sent[j] \in Nat BY DEF TypeOK, CountType
<1>2. QED BY <1>1 DEF Whole, Gone

LEMMA WholeStep ==
  ASSUME ~HasDeadline, WgInv, WholeInv, [Next]_vars
  PROVE  WholeInv'
<1>1. TypeOK /\ Launch /\ NoTimer BY DEF WgInv, WholeInv
<1>2. NoTimer' BY <1>1, NoTimerStep
<1>3. ASSUME NEW j \in Copiers PROVE Whole(j)'
  <2>1. Whole(j) /\ sent[j] \in Nat BY <1>1 DEF WholeInv, TypeOK, CountType
  <2>2. ASSUME NEW k \in Copiers, Step(k) PROVE Whole(j)'
    <3>1. CASE j = k BY <1>1, <2>1, <2>2, <3>1, WholeOwn
    <3>2. CASE j # k
      <4>1. /\ pc'[j] = pc[j] /\ got'[j] = got[j] /\ hold'[j] = hold[j] /\ taken'[j] = taken[j]
            /\ sent' = sent /\ peer' = peer
        BY <1>1, <2>2, <3>2, Frame
      <4>2. sent[j] <= sent'[j] /\ sent'[j] \in Nat BY <2>1, <4>1
      <4>3. QED BY <1>1, <2>1, <4>1, <4>2, WholeSame
    <3>3. QED BY <3>1, <3>2
  <2>3. CASE \A k \in Copiers : ~Step(k)
    <3>1. got' = got /\ hold' = hold /\ taken' = taken BY <2>3, Idle
    <3>2. sent[j] <= sent'[j] /\ sent'[j] \in Nat
      <4> USE <2>1 DEF procVars, loopVars, sockVars, flowVars, histVars
      <4>1. CASE UNCHANGED vars BY <4>1 DEF vars
      <4>2. ASSUME NEW c \in Conns, Handler(c) PROVE sent' = sent BY <4>2 DEF Handler, Dial
      <4>3. ASSUME NEW i \in Copiers, PeerSend(i) PROVE sent[j] <= sent'[j] /\ sent'[j] \in Nat
        BY <1>1, <4>3 DEF PeerSend, TypeOK, CountType
      <4>4. ASSUME Environment, \A i \in Copiers : ~PeerSend(i) PROVE sent' = sent
        BY <4>4 DEF Environment, SessionLock, SessionUnlock, Accept, Expire, PeerBecomes
      <4>5. QED BY <2>3, <4>1, <4>2, <4>3, <4>4 DEF Next, Environment
    <3>3. peer[Snk(j)] = "closed" => peer'[Snk(j)] = "closed"
      <4> USE Places DEF procVars, loopVars, sockVars, flowVars, histVars
      <4>1. CASE UNCHANGED vars BY <4>1 DEF vars
      <4>2. ASSUME NEW c \in Conns, Handler(c) PROVE peer' = peer BY <4>2 DEF Handler, Dial
      <4>3. ASSUME NEW e \in Ends, NEW what \in {"open", "stalled", "closed"}, PeerBecomes(e, what)
            PROVE  peer[Snk(j)] = "closed" => peer'[Snk(j)] = "closed"
        BY <1>1, <4>3 DEF PeerBecomes, TypeOK, SockType
      <4>4. ASSUME Environment,
                   \A e \in Ends, what \in {"open", "stalled", "closed"} : ~PeerBecomes(e, what)
            PROVE  peer' = peer
        BY <4>4 DEF Environment, SessionLock, SessionUnlock, Accept, Expire, PeerSend
      <4>5. QED BY <2>3, <4>1, <4>2, <4>3, <4>4 DEF Next, Environment
    <3>4. \/ pc'[j] = pc[j]
          \/ pc[j] = "idle" /\ pc'[j] \in {"dial", "start"}
          \/ pc[j] = "dial" /\ pc'[j] = "check"
      BY <1>1, <2>3, IdlePc
    <3>5. QED BY <1>1, <2>1, <3>1, <3>2, <3>3, <3>4, WholeSame
  <2>4. QED BY <2>2, <2>3
<1>4. QED BY <1>2, <1>3 DEF WholeInv

LEMMA WholeInit == Init => WholeInv
<1> SUFFICES ASSUME Init PROVE WholeInv
  OBVIOUS
<1>1. NoTimer BY DEF Init, NoTimer
<1>2. ASSUME NEW k \in Copiers PROVE Whole(k)
  <2>1. /\ got[k] = << >> /\ taken[k] = 0 /\ sent[k] = 0 /\ pc[k] = "idle"
    BY DEF Init
  <2>2. QED BY <2>1 DEF Whole
<1>3. QED BY <1>1, <1>2 DEF WholeInv

(* With gui.deadline = 0 what a peer receives is a prefix of what the      *)
(* other sent.                                                             *)
THEOREM GapFreeCorrect == ASSUME ~HasDeadline PROVE Spec => []GapFree
<1>1. WgInv /\ WholeInv /\ [Next]_vars => WholeInv'
  BY WholeStep
<1>2. WholeInv => GapFree
  BY DEF WholeInv, Whole, GapFree
<1>3. QED BY WholeInit, <1>1, <1>2, WgInvariant, PTL DEF Spec

-----------------------------------------------------------------------------
(* The refinement.  A step that neither sends nor delivers breaks the      *)
(* pipes it breaks, possibly none, and mends no pipe.                      *)
LEMMA BreakStep ==
  ASSUME sent' = sent, got' = got, \A k \in Copiers : Broken(k) => Broken(k)'
  PROVE  [Pipe!Next]_(Pipe!pipeVars)
<1> DEFINE P == {k \in Copiers : Broken(k)'}
<1>1. P \in SUBSET Copiers OBVIOUS
<1>2. \A k \in Copiers : Broken(k) \in BOOLEAN /\ Broken(k)' \in BOOLEAN BY DEF Broken
<1>3. \A k \in Copiers : Broken(k)' = (Broken(k) \/ k \in P) BY <1>2
<1>4. [k \in Copiers |-> Broken(k)]' = [k \in Copiers |-> Broken(k) \/ k \in P]
  BY <1>3
<1>5. Pipe!Break(P) BY <1>4 DEF Pipe!Break
<1>6. QED BY <1>1, <1>5 DEF Pipe!Next

LEMMA SendStep ==
  ASSUME NEW k \in Copiers, PeerSend(k)
  PROVE  [Pipe!Next]_(Pipe!pipeVars)
<1>1. UNCHANGED <<crashed, pc, peer, got>> /\ sent' = [sent EXCEPT ![k] = @ + 1]
  BY DEF PeerSend, procVars, loopVars, sockVars
<1>2. [j \in Copiers |-> Broken(j)]' = [j \in Copiers |-> Broken(j)]
  BY <1>1 DEF Broken
<1>3. Pipe!Send(k) BY <1>1, <1>2 DEF Pipe!Send
<1>4. QED BY <1>3 DEF Pipe!Next

LEMMA DeliverStep ==
  ASSUME TypeOK, ~crashed, NEW k \in Copiers, Whole(k), WriteChunk(k), peer[Snk(k)] = "open"
  PROVE  [Pipe!Next]_(Pipe!pipeVars)
<1> USE DEF TypeOK, LoopType, CountType, FlowType
<1>1. /\ pc[k] = "write" /\ pc' = [pc EXCEPT ![k] = "read"]
      /\ got' = [got EXCEPT ![k] = Append(@, hold[k])]
      /\ UNCHANGED <<crashed, peer, sent>>
  BY DEF WriteChunk, Goto, procVars, sockVars
<1>2. /\ hold[k] = taken[k] /\ taken[k] = Len(got[k]) + 1 /\ taken[k] <= sent[k]
  BY <1>1 DEF Whole, Gone
<1>3. got' = [got EXCEPT ![k] = Append(@, Len(@) + 1)] BY <1>1, <1>2
<1>4. Len(got[k]) < sent[k] BY <1>2
<1>5. \A j \in Copiers : Broken(j)' = Broken(j)
  <2>1. ASSUME NEW j \in Copiers PROVE pc'[j] \in Gone <=> pc[j] \in Gone
    BY <1>1 DEF Gone
  <2>2. QED BY <1>1, <2>1 DEF Broken, Gone
<1>6. ~Broken(k) BY <1>1 DEF Broken
<1>7. Pipe!Deliver(k) BY <1>1, <1>3, <1>4, <1>5, <1>6 DEF Pipe!Deliver
<1>8. QED BY <1>7 DEF Pipe!Next

LEMMA OtherStep ==
  ASSUME TypeOK, Launch, [Next]_vars, got' = got, sent' = sent
  PROVE  [Pipe!Next]_(Pipe!pipeVars)
<1> USE Places DEF TypeOK, LoopType, SockType, procVars, loopVars, sockVars, flowVars, histVars
<1>1. crashed => crashed'
  <2>1. CASE UNCHANGED vars BY <2>1 DEF vars
  <2>2. CASE Next BY <2>2 DEF Next, Handler, Step, Environment
  <2>3. QED BY <2>1, <2>2
<1>2. ASSUME NEW k \in Copiers, pc[k] \in Gone PROVE pc'[k] \in Gone
  <2>1. ASSUME NEW j \in Copiers, Step(j) PROVE pc'[k] \in Gone
    <3>1. CASE j # k BY <1>2, <2>1, <3>1, Frame
    <3>2. CASE j = k
      <4>1. CloseSink(k) \/ Leave(k)
        BY <1>2, <2>1, <3>2 DEF Gone, Step, StartUp, Panic, CheckLock, Arm, ReadFails, ReadChunk,
           WriteFails, WriteChunk
      <4>2. QED BY <4>1 DEF CloseSink, Leave, Goto, Gone
    <3>3. QED BY <3>1, <3>2
  <2>2. CASE \A j \in Copiers : ~Step(j) BY <1>2, <2>2, IdlePc DEF Gone
  <2>3. QED BY <2>1, <2>2
<1>3. ASSUME NEW e \in Ends, peer[e] = "closed" PROVE peer'[e] = "closed"
  <2>1. CASE UNCHANGED vars BY <1>3, <2>1 DEF vars
  <2>2. ASSUME NEW c \in Conns, Handler(c) PROVE peer'[e] = "closed"
    BY <1>3, <2>2 DEF Handler, Dial
  <2>3. ASSUME NEW j \in Copiers, Step(j) PROVE peer'[e] = "closed"
    BY <1>3, <2>3, Frame
  <2>4. ASSUME NEW f \in Ends, NEW what \in {"open", "stalled", "closed"}, PeerBecomes(f, what)
        PROVE  peer'[e] = "closed"
    BY <1>3, <2>4 DEF PeerBecomes
  <2>5. ASSUME Environment,
               \A f \in Ends, what \in {"open", "stalled", "closed"} : ~PeerBecomes(f, what)
        PROVE  peer' = peer
    BY <2>5 DEF Environment, SessionLock, SessionUnlock, Accept, Expire, PeerSend
  <2>6. QED BY <1>3, <2>1, <2>2, <2>3, <2>4, <2>5 DEF Next, Environment
<1>4. \A k \in Copiers : Broken(k) => Broken(k)' BY <1>1, <1>2, <1>3 DEF Broken, Gone
<1>5. QED BY <1>4, BreakStep

LEMMA PipeStep ==
  ASSUME WgInv, WholeInv, [Next]_vars
  PROVE  [Pipe!Next]_(Pipe!pipeVars)
<1> USE DEF procVars, loopVars, sockVars, flowVars, histVars
<1>1. TypeOK /\ Launch BY DEF WgInv
<1>2. ASSUME NEW k \in Copiers, PeerSend(k) PROVE [Pipe!Next]_(Pipe!pipeVars)
  BY <1>2, SendStep
<1>3. ASSUME NEW k \in Copiers, Step(k) PROVE [Pipe!Next]_(Pipe!pipeVars)
  <2>1. CASE WriteChunk(k) /\ peer[Snk(k)] = "open"
    BY <1>1, <1>3, <2>1, DeliverStep DEF WholeInv, Step
  <2>2. CASE ~(WriteChunk(k) /\ peer[Snk(k)] = "open")
    <3>1. got' = got /\ sent' = sent
      <4>1. CASE StartUp(k) BY <4>1 DEF StartUp
      <4>2. CASE Panic(k) BY <4>2 DEF Panic
      <4>3. CASE CheckLock(k) BY <4>3 DEF CheckLock, Exit
      <4>4. CASE Arm(k) BY <4>4 DEF Arm
      <4>5. CASE ReadFails(k) BY <4>5 DEF ReadFails, TimedOut, Exit
      <4>6. CASE ReadChunk(k) BY <4>6 DEF ReadChunk
      <4>7. CASE WriteFails(k) BY <4>7 DEF WriteFails, TimedOut, Exit
      <4>8. CASE WriteChunk(k) BY <2>2, <4>8 DEF WriteChunk
      <4>9. CASE CloseSink(k) BY <4>9 DEF CloseSink
      <4>10. CASE Leave(k) BY <4>10 DEF Leave
      <4>11. QED BY <1>3, <4>1, <4>2, <4>3, <4>4, <4>5, <4>6, <4>7, <4>8, <4>9, <4>10 DEF Step
    <3>2. QED BY <1>1, <3>1, OtherStep
  <2>3. QED BY <2>1, <2>2
<1>4. ASSUME \A k \in Copiers : ~PeerSend(k) /\ ~Step(k) PROVE [Pipe!Next]_(Pipe!pipeVars)
  <2>1. got' = got BY <1>4, Idle
  <2>2. sent' = sent
    <3>1. CASE UNCHANGED vars BY <3>1 DEF vars
    <3>2. ASSUME NEW c \in Conns, Handler(c) PROVE sent' = sent BY <3>2 DEF Handler, Dial
    <3>3. CASE Environment
      BY <1>4, <3>3 DEF Environment, SessionLock, SessionUnlock, Accept, Expire, PeerBecomes
    <3>4. QED BY <1>4, <3>1, <3>2, <3>3 DEF Next
  <2>3. QED BY <1>1, <2>1, <2>2, OtherStep
<1>5. QED BY <1>2, <1>3, <1>4

LEMMA PipeInit == Init => Pipe!Init
<1> SUFFICES ASSUME Init PROVE Pipe!Init
  OBVIOUS
<1>1. \A k \in Copiers : Broken(k) = FALSE
  <2>1. \A e \in Ends : peer[e] = "open" BY DEF Init
  <2>2. QED BY <2>1, Places DEF Init, Broken
<1>2. QED BY <1>1 DEF Init, Pipe!Init

(* With gui.deadline = 0 the relay implements StreamPipe.                  *)
THEOREM PipeCorrect == ASSUME ~HasDeadline PROVE Spec => PipeSpec
<1>1. WgInv /\ WholeInv /\ [Next]_vars => WholeInv'
  BY WholeStep
<1>2. WgInv /\ WholeInv /\ [Next]_vars => [Pipe!Next]_(Pipe!pipeVars)
  BY PipeStep
<1>3. QED BY WholeInit, PipeInit, <1>1, <1>2, WgInvariant, PTL DEF Spec, PipeSpec, Pipe!Spec

-----------------------------------------------------------------------------
(* sorelay.  In each direction: what is delivered, and then the chunk in    *)
(* hand, is everything taken, in order.                                     *)

SoWhole(d) ==
  /\ \A i \in 1..Len(soGot[d]) : soGot[d][i] = i
  /\ soTaken[d] <= soSent[d]
  /\ soTaken[d] = IF hand[d] = 0 THEN Len(soGot[d]) ELSE Len(soGot[d]) + 1
  /\ hand[d] # 0 => hand[d] = soTaken[d]
  /\ done[d] = "eof" => hand[d] = 0 /\ soTaken[d] = soSent[d] /\ source[d] # "open"

\* The process ends with status 0 only after one of its copies has returned.
SoEnds == exit = 0 => \E d \in Sorelay!Dirs : done[d] # "no"

SoInv == Sorelay!TypeOK /\ SoEnds /\ \A d \in Sorelay!Dirs : SoWhole(d)

LEMMA SoInit == Sorelay!Init => SoInv
<1> SUFFICES ASSUME Sorelay!Init PROVE SoInv
  OBVIOUS
<1> USE SorelayBounds DEF Sorelay!SoRelayBounds
<1>1. Sorelay!TypeOK
  <2>1. 0 \in 0..MaxSent /\ 0 \in 0..MaxStalls /\ << >> \in Seq(1..MaxSent)
    OBVIOUS
  <2> QED BY <2>1 DEF Sorelay!Init, Sorelay!TypeOK, Sorelay!Running
<1>2. SoEnds
  BY DEF Sorelay!Init, SoEnds, Sorelay!Running
<1>3. ASSUME NEW d \in Sorelay!Dirs PROVE SoWhole(d)
  BY <1>3 DEF Sorelay!Init, SoWhole
<1> QED BY <1>1, <1>2, <1>3 DEF SoInv

\* A chunk that is written is the next one, and is numbered like its place.
LEMMA SoDelivers ==
  ASSUME SoInv, NEW d \in Sorelay!Dirs, hand[d] # 0
  PROVE  /\ Len(soGot[d]) \in Nat /\ hand[d] = Len(soGot[d]) + 1
         /\ Append(soGot[d], hand[d]) \in Seq(1..MaxSent)
         /\ Len(Append(soGot[d], hand[d])) = Len(soGot[d]) + 1
         /\ \A i \in 1..Len(soGot[d]) + 1 : Append(soGot[d], hand[d])[i] = i
<1>1. soGot[d] \in Seq(1..MaxSent) /\ hand[d] \in 1..MaxSent /\ soTaken[d] \in 0..MaxSent
  BY SorelayBounds DEF SoInv, Sorelay!TypeOK, Sorelay!SoRelayBounds
<1>2. hand[d] = Len(soGot[d]) + 1 /\ \A i \in 1..Len(soGot[d]) : soGot[d][i] = i
  BY DEF SoInv, SoWhole
<1> QED BY <1>1, <1>2

LEMMA SoTypes ==
  ASSUME SoInv
  PROVE  /\ hand \in [Sorelay!Dirs -> 0..MaxSent]
         /\ done \in [Sorelay!Dirs -> {"no", "eof", "error"}]
         /\ source \in [Sorelay!Dirs -> {"open", "ended", "failed"}]
         /\ sink \in [Sorelay!Dirs -> {"open", "stalled", "broken"}]
         /\ soSent \in [Sorelay!Dirs -> 0..MaxSent] /\ soTaken \in [Sorelay!Dirs -> 0..MaxSent]
         /\ soGot \in [Sorelay!Dirs -> Seq(1..MaxSent)]
         /\ MaxSent \in Nat /\ MaxStalls \in Nat /\ stalls \in 0..MaxStalls
  BY SorelayBounds DEF SoInv, Sorelay!TypeOK, Sorelay!SoRelayBounds

LEMMA SoCopyStep ==
  ASSUME SoInv, NEW d \in Sorelay!Dirs, Sorelay!Copy(d)
  PROVE  SoInv'
<1> USE SoTypes DEF SoInv
<1>1. CASE Sorelay!Read(d)
  <2>1. /\ hand[d] = 0 /\ soTaken[d] < soSent[d] /\ soTaken[d] + 1 \in 1..MaxSent
        /\ soTaken' = Sorelay!Put(soTaken, d, soTaken[d] + 1)
        /\ hand' = Sorelay!Put(hand, d, soTaken[d] + 1)
        /\ UNCHANGED <<conn, done, exit, source, sink, soSent, stalls, soGot>>
        /\ done[d] = "no"
    BY <1>1 DEF Sorelay!Read, Sorelay!ends, Sorelay!Copies
  <2>2. Sorelay!TypeOK'
    BY <2>1 DEF Sorelay!Put, Sorelay!TypeOK
  <2>3. SoWhole(d)'
    BY <2>1 DEF Sorelay!Put, SoWhole
  <2>4. ASSUME NEW e \in Sorelay!Dirs, e # d PROVE SoWhole(e)'
    <3>1. hand'[e] = hand[e] /\ soTaken'[e] = soTaken[e]
      BY <2>1, <2>4 DEF Sorelay!Put
    <3> QED BY <2>1, <3>1 DEF SoWhole
  <2> QED BY <2>1, <2>2, <2>3, <2>4 DEF SoEnds
<1>2. CASE Sorelay!Write(d)
  <2>1. /\ hand[d] # 0 /\ done[d] = "no"
        /\ hand' = Sorelay!Put(hand, d, 0)
        /\ soGot' = Sorelay!Put(soGot, d, Append(soGot[d], hand[d]))
        /\ UNCHANGED <<conn, done, exit, source, sink, soSent, stalls, soTaken>>
    BY <1>2 DEF Sorelay!Write, Sorelay!ends, Sorelay!Copies
  <2>2. Sorelay!TypeOK'
    <3>1. soGot' \in [Sorelay!Dirs -> Seq(1..MaxSent)] /\ hand' \in [Sorelay!Dirs -> 0..MaxSent]
      BY <2>1, SoDelivers DEF Sorelay!Put
    <3> QED BY <2>1, <3>1 DEF Sorelay!TypeOK
  <2>3. SoWhole(d)'
    <3>1. soGot'[d] = Append(soGot[d], hand[d]) /\ hand'[d] = 0
      BY <2>1 DEF Sorelay!Put
    <3>2. soTaken[d] = Len(soGot[d]) + 1 /\ soTaken[d] <= soSent[d]
      BY <2>1 DEF SoWhole
    <3> QED BY <2>1, <3>1, <3>2, SoDelivers DEF SoWhole
  <2>4. ASSUME NEW e \in Sorelay!Dirs, e # d PROVE SoWhole(e)'
    <3>1. hand'[e] = hand[e] /\ soGot'[e] = soGot[e]
      BY <2>1, <2>4 DEF Sorelay!Put
    <3> QED BY <2>1, <3>1 DEF SoWhole
  <2> QED BY <2>1, <2>2, <2>3, <2>4 DEF SoEnds
<1>3. CASE Sorelay!SourceEnds(d) \/ Sorelay!CopyFails(d)
  <2>1. PICK how \in {"eof", "error"} :
            /\ done' = Sorelay!Put(done, d, how)
            /\ UNCHANGED <<conn, hand, exit, source, sink, soSent, stalls, soTaken, soGot>>
            /\ how = "eof" => hand[d] = 0 /\ soTaken[d] = soSent[d] /\ source[d] = "ended"
    BY <1>3 DEF Sorelay!SourceEnds, Sorelay!CopyFails, Sorelay!Returns, Sorelay!ends
  <2>2. exit # 0 /\ exit' = exit
    BY <1>3, <2>1 DEF Sorelay!SourceEnds, Sorelay!CopyFails, Sorelay!Copies, Sorelay!Running
  <2>3. Sorelay!TypeOK'
    BY <2>1 DEF Sorelay!Put, Sorelay!TypeOK
  <2>4. SoWhole(d)'
    BY <2>1 DEF Sorelay!Put, SoWhole
  <2>5. ASSUME NEW e \in Sorelay!Dirs, e # d PROVE SoWhole(e)'
    <3>1. done'[e] = done[e]
      BY <2>1, <2>5 DEF Sorelay!Put
    <3> QED BY <2>1, <3>1 DEF SoWhole
  <2> QED BY <2>2, <2>3, <2>4, <2>5 DEF SoEnds
<1> QED BY <1>1, <1>2, <1>3 DEF Sorelay!Copy

LEMMA SoMainStep ==
  ASSUME SoInv, Sorelay!Main
  PROVE  SoInv'
<1>1. /\ UNCHANGED <<hand, done, source, sink, soSent, stalls, soTaken, soGot>>
      /\ conn' \in {"open", "closed", "dialing"} /\ exit' \in {0, 1, Sorelay!Running}
      /\ exit' = 0 => \E d \in Sorelay!Dirs : done[d] # "no"
  BY DEF Sorelay!Main, Sorelay!Dial, Sorelay!DialFails, Sorelay!Exit, Sorelay!ends, SoInv,
     Sorelay!TypeOK, Sorelay!Running
<1> QED BY <1>1 DEF SoInv, Sorelay!TypeOK, SoEnds, SoWhole

LEMMA SoPeerStep ==
  ASSUME SoInv, NEW d \in Sorelay!Dirs, Sorelay!PeerSends(d) \/ Sorelay!PeerEnds(d)
        \/ Sorelay!PeerReads(d)
  PROVE  SoInv'
<1> USE SoTypes DEF SoInv
<1>1. CASE Sorelay!PeerSends(d)
  <2>1. /\ source[d] = "open" /\ soSent[d] + 1 \in 0..MaxSent
        /\ soSent' = Sorelay!Put(soSent, d, soSent[d] + 1)
        /\ UNCHANGED <<conn, hand, done, exit, source, sink, stalls, soTaken, soGot>>
    BY <1>1 DEF Sorelay!PeerSends
  <2>2. Sorelay!TypeOK'
    BY <2>1 DEF Sorelay!Put, Sorelay!TypeOK
  <2>3. ASSUME NEW e \in Sorelay!Dirs PROVE SoWhole(e)'
    <3>1. e # d => soSent'[e] = soSent[e]
      BY <2>1 DEF Sorelay!Put
    <3>2. soSent'[d] = soSent[d] + 1
      BY <2>1 DEF Sorelay!Put
    <3>3. CASE e # d
      BY <2>1, <3>1, <3>3 DEF SoWhole
    <3>4. CASE e = d
      <4>1. done[d] # "eof"
        BY <2>1 DEF SoWhole
      <4>2. soTaken[d] <= soSent'[d]
        BY <3>2 DEF SoWhole
      <4> QED BY <2>1, <3>4, <4>1, <4>2 DEF SoWhole
    <3> QED BY <3>3, <3>4
  <2> QED BY <2>1, <2>2, <2>3 DEF SoEnds
<1>2. CASE Sorelay!PeerEnds(d)
  <2>1. PICK how \in {"ended", "failed"} :
            /\ source' = Sorelay!Put(source, d, how)
            /\ UNCHANGED <<conn, hand, done, exit, sink, soSent, stalls, soTaken, soGot>>
    BY <1>2 DEF Sorelay!PeerEnds
  <2>2. Sorelay!TypeOK'
    BY <2>1 DEF Sorelay!Put, Sorelay!TypeOK
  <2>3. ASSUME NEW e \in Sorelay!Dirs PROVE SoWhole(e)'
    <3>1. source'[e] # "open" \/ source'[e] = source[e]
      BY <2>1 DEF Sorelay!Put
    <3> QED BY <2>1, <3>1 DEF SoWhole
  <2> QED BY <2>1, <2>2, <2>3 DEF SoEnds
<1>3. CASE Sorelay!PeerReads(d)
  <2>1. /\ UNCHANGED <<conn, hand, done, exit, source, soSent, soTaken, soGot>>
        /\ stalls' \in 0..MaxStalls
        /\ \E to \in {"open", "stalled", "broken"} : sink' = Sorelay!Put(sink, d, to)
    BY <1>3 DEF Sorelay!PeerReads
  <2>2. Sorelay!TypeOK'
    BY <2>1 DEF Sorelay!Put, Sorelay!TypeOK
  <2> QED BY <2>1, <2>2 DEF SoEnds, SoWhole
<1> QED BY <1>1, <1>2, <1>3

LEMMA SoStep ==
  ASSUME SoInv, [Sorelay!Next]_(Sorelay!vars)
  PROVE  SoInv'
<1>1. CASE UNCHANGED Sorelay!vars
  BY <1>1 DEF Sorelay!vars, Sorelay!ends, SoInv, Sorelay!TypeOK, SoEnds, SoWhole
<1> QED BY <1>1, SoCopyStep, SoMainStep, SoPeerStep DEF Sorelay!Next, Sorelay!Peers

LEMMA SoAlways == Sorelay!Spec => []SoInv
  BY SoInit, SoStep, PTL DEF Sorelay!Spec

\* The direction that has come to the end of its file is whole, and the process
\* has ended by itself only after one has (src/cmd/sorelay/main.go:98-117), for
\* any number of chunks and stalls.
THEOREM WholeRightCorrect == Sorelay!Spec => []WholeRight
<1>1. SoInv => WholeRight
  <2> SUFFICES ASSUME SoInv PROVE WholeRight
    OBVIOUS
  <2>1. ASSUME NEW d \in Sorelay!Dirs, done[d] = "eof" PROVE Len(soGot[d]) = soSent[d]
    BY <2>1, SoTypes DEF SoInv, SoWhole
  <2> QED BY <2>1 DEF WholeRight, Sorelay!WholeRight, Sorelay!OneWhole, SoInv, SoEnds
<1> QED BY <1>1, SoAlways, PTL

-----------------------------------------------------------------------------
(* sorelay implements StreamPipe.                                           *)

LEMMA SoPipeInit == Sorelay!Init => Sorelay!Pipe!Init
<1> SUFFICES ASSUME Sorelay!Init PROVE Sorelay!Pipe!Init
  OBVIOUS
<1>1. \A d \in Sorelay!Dirs : (exit # Sorelay!Running \/ done[d] # "no") = FALSE
  BY DEF Sorelay!Init
<1> QED BY <1>1 DEF Sorelay!Init, Sorelay!Pipe!Init

\* A step that neither sends nor delivers breaks the pipes it breaks, possibly
\* none, and mends no pipe.
LEMMA SoBreak ==
  ASSUME soSent' = soSent, soGot' = soGot, exit = Sorelay!Running \/ exit' # Sorelay!Running,
         \A d \in Sorelay!Dirs : done[d] # "no" => done'[d] # "no"
  PROVE  [Sorelay!Pipe!Next]_(Sorelay!Pipe!pipeVars)
<1> DEFINE old == [d \in Sorelay!Dirs |-> exit # Sorelay!Running \/ done[d] # "no"]
           new == [d \in Sorelay!Dirs |-> exit' # Sorelay!Running \/ done'[d] # "no"]
<1>1. PICK P \in SUBSET Sorelay!Dirs :
               P = {d \in Sorelay!Dirs : exit' # Sorelay!Running \/ done'[d] # "no"}
  OBVIOUS
<1>2. \A d \in Sorelay!Dirs : new[d] = (old[d] \/ d \in P)
  BY <1>1
<1>3. new = [d \in Sorelay!Dirs |-> old[d] \/ d \in P]
  BY <1>2
<1>4. Sorelay!Pipe!Break(P)
  BY <1>3 DEF Sorelay!Pipe!Break, Sorelay!Dirs, Sorelay!Running
<1> QED BY <1>4 DEF Sorelay!Pipe!Next, Sorelay!Dirs

LEMMA SoPipeStep ==
  ASSUME SoInv, [Sorelay!Next]_(Sorelay!vars)
  PROVE  [Sorelay!Pipe!Next]_(Sorelay!Pipe!pipeVars)
<1>1. ASSUME NEW d \in Sorelay!Dirs, Sorelay!Write(d)
      PROVE [Sorelay!Pipe!Next]_(Sorelay!Pipe!pipeVars)
  <2>1. /\ hand[d] # 0 /\ exit = Sorelay!Running /\ done[d] = "no"
        /\ soGot' = Sorelay!Put(soGot, d, Append(soGot[d], hand[d]))
        /\ UNCHANGED <<done, exit, soSent>>
    BY <1>1 DEF Sorelay!Write, Sorelay!ends, Sorelay!Copies
  <2>2. hand[d] = Len(soGot[d]) + 1
    BY <2>1, SoDelivers
  <2>3. Len(soGot[d]) < soSent[d]
    BY <2>1, SoTypes DEF SoInv, SoWhole
  <2>4. soGot' = [soGot EXCEPT ![d] = Append(@, Len(@) + 1)]
    BY <2>1, <2>2 DEF Sorelay!Put
  <2>5. Sorelay!Pipe!Deliver(d)
    BY <2>1, <2>3, <2>4 DEF Sorelay!Pipe!Deliver
  <2> QED BY <2>5 DEF Sorelay!Pipe!Next
<1>2. ASSUME NEW d \in Sorelay!Dirs, Sorelay!PeerSends(d)
      PROVE [Sorelay!Pipe!Next]_(Sorelay!Pipe!pipeVars)
  <2>1. soSent' = [soSent EXCEPT ![d] = @ + 1] /\ UNCHANGED <<soGot, done, exit>>
    BY <1>2 DEF Sorelay!PeerSends, Sorelay!Put
  <2>2. Sorelay!Pipe!Send(d)
    BY <2>1 DEF Sorelay!Pipe!Send
  <2> QED BY <2>2 DEF Sorelay!Pipe!Next
<1>3. ASSUME NEW d \in Sorelay!Dirs, Sorelay!Copy(d), ~Sorelay!Write(d)
      PROVE [Sorelay!Pipe!Next]_(Sorelay!Pipe!pipeVars)
  <2>1. soSent' = soSent /\ soGot' = soGot /\ exit' = exit
    BY <1>3 DEF Sorelay!Copy, Sorelay!Read, Sorelay!SourceEnds, Sorelay!CopyFails,
       Sorelay!Returns, Sorelay!ends
  <2>2. \A e \in Sorelay!Dirs : done[e] # "no" => done'[e] # "no"
    <3>1. CASE Sorelay!Read(d)
      BY <3>1 DEF Sorelay!Read
    <3>2. CASE Sorelay!SourceEnds(d) \/ Sorelay!CopyFails(d)
      BY <3>2, SoTypes DEF Sorelay!Put, Sorelay!SourceEnds, Sorelay!CopyFails,
         Sorelay!Returns, Sorelay!Copies
    <3> QED BY <1>3, <3>1, <3>2 DEF Sorelay!Copy
  <2> QED BY <2>1, <2>2, SoBreak
<1>4. CASE Sorelay!Main
  <2>1. /\ soSent' = soSent /\ soGot' = soGot /\ done' = done
        /\ exit = Sorelay!Running \/ exit' = exit
    BY <1>4 DEF Sorelay!Main, Sorelay!Dial, Sorelay!DialFails, Sorelay!Exit, Sorelay!ends
  <2> QED BY <2>1, SoBreak
<1>5. ASSUME NEW d \in Sorelay!Dirs, Sorelay!PeerEnds(d) \/ Sorelay!PeerReads(d)
      PROVE [Sorelay!Pipe!Next]_(Sorelay!Pipe!pipeVars)
  BY <1>5, SoBreak DEF Sorelay!PeerEnds, Sorelay!PeerReads
<1>6. CASE UNCHANGED Sorelay!vars
  BY <1>6, SoBreak DEF Sorelay!vars, Sorelay!ends
<1> QED BY <1>1, <1>2, <1>3, <1>4, <1>5, <1>6 DEF Sorelay!Next, Sorelay!Peers

\* Both directions of sorelay are pipes: every step maps to a step of StreamPipe
\* or a stutter, the end of the process to the breaking of both.
THEOREM BothPipesCorrect == Sorelay!Spec => BothPipes
<1>1. SoInv /\ [Sorelay!Next]_(Sorelay!vars) => [Sorelay!Pipe!Next]_(Sorelay!Pipe!pipeVars)
  BY SoPipeStep
<1> QED BY <1>1, SoPipeInit, SoAlways, PTL DEF Sorelay!Spec, BothPipes, Sorelay!BothPipes,
   Sorelay!Pipe!Spec

-----------------------------------------------------------------------------
(* The behaviours of MCRelays.                                             *)

\* What MCRelays is checked on are behaviours of both programs, so that whatever
\* is proved above of either of them holds of it (src/agent/connector.go:161-299,
\* src/cmd/sorelay/main.go:83-115).
THEOREM RelaysAreBoth == RelaysSpec => Spec /\ Sorelay!Spec
<1>1. RelaysInit => Init /\ Sorelay!Init
  BY DEF RelaysInit
<1>2. [InAgent(Next) \/ InSorelay(Sorelay!Next)]_allVars => [Next]_vars
  BY DEF InAgent, InSorelay, allVars
<1>3. [InAgent(Next) \/ InSorelay(Sorelay!Next)]_allVars => [Sorelay!Next]_(Sorelay!vars)
  BY DEF InAgent, InSorelay, allVars, sorelayVars, Sorelay!vars, Sorelay!ends
<1> QED BY <1>1, <1>2, <1>3, PTL DEF RelaysSpec, Spec, Sorelay!Spec
=============================================================================
