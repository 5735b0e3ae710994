------------------------------ MODULE MCRelays ------------------------------
(***************************************************************************)
(* The two programs that relay a connection: agent-gui, AssuanRelay, and   *)
(* sorelay, SoRelay, each of which implements StreamPipe.  They share no   *)
(* variable, so in a behaviour only one of the two leaves its initial      *)
(* state: their states add up and do not multiply.                         *)
(***************************************************************************)
EXTENDS AssuanRelay

CONSTANTS MaxSent, MaxStalls    \* of SoRelay

VARIABLES conn, hand, done, exit, source, sink, soSent, soTaken, soGot, stalls

Sorelay == INSTANCE SoRelay WITH sent <- soSent, taken <- soTaken, got <- soGot

ASSUME SorelayBounds == Sorelay!SoRelayBounds

sorelayVars == <<conn, hand, done, exit, source, sink, soSent, soTaken, soGot, stalls>>
allVars == <<vars, sorelayVars>>

InAgent(A) == Sorelay!Init /\ A /\ UNCHANGED sorelayVars
InSorelay(A) == Init /\ A /\ UNCHANGED vars

RelaysInit == Init /\ Sorelay!Init

\* The fairness is that of the two modules.
RelaysSpec ==
    /\ RelaysInit /\ [][InAgent(Next) \/ InSorelay(Sorelay!Next)]_allVars
    /\ \A c \in Conns : WF_allVars(InAgent(Handler(c)))
    /\ \A k \in Copiers : WF_allVars(InAgent(Step(k)))
    /\ \A e \in Ends : WF_allVars(InAgent(~crashed /\ Expire(e)))
    /\ WF_allVars(InSorelay(Sorelay!Main))
    /\ \A d \in Sorelay!Dirs : WF_allVars(InSorelay(Sorelay!Copy(d)))

\* The properties of SoRelay.
WholeRight == Sorelay!WholeRight
BothPipes == Sorelay!BothPipes
ProcessEnds == Sorelay!ProcessEnds
=============================================================================
