------------------------------ MODULE MCWindow ------------------------------
(***************************************************************************)
(* The window of agent-gui: AgentLifecycle, for what its end brings about, *)
(* and Systray, for its icon and what it is told of the session.  They     *)
(* share no variable, so in a behaviour only one of the two leaves its     *)
(* initial state: their states add up and do not multiply.                 *)
(***************************************************************************)
EXTENDS AgentLifecycle

CONSTANTS MaxExplorer, MaxSession, MaxEnd    \* of Systray

VARIABLES trayPc, window, registered, queue, nid, root, ready, popup, locked, crashed,
          explorer, shown, session, downs, turns, ends, deleted, known

Icon == INSTANCE Systray WITH pc <- trayPc, menu <- popup

ASSUME IconBounds == Icon!SystrayBounds

iconVars == <<trayPc, window, registered, queue, nid, root, ready, popup, locked, crashed,
              explorer, shown, session, downs, turns, ends, deleted, known>>
allVars == <<vars, iconVars>>

InLife(A) == Icon!Init /\ explorer /\ ~session /\ A /\ UNCHANGED iconVars
InIcon(A) == Init /\ A /\ UNCHANGED vars

WindowInit == Init /\ Icon!Init

\* The fairness is that of AgentLifecycle.
WindowSpec ==
    /\ WindowInit /\ [][InLife(Next) \/ InIcon(Icon!Next)]_allVars
    /\ \A i \in Instances : WF_allVars(InLife(Main(i))) /\ WF_allVars(InLife(Quit(i)))
    /\ \A g \in Gpgs : WF_allVars(InLife(Gpg(g)))

\* The properties of Systray.
IconRight == Icon!IconRight
LockFollows == Icon!LockFollows
=============================================================================
