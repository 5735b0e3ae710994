----------------------------- MODULE MCDesktop -----------------------------
(***************************************************************************)
(* What the user's desktop has of agent-gui: the variables of UserEnv and  *)
(* the popup menu of SystrayMenu.  They share no variable, so in a         *)
(* behaviour only one of the two leaves its initial state.                 *)
(*                                                                         *)
(* The name of the entry f1 begins like that of variable 2.                *)
(***************************************************************************)
EXTENDS UserEnv

CONSTANTS f1, f2
MCForeign == {f1, f2}
MCExtending == {<<f1, 2>>}

CONSTANTS Callers, Ops, Private, MaxId, MaxMenus, Nobody    \* of SystrayMenu

VARIABLES step, item, handle, pos, currentID, menuItems, parent, menus, menuOf, visible,
          win, live, made, adder, hides

Menu == INSTANCE SystrayMenu WITH at <- step, menu <- handle, owner <- adder

ASSUME MenuConstants == Menu!MenuAssumption

menuVars == <<step, item, handle, pos, currentID, menuItems, parent, menus, menuOf, visible,
              win, live, made, adder, hides>>
allVars == <<vars, menuVars>>

\* The initial state of UserEnv that the behaviours of the menu start from.
EnvRests == pc = "off" /\ wslenv = {} /\ touched = {} /\ \A v \in Vars : env[v] = "none"

InEnv(A) == Menu!Init /\ A /\ UNCHANGED menuVars
InMenu(A) == EnvRests /\ A /\ UNCHANGED vars

DesktopInit == Init /\ Menu!Init

DesktopSpec == DesktopInit /\ [][InEnv(Next) \/ InMenu(Menu!Next)]_allVars

\* The property of SystrayMenu.
MenuRight == Menu!MenuRight
=============================================================================
