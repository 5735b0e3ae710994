------------------------------ MODULE Systray ------------------------------
(***************************************************************************)
(* The notification icon of agent-gui: how src/systray starts its window,  *)
(* icon and menu beside the goroutine that runs onReady                    *)
(* (src/cmd/agent/main.go), and what its window procedure makes of the     *)
(* session, of Explorer and of the end.  WM_CREATE is handled inside       *)
(* CreateWindowEx and releases onReady, so the rest of the initialisation  *)
(* runs beside it.                                                         *)
(*                                                                         *)
(* Resources of the program load; registering the class, creating the      *)
(* window or the menu may fail.  Shell_NotifyIcon works exactly when       *)
(* Explorer runs.  The menu is the one onReady makes, without sub-menus;   *)
(* SystrayMenu has the rest.  Stop, which systrayExit calls, is in         *)
(* AgentLifecycle.                                                         *)
(***************************************************************************)
EXTENDS Integers, Sequences

CONSTANTS MaxExplorer,  \* bound: ends of Explorer
          MaxSession,   \* bound: times the session is locked or unlocked
          MaxEnd        \* bound: ends of the session that are announced

SystrayBounds == MaxExplorer \in Nat /\ MaxSession \in Nat /\ MaxEnd \in Nat

VARIABLES
    pc,          \* where the main thread stands
    window,      \* t.window
    registered,  \* t.sessionRegistered
    queue,       \* the messages posted to the window
    nid,         \* t.nid: what of it is filled in
    root,        \* t.menus[0]
    ready,       \* the step of Script that onReady is at; 0 before, Served after
    menu,        \* the items of the popup menu
    locked,      \* Agent.locked
    crashed      \* agent-gui has panicked

\* Explorer and the session.
VARIABLES
    explorer,    \* Explorer runs
    shown,       \* the icon in the notification area: {} or {what it shows}
    session,     \* the session is locked
    downs, turns, ends  \* what the bounds count

\* History variables: only the properties read them.
VARIABLES
    deleted,     \* the icon was deleted by a handler
    known        \* the session was unlocked at registration, or has been heard of since

winVars == <<pc, window, registered, root>>
readyVars == <<ready, menu>>
sessionVars == <<locked, session, turns, known>>
iconVars == <<nid, shown, explorer, downs, deleted>>
vars == <<winVars, queue, nid, readyVars, locked, crashed, explorer, shown, session,
          downs, turns, ends, deleted, known>>

Messages == {"taskbar", "lock", "unlock", "close"}
Look == [icon : BOOLEAN, tip : BOOLEAN]
Items == <<"Status", "About", "separator", "Exit">>
\* What onReady does, one GUI call after the other.
Script == <<"icon", "tip">> \o Items
Served == Len(Script) + 1

\* The values each part of the state ranges over.
TypeOK ==
    /\ pc \in {"init", "nid", "menu", "put", "loop", "end"}
    /\ window \in {"none", "open", "gone"} /\ registered \in BOOLEAN
    /\ queue \in Seq(Messages)
    /\ nid \in {{}} \cup {{l} : l \in Look} /\ shown \in {{}} \cup {{l} : l \in Look}
    /\ root \in {"none", "popup"}
    /\ ready \in 0..Served
    /\ menu \in Seq({Items[n] : n \in 1..Len(Items)})
    /\ locked \in BOOLEAN /\ crashed \in BOOLEAN /\ explorer \in BOOLEAN
    /\ session \in BOOLEAN /\ deleted \in BOOLEAN /\ known \in BOOLEAN
    /\ downs \in 0..MaxExplorer /\ turns \in 0..MaxSession /\ ends \in 0..MaxEnd

\* systray.Register is called; the connectors have been serving for a while.
Init ==
    /\ pc = "init" /\ window = "none" /\ registered = FALSE
    /\ queue = << >> /\ nid = {} /\ root = "none"
    /\ ready = 0 /\ menu = << >>
    /\ locked = FALSE /\ crashed = FALSE
    /\ explorer \in BOOLEAN /\ shown = {} /\ session \in BOOLEAN
    /\ downs = 0 /\ turns = 0 /\ ends = 0
    /\ deleted = FALSE /\ known = FALSE

Pending(ms) == \E n \in DOMAIN queue : queue[n] \in ms
Post(m) == queue' = Append(queue, m)

-----------------------------------------------------------------------------
(* The main thread: registerSystray.                                       *)

\* initInstance up to CreateWindowEx, inside which WM_CREATE registers for
\* session notifications, if it can, and calls systrayReady.
CreateWindow ==
    /\ pc = "init"
    /\ pc' = "nid" /\ window' = "open" /\ ready' = 1
    /\ registered' \in BOOLEAN
    /\ known' = (registered' /\ ~session)
    /\ UNCHANGED <<queue, nid, root, menu, locked, crashed, explorer, shown, session,
                   downs, turns, ends, deleted>>

\* There is no window: the message loop starts all the same.
CreateFails ==
    /\ pc = "init"
    /\ pc' = "loop"
    /\ UNCHANGED <<window, registered, root, queue, iconVars, readyVars, sessionVars, crashed, ends>>

\* NIM_ADD: Explorer must run and not have the icon already.
Add(look) == shown' = IF explorer /\ shown = {} THEN {look} ELSE shown

\* t.nid and its add, under muNID; if it fails there is no menu.
AddIcon ==
    /\ pc = "nid"
    /\ nid' = {[icon |-> FALSE, tip |-> FALSE]}
    /\ Add([icon |-> FALSE, tip |-> FALSE])
    /\ pc' = IF explorer THEN "menu" ELSE "loop"
    /\ UNCHANGED <<window, registered, root, queue, readyVars, sessionVars, crashed,
                   explorer, downs, deleted, ends>>

\* CreatePopupMenu; then the map is written, under no lock.
CreateMenu ==
    /\ pc = "menu"
    /\ pc' \in {"put", "loop"}
    /\ UNCHANGED <<window, registered, root, queue, iconVars, readyVars, sessionVars, crashed, ends>>

PutMenu ==
    /\ pc = "put"
    /\ pc' = "loop" /\ root' = "popup"
    /\ UNCHANGED <<window, registered, queue, iconVars, readyVars, sessionVars, crashed, ends>>

-----------------------------------------------------------------------------
(* onReady.                                                                *)

Panic ==
    /\ crashed' = TRUE
    /\ pc' = "end" /\ window' = "gone" /\ shown' = {} /\ queue' = << >>
    /\ UNCHANGED <<registered, root, nid, readyVars, sessionVars, explorer, downs, deleted, ends>>

\* NIM_MODIFY: there must be an icon to modify.
Modify(look) == shown' = IF shown = {} THEN {} ELSE {look}

\* setIconFromResource and setTooltip: t.nid is used as it is found.
Decorate(part) ==
    /\ ready \in DOMAIN Script /\ Script[ready] = part /\ pc # "end"
    /\ \/ nid = {} /\ Panic
       \/ \E l \in nid :
             /\ LET new == [l EXCEPT ![part] = TRUE] IN nid' = {new} /\ Modify(new)
             /\ ready' = ready + 1
             /\ UNCHANGED <<winVars, queue, menu, sessionVars, crashed, explorer, downs, deleted, ends>>

SetIcon == Decorate("icon")
SetTooltip == Decorate("tip")

\* AddMenuItem and AddSeparator.  Without the popup menu convertToSubMenu, or
\* InsertMenuItem, fails and nothing but a line in the log tells of it.  A map
\* that is read while it is written may be found out by the run time.
AddItem(n) ==
    /\ ready \in DOMAIN Script /\ Script[ready] = Items[n] /\ pc # "end"
    /\ \/ pc = "put" /\ Panic
       \/ /\ menu' = IF root = "popup" THEN Append(menu, Items[n]) ELSE menu
          /\ ready' = ready + 1
          /\ UNCHANGED <<winVars, queue, iconVars, sessionVars, crashed, ends>>

\* A click on Exit: systray.Quit.
Quit ==
    /\ ready = Served /\ pc = "loop" /\ shown # {} /\ ~Pending({"close"})
    /\ \E n \in DOMAIN menu : menu[n] = "Exit"
    /\ Post("close")
    /\ UNCHANGED <<winVars, iconVars, readyVars, sessionVars, crashed, ends>>

-----------------------------------------------------------------------------
(* The window procedure.                                                   *)

Receives(m) ==
    /\ pc = "loop" /\ window = "open"
    /\ queue # << >> /\ Head(queue) = m
    /\ queue' = Tail(queue)

TaskbarCreated_Modify ==
    /\ Receives("taskbar")
    /\ \E l \in nid : Modify(l)
    /\ UNCHANGED <<winVars, nid, explorer, downs, deleted, readyVars, sessionVars, crashed, ends>>

\* Explorer has restarted: nid.add.
TaskbarCreated ==
    /\ Receives("taskbar")
    /\ \E l \in nid : Add(l)
    /\ UNCHANGED <<winVars, nid, explorer, downs, deleted, readyVars, sessionVars, crashed, ends>>

\* onSession.
SessionEvent_LockOnly(m) ==
    /\ Receives(m)
    /\ locked' = (locked \/ m = "lock") /\ known' = TRUE
    /\ UNCHANGED <<winVars, iconVars, readyVars, session, turns, crashed, ends>>

SessionEvent(m) ==
    /\ Receives(m)
    /\ locked' = (m = "lock") /\ known' = TRUE
    /\ UNCHANGED <<winVars, iconVars, readyVars, session, turns, crashed, ends>>

\* WM_ENDSESSION, which need not end the session: the icon goes and onExit runs.
WmEndSession ==
    /\ pc = "loop" /\ window = "open" /\ ends < MaxEnd
    /\ ends' = ends + 1
    /\ shown' = {} /\ deleted' = TRUE
    /\ UNCHANGED <<winVars, queue, nid, explorer, downs, readyVars, sessionVars, crashed>>

\* WM_CLOSE, with the WM_DESTROY that DestroyWindow sends.
WmClose ==
    /\ Receives("close")
    /\ pc' = "end" /\ window' = "gone"
    /\ registered' \in {FALSE, registered}
    /\ shown' = {} /\ deleted' = TRUE
    /\ UNCHANGED <<root, nid, explorer, downs, readyVars, sessionVars, crashed, ends>>

-----------------------------------------------------------------------------
(* Explorer and the session.                                               *)

ExplorerEnds ==
    /\ explorer /\ downs < MaxExplorer
    /\ explorer' = FALSE /\ shown' = {} /\ downs' = downs + 1
    /\ UNCHANGED <<winVars, queue, nid, deleted, readyVars, sessionVars, crashed, ends>>

\* It tells every window there is.
ExplorerStarts ==
    /\ ~explorer
    /\ explorer' = TRUE
    /\ IF window = "open" THEN Post("taskbar") ELSE UNCHANGED queue
    /\ UNCHANGED <<winVars, nid, shown, downs, deleted, readyVars, sessionVars, crashed, ends>>

SessionTurns ==
    /\ turns < MaxSession
    /\ session' = ~session /\ turns' = turns + 1
    /\ IF registered /\ window = "open"
       THEN Post(IF session THEN "unlock" ELSE "lock")
       ELSE UNCHANGED queue
    /\ UNCHANGED <<winVars, iconVars, readyVars, locked, known, crashed, ends>>

-----------------------------------------------------------------------------
Main ==
    \/ CreateWindow \/ CreateFails \/ AddIcon \/ CreateMenu \/ PutMenu
    \/ TaskbarCreated \/ SessionEvent("lock") \/ SessionEvent("unlock") \/ WmClose

OnReady == SetIcon \/ SetTooltip \/ \E n \in 1..Len(Items) : AddItem(n)

Outside == Quit \/ WmEndSession \/ ExplorerEnds \/ ExplorerStarts \/ SessionTurns

Next == Main \/ OnReady \/ Outside

Spec == Init /\ [][Next]_vars

-----------------------------------------------------------------------------
(* Properties.                                                             *)

Heard == ~Pending({"lock", "unlock"})

\* While Explorer runs and has told all its news, the icon is there, with the
\* picture and the text set so far, however Explorer's ends and restarts fall
\* between the steps that make the icon (initInstance, SetIcon, SetTooltip,
\* wmTaskbarCreated).  Until WM_ENDSESSION has deleted it.
IconKept ==
    (pc = "loop" /\ window = "open" /\ explorer /\ ~deleted /\ ~Pending({"taskbar"}))
        => shown = nid /\ nid # {}

\* Once agent-gui knows of the session, its lock flag is that of the session as
\* soon as the notifications posted are handled: none is lost or taken out of
\* order, those posted before the message loop ran included.
LockFollows ==
    (pc = "loop" /\ window = "open" /\ registered /\ known /\ Heard) => locked = session

\* The icon, and the state that it is made from.
IconRight == TypeOK /\ IconKept
=============================================================================
