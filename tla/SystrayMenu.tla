---------------------------- MODULE SystrayMenu ----------------------------
(***************************************************************************)
(* The popup menu of src/systray: what goroutines that add, change, hide   *)
(* and show menu items make of menuItems, winTray.menus, menuOf and        *)
(* visibleItems, each under a lock of its own, and of the menus of Windows *)
(* between the locks.                                                      *)
(*                                                                         *)
(* A call of the library is a sequence of steps, one for each lock held or *)
(* Windows call made.  An item is known to a caller once the call that     *)
(* adds it has returned.  The look of an item (title, check mark, icon) is *)
(* left out.  In Windows a menu is a sequence of entries; a handle stays   *)
(* invalid once its menu is destroyed; calls by command also look into the *)
(* sub-menus.                                                              *)
(***************************************************************************)
EXTENDS Integers, Sequences, SequencesExt

CONSTANTS Callers,  \* the goroutines
          Ops,      \* the calls they make
          Private,  \* each touches only items it has added itself
          MaxId,    \* bound: item ids
          MaxMenus, \* bound: menus created
          Nobody    \* no goroutine

MenuAssumption ==
    /\ Nobody \notin Callers /\ Private \in BOOLEAN
    /\ Ops \subseteq {"add", "sub", "separator", "update", "hide", "show"}
    /\ MaxId \in Nat /\ MaxMenus \in Nat \ {0}

VARIABLES
    at,         \* at[c]: the step its call is at
    item,       \* item[c]: the item the call is about
    menu,       \* menu[c]: the local variable menu
    pos,        \* pos[c]: the local variable position, counted from 1; 0 for -1
    currentID,  \* currentID
    menuItems,  \* the ids in menuItems
    parent,     \* parent[i]: the id of the item that i is below, or 0
    menus,      \* t.menus: a handle for each parent, or 0
    menuOf,     \* t.menuOf
    visible     \* t.visibleItems

\* The menus of Windows.
VARIABLES
    win,        \* win[h]: the entries of menu h
    live,       \* the menus that have not been destroyed
    made        \* the menus that have been created: 1..made

\* History variables: only the properties read them.
VARIABLES
    owner,      \* owner[i]: the goroutine that has added i; Nobody until it has
    hides       \* hides[i]: "never", "hidden" or "shown" since

callVars == <<at, item, menu, pos>>
trayVars == <<currentID, menuItems, parent, menus, menuOf, visible>>
winVars == <<win, live, made>>
vars == <<callVars, trayVars, winVars, owner, hides>>

Ids == 1..MaxId
Root == 1
Entry == [id : Ids, type : {"string", "separator"}, sub : 0..MaxMenus]
Steps == {"store", "lookup", "create", "attach", "record", "check", "set",
          "addvis", "pos", "insert", "own", "undo",
          "sepvis", "seppos", "sepinsert", "hide", "delete", "delvis"}

\* The values each part of the state ranges over.
TypeOK ==
    /\ at \in [Callers -> {"idle"} \cup Steps]
    /\ item \in [Callers -> 0..MaxId] /\ menu \in [Callers -> 0..MaxMenus]
    /\ pos \in [Callers -> Nat]
    /\ currentID \in 0..MaxId /\ menuItems \subseteq Ids
    /\ parent \in [Ids -> 0..MaxId]
    /\ menus \in [0..MaxId -> 0..MaxMenus] /\ menuOf \in [Ids -> 0..MaxMenus]
    /\ visible \in [0..MaxId -> Seq(Ids)]
    /\ win \in [1..MaxMenus -> Seq(Entry)]
    /\ live \subseteq 1..made /\ made \in 1..MaxMenus
    /\ owner \in [Ids -> Callers \cup {Nobody}]
    /\ hides \in [Ids -> {"never", "hidden", "shown"}]

\* After createMenu.
Init ==
    /\ at = [c \in Callers |-> "idle"] /\ item = [c \in Callers |-> 0]
    /\ menu = [c \in Callers |-> 0] /\ pos = [c \in Callers |-> 0]
    /\ currentID = 0 /\ menuItems = {}
    /\ parent = [i \in Ids |-> 0]
    /\ menus = [i \in 0..MaxId |-> IF i = 0 THEN Root ELSE 0]
    /\ menuOf = [i \in Ids |-> 0]
    /\ visible = [i \in 0..MaxId |-> << >>]
    /\ win = [h \in 1..MaxMenus |-> << >>] /\ live = {Root} /\ made = 1
    /\ owner = [i \in Ids |-> Nobody] /\ hides = [i \in Ids |-> "never"]

Put(f, x, v) == [f EXCEPT ![x] = v]
Goto(c, to) == at' = Put(at, c, to)
Parent(c) == parent[item[c]]

\* The call is over, and its local variables with it.
Leave(c) ==
    /\ Goto(c, "idle")
    /\ item' = Put(item, c, 0) /\ menu' = Put(menu, c, 0) /\ pos' = Put(pos, c, 0)

\* An error on the way is logged and no more: the caller has its item.
Returns(c) ==
    /\ Leave(c)
    /\ owner' = IF owner[item[c]] = Nobody THEN Put(owner, item[c], c) ELSE owner

-----------------------------------------------------------------------------
(* Windows.                                                                *)

MenuIds(h) == [n \in DOMAIN win[h] |-> win[h][n].id]

\* Menu h and the menus below it, as far as they have not been destroyed.
Below(h) ==
    LET upTo[d \in 0..MaxMenus] ==
            IF d = 0 THEN {h} \cap live
            ELSE upTo[d - 1]
                 \cup ({e.sub : e \in UNION {Range(win[g]) : g \in upTo[d - 1]}} \cap live)
    IN IF h = 0 THEN {} ELSE upTo[MaxMenus]

\* Where a call by command on menu h finds item i: <<menu, index>>, if anywhere.
Places(h, i) == UNION {{g} \X {n \in DOMAIN win[g] : win[g][n].id = i} : g \in Below(h)}

\* InsertMenuItem by position; any other position is the end.
WithEntry(s, n, e) == IF n \in 1..Len(s) THEN InsertAt(s, n, e) ELSE Append(s, e)
Insert(c, type) ==
    win' = Put(win, menu[c], WithEntry(win[menu[c]], pos[c], [id |-> item[c], type |-> type, sub |-> 0]))

-----------------------------------------------------------------------------
(* The beginnings of the calls.                                            *)

New(c, op, par, step) ==
    /\ op \in Ops /\ at[c] = "idle" /\ currentID < MaxId
    /\ currentID' = currentID + 1
    /\ item' = Put(item, c, currentID')
    /\ parent' = Put(parent, currentID', par)
    /\ Goto(c, step)
    /\ UNCHANGED <<menu, pos, menuItems, menus, menuOf, visible, winVars, owner, hides>>

\* The items a goroutine may use.
Known(c) == {i \in Ids : IF Private THEN owner[i] = c ELSE owner[i] # Nobody}

AddMenuItem(c) == New(c, "add", 0, "store")
AddSeparator(c) == New(c, "separator", 0, "sepvis")
AddSubMenuItem(c) == \E i \in Known(c) : New(c, "sub", i, "store")

On(c, op, i, step) ==
    /\ op \in Ops /\ at[c] = "idle" /\ i \in Known(c)
    /\ item' = Put(item, c, i) /\ Goto(c, step)
    /\ UNCHANGED <<menu, pos, trayVars, winVars, owner>>

\* SetTitle, Enable, Disable, Check, Uncheck and their like.
Update(c) == \E i \in Ids : On(c, "update", i, "store") /\ UNCHANGED hides
Hide(c) == \E i \in Ids : On(c, "hide", i, "hide") /\ hides' = Put(hides, i, "hidden")
Show(c) ==
    \E i \in Ids : /\ On(c, "show", i, "lookup")
                   /\ hides' = IF hides[i] = "hidden" THEN Put(hides, i, "shown") ELSE hides

-----------------------------------------------------------------------------
(* update and addOrUpdateMenuItem.                                         *)

At(c, step) == at[c] = step /\ UNCHANGED hides

Store_Forgets(c) ==
    /\ At(c, "store") /\ Goto(c, "lookup")
    /\ UNCHANGED <<item, menu, pos, trayVars, winVars, owner>>

Store(c) ==
    /\ At(c, "store") /\ Goto(c, "lookup")
    /\ menuItems' = menuItems \cup {item[c]}
    /\ UNCHANGED <<item, menu, pos, currentID, parent, menus, menuOf, visible, winVars, owner>>

Lookup(c) ==
    /\ At(c, "lookup")
    /\ menu' = Put(menu, c, menus[Parent(c)])
    /\ Goto(c, IF menu'[c] = 0 THEN "create" ELSE "check")
    /\ UNCHANGED <<item, pos, trayVars, winVars, owner>>

\* convertToSubMenu.
Create(c) ==
    /\ At(c, "create") /\ made < MaxMenus
    /\ made' = made + 1 /\ live' = live \cup {made'}
    /\ menu' = Put(menu, c, made') /\ Goto(c, "attach")
    /\ UNCHANGED <<item, pos, trayVars, win, owner>>

\* The menu that an entry had before is destroyed.
Attach(c) ==
    /\ At(c, "attach")
    /\ LET found == Places(menuOf[Parent(c)], Parent(c)) IN
       \/ found = {} /\ Returns(c) /\ UNCHANGED <<trayVars, winVars>>
       \/ \E p \in found :
             /\ win' = [win EXCEPT ![p[1]][p[2]].sub = menu[c]]
             /\ live' = live \ Below(win[p[1]][p[2]].sub)
             /\ Goto(c, "record")
             /\ UNCHANGED <<item, menu, pos, trayVars, made, owner>>

Record_Child(c) ==
    /\ At(c, "record") /\ Goto(c, "addvis")
    /\ menus' = Put(menus, item[c], menu[c])
    /\ UNCHANGED <<item, menu, pos, currentID, menuItems, parent, menuOf, visible, winVars, owner>>

Record(c) ==
    /\ At(c, "record") /\ Goto(c, "addvis")
    /\ menus' = Put(menus, Parent(c), menu[c])
    /\ UNCHANGED <<item, menu, pos, currentID, menuItems, parent, menuOf, visible, winVars, owner>>

Index(c) ==
    LET v == visible[Parent(c)]
    IN IF \E n \in DOMAIN v : v[n] = item[c]
       THEN CHOOSE n \in DOMAIN v : v[n] = item[c] /\ \A m \in 1..n - 1 : v[m] # item[c]
       ELSE 0

Check_Never(c) ==
    /\ At(c, "check")
    /\ Goto(c, "addvis")
    /\ UNCHANGED <<item, menu, pos, trayVars, winVars, owner>>

Check(c) ==
    /\ At(c, "check")
    /\ Goto(c, IF Index(c) = 0 THEN "addvis" ELSE "set")
    /\ UNCHANGED <<item, menu, pos, trayVars, winVars, owner>>

\* SetMenuItemInfo: nothing that is modelled changes.
Set(c) ==
    /\ At(c, "set") /\ UNCHANGED <<trayVars, winVars>>
    /\ IF Places(menu[c], item[c]) # {} THEN Returns(c)
       ELSE Goto(c, "addvis") /\ UNCHANGED <<item, menu, pos, owner>>

\* sort.Slice of the ids: the same ones, in order.
Sort(s) ==
    CHOOSE t \in {[n \in DOMAIN s |-> s[p[n]]] : p \in Bijection(DOMAIN s, DOMAIN s)} :
        \A m, n \in DOMAIN t : m < n => t[m] <= t[n]

\* addToVisibleItems.
AddVisible(from, to, c) ==
    /\ At(c, from) /\ Goto(c, to)
    /\ visible' = Put(visible, Parent(c), Sort(Append(visible[Parent(c)], item[c])))
    /\ UNCHANGED <<item, menu, pos, currentID, menuItems, parent, menus, menuOf, winVars, owner>>

AddToVisible_Unsorted(c) ==
    /\ At(c, "addvis") /\ Goto(c, "pos")
    /\ visible' = Put(visible, Parent(c), Append(visible[Parent(c)], item[c]))
    /\ UNCHANGED <<item, menu, pos, currentID, menuItems, parent, menus, menuOf, winVars, owner>>

AddToVisible(c) == AddVisible("addvis", "pos", c)

Position(c) ==
    /\ At(c, "pos") /\ Goto(c, "insert")
    /\ pos' = Put(pos, c, Index(c))
    /\ UNCHANGED <<item, menu, trayVars, winVars, owner>>

InsertItem(c) ==
    /\ At(c, "insert")
    /\ IF menu[c] \in live
       THEN Insert(c, "string") /\ Goto(c, "own")
       ELSE UNCHANGED win /\ Goto(c, "undo")
    /\ UNCHANGED <<item, menu, pos, trayVars, live, made, owner>>

Own(c) ==
    /\ At(c, "own") /\ Returns(c)
    /\ menuOf' = Put(menuOf, item[c], menu[c])
    /\ UNCHANGED <<currentID, menuItems, parent, menus, visible, winVars>>

\* delFromVisibleItems: the first one.
DelFromVisible(c) ==
    /\ at[c] \in {"undo", "delvis"} /\ Returns(c)
    /\ visible' = IF Index(c) = 0 THEN visible
                  ELSE Put(visible, Parent(c), RemoveAt(visible[Parent(c)], Index(c)))
    /\ UNCHANGED <<currentID, menuItems, parent, menus, menuOf, winVars, hides>>

-----------------------------------------------------------------------------
(* addSeparatorMenuItem and hideMenuItem.                                  *)

SeparatorVisible(c) == AddVisible("sepvis", "seppos", c)

SeparatorPosition(c) ==
    /\ At(c, "seppos") /\ Goto(c, "sepinsert")
    /\ pos' = Put(pos, c, Index(c)) /\ menu' = Put(menu, c, menus[0])
    /\ UNCHANGED <<item, trayVars, winVars, owner>>

InsertSeparator(c) ==
    /\ At(c, "sepinsert") /\ Leave(c)
    /\ Insert(c, "separator")
    /\ UNCHANGED <<trayVars, live, made, owner>>

HideLookup(c) ==
    /\ At(c, "hide") /\ Goto(c, "delete")
    /\ menu' = Put(menu, c, menus[Parent(c)])
    /\ UNCHANGED <<item, pos, trayVars, winVars, owner>>

\* DeleteMenu, which destroys the sub-menu of the entry, too.
Delete(c) ==
    /\ At(c, "delete") /\ UNCHANGED trayVars
    /\ LET found == Places(menu[c], item[c]) IN
       \/ found = {} /\ Returns(c) /\ UNCHANGED winVars
       \/ \E p \in found :
             /\ win' = Put(win, p[1], RemoveAt(win[p[1]], p[2]))
             /\ live' = live \ Below(win[p[1]][p[2]].sub)
             /\ Goto(c, "delvis")
             /\ UNCHANGED <<item, menu, pos, made, owner>>

-----------------------------------------------------------------------------
Calls(c) ==
    \/ AddMenuItem(c) \/ AddSeparator(c) \/ AddSubMenuItem(c)
    \/ Update(c) \/ Hide(c) \/ Show(c)

Goes(c) ==
    \/ Store(c) \/ Lookup(c) \/ Create(c) \/ Attach(c) \/ Record(c) \/ Check(c) \/ Set(c)
    \/ AddToVisible(c) \/ Position(c) \/ InsertItem(c) \/ Own(c) \/ DelFromVisible(c)
    \/ SeparatorVisible(c) \/ SeparatorPosition(c) \/ InsertSeparator(c)
    \/ HideLookup(c) \/ Delete(c)

Next == \E c \in Callers : Calls(c) \/ Goes(c)

Spec == Init /\ [][Next]_vars

-----------------------------------------------------------------------------
(* Properties.                                                             *)

Quiet == \A c \in Callers : at[c] = "idle"
\* The items the user can get at.
Shown == UNION {Range(MenuIds(h)) : h \in Below(Root)}

\* The items that i is below.
Above(i) ==
    LET up[d \in 0..MaxId] == IF d = 0 THEN {i}
                              ELSE {parent[j] : j \in up[d - 1] \ {0}}
    IN (UNION {up[d] : d \in 1..MaxId}) \ {0}
Kept(is) == \A i \in is : hides[i] = "never"

\* The menus that only one goroutine adds to.
Sole(p) == (\A c, d \in Callers : c = d) \/ (Private /\ p # 0)

\* What the library believes of a menu is so once no call is under way: the
\* entries are those of visibleItems, each once, whatever has been added,
\* changed, hidden and shown before (addOrUpdateMenuItem, hideMenuItem).  Where
\* one goroutine adds them all they are in the order of the ids.  Only hiding an
\* item that has a sub-menu, which Windows destroys, leaves the books wrong.
MenuMirrors ==
    Quiet => \A p \in 0..MaxId :
        (menus[p] # 0 /\ Kept((Above(p) \cup {p}) \ {0}))
            => LET shown == MenuIds(menus[p]) IN
               /\ Range(shown) = Range(visible[p]) /\ Len(shown) = Len(visible[p])
               /\ Sole(p) => shown = Sort(shown)

\* No goroutine's call is undone by another's: when all calls are over an item
\* that was added, and not hidden since or shown again, is in the menu, unless
\* an item it is below was hidden.  As systray.go says of the calls that add
\* items, "it can be safely invoked from different goroutines".
AddedShown ==
    Quiet => \A i \in Ids :
        (owner[i] # Nobody /\ hides[i] # "hidden" /\ Kept(Above(i))) => i \in Shown

\* No item is in the menu twice, at any time: the look at visibleItems that
\* chooses between changing and inserting is still true when the menu is called.
EachOnce ==
    \A h \in live : \A m, n \in DOMAIN win[h] : m # n => win[h][m].id # win[h][n].id

\* A click on anything the menu shows finds its item (systrayMenuItemSelected),
\* from the moment it is shown.
ClickFindsItem ==
    \A h \in Below(Root) : \A n \in DOMAIN win[h] :
        win[h][n].type = "string" => win[h][n].id \in menuItems

\* The menu is right: all of this together.
MenuRight == TypeOK /\ MenuMirrors /\ AddedShown /\ EachOnce /\ ClickFindsItem
=============================================================================
