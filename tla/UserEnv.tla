------------------------------ MODULE UserEnv ------------------------------
(***************************************************************************)
(* The user environment, which agent-gui writes when it starts and cleans  *)
(* when it ends: setVars and its cleaner (src/cmd/agent/main.go) and the   *)
(* registry calls under them (src/util/setenv.go).  The registry outlives  *)
(* agent-gui, and other programs edit it too: each of its calls is a step, *)
(* and each may fail.                                                      *)
(*                                                                         *)
(* A variable is its place in vars of setVars, those with an empty value   *)
(* left out; all that is kept of a value is whose it is.  WSLENV is the    *)
(* set of its entries; an entry of ours has the name of its variable.      *)
(***************************************************************************)
EXTENDS Integers

CONSTANTS N,          \* how many variables there are
          Registered, \* those that are registered in WSLENV
          Foreign,    \* the entries others have in WSLENV
          Extending,  \* pairs of an entry and the variable whose name it begins with
          MaxStarts   \* bound: starts of agent-gui

ASSUME NAssumption == N \in Nat \ {0} /\ MaxStarts \in Nat
ASSUME RegisteredAssumption == Registered \subseteq 1..N
ASSUME ForeignAssumption == Foreign \cap (1..N) = {} /\ Extending \subseteq Foreign \X (1..N)

Vars == 1..N
Entries == Registered \cup Foreign

VARIABLES
    env,         \* env[v]: whose value variable v has in the registry
    wslenv,      \* the entries of WSLENV, none if there is no such value
    pc,          \* where agent-gui stands
    at,          \* the variable it is at
    initialized, \* vars[v].initialized
    val,         \* the WSLENV it has read
    starts       \* how often it was started

\* History variables: only the properties read them.
VARIABLES
    troubled,    \* the variables one of whose registry calls has failed in this start
    orphans,     \* what an earlier start has left and this one has not prepared
    touched      \* entries others have added or removed since val was read

procVars == <<pc, at, initialized, val, starts>>
histVars == <<troubled, orphans, touched>>
vars == <<env, wslenv, procVars, histVars>>

\* The values each part of the state ranges over.
TypeOK ==
    /\ env \in [Vars -> {"none", "user", "agent"}]
    /\ wslenv \in SUBSET Entries /\ val \in SUBSET Entries
    /\ pc \in {"off", "set", "get", "put", "run", "delete", "getBack", "putBack", "end", "dead"}
    /\ at \in 0..N + 1
    /\ initialized \in SUBSET Vars
    /\ starts \in 0..MaxStarts
    /\ troubled \in SUBSET Vars /\ orphans \in SUBSET Vars /\ touched \in SUBSET Foreign

Init ==
    /\ env \in [Vars -> {"none", "user"}]
    /\ wslenv \in SUBSET Foreign
    /\ pc = "off" /\ at = 0 /\ initialized = {} /\ val = {} /\ starts = 0
    /\ troubled = {} /\ orphans = {} /\ touched = {}

\* !strings.HasPrefix(part, name), for every part.
Without(entries, v) == {e \in entries : e # v /\ <<e, v>> \notin Extending}

Stays == UNCHANGED <<at, initialized, val, starts>>

-----------------------------------------------------------------------------
(* setVars: PrepareUserEnvironmentVariable for each variable.              *)

Start ==
    /\ pc \in {"off", "end", "dead"} /\ starts < MaxStarts
    /\ pc' = "set" /\ at' = 1 /\ starts' = starts + 1
    /\ initialized' = {} /\ val' = {}
    /\ troubled' = {}
    /\ orphans' = {v \in Vars : env[v] = "agent" \/ v \in wslenv}
    /\ UNCHANGED <<env, wslenv, touched>>

Prepared_OffByOne ==
    /\ initialized' = initialized \cup {at}
    /\ orphans' = orphans \ {at}
    /\ at' = at + 1
    /\ pc' = IF at > N THEN "run" ELSE "set"

\* The variable is done; the last one ends setVars.
Prepared ==
    /\ initialized' = initialized \cup {at}
    /\ orphans' = orphans \ {at}
    /\ at' = at + 1
    /\ pc' = IF at = N THEN "run" ELSE "set"

PrepareFails_NoCleaner ==
    /\ pc \in {"set", "get", "put"}
    /\ troubled' = troubled \cup {at}
    /\ pc' = "end" /\ at' = 0
    /\ UNCHANGED <<env, wslenv, initialized, val, starts, orphans, touched>>

\* A registry call of Prepare fails: the cleaner takes back what is initialized.
PrepareFails ==
    /\ pc \in {"set", "get", "put"}
    /\ troubled' = troubled \cup {at}
    /\ pc' = "delete" /\ at' = N
    /\ UNCHANGED <<env, wslenv, initialized, val, starts, orphans, touched>>

SetVariable ==
    /\ pc = "set"
    /\ env' = [env EXCEPT ![at] = "agent"]
    /\ IF at \in Registered
       THEN pc' = "get" /\ Stays /\ UNCHANGED orphans
       ELSE Prepared /\ UNCHANGED <<val, starts>>
    /\ UNCHANGED <<wslenv, troubled, touched>>

GetWslenv_Once ==
    /\ pc \in {"get", "getBack"}
    /\ val' = IF pc = "get" THEN wslenv ELSE val
    /\ touched' = {}
    /\ pc' = IF pc = "get" THEN "put" ELSE "putBack"
    /\ UNCHANGED <<env, wslenv, at, initialized, starts, troubled, orphans>>

GetWslenv ==
    /\ pc \in {"get", "getBack"}
    /\ val' = wslenv /\ touched' = {}
    /\ pc' = IF pc = "get" THEN "put" ELSE "putBack"
    /\ UNCHANGED <<env, wslenv, at, initialized, starts, troubled, orphans>>

PutWslenv_NotAdded ==
    /\ pc = "put"
    /\ wslenv' = Without(val, at)
    /\ Prepared
    /\ UNCHANGED <<env, val, starts, troubled, touched>>

PutWslenv ==
    /\ pc = "put"
    /\ wslenv' = Without(val, at) \cup {at}
    /\ Prepared
    /\ UNCHANGED <<env, val, starts, troubled, touched>>

-----------------------------------------------------------------------------
(* The end of run: the cleaner, last variable first.                       *)

RunReturns ==
    /\ pc = "run"
    /\ pc' = "delete" /\ at' = N
    /\ UNCHANGED <<env, wslenv, initialized, val, starts, histVars>>

\* vars[at] is cleaned, or was not initialized.
Previous == /\ initialized' = initialized \ {at}
            /\ at' = at - 1
            /\ pc' = IF at = 1 THEN "end" ELSE "delete"

Skip ==
    /\ pc = "delete" /\ at \notin initialized
    /\ Previous
    /\ UNCHANGED <<env, wslenv, val, starts, histVars>>

\* DeleteValue fails for a variable that somebody has removed, too.  Whatever
\* fails, the rest of this variable is given up and the cleaner goes on.
CleanFails ==
    /\ \/ pc = "delete" /\ at \in initialized
       \/ pc \in {"getBack", "putBack"}
    /\ troubled' = troubled \cup {at}
    /\ Previous
    /\ UNCHANGED <<env, wslenv, val, starts, orphans, touched>>

DeleteVariable ==
    /\ pc = "delete" /\ at \in initialized /\ env[at] # "none"
    /\ env' = [env EXCEPT ![at] = "none"]
    /\ IF at \in Registered
       THEN pc' = "getBack" /\ UNCHANGED <<initialized, at>>
       ELSE Previous
    /\ UNCHANGED <<wslenv, val, starts, histVars>>

\* WSLENV without the variable, or no WSLENV if nothing is left.
PutWslenvBack ==
    /\ pc = "putBack"
    /\ wslenv' = Without(val, at)
    /\ Previous
    /\ UNCHANGED <<env, val, starts, histVars>>

\* The process dies, or the session ends before run has returned.
Crash ==
    /\ pc \notin {"off", "end", "dead"}
    /\ pc' = "dead"
    /\ UNCHANGED <<env, wslenv, at, initialized, val, starts, histVars>>

-----------------------------------------------------------------------------
(* The user and other programs.                                            *)

UserSets(v) ==
    /\ env' = [env EXCEPT ![v] = IF env[v] = "user" THEN "none" ELSE "user"]
    /\ UNCHANGED <<wslenv, procVars, histVars>>

OtherEdits(e) ==
    /\ wslenv' = IF e \in wslenv THEN wslenv \ {e} ELSE wslenv \cup {e}
    /\ touched' = touched \cup {e}
    /\ UNCHANGED <<env, procVars, troubled, orphans>>

-----------------------------------------------------------------------------
Agent ==
    \/ Start \/ PrepareFails \/ SetVariable \/ GetWslenv \/ PutWslenv
    \/ RunReturns \/ Skip \/ CleanFails \/ DeleteVariable \/ PutWslenvBack
    \/ Crash

Next == \/ Agent
        \/ \E v \in Vars : UserSets(v)
        \/ \E e \in Foreign : OtherEdits(e)

Spec == Init /\ [][Next]_vars

-----------------------------------------------------------------------------
(* Properties.                                                             *)

\* An agent-gui that ends in order leaves a variable of its own or an entry for
\* it only where a registry call for that very variable has failed, or where an
\* earlier one had left it and this one did not get as far: what fails for one
\* variable spoils no other, and a start makes up for a crash (main.go:121-141).
NoLeftovers ==
    pc = "end" =>
        \A v \in Vars \ (troubled \cup orphans) : env[v] # "agent" /\ v \notin wslenv

\* While agent-gui runs every registered variable has its entry: registering one
\* keeps the entries of the others, and so do earlier starts that crashed
\* anywhere (setenv.go:65-83).
Announced ==
    pc = "run" => Registered \subseteq wslenv

\* agent-gui neither removes an entry of somebody else from WSLENV nor brings
\* one back, except for an entry edited between its read and its write, and for
\* one whose name begins with the name of a variable of its own
\* (setenv.go:65-83, 116-136).
OthersKept ==
    [][\A e \in Foreign :
          Agent /\ (e \in wslenv <=> e \notin wslenv') =>
              e \in touched \/ \E v \in Vars : <<e, v>> \in Extending]_vars
=============================================================================
