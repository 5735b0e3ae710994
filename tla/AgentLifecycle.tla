--------------------------- MODULE AgentLifecycle ---------------------------
(***************************************************************************)
(* The life of agent-gui (src/cmd/agent/main.go, src/agent/agent.go,       *)
(* src/agent/connector.go and the window procedure of src/systray): the    *)
(* single instance lock, the gpg-agent it finds, starts and stops, the     *)
(* sockets it serves, the messages that end it, and its death at any       *)
(* moment.  An instance is one start of the program.                       *)
(*                                                                         *)
(* The four sockets of gpg-agent are one file here, named by the gpg-agent *)
(* that made it.  Variables of the user environment and the clipboard      *)
(* server are left out.                                                    *)
(***************************************************************************)
EXTENDS Integers, Sequences

CONSTANTS Instances,      \* starts of agent-gui
          MaxGpg,         \* bound: gpg-agent processes ever started
          Convs,          \* conversations accepted by any instance
          MaxEndSession,  \* bound: WM_ENDSESSION messages an instance is sent
          HasXAgent,      \* gui.xagent_cookie_size > 0
          HasExtraPort,   \* gui.extra_port # 0
          User,           \* whoever else starts gpg-agent: gpg itself does
          NoOne           \* nobody

ASSUME InstancesAssumption == User \notin Instances /\ NoOne \notin Instances \cup {User}
ASSUME LimitsAssumption == MaxGpg \in Nat /\ MaxEndSession \in Nat
ASSUME ConfigAssumption == HasXAgent \in BOOLEAN /\ HasExtraPort \in BOOLEAN

Gpgs == 1..MaxGpg

If(cond, k) == IF cond THEN <<k>> ELSE << >>

\* The order run serves the connectors in; its deferred Closes undo it.
ServeOrder == If(HasXAgent, "XShell") \o <<"CygwinSSH", "PipeSSH", "SSH">>
              \o If(HasExtraPort, "ExtraPort") \o <<"Agent", "AgentExtra">>

\* The order of Agent.conns, in which Stop closes them.
ConnOrder == <<"Agent", "AgentExtra", "SSH", "PipeSSH", "CygwinSSH">>
             \o If(HasExtraPort, "ExtraPort") \o If(HasXAgent, "XShell")

Connectors == {ServeOrder[n] : n \in 1..Len(ServeOrder)}

\* The connectors that have a file under gui.homedir.
FileBacked == Connectors \ {"PipeSSH", "ExtraPort", "XShell"}

VARIABLES
    pc,        \* pc[i]: where the main thread of i stands
    idx,       \* idx[i]: the index of the loop over connectors it is in
    cmd,       \* cmd[i]: Agent.cmd, the gpg-agent i started, or 0
    lsn,       \* lsn[i]: the connectors of i with an open listener
    posted,    \* posted[i]: WM_CLOSE is in the message queue
    quitting,  \* quitting[i]: the window is being destroyed
    sessions,  \* sessions[i]: WM_ENDSESSION messages so far
    menu       \* menu[i]: the goroutine onReady starts

VARIABLES
    lockFile,  \* whose lock file there is
    held,      \* the instances that have the lock file open
    guiFile,   \* guiFile[k]: whose file serves k
    gst,       \* gst[g]: the state of gpg-agent process g
    owner,     \* owner[g]: who started it
    sockFile,  \* the gpg-agent whose socket file there is, or 0
    cst,       \* cst[c]: the state of conversation c
    cof        \* cof[c]: the instance that accepted it

\* History variables: only the properties read them.
VARIABLES
    abrupt,    \* the instances that died, or left the message loop on an error
    told       \* told[i]: the gpg-agent that last answered KILLAGENT of i, or 0

mainVars == <<pc, idx, cmd, lsn>>
trayVars == <<posted, quitting, sessions, menu>>
fileVars == <<lockFile, held, guiFile>>
gpgVars  == <<gst, owner, sockFile>>
convVars == <<cst, cof>>
histVars == <<abrupt, told>>
vars == <<mainVars, trayVars, fileVars, gpgVars, convVars, histVars>>

PCs == {"off", "stat", "create", "kill", "new", "depart", "serve", "env", "spawn",
        "arrive", "reset", "loop", "stop", "killagent", "wait",
        "unwind", "unlock", "unlink", "end"}

MainType == /\ pc \in [Instances -> PCs]
            /\ idx \in [Instances -> 0..Len(ServeOrder)]
            /\ cmd \in [Instances -> 0..MaxGpg]
            /\ lsn \in [Instances -> SUBSET Connectors]
TrayType == /\ posted \in [Instances -> BOOLEAN] /\ quitting \in [Instances -> BOOLEAN]
            /\ sessions \in [Instances -> 0..MaxEndSession]
            /\ menu \in [Instances -> {"none", "select", "box", "exit", "done"}]
FileType == /\ lockFile \in Instances \cup {NoOne}
            /\ held \in SUBSET Instances
            /\ guiFile \in [FileBacked -> Instances \cup {NoOne}]
GpgType  == /\ gst \in [Gpgs -> {"none", "starting", "ready", "stopping", "gone"}]
            /\ owner \in [Gpgs -> Instances \cup {User, NoOne}]
            /\ sockFile \in 0..MaxGpg
ConvType == /\ cst \in [Convs -> {"none", "accepted", "live", "over", "cut"}]
            /\ cof \in [Convs -> Instances \cup {NoOne}]
HistType == /\ abrupt \in SUBSET Instances
            /\ told \in [Instances -> 0..MaxGpg]

\* The values each part of the state ranges over, one conjunct for each part.
TypeOK == MainType /\ TrayType /\ FileType /\ GpgType /\ ConvType /\ HistType

Running(g) == gst[g] \in {"starting", "ready", "stopping"}
Answers(g) == g # 0 /\ gst[g] = "ready"

Init ==
    /\ pc = [i \in Instances |-> "off"]
    /\ idx = [i \in Instances |-> 0]
    /\ cmd = [i \in Instances |-> 0]
    /\ lsn = [i \in Instances |-> {}]
    /\ posted = [i \in Instances |-> FALSE] /\ quitting = [i \in Instances |-> FALSE]
    /\ sessions = [i \in Instances |-> 0]
    /\ menu = [i \in Instances |-> "none"]
    /\ lockFile = NoOne /\ held = {}
    /\ guiFile = [k \in FileBacked |-> NoOne]
    /\ gst = [g \in Gpgs |-> "none"]
    /\ owner = [g \in Gpgs |-> NoOne]
    /\ sockFile = 0
    /\ cst = [c \in Convs |-> "none"]
    /\ cof = [c \in Convs |-> NoOne]
    /\ abrupt = {}
    /\ told = [i \in Instances |-> 0]

Goto(i, to) == pc' = [pc EXCEPT ![i] = to]

\* The process of i is gone, and with it its handles and its goroutines.
Exit(i) ==
    /\ Goto(i, "end")
    /\ lsn' = [lsn EXCEPT ![i] = {}]
    /\ held' = held \ {i}
    /\ cst' = [c \in Convs |-> IF cof[c] = i /\ cst[c] \in {"accepted", "live"} THEN "cut" ELSE cst[c]]

-----------------------------------------------------------------------------
(* main, up to run.                                                        *)

Launch(i) ==
    /\ pc[i] = "off"
    /\ Goto(i, "stat")
    /\ UNCHANGED <<idx, cmd, lsn, trayVars, fileVars, gpgVars, convVars, histVars>>

StatLock_Unix(i) ==
    /\ pc[i] = "stat"
    /\ Goto(i, "create")
    /\ lockFile' = NoOne
    /\ UNCHANGED <<idx, cmd, lsn, trayVars, held, guiFile, gpgVars, convVars, histVars>>

\* CreateLockFile: a lock file nobody has open is removed, one that is open
\* cannot be.
StatLock(i) ==
    /\ pc[i] = "stat"
    /\ IF lockFile \in held
       THEN Exit(i) /\ UNCHANGED lockFile
       ELSE /\ Goto(i, "create")
            /\ lockFile' = NoOne
            /\ UNCHANGED <<lsn, held, cst>>
    /\ UNCHANGED <<idx, cmd, trayVars, guiFile, gpgVars, cof, histVars>>

CreateLock_NotExclusive(i) ==
    /\ pc[i] = "create"
    /\ Goto(i, "kill")
    /\ lockFile' = i /\ held' = held \cup {i}
    /\ UNCHANGED <<idx, cmd, lsn, trayVars, guiFile, gpgVars, convVars, histVars>>

\* O_CREATE and O_EXCL.
CreateLock(i) ==
    /\ pc[i] = "create"
    /\ IF lockFile # NoOne
       THEN Exit(i) /\ UNCHANGED lockFile
       ELSE /\ Goto(i, "kill")
            /\ lockFile' = i /\ held' = held \cup {i}
            /\ UNCHANGED <<lsn, cst>>
    /\ UNCHANGED <<idx, cmd, trayVars, guiFile, gpgVars, cof, histVars>>

KillRunningAgent_None(i) ==
    /\ pc[i] = "kill"
    /\ Goto(i, "new")
    /\ UNCHANGED <<idx, cmd, lsn, trayVars, fileVars, gpgVars, convVars, histVars>>

\* Kills the first process with the name of gpg-agent and looks no further.
KillRunningAgent(i) ==
    /\ pc[i] = "kill"
    /\ \/ /\ \E g \in Gpgs : Running(g) /\ gst' = [gst EXCEPT ![g] = "gone"]
          /\ Goto(i, "new")
          /\ UNCHANGED <<lsn, held, cst>>
       \/ /\ \A g \in Gpgs : ~Running(g)
          /\ Goto(i, "new")
          /\ UNCHANGED <<gst, lsn, held, cst>>
       \/ Exit(i) /\ UNCHANGED gst
    /\ UNCHANGED <<idx, cmd, trayVars, lockFile, guiFile, owner, sockFile, cof, histVars>>

\* gpg-agent --version, which may fail.
NewAgent(i) ==
    /\ pc[i] = "new"
    /\ \/ Goto(i, "depart") /\ UNCHANGED <<lsn, held, cst>>
       \/ Exit(i)
    /\ UNCHANGED <<idx, cmd, trayVars, lockFile, guiFile, gpgVars, cof, histVars>>

\* The socket files are removed, or still there when five seconds are over.
WaitForFileDeparture(i) ==
    /\ pc[i] = "depart"
    /\ sockFile' \in {0, sockFile}
    /\ Goto(i, "serve")
    /\ UNCHANGED <<idx, cmd, lsn, trayVars, fileVars, gst, owner, convVars, histVars>>

-----------------------------------------------------------------------------
(* run.                                                                    *)

\* Its loop over what it has to serve.  A connector replaces the file it finds;
\* if it fails run returns, through the deferred calls so far.
Serve(i) ==
    /\ pc[i] = "serve" /\ idx[i] < Len(ServeOrder)
    /\ LET k == ServeOrder[idx[i] + 1] IN
       \/ /\ lsn' = [lsn EXCEPT ![i] = @ \cup {k}]
          /\ guiFile' = [f \in FileBacked |-> IF f = k THEN i ELSE guiFile[f]]
          /\ idx' = [idx EXCEPT ![i] = @ + 1]
          /\ UNCHANGED pc
       \/ /\ Goto(i, "unwind")
          /\ UNCHANGED <<lsn, guiFile, idx>>
    /\ UNCHANGED <<cmd, trayVars, lockFile, held, gpgVars, convVars, histVars>>

Served(i) ==
    /\ pc[i] = "serve" /\ idx[i] = Len(ServeOrder)
    /\ Goto(i, "env")
    /\ UNCHANGED <<idx, cmd, lsn, trayVars, fileVars, gpgVars, convVars, histVars>>

SetVars(i) ==
    /\ pc[i] = "env"
    /\ \E to \in {"spawn", "unwind"} : Goto(i, to)
    /\ UNCHANGED <<idx, cmd, lsn, trayVars, fileVars, gpgVars, convVars, histVars>>

\* A process that did not exist so far.
Spawn(g, who) ==
    /\ gst[g] = "none" /\ \A h \in 1..g - 1 : gst[h] # "none"
    /\ gst' = [gst EXCEPT ![g] = "starting"]
    /\ owner' = [owner EXCEPT ![g] = who]

\* Agent.Start, as far as cmd.Start.
Start(i) ==
    /\ pc[i] = "spawn"
    /\ \/ /\ \E g \in Gpgs : Spawn(g, i) /\ cmd' = [cmd EXCEPT ![i] = g]
          /\ Goto(i, "arrive")
       \/ Goto(i, "unwind") /\ UNCHANGED <<cmd, gst, owner>>
    /\ UNCHANGED <<idx, lsn, trayVars, fileVars, sockFile, convVars, histVars>>

ForceCleanup_None(i) == UNCHANGED gst
\* Process.Kill, which does nothing to a process that has ended.
ForceCleanup(i) ==
    gst' = [g \in Gpgs |-> IF g = cmd[i] /\ Running(g) THEN "gone" ELSE gst[g]]

\* Any socket file will do; or five seconds are over.
WaitForFileArrival(i) ==
    /\ pc[i] = "arrive"
    /\ \/ sockFile # 0 /\ Goto(i, "reset") /\ UNCHANGED gst
       \/ Goto(i, "unwind") /\ ForceCleanup(i)
    /\ UNCHANGED <<idx, cmd, lsn, trayVars, fileVars, owner, sockFile, convVars, histVars>>

\* RESET, and on to systray.Run if somebody answers it.  registerSystray only
\* logs its failure: the program then serves without a menu.
Reset(i) ==
    /\ pc[i] = "reset"
    /\ \/ /\ Answers(sockFile) /\ Goto(i, "loop")
          /\ \E m \in {"select", "none"} : menu' = [menu EXCEPT ![i] = m]
          /\ UNCHANGED gst
       \/ Goto(i, "unwind") /\ ForceCleanup(i) /\ UNCHANGED menu
    /\ UNCHANGED <<idx, cmd, lsn, posted, quitting, sessions, fileVars, owner, sockFile, convVars, histVars>>

-----------------------------------------------------------------------------
(* The message loop and the menu.                                          *)

\* A click reaches the menu goroutine only when it is waiting for one; the
\* others are dropped.
Click(i, to) ==
    /\ pc[i] = "loop" /\ menu[i] = "select"
    /\ menu' = [menu EXCEPT ![i] = to]
    /\ UNCHANGED <<mainVars, posted, quitting, sessions, fileVars, gpgVars, convVars, histVars>>

DismissBox(i) ==
    /\ menu[i] = "box" /\ pc[i] # "end"
    /\ menu' = [menu EXCEPT ![i] = "select"]
    /\ UNCHANGED <<mainVars, posted, quitting, sessions, fileVars, gpgVars, convVars, histVars>>

\* systray.Quit: WM_CLOSE is posted, once.
Quit(i) ==
    /\ menu[i] = "exit" /\ pc[i] # "end"
    /\ menu' = [menu EXCEPT ![i] = "done"]
    /\ posted' = [posted EXCEPT ![i] = TRUE]
    /\ UNCHANGED <<mainVars, quitting, sessions, fileVars, gpgVars, convVars, histVars>>

\* WM_CLOSE destroys the window, and WM_DESTROY calls onExit.
WmClose(i) ==
    /\ pc[i] = "loop" /\ posted[i]
    /\ Goto(i, "stop")
    /\ idx' = [idx EXCEPT ![i] = 0]
    /\ posted' = [posted EXCEPT ![i] = FALSE]
    /\ quitting' = [quitting EXCEPT ![i] = TRUE]
    /\ UNCHANGED <<cmd, lsn, sessions, menu, fileVars, gpgVars, convVars, histVars>>

\* WM_ENDSESSION calls onExit, whether or not the session ends.
WmEndSession(i) ==
    /\ pc[i] = "loop" /\ sessions[i] < MaxEndSession
    /\ Goto(i, "stop")
    /\ idx' = [idx EXCEPT ![i] = 0]
    /\ sessions' = [sessions EXCEPT ![i] = @ + 1]
    /\ UNCHANGED <<cmd, lsn, posted, quitting, menu, fileVars, gpgVars, convVars, histVars>>

\* GetMessage fails: the loop returns and onExit is not called.
LoopError(i) ==
    /\ pc[i] = "loop"
    /\ Goto(i, "unwind")
    /\ idx' = [idx EXCEPT ![i] = Len(ServeOrder)]
    /\ abrupt' = abrupt \cup {i}
    /\ UNCHANGED <<cmd, lsn, trayVars, fileVars, gpgVars, convVars, told>>

-----------------------------------------------------------------------------
(* Agent.Stop, called by onExit.                                           *)

\* Connector.Close: the listener, and the file whoever made it.
Close(i, k) ==
    /\ lsn' = [lsn EXCEPT ![i] = @ \ {k}]
    /\ guiFile' = [f \in FileBacked |-> IF f = k THEN NoOne ELSE guiFile[f]]

StopConnector(i) ==
    /\ pc[i] = "stop" /\ idx[i] < Len(ConnOrder)
    /\ Close(i, ConnOrder[idx[i] + 1])
    /\ idx' = [idx EXCEPT ![i] = @ + 1]
    /\ UNCHANGED <<pc, cmd, trayVars, lockFile, held, gpgVars, convVars, histVars>>

\* cancel: the goroutine of Start waits for wg, and nobody waits for it.
Cancel(i) ==
    /\ pc[i] = "stop" /\ idx[i] = Len(ConnOrder)
    /\ Goto(i, "killagent")
    /\ UNCHANGED <<idx, cmd, lsn, trayVars, fileVars, gpgVars, convVars, histVars>>

\* Where Stop returns to: the message loop, which WM_QUIT ends.
Return(i) == IF quitting[i] THEN "unwind" ELSE "loop"
Rewind_OffByOne(i) == idx' = [idx EXCEPT ![i] = Len(ServeOrder) + 1]
Rewind(i) == idx' = [idx EXCEPT ![i] = Len(ServeOrder)]

KillAgent_Waits(i) ==
    /\ pc[i] = "killagent"
    /\ gst' = [g \in Gpgs |-> IF g = sockFile /\ Answers(g) THEN "stopping" ELSE gst[g]]
    /\ told' = [told EXCEPT ![i] = IF Answers(sockFile) THEN sockFile ELSE @]
    /\ Goto(i, "wait")
    /\ UNCHANGED <<idx, cmd, lsn, trayVars, fileVars, owner, sockFile, convVars, abrupt>>

\* KILLAGENT to whoever answers on the socket.
KillAgent(i) ==
    /\ pc[i] = "killagent"
    /\ \/ /\ Answers(sockFile)
          /\ gst' = [gst EXCEPT ![sockFile] = "stopping"]
          /\ told' = [told EXCEPT ![i] = sockFile]
          /\ Goto(i, "wait") /\ UNCHANGED idx
       \/ /\ ForceCleanup(i) /\ UNCHANGED told
          /\ Goto(i, Return(i)) /\ Rewind(i)
    /\ UNCHANGED <<cmd, lsn, trayVars, fileVars, owner, sockFile, convVars, abrupt>>

\* cmd.Wait has no timeout.
WaitCmd(i) ==
    /\ pc[i] = "wait" /\ ~Running(cmd[i])
    /\ Goto(i, Return(i)) /\ Rewind(i)
    /\ UNCHANGED <<cmd, lsn, trayVars, fileVars, gpgVars, convVars, histVars>>

-----------------------------------------------------------------------------
(* The end of run and main.                                                *)

\* The deferred Closes, last served first.
Deferred(i) ==
    /\ pc[i] = "unwind" /\ idx[i] > 0
    /\ Close(i, ServeOrder[idx[i]])
    /\ idx' = [idx EXCEPT ![i] = @ - 1]
    /\ UNCHANGED <<pc, cmd, trayVars, lockFile, held, gpgVars, convVars, histVars>>

RunReturns(i) ==
    /\ pc[i] = "unwind" /\ idx[i] = 0
    /\ Goto(i, "unlock")
    /\ UNCHANGED <<idx, cmd, lsn, trayVars, fileVars, gpgVars, convVars, histVars>>

CloseLock(i) ==
    /\ pc[i] = "unlock"
    /\ held' = held \ {i}
    /\ Goto(i, "unlink")
    /\ UNCHANGED <<idx, cmd, lsn, trayVars, lockFile, guiFile, gpgVars, convVars, histVars>>

\* os.Remove(lockName) fails if another instance has it open by now.
RemoveLock(i) ==
    /\ pc[i] = "unlink"
    /\ lockFile' = IF lockFile \in held THEN lockFile ELSE NoOne
    /\ Exit(i)
    /\ UNCHANGED <<idx, cmd, trayVars, guiFile, gpgVars, cof, histVars>>

Crash(i) ==
    /\ pc[i] \notin {"off", "end"}
    /\ Exit(i)
    /\ abrupt' = abrupt \cup {i}
    /\ UNCHANGED <<idx, cmd, trayVars, lockFile, guiFile, gpgVars, cof, told>>

-----------------------------------------------------------------------------
(* Conversations: the accept loops and what they start.                    *)

Accept(c, i) ==
    /\ cst[c] = "none" /\ lsn[i] # {}
    /\ cst' = [cst EXCEPT ![c] = "accepted"]
    /\ cof' = [cof EXCEPT ![c] = i]
    /\ UNCHANGED <<mainVars, trayVars, fileVars, gpgVars, histVars>>

\* wg.Add(1); and the end of the handler, wg.Done().
Converse(c, from, to) ==
    /\ cst[c] = from
    /\ cst' = [cst EXCEPT ![c] = to]
    /\ UNCHANGED <<mainVars, trayVars, fileVars, gpgVars, cof, histVars>>

(* gpg-agent, and gpg, which starts one when it finds none.                *)

\* A gpg-agent that finds another one answering ends.
GpgListens(g) ==
    /\ gst[g] = "starting"
    /\ IF Answers(sockFile)
       THEN gst' = [gst EXCEPT ![g] = "gone"] /\ UNCHANGED sockFile
       ELSE gst' = [gst EXCEPT ![g] = "ready"] /\ sockFile' = g
    /\ UNCHANGED <<mainVars, trayVars, fileVars, owner, convVars, histVars>>

GpgExits(g) ==
    /\ gst[g] = "stopping"
    /\ gst' = [gst EXCEPT ![g] = "gone"]
    /\ sockFile' = IF sockFile = g THEN 0 ELSE sockFile
    /\ UNCHANGED <<mainVars, trayVars, fileVars, owner, convVars, histVars>>

GpgDies(g) ==
    /\ Running(g)
    /\ gst' = [gst EXCEPT ![g] = "gone"]
    /\ UNCHANGED <<mainVars, trayVars, fileVars, owner, sockFile, convVars, histVars>>

UserStartsGpg(g) ==
    /\ ~Answers(sockFile)
    /\ Spawn(g, User)
    /\ UNCHANGED <<mainVars, trayVars, fileVars, sockFile, convVars, histVars>>

-----------------------------------------------------------------------------
\* The main thread of i, which a reader of main.go would follow.
Main(i) ==
    \/ StatLock(i) \/ CreateLock(i) \/ KillRunningAgent(i) \/ NewAgent(i)
    \/ WaitForFileDeparture(i) \/ Serve(i) \/ Served(i) \/ SetVars(i)
    \/ Start(i) \/ WaitForFileArrival(i) \/ Reset(i) \/ WmClose(i)
    \/ StopConnector(i) \/ Cancel(i) \/ KillAgent(i) \/ WaitCmd(i)
    \/ Deferred(i) \/ RunReturns(i) \/ CloseLock(i) \/ RemoveLock(i)

Outside(i) ==
    \/ Launch(i) \/ Crash(i) \/ WmEndSession(i) \/ LoopError(i)
    \/ \E to \in {"box", "exit"} : Click(i, to)
    \/ DismissBox(i)

Conversation ==
    \E c \in Convs :
        \/ \E i \in Instances : Accept(c, i)
        \/ Converse(c, "accepted", "live") \/ Converse(c, "live", "over")

Gpg(g) == GpgListens(g) \/ GpgExits(g)

Next ==
    \/ \E i \in Instances : Main(i) \/ Quit(i) \/ Outside(i)
    \/ \E g \in Gpgs : Gpg(g) \/ GpgDies(g) \/ UserStartsGpg(g)
    \/ Conversation

Spec == Init /\ [][Next]_vars

\* The threads of agent-gui run, its waits are bounded by timers, and a
\* gpg-agent that was told to listen or to exit does so.  Nothing is asked of
\* users, of Windows or of the clients.
Fairness ==
    /\ \A i \in Instances : WF_vars(Main(i)) /\ WF_vars(Quit(i))
    /\ \A g \in Gpgs : WF_vars(Gpg(g))

FairSpec == Spec /\ Fairness

-----------------------------------------------------------------------------
(* Properties.                                                             *)

\* The instances that are past the lock and have not given it back.
Inside == {i \in Instances : pc[i] \notin {"off", "stat", "create", "unlink", "end"}}

\* However many are started, and whenever they crash or exit, one agent-gui at
\* a time gets past its lock (main.go:308-313, 340-341).
OneInstance == \A i, j \in Inside : i = j

\* The file of a socket that an instance serves is removed or replaced by that
\* instance only: neither a Serve nor one of the two Closes that every connector
\* is given (agent.go:266-268, the deferred calls of run) hits another's file.
OwnFiles ==
    [][\A k \in FileBacked : LET i == guiFile[k] IN
          i # NoOne /\ pc[i] # "end" /\ guiFile'[k] # i => idx'[i] # idx[i]]_vars

\* An instance that ends in order, whatever failed on its way, leaves neither
\* the gpg-agent it started nor a file of its sockets.
CleanEnd ==
    \A i \in Instances : pc[i] = "end" /\ i \notin abrupt =>
        /\ cmd[i] # 0 => ~Running(cmd[i])
        /\ \A k \in FileBacked : guiFile[k] # i

\* As long as nobody else starts gpg-agent there is never more than one, even
\* if agent-gui crashed and left one behind (main.go:320-325).
OneAgent ==
    (\A g \in Gpgs : owner[g] # User) =>
        \A g, h \in Gpgs : Running(g) /\ Running(h) => g = h

\* Stop waits for the gpg-agent of i and has told another one to exit: the one
\* that answered on the socket when its own was still starting.
Unheard(i) == pc[i] = "wait" /\ told[i] \notin {0, cmd[i]}

\* Exit, once Quit has posted it, ends the program, though Stop waits for
\* gpg-agent without a timeout (agent.go:273-288), except where KILLAGENT went
\* to a gpg-agent that is not its own.
QuitEnds == \A i \in Instances : posted[i] ~> pc[i] = "end" \/ Unheard(i)

\* Conversations in flight are seen to completion unless agent-gui crashes.
SeenToCompletion ==
    \A c \in Convs : cst[c] = "cut" => cof[c] \in abrupt
=============================================================================
