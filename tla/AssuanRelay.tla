---------------------------- MODULE AssuanRelay ----------------------------
(***************************************************************************)
(* The relay of agent-gui: handleAssuanRequest (src/agent/connector.go)    *)
(* and the accept loops that start it.  A connection has two sockets,      *)
(* "conn" (the client's) and "assuan" (dialled to gpg-agent), and two      *)
(* goroutines copying between them: "up" (conn -> assuan, the goroutine    *)
(* handleAssuanRequest starts) and "down" (assuan -> conn, the handler     *)
(* itself).  Each loops: check the session lock, arm the deadline of the   *)
(* socket it reads, io.Copy until an error; a deadline error after some    *)
(* bytes were copied starts another round, everything else ends the loop.  *)
(*                                                                         *)
(* A chunk is what one Read of io.Copy returns; only its number matters.   *)
(* Time is a timer per socket that, once armed, may run out at any moment. *)
(***************************************************************************)
EXTENDS Integers, Sequences, FiniteSets

CONSTANTS Conns,              \* connections accepted over the life of agent-gui
          MaxUp, MaxDown,     \* bounds: chunks the client and gpg-agent send
          HasDeadline,        \* gui.deadline # 0
          IgnoreSessionLock   \* gui.ignore_session_lock: Connector.locked = nil

ASSUME ConnsAssumption == IsFiniteSet(Conns)
ASSUME BoundsAssumption == MaxUp \in Nat /\ MaxDown \in Nat
ASSUME FlagsAssumption == HasDeadline \in BOOLEAN /\ IgnoreSessionLock \in BOOLEAN

(* A copier is one of the two goroutines of a connection, an end one of   *)
(* its two sockets.                                                        *)
Copiers == Conns \X {"up", "down"}
Ends    == Conns \X {"conn", "assuan"}

Up(c)   == <<c, "up">>
Down(c) == <<c, "down">>
Twin(k) == IF k[2] = "up" THEN Down(k[1]) ELSE Up(k[1])

\* The socket copier k reads, and the socket it writes.
Src(k) == IF k[2] = "up" THEN <<k[1], "conn">> ELSE <<k[1], "assuan">>
Snk(k) == IF k[2] = "up" THEN <<k[1], "assuan">> ELSE <<k[1], "conn">>

MaxChunks(k) == IF k[2] = "up" THEN MaxUp ELSE MaxDown

VARIABLES
    locked,   \* Agent.locked
    crashed,  \* a goroutine has panicked: the process is gone
    wg,       \* the counter of Agent.wg
    dialed,   \* dialed[c]: client.Dial returned a connection, not nil
    pc,       \* pc[k]: where copier k stands
    copied,   \* copied[k]: l > 0 in its current io.Copy
    hold,     \* hold[k]: the chunk io.Copy has read and not yet written, or 0
    open,     \* open[e]: agent-gui has opened e and has not closed it
    timer,    \* timer[e]: the deadline of e, for reads and writes alike
    peer,     \* peer[e]: what the program at the other side of e does
    sent,     \* sent[k]: chunks the peer at Src(k) has sent
    taken,    \* taken[k]: chunks k has read
    got       \* got[k]: the chunks the peer at Snk(k) has been given

\* History variables: only the properties read them.
VARIABLES
    late,     \* late[k]: rounds k has armed since the session was locked
    fresh,    \* fresh[c]: accepted while locked, and not unlocked since
    why       \* why[k]: why its loop ended

procVars == <<locked, crashed, wg>>
loopVars == <<pc, copied, hold>>
sockVars == <<dialed, open, timer, peer>>
flowVars == <<sent, taken, got>>
histVars == <<late, fresh, why>>
vars == <<procVars, loopVars, sockVars, flowVars, histVars>>

PCs == {"idle", "dial", "start", "check", "arm", "read", "write", "close", "leave", "done"}
Live == PCs \ {"idle", "done"}
Reasons == {"none", "idle", "over", "locked"}

ProcType == locked \in BOOLEAN /\ crashed \in BOOLEAN /\ wg \in Nat
LoopType == pc \in [Copiers -> PCs] /\ why \in [Copiers -> Reasons]
FlagType == /\ copied \in [Copiers -> BOOLEAN]
            /\ dialed \in [Conns -> BOOLEAN] /\ fresh \in [Conns -> BOOLEAN]
SockType == /\ open \in [Ends -> BOOLEAN]
            /\ timer \in [Ends -> {"none", "armed", "expired"}]
            /\ peer \in [Ends -> {"open", "stalled", "closed"}]
CountType == /\ hold \in [Copiers -> Nat] /\ sent \in [Copiers -> Nat]
             /\ taken \in [Copiers -> Nat] /\ late \in [Copiers -> Nat]
FlowType == got \in [Copiers -> Seq(Nat)]

\* The values each part of the state ranges over, one conjunct for each part.
TypeOK == ProcType /\ LoopType /\ FlagType /\ SockType /\ CountType /\ FlowType

Init ==
    /\ locked = FALSE /\ crashed = FALSE /\ wg = 0
    /\ dialed = [c \in Conns |-> FALSE]
    /\ pc = [k \in Copiers |-> "idle"]
    /\ copied = [k \in Copiers |-> FALSE]
    /\ hold = [k \in Copiers |-> 0]
    /\ open = [e \in Ends |-> FALSE]
    /\ timer = [e \in Ends |-> "none"]
    /\ peer = [e \in Ends |-> "open"]
    /\ sent = [k \in Copiers |-> 0]
    /\ taken = [k \in Copiers |-> 0]
    /\ got = [k \in Copiers |-> << >>]
    /\ late = [k \in Copiers |-> 0]
    /\ fresh = [c \in Conns |-> FALSE]
    /\ why = [k \in Copiers |-> "none"]

Goto(k, to) == pc' = [pc EXCEPT ![k] = to]

\* The loop of k ends; the deferred calls come next.
Exit(k, reason) ==
    /\ Goto(k, "close")
    /\ why' = [why EXCEPT ![k] = reason]

WgAdd_None == UNCHANGED wg
WgAdd == wg' = wg + 1

SetDeadline_GpgOnly(e) ==
    timer' = [timer EXCEPT ![e] = IF HasDeadline /\ e[2] = "assuan" THEN "armed" ELSE @]
\* if deadline != 0 { SetDeadline(now + deadline) }: both the reads and the
\* writes of the socket.
SetDeadline(e) ==
    timer' = [timer EXCEPT ![e] = IF HasDeadline THEN "armed" ELSE @]

CloseSock_Leaks(e) == UNCHANGED open
CloseSock(e) == open' = [open EXCEPT ![e] = FALSE]

-----------------------------------------------------------------------------
(* The handler before the loops.                                           *)

\* An accept loop takes a connection: wg.Add(1), go handleAssuanRequest.
Accept(c) ==
    /\ pc[Down(c)] = "idle"
    /\ Goto(Down(c), "dial")
    /\ WgAdd
    /\ open' = [open EXCEPT ![<<c, "conn">>] = TRUE]
    /\ fresh' = [fresh EXCEPT ![c] = locked]
    /\ UNCHANGED <<locked, crashed, copied, hold, dialed, timer, peer, flowVars, late, why>>

\* client.Dial, whose failure is only logged; then wg.Add(1) and the goroutine.
Dial(c) ==
    /\ pc[Down(c)] = "dial"
    /\ \E ok \in BOOLEAN :
          /\ dialed' = [dialed EXCEPT ![c] = ok]
          /\ open' = [open EXCEPT ![<<c, "assuan">>] = ok]
    /\ WgAdd
    /\ pc' = [pc EXCEPT ![Up(c)] = "start", ![Down(c)] = "check"]
    /\ UNCHANGED <<locked, crashed, copied, hold, timer, peer, flowVars, histVars>>

StartUp_NoCheck(k) ==
    /\ pc[k] = "start" /\ dialed[k[1]]
    /\ Goto(k, "arm")
    /\ UNCHANGED <<procVars, copied, hold, sockVars, flowVars, histVars>>

\* The goroutine begins: defer c.wg.Done(), defer connAssuan.Close().
StartUp(k) ==
    /\ pc[k] = "start" /\ dialed[k[1]]
    /\ Goto(k, "check")
    /\ UNCHANGED <<procVars, copied, hold, sockVars, flowVars, histVars>>

\* When Dial returned nil the goroutine's defer statement and the handler's
\* SetDeadline (or Read) are calls of a nil interface: agent-gui dies.
Panic(k) ==
    /\ pc[k] \in {"start", "arm"} /\ ~dialed[k[1]]
    /\ crashed' = TRUE
    /\ UNCHANGED <<locked, wg, loopVars, sockVars, flowVars, histVars>>

-----------------------------------------------------------------------------
(* The loop, the same for both directions.                                 *)

\* The loop head: for c.locked == nil || *c.locked == 0.
CheckLock(k) ==
    /\ pc[k] = "check"
    /\ \/ (IgnoreSessionLock \/ ~locked) /\ Goto(k, "arm") /\ UNCHANGED why
       \/ ~IgnoreSessionLock /\ locked /\ Exit(k, "locked")
    /\ UNCHANGED <<procVars, copied, hold, sockVars, flowVars, late, fresh>>

\* SetDeadline on the socket k reads, then a new io.Copy.
Arm(k) ==
    /\ pc[k] = "arm" /\ dialed[k[1]]
    /\ Goto(k, "read")
    /\ SetDeadline(Src(k))
    /\ copied' = [copied EXCEPT ![k] = FALSE]
    /\ late' = [late EXCEPT ![k] = IF locked THEN @ + 1 ELSE @]
    /\ UNCHANGED <<procVars, hold, dialed, open, peer, flowVars, fresh, why>>

TimedOut_NoCheck(k) ==
    \/ copied[k] /\ Goto(k, "arm") /\ UNCHANGED why
    \/ ~copied[k] /\ Exit(k, "idle")

\* os.ErrDeadlineExceeded came back from io.Copy: another round if it moved
\* anything, the end of the loop if it did not.
TimedOut(k) ==
    \/ copied[k] /\ Goto(k, "check") /\ UNCHANGED why
    \/ ~copied[k] /\ Exit(k, "idle")

ReadExpired(k) == open[Src(k)] /\ timer[Src(k)] = "expired"

ReadFails(k) ==
    /\ pc[k] = "read"
    /\ \/ ReadExpired(k) /\ TimedOut(k)
       \/ ~open[Src(k)] /\ Exit(k, "over")
       \* end of file, or a reset that discards what was still unread
       \/ ~ReadExpired(k) /\ peer[Src(k)] = "closed" /\ Exit(k, "over")
    /\ UNCHANGED <<procVars, copied, hold, sockVars, flowVars, late, fresh>>

ReadChunk(k) ==
    /\ pc[k] = "read"
    /\ open[Src(k)] /\ ~ReadExpired(k)
    /\ taken[k] < sent[k]
    /\ taken' = [taken EXCEPT ![k] = @ + 1]
    /\ hold' = [hold EXCEPT ![k] = taken[k] + 1]
    /\ Goto(k, "write")
    /\ UNCHANGED <<procVars, copied, sockVars, sent, got, histVars>>

WriteExpired(k) == open[Snk(k)] /\ timer[Snk(k)] = "expired"

\* io.Copy returns: the chunk it had read is gone, whatever comes next.
WriteFails(k) ==
    /\ pc[k] = "write"
    /\ hold' = [hold EXCEPT ![k] = 0]
    /\ \/ WriteExpired(k) /\ TimedOut(k)
       \/ ~open[Snk(k)] /\ Exit(k, "over")
       \/ ~WriteExpired(k) /\ peer[Snk(k)] = "closed" /\ Exit(k, "over")
    /\ UNCHANGED <<procVars, copied, sockVars, flowVars, late, fresh>>

WriteChunk_Again(k) ==
    /\ pc[k] = "write"
    /\ open[Snk(k)] /\ ~WriteExpired(k)
    /\ peer[Snk(k)] = "open"
    /\ got' = [got EXCEPT ![k] = Append(@, hold[k])]
    /\ copied' = [copied EXCEPT ![k] = TRUE]
    /\ \E to \in {"read", "write"} : Goto(k, to)
    /\ UNCHANGED <<procVars, hold, sockVars, sent, taken, histVars>>

\* A write that succeeds.  A stalled peer whose buffers are full blocks it;
\* what is written to a peer already gone is accepted and reaches nobody.
WriteChunk(k) ==
    /\ pc[k] = "write"
    /\ open[Snk(k)] /\ ~WriteExpired(k)
    /\ \/ /\ peer[Snk(k)] = "open"
          /\ got' = [got EXCEPT ![k] = Append(@, hold[k])]
       \/ /\ peer[Snk(k)] = "closed"
          /\ UNCHANGED got
    /\ hold' = [hold EXCEPT ![k] = 0]
    /\ copied' = [copied EXCEPT ![k] = TRUE]
    /\ Goto(k, "read")
    /\ UNCHANGED <<procVars, sockVars, sent, taken, late, fresh, why>>

\* The first deferred call: "up" closes connAssuan, the handler closes conn.
CloseSink(k) ==
    /\ pc[k] = "close"
    /\ CloseSock(Snk(k))
    /\ Goto(k, "leave")
    /\ UNCHANGED <<procVars, copied, hold, dialed, timer, peer, flowVars, histVars>>

\* The second deferred call: wg.Done().
Leave(k) ==
    /\ pc[k] = "leave"
    /\ wg' = wg - 1
    /\ Goto(k, "done")
    /\ UNCHANGED <<locked, crashed, copied, hold, sockVars, flowVars, histVars>>

-----------------------------------------------------------------------------
(* What is not agent-gui's relay: the session, the timers, the two peers.  *)

SessionLock ==
    /\ ~locked
    /\ locked' = TRUE
    /\ late' = [k \in Copiers |-> 0]
    /\ UNCHANGED <<crashed, wg, loopVars, sockVars, flowVars, fresh, why>>

SessionUnlock ==
    /\ locked
    /\ locked' = FALSE
    /\ late' = [k \in Copiers |-> 0]
    /\ fresh' = [c \in Conns |-> FALSE]
    /\ UNCHANGED <<crashed, wg, loopVars, sockVars, flowVars, why>>

Expire(e) ==
    /\ open[e] /\ timer[e] = "armed"
    /\ timer' = [timer EXCEPT ![e] = "expired"]
    /\ UNCHANGED <<procVars, loopVars, dialed, open, peer, flowVars, histVars>>

PeerSend(k) ==
    /\ open[Src(k)] /\ peer[Src(k)] # "closed"
    /\ sent[k] < MaxChunks(k)
    /\ sent' = [sent EXCEPT ![k] = @ + 1]
    /\ UNCHANGED <<procVars, loopVars, sockVars, taken, got, histVars>>

PeerBecomes(e, what) ==
    /\ open[e] /\ peer[e] \notin {"closed", what}
    /\ peer' = [peer EXCEPT ![e] = what]
    /\ UNCHANGED <<procVars, loopVars, dialed, open, timer, flowVars, histVars>>

-----------------------------------------------------------------------------
Handler(c) == ~crashed /\ Dial(c)

Step(k) ==
    /\ ~crashed
    /\ \/ StartUp(k) \/ Panic(k)
       \/ CheckLock(k) \/ Arm(k)
       \/ ReadFails(k) \/ ReadChunk(k)
       \/ WriteFails(k) \/ WriteChunk(k)
       \/ CloseSink(k) \/ Leave(k)

Environment ==
    /\ ~crashed
    /\ \/ SessionLock \/ SessionUnlock
       \/ \E c \in Conns : Accept(c)
       \/ \E e \in Ends : Expire(e)
       \/ \E k \in Copiers : PeerSend(k)
       \/ \E e \in Ends, what \in {"open", "stalled", "closed"} : PeerBecomes(e, what)

Next == \/ \E c \in Conns : Handler(c)
        \/ \E k \in Copiers : Step(k)
        \/ Environment

Spec == Init /\ [][Next]_vars

\* Goroutines are scheduled and the runtime's timers fire.  Nothing is asked of
\* the session or of the peers.
Fairness ==
    /\ \A c \in Conns : WF_vars(Handler(c))
    /\ \A k \in Copiers : WF_vars(Step(k))
    /\ \A e \in Ends : WF_vars(~crashed /\ Expire(e))

FairSpec == Spec /\ Fairness

-----------------------------------------------------------------------------
(* Properties.                                                             *)

\* The copiers that Agent.wg should be counting.
Running == {k \in Copiers : pc[k] \in Live}

\* The WaitGroup that Stop relies on to see conversations out counts exactly
\* the goroutines of the relay that are still running: no Add without its Done
\* on any path out of the loops (connector.go:163, 175, 177, the accept loops).
WgBalanced == wg = Cardinality(Running)

\* A direction never reorders a conversation and never delivers a chunk twice,
\* though a round that timed out is followed by another io.Copy on the same
\* sockets (connector.go:180-201, 206-227).
InOrder ==
    \A k \in Copiers : \A i \in 1..Len(got[k]) :
        /\ got[k][i] \in 1..taken[k]
        /\ \A j \in 1..i - 1 : got[k][j] < got[k][i]

\* What a peer receives is a prefix of what the other one sent: nothing from
\* the middle of the conversation is missing.
GapFree ==
    \A k \in Copiers : \A i \in 1..Len(got[k]) : got[k][i] = i

\* After the session locks a direction goes through at most one more round: the
\* one whose loop head it passed before the lock (connector.go:180, 206), so
\* with a deadline a locked session is served for one deadline and no longer.
LockWindow ==
    IgnoreSessionLock \/ \A k \in Copiers : locked => late[k] <= 1

\* A connection accepted while the session is locked carries nothing at all,
\* not even if it dials gpg-agent first and checks the lock only later.
FreshSilent ==
    IgnoreSessionLock \/ \A k \in Copiers : fresh[k[1]] => got[k] = << >>

Over(k) == crashed \/ pc[k] = "done"

\* The lock can end a copier before it has armed the deadline of the socket it
\* reads; its twin then writes to that socket without any.
Unarmed(k) == /\ why[Twin(k)] = "locked"
              /\ pc[k] = "write" /\ peer[Snk(k)] = "stalled" /\ timer[Snk(k)] = "none"

\* With a deadline every accepted connection is collected once its peers fall
\* silent (here: after MaxChunks(k) chunks), even if a peer never reads, never
\* closes and never dies: no goroutine of it stays behind, except in the race
\* with the session lock that Unarmed describes.
Collected ==
    \A k \in Copiers : pc[Down(k[1])] # "idle" ~> Over(k) \/ Unarmed(k)

\* Without a deadline the end of one direction still ends the other, whose
\* socket it closes, except for a write that a stalled peer blocks.
PairedTeardown ==
    \A k \in Copiers :
        pc[k] = "done" ~> \/ Over(Twin(k))
                          \/ /\ pc[Twin(k)] = "write"
                             /\ peer[Src(k)] = "stalled"

\* Without a deadline the relay is a pair of pipes for every connection.
Broken(k) == \/ crashed
             \/ pc[k] \in {"close", "leave", "done"}
             \/ peer[Snk(k)] = "closed"

Pipe == INSTANCE StreamPipe WITH
            Pipes <- Copiers,
            broken <- [k \in Copiers |-> Broken(k)]

PipeSpec == Pipe!Spec
=============================================================================
