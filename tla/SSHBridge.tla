----------------------------- MODULE SSHBridge -----------------------------
(***************************************************************************)
(* The SSH connectors of agent-gui (src/agent/connector.go): the accept    *)
(* loops of the named pipe, the AF_UNIX socket, the Cygwin socket and the  *)
(* XAgent socket, the handshakes of the last two (src/util/cygwin.go,      *)
(* src/util/xagent.go), serveSSH, and queryPageant, which passes a request *)
(* to the Pageant window of gpg-agent in a named file mapping.             *)
(*                                                                         *)
(* Bytes are items: a hello of a handshake, a request, the first part of a *)
(* request, or a length that is 0 or above the limit.  A bad hello does    *)
(* not match, or is the first part of one that conn.Read returned short;   *)
(* the rest of it then passes for a request and is too little or too much. *)
(* Replies are small: a write does not block.  Opening a connector is a    *)
(* step of AgentLifecycle, and the wait group is in AssuanRelay.           *)
(***************************************************************************)
EXTENDS Integers, Sequences, FiniteSets

CONSTANTS Conns,             \* connections clients ever make
          Connectors,        \* the connectors that are served
          MaxRequests,       \* bound: requests ever sent
          IgnoreSessionLock, \* gui.ignore_session_lock: locked = nil
          NoOne              \* no connection

Kinds == {"pipe", "socket", "cygwin", "xagent"}

ASSUME ConnsAssumption == NoOne \notin Conns /\ IsFiniteSet(Conns)
ASSUME ConnectorsAssumption == Connectors \subseteq Kinds
ASSUME BoundsAssumption == MaxRequests \in Nat /\ IgnoreSessionLock \in BOOLEAN

\* Messages of the client in the handshake: the nonce and then the identity, or
\* the cookie.
Rounds == [k \in Kinds |-> CASE k = "cygwin" -> 2 [] k = "xagent" -> 1 [] OTHER -> 0]

VARIABLES
    locked,     \* Agent.locked
    crashed,    \* agent-gui has panicked
    listening,  \* listening[k]: the listener of k is open
    backlog,    \* backlog[k]: connections that wait for Accept
    shaking,    \* shaking[k]: the connection whose handshake the loop performs
    pc,         \* pc[c]: where the handler of c stands
    round,      \* round[c]: rounds of its handshake that are over
    taken,      \* taken[c]: requests read whole
    name,       \* name[c]: the name of its file mapping, as a number, or 0
    resp,       \* resp[c]: resp of serveSSH
    mapCounter, \* mapCounter
    maps        \* the file mappings there are

\* The clients.
VARIABLES
    via,        \* via[c]: the connector c goes to
    client,     \* client[c]: what the client does
    inbox,      \* inbox[c]: what it has sent and agent-gui has not read
    asked,      \* asked[c]: whole requests it has sent
    replies     \* replies[c]: what it was answered

loopVars == <<listening, backlog, shaking>>
connVars == <<pc, round, taken, name, resp>>
mapVars == <<mapCounter, maps>>
peerVars == <<via, client, inbox, asked, replies>>
vars == <<locked, crashed, loopVars, connVars, mapVars, peerVars>>

PCs == {"none", "queued", "shake", "read", "lock", "find", "map", "wait", "reply",
        "done"}
Items == {"hello", "bad", "request", "part", "oversize"}
Requests == Conns \X (1..MaxRequests)
Reply == [by : {"pageant", "agent"}, of : Requests]
Names == Nat \ {0}

\* The values each part of the state ranges over.
TypeOK ==
    /\ locked \in BOOLEAN /\ crashed \in BOOLEAN
    /\ listening \in [Connectors -> BOOLEAN]
    /\ backlog \in [Connectors -> Seq(Conns)]
    /\ shaking \in [Connectors -> Conns \cup {NoOne}]
    /\ pc \in [Conns -> PCs]
    /\ round \in [Conns -> 0..2]
    /\ taken \in [Conns -> 0..MaxRequests]
    /\ name \in [Conns -> Nat]
    /\ resp \in [Conns -> Reply \cup {NoOne}]
    /\ mapCounter \in Nat
    /\ maps \in SUBSET [name : Names, of : Requests]
    /\ via \in [Conns -> Connectors \cup {NoOne}]
    /\ client \in [Conns -> {"none", "open", "mute", "closed"}]
    /\ inbox \in [Conns -> Seq(Items)]
    /\ asked \in [Conns -> 0..MaxRequests]
    /\ replies \in [Conns -> Seq(Reply)]

Init ==
    /\ locked = FALSE /\ crashed = FALSE
    /\ listening = [k \in Connectors |-> TRUE]
    /\ backlog = [k \in Connectors |-> << >>]
    /\ shaking = [k \in Connectors |-> NoOne]
    /\ pc = [c \in Conns |-> "none"]
    /\ round = [c \in Conns |-> 0]
    /\ taken = [c \in Conns |-> 0]
    /\ name = [c \in Conns |-> 0]
    /\ resp = [c \in Conns |-> NoOne]
    /\ mapCounter = 0 /\ maps = {}
    /\ via = [c \in Conns |-> NoOne]
    /\ client = [c \in Conns |-> "none"]
    /\ inbox = [c \in Conns |-> << >>]
    /\ asked = [c \in Conns |-> 0]
    /\ replies = [c \in Conns |-> << >>]

Goto(c, to) == pc' = [pc EXCEPT ![c] = to]
Put(f, c, v) == [f EXCEPT ![c] = v]

\* A read finds one of the items, which it takes, or fails: end of file, or a
\* reset that discards what was unread.
Reads(c, items) ==
    /\ inbox[c] # << >> /\ Head(inbox[c]) \in items
    /\ inbox' = Put(inbox, c, Tail(inbox[c]))
ReadFails(c) == client[c] = "closed"

-----------------------------------------------------------------------------
(* The accept loops.                                                       *)

\* Accept; a connector without handshake starts the handler at once.
Accept(k) ==
    /\ listening[k] /\ shaking[k] = NoOne /\ backlog[k] # << >>
    /\ LET c == Head(backlog[k]) IN
          IF Rounds[k] = 0
          THEN Goto(c, "read") /\ UNCHANGED shaking
          ELSE Goto(c, "shake") /\ shaking' = Put(shaking, k, c)
    /\ backlog' = Put(backlog, k, Tail(backlog[k]))
    /\ UNCHANGED <<locked, crashed, listening, round, taken, name, resp, mapVars, peerVars>>

\* The handshake is over, one way or the other: go serveSSH.
Spawn(k, c) == Goto(c, "read") /\ shaking' = Put(shaking, k, NoOne)

GoOn(k, c) == IF round[c] + 1 = Rounds[k] THEN Spawn(k, c) ELSE UNCHANGED <<pc, shaking>>

\* CygwinPerformHandshake and XAgentPerformHandshake: a message that is right,
\* and the answer to it.
Shake(k, c) ==
    /\ shaking[k] = c
    /\ Reads(c, {"hello"})
    /\ round' = Put(round, c, round[c] + 1)
    /\ GoOn(k, c)
    /\ UNCHANGED <<locked, crashed, listening, backlog, taken, name, resp, mapVars,
                   via, client, asked, replies>>

ShakeFails_Returns(k, c) ==
    /\ shaking[k] = c
    /\ \/ Reads(c, {"bad"})
       \/ ReadFails(c) /\ UNCHANGED inbox
    /\ Goto(c, "done")
    /\ UNCHANGED <<locked, crashed, loopVars, round, taken, name, resp, mapVars,
                   via, client, asked, replies>>

\* Its failure is only logged.
ShakeFails(k, c) ==
    /\ shaking[k] = c
    /\ \/ Reads(c, {"bad"})
       \/ ReadFails(c) /\ UNCHANGED inbox
    /\ Spawn(k, c)
    /\ UNCHANGED <<locked, crashed, listening, backlog, round, taken, name, resp, mapVars,
                   via, client, asked, replies>>

\* Connector.Close: who waits for Accept is refused; a handshake goes on.
CloseListener(k) ==
    /\ listening[k]
    /\ listening' = Put(listening, k, FALSE)
    /\ pc' = [c \in Conns |-> IF pc[c] = "queued" /\ via[c] = k THEN "done" ELSE pc[c]]
    /\ backlog' = Put(backlog, k, << >>)
    /\ UNCHANGED <<locked, crashed, shaking, round, taken, name, resp, mapVars, peerVars>>

-----------------------------------------------------------------------------
(* serveSSH.                                                               *)

ReadRequest_NoCount(c) ==
    /\ pc[c] = "read"
    /\ Reads(c, {"request"}) /\ Goto(c, "lock")
    /\ UNCHANGED <<locked, crashed, loopVars, round, taken, name, resp, mapVars,
                   via, client, asked, replies>>

ReadRequest_Retries(c) ==
    /\ pc[c] = "read"
    /\ \/ Reads(c, {"request"}) /\ Goto(c, "lock") /\ taken' = Put(taken, c, taken[c] + 1)
       \/ Reads(c, {"oversize"}) /\ Goto(c, "done") /\ UNCHANGED taken
    /\ UNCHANGED <<locked, crashed, loopVars, round, name, resp, mapVars,
                   via, client, asked, replies>>

\* The length and then the body: the part of a request keeps it waiting.
ReadRequest(c) ==
    /\ pc[c] = "read"
    /\ \/ Reads(c, {"request"}) /\ Goto(c, "lock") /\ taken' = Put(taken, c, taken[c] + 1)
       \/ Reads(c, {"oversize"}) /\ Goto(c, "done") /\ UNCHANGED taken
       \/ ReadFails(c) /\ Goto(c, "done") /\ UNCHANGED <<inbox, taken>>
    /\ UNCHANGED <<locked, crashed, loopVars, round, name, resp, mapVars,
                   via, client, asked, replies>>

\* resp = []byte{agentFailure}
Failure(c) ==
    /\ Goto(c, "reply")
    /\ resp' = Put(resp, c, [by |-> "agent", of |-> <<c, taken[c]>>])

Barred == locked /\ ~IgnoreSessionLock

CheckLock_None(c) ==
    /\ pc[c] = "lock"
    /\ Goto(c, "find")
    /\ UNCHANGED <<locked, crashed, loopVars, round, taken, name, resp, mapVars, peerVars>>

CheckLock(c) ==
    /\ pc[c] = "lock"
    /\ IF Barred THEN Failure(c) ELSE Goto(c, "find") /\ UNCHANGED resp
    /\ UNCHANGED <<locked, crashed, loopVars, round, taken, name, mapVars, peerVars>>

TakeName_Racy(c) == mapCounter' = mapCounter /\ name' = Put(name, c, mapCounter + 1)
\* atomic.AddUint64(&mapCounter, 1)
TakeName(c) == mapCounter' = mapCounter + 1 /\ name' = Put(name, c, mapCounter + 1)

\* queryPageant: FindWindow, which may find none, and the name of the mapping.
FindPageant(c) ==
    /\ pc[c] = "find"
    /\ \/ Goto(c, "map") /\ TakeName(c) /\ UNCHANGED resp
       \/ Failure(c) /\ UNCHANGED <<name, mapCounter>>
    /\ UNCHANGED <<locked, crashed, loopVars, round, taken, maps, peerVars>>

\* CreateFileMapping, which must not find one of that name, and the request;
\* then SendMessage.
MapRequest(c) ==
    /\ pc[c] = "map"
    /\ \/ /\ \A m \in maps : m.name # name[c]
          /\ maps' = maps \cup {[name |-> name[c], of |-> <<c, taken[c]>>]}
          /\ Goto(c, "wait") /\ UNCHANGED <<resp, name>>
       \/ Failure(c) /\ name' = Put(name, c, 0) /\ UNCHANGED maps
    /\ UNCHANGED <<locked, crashed, loopVars, round, taken, mapCounter, peerVars>>

\* SendMessage returns 0: Pageant refuses the message, or its window is gone.
SendFails(c) ==
    /\ pc[c] = "wait"
    /\ Failure(c)
    /\ maps' = {m \in maps : m.name # name[c]}
    /\ name' = Put(name, c, 0)
    /\ UNCHANGED <<locked, crashed, loopVars, round, taken, mapCounter, peerVars>>

\* The window procedure of Pageant puts its answer into the mapping, from where
\* it is copied before the mapping is closed.  The copy of one that claims more
\* bytes than the mapping has is a slice out of range: the test in serveSSH
\* comes too late.  An empty answer is replaced by agentSuccess.
PageantAnswers(c) ==
    /\ pc[c] = "wait"
    /\ \E m \in maps :
          /\ m.name = name[c]
          /\ maps' = maps \ {m}
          /\ resp' = Put(resp, c, [by |-> "pageant", of |-> m.of])
    /\ crashed' \in BOOLEAN
    /\ Goto(c, "reply")
    /\ name' = Put(name, c, 0)
    /\ UNCHANGED <<locked, loopVars, round, taken, mapCounter, peerVars>>

\* The length and the answer; or the client is gone.
WriteReply(c) ==
    /\ pc[c] = "reply"
    /\ \/ /\ replies' = Put(replies, c, Append(replies[c], resp[c]))
          /\ Goto(c, "read")
       \/ /\ client[c] = "closed"
          /\ Goto(c, "done") /\ UNCHANGED replies
    /\ resp' = Put(resp, c, NoOne)
    /\ UNCHANGED <<locked, crashed, loopVars, round, taken, name, mapVars,
                   via, client, inbox, asked>>

-----------------------------------------------------------------------------
(* The session and the clients.                                            *)

\* WM_WTSSESSION_CHANGE: SessionLock and SessionUnlock.
SessionChange ==
    /\ locked' = ~locked
    /\ UNCHANGED <<crashed, loopVars, connVars, mapVars, peerVars>>

Connect(c, k) ==
    /\ client[c] = "none" /\ listening[k]
    /\ via' = Put(via, c, k)
    /\ client' = Put(client, c, "open")
    /\ backlog' = Put(backlog, k, Append(backlog[k], c))
    /\ Goto(c, "queued")
    /\ UNCHANGED <<locked, crashed, listening, shaking, round, taken, name, resp, mapVars,
                   inbox, asked, replies>>

Says(c, items) == inbox' = Put(inbox, c, inbox[c] \o items)
Talking(c) == client[c] = "open" /\ pc[c] # "done"

\* The next message of the handshake, when the one before was answered.
ClientGreets(c) ==
    /\ Talking(c)
    /\ round[c] < Rounds[via[c]] /\ inbox[c] = << >> /\ pc[c] \in {"queued", "shake"}
    /\ \/ Says(c, <<"hello">>) /\ UNCHANGED client
       \/ /\ round[c] = 0
          /\ \E items \in {<<"bad">>, <<"bad", "part">>, <<"bad", "oversize">>} : Says(c, items)
          /\ client' = Put(client, c, "mute")
    /\ UNCHANGED <<locked, crashed, loopVars, connVars, mapVars, via, asked, replies>>

\* A request; or the part of one, or one the limits forbid, as the last thing a
\* client says.
ClientAsks(c) ==
    /\ Talking(c)
    /\ round[c] = Rounds[via[c]]
    /\ Cardinality({r \in Requests : r[2] <= asked[r[1]]}) < MaxRequests
    /\ \/ /\ Says(c, <<"request">>)
          /\ asked' = Put(asked, c, asked[c] + 1) /\ UNCHANGED client
       \/ /\ \E item \in {"part", "oversize"} : Says(c, <<item>>)
          /\ client' = Put(client, c, "mute") /\ UNCHANGED asked
    /\ UNCHANGED <<locked, crashed, loopVars, connVars, mapVars, via, replies>>

ClientCloses(c) ==
    /\ client[c] \in {"open", "mute"}
    /\ client' = Put(client, c, "closed")
    /\ UNCHANGED <<locked, crashed, loopVars, connVars, mapVars, via, inbox, asked, replies>>

-----------------------------------------------------------------------------
Loop(k) == Accept(k) \/ \E c \in Conns : Shake(k, c) \/ ShakeFails(k, c)

Handler(c) ==
    \/ ReadRequest(c) \/ CheckLock(c) \/ FindPageant(c)
    \/ MapRequest(c) \/ WriteReply(c)

Pageant(c) == SendFails(c) \/ PageantAnswers(c)

Outside ==
    \/ SessionChange
    \/ \E k \in Connectors : CloseListener(k) \/ \E c \in Conns : Connect(c, k)
    \/ \E c \in Conns : ClientGreets(c) \/ ClientAsks(c) \/ ClientCloses(c)

Next ==
    /\ ~crashed
    /\ \/ \E k \in Connectors : Loop(k)
       \/ \E c \in Conns : Handler(c) \/ Pageant(c)
       \/ Outside

Spec == Init /\ [][Next]_vars

\* The goroutines of agent-gui run, and SendMessage returns: Pageant handles its
\* messages or its window goes.  Nothing is asked of the clients.
Fairness ==
    /\ \A k \in Connectors : WF_vars(~crashed /\ Loop(k))
    /\ \A c \in Conns : WF_vars(~crashed /\ (Handler(c) \/ Pageant(c)))

FairSpec == Spec /\ Fairness

-----------------------------------------------------------------------------
(* Properties.                                                             *)

\* Requests in flight on several connections use different file mappings: no
\* request or answer of one is read by the other (connector.go:518, 541-566).
NamesApart ==
    \A c, d \in Conns : name[c] # 0 /\ name[c] = name[d] => c = d

\* Every connection is answered its own requests in their order, by Pageant or
\* by a failure, and Pageant is not asked by a session that was locked from the
\* request to its answer (connector.go:571-629).
Service == INSTANCE SSHService WITH
    locked <- Barred,
    admitted <- [c \in Conns |-> \/ pc[c] \in {"find", "map", "wait"}
                                 \/ pc[c] = "reply" /\ resp[c].by = "pageant"]
ServiceSpec == Service!Spec

\* The accept loop of k waits for a client that says nothing in its handshake.
HeldUp(k) ==
    \E d \in Conns : /\ shaking[k] = d
                     /\ inbox[d] = << >> /\ client[d] # "closed"

\* A connection that was made is accepted or refused, whatever became of the
\* handshakes before it, unless the loop is held up by a silent client
\* (connector.go:415-438, 462-486).
Accepted ==
    \A c \in Conns : pc[c] = "queued" ~> pc[c] # "queued" \/ crashed \/ HeldUp(via[c])

\* The client of c has a request to be answered, or has gone.
Owed(c) == pc[c] # "done" /\ (asked[c] > Len(replies[c]) \/ client[c] = "closed")

\* Every request sent whole is answered unless its connection ends, and a
\* connection that its client closed ends: no handler stays behind, though
\* serveSSH reads without a deadline.
Handled ==
    \A c \in Conns :
        Owed(c) ~> ~Owed(c) \/ crashed \/ (pc[c] = "queued" /\ HeldUp(via[c]))
=============================================================================
